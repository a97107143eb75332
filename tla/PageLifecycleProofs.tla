------------------------ MODULE PageLifecycleProofs ------------------------
(***************************************************************************)
(* Proofs about PageLifecycle for every set of pages and of calls.         *)
(***************************************************************************)
EXTENDS PageLifecycle, SequenceTheorems, TLAPS

LEMMA InitInv == Init => LifecycleInv
<1> SUFFICES ASSUME Init PROVE LifecycleInv
  OBVIOUS
<1>1. TypeOK
  <2>1. Tree \in [Pages -> Pages \cup {None}]
    BY LifecycleAssumption
  <2> QED BY <2>1 DEF Init, TypeOK, Option, Known, Content, Calls, Phases
<1>2. ProgressInv
  BY LifecycleAssumption DEF Init, ProgressInv, Calls
<1>3. LoadedInv
  BY LifecycleAssumption, ContentAssumption DEF Init, LoadedInv, Known, Calls
<1>4. CopiesInv /\ HistoryInv
  BY DEF Init, CopiesInv, HistoryInv
<1>5. MissingInv
  BY DEF Init, MissingInv, Files, Known, Calls
<1> QED BY <1>1, <1>2, <1>3, <1>4, <1>5 DEF LifecycleInv

-----------------------------------------------------------------------------
\* What is loaded is what collectPageBranch comes by.
LEMMA BranchIsLoaded ==
  ASSUME TypeOK, LoadedInv, NEW root \in Known, text[root] # None
  PROVE  Branch(root) \subseteq {p \in Known : text[p] # None}
<1> DEFINE S == {p \in Known : text[p] # None}
<1>1. S \in SUBSET Known /\ root \in S
  OBVIOUS
<1>2. \A q \in listed : q \in S
  BY DEF LoadedInv, TypeOK
<1> QED BY <1>1, <1>2 DEF Branch

LEMMA PutType ==
  ASSUME TypeOK, NEW p \in Known, NEW x \in Option(Content), Put(p, x)
  PROVE  /\ file' \in [Known -> Option(Content)]
         /\ rewritten' \in [Deletes -> SUBSET Known]
BY DEF TypeOK, Put

LEMMA TypeStep == LifecycleInv /\ [Next]_vars => TypeOK'
<1> SUFFICES ASSUME LifecycleInv, [Next]_vars PROVE TypeOK'
  OBVIOUS
<1> USE LifecycleAssumption DEF TypeOK, Option
<1>0. TypeOK /\ ProgressInv
  BY DEF LifecycleInv
<1>1. ASSUME NEW d \in Deletes, Delete(d)
      PROVE  TypeOK'
  <2> USE <1>0 DEF Calls, Phases, Results, fileVars, listVars, callVars, Goto, Return, Forget, LeftWithout
  <2>1. CASE WriteManifest(d)
    BY <2>1 DEF WriteManifest
  <2>2. CASE RefuseDelete(d)
    BY <2>2 DEF RefuseDelete
  <2>3. CASE FinishDelete(d)
    <3>1. undoable' \in Seq(Deletes)
      BY <2>3 DEF FinishDelete
    <3> QED BY <2>3, <3>1 DEF FinishDelete
  <2>4. CASE TurnBack(d)
    BY <2>4 DEF TurnBack, ToWriteBack
  <2>5. CASE WriteBackFails(d)
    BY <2>5 DEF WriteBackFails
  <2>6. CASE ReportFailure(d)
    BY <2>6 DEF ReportFailure
  <2>7. ASSUME NEW p \in Known, BeginDelete(d, p)
        PROVE  TypeOK'
    BY <2>7 DEF BeginDelete, Branch
  <2>8. ASSUME NEW p \in Known, CopyPage(d, p)
        PROVE  TypeOK'
    BY <2>8 DEF CopyPage, ContentForTrash
  <2>9. ASSUME NEW p \in Known, RemovePage(d, p)
        PROVE  TypeOK'
    BY <2>9 DEF RemovePage, Put
  <2>10. ASSUME NEW p \in Known, RemoveFails(d, p)
         PROVE  TypeOK'
    BY <2>10 DEF RemoveFails
  <2>11. ASSUME NEW p \in Known, WriteBack(d, p)
         PROVE  TypeOK'
    BY <2>11 DEF WriteBack, Put
  <2> QED BY <1>1, <2>1, <2>2, <2>3, <2>4, <2>5, <2>6, <2>7, <2>8, <2>9, <2>10, <2>11 DEF Delete
<1>2. ASSUME NEW u \in Undos, Undo(u)
      PROVE  TypeOK'
  <2> USE <1>0 DEF Calls, Phases, Results, fileVars, listVars, callVars, Goto, Return, Forget, LeftWithout
  <2>0. phase[u] \in {"reading", "free", "writing"} => at[u] \in Deletes
    BY DEF ProgressInv
  <2>1. CASE BeginUndo(u)
    <3>1. Head(undoable) \in Deletes /\ Tail(undoable) \in Seq(Deletes)
      BY <2>1 DEF BeginUndo
    <3> QED BY <2>1, <3>1 DEF BeginUndo
  <2>2. CASE BeginRestore(u)
    BY <2>0, <2>2 DEF BeginRestore
  <2>3. CASE UndoFails(u)
    BY <2>0, <2>3 DEF UndoFails, EndUndo
  <2>4. CASE FinishUndo(u)
    BY <2>0, <2>4 DEF FinishUndo, EndUndo
  <2>5. ASSUME NEW p \in Known, FindFree(u, p)
        PROVE  TypeOK'
    BY <2>5 DEF FindFree
  <2>6. ASSUME NEW p \in Known, RestorePage(u, p)
        PROVE  TypeOK'
    BY <2>0, <2>6 DEF RestorePage, Put
  <2> QED BY <1>2, <2>1, <2>2, <2>3, <2>4, <2>5, <2>6 DEF Undo
<1>3. ASSUME NEW c \in Creates, Create(c)
      PROVE  TypeOK'
  <2> USE <1>0 DEF Calls, Phases, Results, fileVars, listVars, callVars, Goto, Return
  <2>0. c \in Known /\ First \in Option(Content) /\ None \in Option(Content)
    BY DEF Known, Content
  <2>1. CASE \E q \in Places : BeginCreate(c, q)
    BY <2>0, <2>1 DEF BeginCreate, Known
  <2>2. CASE WriteNew(c)
    BY <2>0, <2>2, PutType DEF WriteNew
  <2>3. CASE ListNew(c)
    BY <2>0, <2>3 DEF ListNew, ListedWith
  <2>4. CASE CommitEntry(c)
    BY <2>4 DEF CommitEntry
  <2>5. CASE Rollback(c)
    BY <2>0, <2>5, PutType DEF Rollback
  <2>6. CASE RemoveNew(c)
    BY <2>0, <2>6, PutType DEF RemoveNew
  <2>7. CASE LeaveNew(c)
    BY <2>7 DEF LeaveNew
  <2> QED BY <1>3, <2>1, <2>2, <2>3, <2>4, <2>5, <2>6, <2>7 DEF Create
<1>4. ASSUME NEW s \in Saves, Save(s)
      PROVE  TypeOK'
  <2> USE <1>0 DEF Calls, Phases, Results, fileVars, listVars, callVars, Goto, Return, Put, Content
  <2>1. CASE \E p \in Known : CheckSave(s, p)
    BY <2>1 DEF CheckSave
  <2>2. CASE WriteSave(s)
    BY <2>2 DEF WriteSave, ProgressInv
  <2>3. CASE SaveFails(s)
    BY <2>3 DEF SaveFails
  <2> QED BY <1>4, <2>1, <2>2, <2>3 DEF Save
<1>5. CASE UNCHANGED vars
  BY <1>0, <1>5 DEF vars, fileVars, listVars, callVars
<1> QED BY <1>1, <1>2, <1>3, <1>4, <1>5 DEF Next

LEMMA ProgressStep == LifecycleInv /\ [Next]_vars => ProgressInv'
<1> SUFFICES ASSUME LifecycleInv, [Next]_vars PROVE ProgressInv'
  OBVIOUS
<1>0. TypeOK /\ ProgressInv
  BY DEF LifecycleInv
<1>1. ASSUME NEW d \in Deletes, Delete(d)
      PROVE  ProgressInv'
  <2> USE <1>0 DEF TypeOK, ProgressInv, Undone, Calls, fileVars, listVars, callVars, Goto, Return, Forget, IsNext, LeftWithout
  <2>1. CASE WriteManifest(d)
    BY LifecycleAssumption, <2>1 DEF WriteManifest
  <2>2. CASE RefuseDelete(d)
    BY LifecycleAssumption, <2>2 DEF RefuseDelete
  <2>3. CASE FinishDelete(d)
    <3>1. d \in Calls /\ undoable \in Seq(Deletes)
      OBVIOUS
    <3>2. \A i \in 1..Len(undoable') : undoable'[i] = d \/ \E j \in 1..Len(undoable) : undoable'[i] = undoable[j]
      BY <2>3, <3>1 DEF FinishDelete
    <3>3. phase'[d] = "done" /\ branch'[d] \subseteq gone'[d]
      BY <2>3 DEF FinishDelete
    <3>4. \A e \in Deletes : Undone(e) => Undone(e)'
      BY <2>3, LifecycleAssumption DEF FinishDelete
    <3>5. \A j \in 1..Len(undoable) : undoable[j] \in Deletes /\ Undone(undoable[j])
      BY <3>1
    <3>6. \A i \in 1..Len(undoable') : Undone(undoable[i])'
      <4> SUFFICES ASSUME NEW i \in 1..Len(undoable') PROVE Undone(undoable[i])'
        OBVIOUS
      <4>1. CASE undoable'[i] = d
        BY <3>3, <4>1
      <4>2. CASE \E j \in 1..Len(undoable) : undoable'[i] = undoable[j]
        <5>1. PICK j \in 1..Len(undoable) : undoable'[i] = undoable[j]
          BY <4>2
        <5>2. undoable[j] \in Deletes /\ Undone(undoable[j])
          BY <3>5, <5>1
        <5> QED BY <3>4, <5>1, <5>2
      <4> QED BY <3>2, <4>1, <4>2
    <3> QED BY <2>3, <3>4, <3>6, LifecycleAssumption DEF FinishDelete
  <2>4. CASE TurnBack(d)
    BY LifecycleAssumption, <2>4 DEF TurnBack, ToWriteBack
  <2>5. CASE WriteBackFails(d)
    BY LifecycleAssumption, <2>5 DEF WriteBackFails
  <2>6. CASE ReportFailure(d)
    BY LifecycleAssumption, <2>6 DEF ReportFailure
  <2>7. ASSUME NEW p \in Known, BeginDelete(d, p)
        PROVE  ProgressInv'
    BY LifecycleAssumption, <2>7 DEF BeginDelete
  <2>8. ASSUME NEW p \in Known, CopyPage(d, p)
        PROVE  ProgressInv'
    BY LifecycleAssumption, <2>8 DEF CopyPage
  <2>9. ASSUME NEW p \in Known, RemovePage(d, p)
        PROVE  ProgressInv'
    BY LifecycleAssumption, <2>9 DEF RemovePage, Put
  <2>10. ASSUME NEW p \in Known, RemoveFails(d, p)
         PROVE  ProgressInv'
    BY LifecycleAssumption, <2>10 DEF RemoveFails
  <2>11. ASSUME NEW p \in Known, WriteBack(d, p)
         PROVE  ProgressInv'
    BY LifecycleAssumption, <2>11 DEF WriteBack, Put
  <2> QED BY <1>1, <2>1, <2>2, <2>3, <2>4, <2>5, <2>6, <2>7, <2>8, <2>9, <2>10, <2>11 DEF Delete
<1>2. ASSUME NEW u \in Undos, Undo(u)
      PROVE  ProgressInv'
  <2> USE <1>0 DEF TypeOK, ProgressInv, Undone, Calls, fileVars, listVars, callVars, Goto, Return, Forget, IsNext, LeftWithout
  <2>1. CASE BeginUndo(u)
    BY LifecycleAssumption, <2>1 DEF BeginUndo
  <2>2. CASE BeginRestore(u)
    BY LifecycleAssumption, <2>2 DEF BeginRestore
  <2>3. CASE UndoFails(u)
    BY LifecycleAssumption, <2>3 DEF UndoFails, EndUndo
  <2>4. CASE FinishUndo(u)
    BY LifecycleAssumption, <2>4 DEF FinishUndo, EndUndo
  <2>5. ASSUME NEW p \in Known, FindFree(u, p)
        PROVE  ProgressInv'
    BY LifecycleAssumption, <2>5 DEF FindFree
  <2>6. ASSUME NEW p \in Known, RestorePage(u, p)
        PROVE  ProgressInv'
    BY LifecycleAssumption, <2>6 DEF RestorePage, Put
  <2> QED BY <1>2, <2>1, <2>2, <2>3, <2>4, <2>5, <2>6 DEF Undo
<1>3. ASSUME NEW c \in Creates, Create(c)
      PROVE  ProgressInv'
  <2> USE <1>0 DEF TypeOK, ProgressInv, Undone, Calls, fileVars, listVars, callVars, Goto, Return, Forget, IsNext, LeftWithout
  <2>1. CASE \E q \in Places : BeginCreate(c, q)
    BY LifecycleAssumption, <2>1 DEF BeginCreate
  <2>2. CASE WriteNew(c)
    BY LifecycleAssumption, <2>2 DEF WriteNew, Put
  <2>3. CASE ListNew(c)
    BY LifecycleAssumption, <2>3 DEF ListNew, ListedWith
  <2>4. CASE CommitEntry(c)
    BY LifecycleAssumption, <2>4 DEF CommitEntry
  <2>5. CASE Rollback(c)
    BY LifecycleAssumption, <2>5 DEF Rollback, Put
  <2>6. CASE RemoveNew(c)
    BY LifecycleAssumption, <2>6 DEF RemoveNew, Put
  <2>7. CASE LeaveNew(c)
    BY LifecycleAssumption, <2>7 DEF LeaveNew
  <2> QED BY <1>3, <2>1, <2>2, <2>3, <2>4, <2>5, <2>6, <2>7 DEF Create
<1>4. ASSUME NEW s \in Saves, Save(s)
      PROVE  ProgressInv'
  <2> USE <1>0 DEF TypeOK, ProgressInv, Undone, Calls, fileVars, listVars, callVars, Goto, Return, Forget, IsNext, LeftWithout
  <2>1. CASE \E p \in Known : CheckSave(s, p)
    BY LifecycleAssumption, <2>1 DEF CheckSave
  <2>2. CASE WriteSave(s)
    BY LifecycleAssumption, <2>2 DEF WriteSave, Put
  <2>3. CASE SaveFails(s)
    BY LifecycleAssumption, <2>3 DEF SaveFails
  <2> QED BY <1>4, <2>1, <2>2, <2>3 DEF Save
<1>5. CASE UNCHANGED vars
  BY <1>0, <1>5 DEF vars, TypeOK, ProgressInv, Undone, Calls, fileVars, listVars, callVars, Goto, Return, Forget, IsNext, LeftWithout
<1> QED BY <1>1, <1>2, <1>3, <1>4, <1>5 DEF Next

LEMMA LoadedStep == LifecycleInv /\ [Next]_vars => LoadedInv'
<1> SUFFICES ASSUME LifecycleInv, [Next]_vars PROVE LoadedInv'
  OBVIOUS
<1>0. TypeOK /\ ProgressInv /\ LoadedInv /\ CopiesInv
  BY DEF LifecycleInv
<1>1. ASSUME NEW d \in Deletes, Delete(d)
      PROVE  LoadedInv'
  <2> USE <1>0 DEF TypeOK, ProgressInv, LoadedInv, CopiesInv, Undone, Calls, Known, fileVars, listVars, callVars, Goto, Return, Forget, IsNext, LeftWithout
  <2>1. CASE WriteManifest(d)
    BY LifecycleAssumption, ContentAssumption, <2>1 DEF WriteManifest
  <2>2. CASE RefuseDelete(d)
    BY LifecycleAssumption, ContentAssumption, <2>2 DEF RefuseDelete
  <2>3. CASE FinishDelete(d)
    BY LifecycleAssumption, ContentAssumption, <2>3 DEF FinishDelete
  <2>4. CASE TurnBack(d)
    BY LifecycleAssumption, ContentAssumption, <2>4 DEF TurnBack, ToWriteBack
  <2>5. CASE WriteBackFails(d)
    BY LifecycleAssumption, ContentAssumption, <2>5 DEF WriteBackFails
  <2>6. CASE ReportFailure(d)
    BY LifecycleAssumption, ContentAssumption, <2>6 DEF ReportFailure
  <2>7. ASSUME NEW p \in Known, BeginDelete(d, p)
        PROVE  LoadedInv'
    <3>1. Branch(p) \subseteq {q \in Known : text[q] # None}
      BY <2>7, BranchIsLoaded DEF BeginDelete
    <3> QED BY LifecycleAssumption, ContentAssumption, <2>7, <3>1 DEF BeginDelete
  <2>8. ASSUME NEW p \in Known, CopyPage(d, p)
        PROVE  LoadedInv'
    BY LifecycleAssumption, ContentAssumption, <2>8 DEF CopyPage
  <2>9. ASSUME NEW p \in Known, RemovePage(d, p)
        PROVE  LoadedInv'
    BY LifecycleAssumption, ContentAssumption, <2>9 DEF RemovePage, Put
  <2>10. ASSUME NEW p \in Known, RemoveFails(d, p)
         PROVE  LoadedInv'
    BY LifecycleAssumption, ContentAssumption, <2>10 DEF RemoveFails
  <2>11. ASSUME NEW p \in Known, WriteBack(d, p)
         PROVE  LoadedInv'
    BY LifecycleAssumption, ContentAssumption, <2>11 DEF WriteBack, Put
  <2> QED BY <1>1, <2>1, <2>2, <2>3, <2>4, <2>5, <2>6, <2>7, <2>8, <2>9, <2>10, <2>11 DEF Delete
<1>2. ASSUME NEW u \in Undos, Undo(u)
      PROVE  LoadedInv'
  <2> USE <1>0 DEF TypeOK, ProgressInv, LoadedInv, CopiesInv, Undone, Calls, Known, fileVars, listVars, callVars, Goto, Return, Forget, IsNext, LeftWithout
  <2>1. CASE BeginUndo(u)
    BY LifecycleAssumption, ContentAssumption, <2>1 DEF BeginUndo
  <2>2. CASE BeginRestore(u)
    BY LifecycleAssumption, ContentAssumption, <2>2 DEF BeginRestore
  <2>3. CASE UndoFails(u)
    BY LifecycleAssumption, ContentAssumption, <2>3 DEF UndoFails, EndUndo
  <2>4. CASE FinishUndo(u)
    BY LifecycleAssumption, ContentAssumption, <2>4 DEF FinishUndo, EndUndo
  <2>5. ASSUME NEW p \in Known, FindFree(u, p)
        PROVE  LoadedInv'
    BY LifecycleAssumption, ContentAssumption, <2>5 DEF FindFree
  <2>6. ASSUME NEW p \in Known, RestorePage(u, p)
        PROVE  LoadedInv'
    BY LifecycleAssumption, ContentAssumption, <2>6 DEF RestorePage, Put
  <2> QED BY <1>2, <2>1, <2>2, <2>3, <2>4, <2>5, <2>6 DEF Undo
<1>3. ASSUME NEW c \in Creates, Create(c)
      PROVE  LoadedInv'
  <2> USE <1>0 DEF TypeOK, ProgressInv, LoadedInv, CopiesInv, Undone, Calls, Known, fileVars, listVars, callVars, Goto, Return, Forget, IsNext, LeftWithout
  <2>1. CASE \E q \in Places : BeginCreate(c, q)
    BY LifecycleAssumption, ContentAssumption, <2>1 DEF BeginCreate
  <2>2. CASE WriteNew(c)
    BY LifecycleAssumption, ContentAssumption, <2>2 DEF WriteNew, Put
  <2>3. CASE ListNew(c)
    BY LifecycleAssumption, ContentAssumption, <2>3 DEF ListNew, ListedWith
  <2>4. CASE CommitEntry(c)
    BY LifecycleAssumption, ContentAssumption, <2>4 DEF CommitEntry
  <2>5. CASE Rollback(c)
    BY LifecycleAssumption, ContentAssumption, <2>5 DEF Rollback, Put
  <2>6. CASE RemoveNew(c)
    BY LifecycleAssumption, ContentAssumption, <2>6 DEF RemoveNew, Put
  <2>7. CASE LeaveNew(c)
    BY LifecycleAssumption, ContentAssumption, <2>7 DEF LeaveNew
  <2> QED BY <1>3, <2>1, <2>2, <2>3, <2>4, <2>5, <2>6, <2>7 DEF Create
<1>4. ASSUME NEW s \in Saves, Save(s)
      PROVE  LoadedInv'
  <2> USE <1>0 DEF TypeOK, ProgressInv, LoadedInv, CopiesInv, Undone, Calls, Known, fileVars, listVars, callVars, Goto, Return, Forget, IsNext, LeftWithout
  <2>1. CASE \E p \in Known : CheckSave(s, p)
    BY LifecycleAssumption, ContentAssumption, <2>1 DEF CheckSave
  <2>2. CASE WriteSave(s)
    BY LifecycleAssumption, ContentAssumption, <2>2 DEF WriteSave, Put
  <2>3. CASE SaveFails(s)
    BY LifecycleAssumption, ContentAssumption, <2>3 DEF SaveFails
  <2> QED BY <1>4, <2>1, <2>2, <2>3 DEF Save
<1>5. CASE UNCHANGED vars
  BY <1>0, <1>5 DEF vars, TypeOK, ProgressInv, LoadedInv, CopiesInv, Undone, Calls, Known, fileVars, listVars, callVars, Goto, Return, Forget, IsNext, LeftWithout
<1> QED BY <1>1, <1>2, <1>3, <1>4, <1>5 DEF Next

LEMMA CopiesStep == LifecycleInv /\ [Next]_vars => CopiesInv'
<1> SUFFICES ASSUME LifecycleInv, [Next]_vars PROVE CopiesInv'
  OBVIOUS
<1>0. TypeOK /\ ProgressInv /\ LoadedInv /\ CopiesInv
  BY DEF LifecycleInv
<1>1. ASSUME NEW d \in Deletes, Delete(d)
      PROVE  CopiesInv'
  <2> USE <1>0 DEF TypeOK, ProgressInv, LoadedInv, CopiesInv, Undone, Calls, fileVars, listVars, callVars, Goto, Return, Forget, IsNext, LeftWithout
  <2>1. CASE WriteManifest(d)
    BY LifecycleAssumption, ContentAssumption, <2>1 DEF WriteManifest
  <2>2. CASE RefuseDelete(d)
    BY LifecycleAssumption, ContentAssumption, <2>2 DEF RefuseDelete
  <2>3. CASE FinishDelete(d)
    BY LifecycleAssumption, ContentAssumption, <2>3 DEF FinishDelete
  <2>4. CASE TurnBack(d)
    BY LifecycleAssumption, ContentAssumption, <2>4 DEF TurnBack, ToWriteBack
  <2>5. CASE WriteBackFails(d)
    BY LifecycleAssumption, ContentAssumption, <2>5 DEF WriteBackFails
  <2>6. CASE ReportFailure(d)
    BY LifecycleAssumption, ContentAssumption, <2>6 DEF ReportFailure
  <2>7. ASSUME NEW p \in Known, BeginDelete(d, p)
        PROVE  CopiesInv'
    BY LifecycleAssumption, ContentAssumption, <2>7 DEF BeginDelete
  <2>8. ASSUME NEW p \in Known, CopyPage(d, p)
        PROVE  CopiesInv'
    BY LifecycleAssumption, ContentAssumption, <2>8 DEF CopyPage, ContentForTrash
  <2>9. ASSUME NEW p \in Known, RemovePage(d, p)
        PROVE  CopiesInv'
    BY LifecycleAssumption, ContentAssumption, <2>9 DEF RemovePage, Put
  <2>10. ASSUME NEW p \in Known, RemoveFails(d, p)
         PROVE  CopiesInv'
    BY LifecycleAssumption, ContentAssumption, <2>10 DEF RemoveFails
  <2>11. ASSUME NEW p \in Known, WriteBack(d, p)
         PROVE  CopiesInv'
    BY LifecycleAssumption, ContentAssumption, <2>11 DEF WriteBack, Put
  <2> QED BY <1>1, <2>1, <2>2, <2>3, <2>4, <2>5, <2>6, <2>7, <2>8, <2>9, <2>10, <2>11 DEF Delete
<1>2. ASSUME NEW u \in Undos, Undo(u)
      PROVE  CopiesInv'
  <2> USE <1>0 DEF TypeOK, ProgressInv, LoadedInv, CopiesInv, Undone, Calls, fileVars, listVars, callVars, Goto, Return, Forget, IsNext, LeftWithout
  <2>1. CASE BeginUndo(u)
    BY LifecycleAssumption, ContentAssumption, <2>1 DEF BeginUndo
  <2>2. CASE BeginRestore(u)
    BY LifecycleAssumption, ContentAssumption, <2>2 DEF BeginRestore
  <2>3. CASE UndoFails(u)
    BY LifecycleAssumption, ContentAssumption, <2>3 DEF UndoFails, EndUndo
  <2>4. CASE FinishUndo(u)
    BY LifecycleAssumption, ContentAssumption, <2>4 DEF FinishUndo, EndUndo
  <2>5. ASSUME NEW p \in Known, FindFree(u, p)
        PROVE  CopiesInv'
    BY LifecycleAssumption, ContentAssumption, <2>5 DEF FindFree
  <2>6. ASSUME NEW p \in Known, RestorePage(u, p)
        PROVE  CopiesInv'
    BY LifecycleAssumption, ContentAssumption, <2>6 DEF RestorePage, Put
  <2> QED BY <1>2, <2>1, <2>2, <2>3, <2>4, <2>5, <2>6 DEF Undo
<1>3. ASSUME NEW c \in Creates, Create(c)
      PROVE  CopiesInv'
  <2> USE <1>0 DEF TypeOK, ProgressInv, LoadedInv, CopiesInv, Undone, Calls, fileVars, listVars, callVars, Goto, Return, Forget, IsNext, LeftWithout
  <2>1. CASE \E q \in Places : BeginCreate(c, q)
    BY LifecycleAssumption, ContentAssumption, <2>1 DEF BeginCreate
  <2>2. CASE WriteNew(c)
    BY LifecycleAssumption, ContentAssumption, <2>2 DEF WriteNew, Put
  <2>3. CASE ListNew(c)
    BY LifecycleAssumption, ContentAssumption, <2>3 DEF ListNew, ListedWith
  <2>4. CASE CommitEntry(c)
    BY LifecycleAssumption, ContentAssumption, <2>4 DEF CommitEntry
  <2>5. CASE Rollback(c)
    BY LifecycleAssumption, ContentAssumption, <2>5 DEF Rollback, Put
  <2>6. CASE RemoveNew(c)
    BY LifecycleAssumption, ContentAssumption, <2>6 DEF RemoveNew, Put
  <2>7. CASE LeaveNew(c)
    BY LifecycleAssumption, ContentAssumption, <2>7 DEF LeaveNew
  <2> QED BY <1>3, <2>1, <2>2, <2>3, <2>4, <2>5, <2>6, <2>7 DEF Create
<1>4. ASSUME NEW s \in Saves, Save(s)
      PROVE  CopiesInv'
  <2> USE <1>0 DEF TypeOK, ProgressInv, LoadedInv, CopiesInv, Undone, Calls, fileVars, listVars, callVars, Goto, Return, Forget, IsNext, LeftWithout
  <2>1. CASE \E p \in Known : CheckSave(s, p)
    BY LifecycleAssumption, ContentAssumption, <2>1 DEF CheckSave
  <2>2. CASE WriteSave(s)
    BY LifecycleAssumption, ContentAssumption, <2>2 DEF WriteSave, Put
  <2>3. CASE SaveFails(s)
    BY LifecycleAssumption, ContentAssumption, <2>3 DEF SaveFails
  <2> QED BY <1>4, <2>1, <2>2, <2>3 DEF Save
<1>5. CASE UNCHANGED vars
  BY <1>0, <1>5 DEF vars, TypeOK, ProgressInv, LoadedInv, CopiesInv, Undone, Calls, fileVars, listVars, callVars, Goto, Return, Forget, IsNext, LeftWithout
<1> QED BY <1>1, <1>2, <1>3, <1>4, <1>5 DEF Next

LEMMA HistoryStep == LifecycleInv /\ [Next]_vars => HistoryInv'
<1> SUFFICES ASSUME LifecycleInv, [Next]_vars PROVE HistoryInv'
  OBVIOUS
<1>0. TypeOK /\ ProgressInv /\ HistoryInv
  BY DEF LifecycleInv
<1>1. ASSUME NEW d \in Deletes, Delete(d)
      PROVE  HistoryInv'
  <2> USE <1>0 DEF TypeOK, ProgressInv, HistoryInv, Undone, Calls, Known, fileVars, listVars, callVars, Goto, Return, Forget, IsNext, LeftWithout
  <2>1. CASE WriteManifest(d)
    BY LifecycleAssumption, <2>1 DEF WriteManifest
  <2>2. CASE RefuseDelete(d)
    BY LifecycleAssumption, <2>2 DEF RefuseDelete
  <2>3. CASE FinishDelete(d)
    BY LifecycleAssumption, <2>3 DEF FinishDelete
  <2>4. CASE TurnBack(d)
    BY LifecycleAssumption, <2>4 DEF TurnBack, ToWriteBack
  <2>5. CASE WriteBackFails(d)
    BY LifecycleAssumption, <2>5 DEF WriteBackFails
  <2>6. CASE ReportFailure(d)
    BY LifecycleAssumption, <2>6 DEF ReportFailure
  <2>7. ASSUME NEW p \in Known, BeginDelete(d, p)
        PROVE  HistoryInv'
    BY LifecycleAssumption, <2>7 DEF BeginDelete
  <2>8. ASSUME NEW p \in Known, CopyPage(d, p)
        PROVE  HistoryInv'
    BY LifecycleAssumption, <2>8 DEF CopyPage, ContentForTrash
  <2>9. ASSUME NEW p \in Known, RemovePage(d, p)
        PROVE  HistoryInv'
    BY LifecycleAssumption, <2>9 DEF RemovePage, Put
  <2>10. ASSUME NEW p \in Known, RemoveFails(d, p)
         PROVE  HistoryInv'
    BY LifecycleAssumption, <2>10 DEF RemoveFails
  <2>11. ASSUME NEW p \in Known, WriteBack(d, p)
         PROVE  HistoryInv'
    BY LifecycleAssumption, <2>11 DEF WriteBack, Put
  <2> QED BY <1>1, <2>1, <2>2, <2>3, <2>4, <2>5, <2>6, <2>7, <2>8, <2>9, <2>10, <2>11 DEF Delete
<1>2. ASSUME NEW u \in Undos, Undo(u)
      PROVE  HistoryInv'
  <2> USE <1>0 DEF TypeOK, ProgressInv, HistoryInv, Undone, Calls, Known, fileVars, listVars, callVars, Goto, Return, Forget, IsNext, LeftWithout
  <2>1. CASE BeginUndo(u)
    BY LifecycleAssumption, <2>1 DEF BeginUndo
  <2>2. CASE BeginRestore(u)
    BY LifecycleAssumption, <2>2 DEF BeginRestore
  <2>3. CASE UndoFails(u)
    BY LifecycleAssumption, <2>3 DEF UndoFails, EndUndo
  <2>4. CASE FinishUndo(u)
    BY LifecycleAssumption, <2>4 DEF FinishUndo, EndUndo
  <2>5. ASSUME NEW p \in Known, FindFree(u, p)
        PROVE  HistoryInv'
    BY LifecycleAssumption, <2>5 DEF FindFree
  <2>6. ASSUME NEW p \in Known, RestorePage(u, p)
        PROVE  HistoryInv'
    BY LifecycleAssumption, <2>6 DEF RestorePage, Put
  <2> QED BY <1>2, <2>1, <2>2, <2>3, <2>4, <2>5, <2>6 DEF Undo
<1>3. ASSUME NEW c \in Creates, Create(c)
      PROVE  HistoryInv'
  <2> USE <1>0 DEF TypeOK, ProgressInv, HistoryInv, Undone, Calls, Known, fileVars, listVars, callVars, Goto, Return, Forget, IsNext, LeftWithout
  <2>1. CASE \E q \in Places : BeginCreate(c, q)
    BY LifecycleAssumption, <2>1 DEF BeginCreate
  <2>2. CASE WriteNew(c)
    BY LifecycleAssumption, <2>2 DEF WriteNew, Put
  <2>3. CASE ListNew(c)
    BY LifecycleAssumption, <2>3 DEF ListNew, ListedWith
  <2>4. CASE CommitEntry(c)
    BY LifecycleAssumption, <2>4 DEF CommitEntry
  <2>5. CASE Rollback(c)
    BY LifecycleAssumption, <2>5 DEF Rollback, Put
  <2>6. CASE RemoveNew(c)
    BY LifecycleAssumption, <2>6 DEF RemoveNew, Put
  <2>7. CASE LeaveNew(c)
    BY LifecycleAssumption, <2>7 DEF LeaveNew
  <2> QED BY <1>3, <2>1, <2>2, <2>3, <2>4, <2>5, <2>6, <2>7 DEF Create
<1>4. ASSUME NEW s \in Saves, Save(s)
      PROVE  HistoryInv'
  <2> USE <1>0 DEF TypeOK, ProgressInv, HistoryInv, Undone, Calls, Known, fileVars, listVars, callVars, Goto, Return, Forget, IsNext, LeftWithout
  <2>1. CASE \E p \in Known : CheckSave(s, p)
    BY LifecycleAssumption, <2>1 DEF CheckSave
  <2>2. CASE WriteSave(s)
    BY LifecycleAssumption, <2>2 DEF WriteSave, Put
  <2>3. CASE SaveFails(s)
    BY LifecycleAssumption, <2>3 DEF SaveFails
  <2> QED BY <1>4, <2>1, <2>2, <2>3 DEF Save
<1>5. CASE UNCHANGED vars
  BY <1>0, <1>5 DEF vars, TypeOK, ProgressInv, HistoryInv, Undone, Calls, Known, fileVars, listVars, callVars, Goto, Return, Forget, IsNext, LeftWithout
<1> QED BY <1>1, <1>2, <1>3, <1>4, <1>5 DEF Next

LEMMA MissingStep == LifecycleInv /\ [Next]_vars => MissingInv'
<1> SUFFICES ASSUME LifecycleInv, [Next]_vars PROVE MissingInv'
  OBVIOUS
<1>0. /\ TypeOK /\ ProgressInv /\ LoadedInv /\ CopiesInv /\ MissingInv
      /\ None # "failed"
  BY ResultAssumption DEF LifecycleInv, Results
<1>1. ASSUME NEW d \in Deletes, Delete(d)
      PROVE  MissingInv'
  <2> USE <1>0 DEF TypeOK, ProgressInv, LoadedInv, CopiesInv, MissingInv, TakenBy, Files, Undone, Calls, Known, fileVars, listVars, callVars, Goto, Return, Forget, IsNext, LeftWithout
  <2>1. CASE WriteManifest(d)
    BY LifecycleAssumption, ContentAssumption, <2>1 DEF WriteManifest
  <2>2. CASE RefuseDelete(d)
    BY LifecycleAssumption, ContentAssumption, <2>2 DEF RefuseDelete
  <2>3. CASE FinishDelete(d)
    BY LifecycleAssumption, ContentAssumption, <2>3 DEF FinishDelete
  <2>4. CASE TurnBack(d)
    BY LifecycleAssumption, ContentAssumption, <2>4 DEF TurnBack, ToWriteBack
  <2>5. CASE WriteBackFails(d)
    BY LifecycleAssumption, ContentAssumption, <2>5 DEF WriteBackFails
  <2>6. CASE ReportFailure(d)
    BY LifecycleAssumption, ContentAssumption, <2>6 DEF ReportFailure
  <2>7. ASSUME NEW p \in Known, BeginDelete(d, p)
        PROVE  MissingInv'
    BY LifecycleAssumption, ContentAssumption, <2>7 DEF BeginDelete
  <2>8. ASSUME NEW p \in Known, CopyPage(d, p)
        PROVE  MissingInv'
    BY LifecycleAssumption, ContentAssumption, <2>8 DEF CopyPage
  <2>9. ASSUME NEW p \in Known, RemovePage(d, p)
        PROVE  MissingInv'
    BY LifecycleAssumption, ContentAssumption, <2>9 DEF RemovePage, Put
  <2>10. ASSUME NEW p \in Known, RemoveFails(d, p)
         PROVE  MissingInv'
    BY LifecycleAssumption, ContentAssumption, <2>10 DEF RemoveFails
  <2>11. ASSUME NEW p \in Known, WriteBack(d, p)
         PROVE  MissingInv'
    BY LifecycleAssumption, ContentAssumption, <2>11 DEF WriteBack, Put
  <2> QED BY <1>1, <2>1, <2>2, <2>3, <2>4, <2>5, <2>6, <2>7, <2>8, <2>9, <2>10, <2>11 DEF Delete
<1>2. ASSUME NEW u \in Undos, Undo(u)
      PROVE  MissingInv'
  <2> USE <1>0 DEF TypeOK, ProgressInv, LoadedInv, CopiesInv, MissingInv, TakenBy, Files, Undone, Calls, Known, fileVars, listVars, callVars, Goto, Return, Forget, IsNext, LeftWithout
  <2>1. CASE BeginUndo(u)
    BY LifecycleAssumption, ContentAssumption, <2>1 DEF BeginUndo
  <2>2. CASE BeginRestore(u)
    BY LifecycleAssumption, ContentAssumption, <2>2 DEF BeginRestore
  <2>3. CASE UndoFails(u)
    BY LifecycleAssumption, ContentAssumption, <2>3 DEF UndoFails, EndUndo
  <2>4. CASE FinishUndo(u)
    BY LifecycleAssumption, ContentAssumption, <2>4 DEF FinishUndo, EndUndo
  <2>5. ASSUME NEW p \in Known, FindFree(u, p)
        PROVE  MissingInv'
    BY LifecycleAssumption, ContentAssumption, <2>5 DEF FindFree
  <2>6. ASSUME NEW p \in Known, RestorePage(u, p)
        PROVE  MissingInv'
    BY LifecycleAssumption, ContentAssumption, <2>6 DEF RestorePage, Put
  <2> QED BY <1>2, <2>1, <2>2, <2>3, <2>4, <2>5, <2>6 DEF Undo
<1>3. ASSUME NEW c \in Creates, Create(c)
      PROVE  MissingInv'
  <2> USE <1>0 DEF TypeOK, ProgressInv, LoadedInv, CopiesInv, MissingInv, TakenBy, Files, Undone, Calls, Known, fileVars, listVars, callVars, Goto, Return, Forget, IsNext, LeftWithout
  <2>1. CASE \E q \in Places : BeginCreate(c, q)
    BY LifecycleAssumption, ContentAssumption, <2>1 DEF BeginCreate
  <2>2. CASE WriteNew(c)
    BY LifecycleAssumption, ContentAssumption, <2>2 DEF WriteNew, Put
  <2>3. CASE ListNew(c)
    BY LifecycleAssumption, ContentAssumption, <2>3 DEF ListNew, ListedWith
  <2>4. CASE CommitEntry(c)
    BY LifecycleAssumption, ContentAssumption, <2>4 DEF CommitEntry
  <2>5. CASE Rollback(c)
    BY LifecycleAssumption, ContentAssumption, <2>5 DEF Rollback, Put
  <2>6. CASE RemoveNew(c)
    BY LifecycleAssumption, ContentAssumption, <2>6 DEF RemoveNew, Put
  <2>7. CASE LeaveNew(c)
    BY LifecycleAssumption, ContentAssumption, <2>7 DEF LeaveNew
  <2> QED BY <1>3, <2>1, <2>2, <2>3, <2>4, <2>5, <2>6, <2>7 DEF Create
<1>4. ASSUME NEW s \in Saves, Save(s)
      PROVE  MissingInv'
  <2> USE <1>0 DEF TypeOK, ProgressInv, LoadedInv, CopiesInv, MissingInv, TakenBy, Files, Undone, Calls, Known, fileVars, listVars, callVars, Goto, Return, Forget, IsNext, LeftWithout
  <2>1. CASE \E p \in Known : CheckSave(s, p)
    BY LifecycleAssumption, ContentAssumption, <2>1 DEF CheckSave
  <2>2. CASE WriteSave(s)
    BY LifecycleAssumption, ContentAssumption, <2>2 DEF WriteSave, Put
  <2>3. CASE SaveFails(s)
    BY LifecycleAssumption, ContentAssumption, <2>3 DEF SaveFails
  <2> QED BY <1>4, <2>1, <2>2, <2>3 DEF Save
<1>5. CASE UNCHANGED vars
  BY <1>0, <1>5 DEF vars, TypeOK, ProgressInv, LoadedInv, CopiesInv, MissingInv, TakenBy, Files, Undone, Calls, Known, fileVars, listVars, callVars, Goto, Return, Forget, IsNext, LeftWithout
<1> QED BY <1>1, <1>2, <1>3, <1>4, <1>5 DEF Next

-----------------------------------------------------------------------------
\* The inductive invariant of creations, deletions, undos and saves.
THEOREM InvariantHolds == Spec => []LifecycleInv
<1>1. Init => LifecycleInv
  BY InitInv
<1>2. LifecycleInv /\ [Next]_vars => LifecycleInv'
  BY TypeStep, ProgressStep, LoadedStep, CopiesStep, HistoryStep, MissingStep DEF LifecycleInv
<1> QED BY <1>1, <1>2, PTL DEF Spec

\* Every variable keeps its type.
THEOREM TypeCorrect == Spec => []TypeOK
<1>1. LifecycleInv => TypeOK
  BY DEF LifecycleInv
<1> QED BY <1>1, InvariantHolds, PTL

\* Only RemovePage takes a page of a deletion: what other calls keep in gone is
\* their own.
LEMMA OnlyRemovalTakes ==
  ASSUME LifecycleInv, [Next]_vars, NEW d \in Deletes, NEW q \in gone'[d] \ gone[d]
  PROVE  RemovePage(d, q)
<1>0. TypeOK
  BY DEF LifecycleInv
<1> USE <1>0, LifecycleAssumption DEF TypeOK, callVars
<1>1. PICK e \in Deletes : Delete(e)
  <2>1. ASSUME NEW u \in Undos, Undo(u)
        PROVE  gone'[d] = gone[d]
    BY <2>1 DEF Undo, BeginUndo, BeginRestore, UndoFails, FinishUndo, EndUndo, FindFree, RestorePage
  <2>2. ASSUME NEW c \in Creates, Create(c)
        PROVE  gone' = gone
    BY <2>2 DEF Create, BeginCreate, WriteNew, ListNew, CommitEntry, Rollback, RemoveNew, LeaveNew
  <2>3. ASSUME NEW s \in Saves, Save(s)
        PROVE  gone' = gone
    BY <2>3 DEF Save, CheckSave, WriteSave, SaveFails
  <2>4. CASE UNCHANGED vars
    BY <2>4 DEF vars
  <2> QED BY <2>1, <2>2, <2>3, <2>4 DEF Next
<1>2. PICK p \in Known : RemovePage(e, p)
  <2>1. ASSUME NEW p \in Known,
               BeginDelete(e, p) \/ CopyPage(e, p) \/ RemoveFails(e, p) \/ WriteBack(e, p)
        PROVE  gone' = gone
    BY <2>1 DEF BeginDelete, CopyPage, RemoveFails, WriteBack
  <2>2. ASSUME WriteManifest(e) \/ RefuseDelete(e) \/ FinishDelete(e) \/ TurnBack(e)
                 \/ WriteBackFails(e) \/ ReportFailure(e)
        PROVE  gone' = gone
    BY <2>2 DEF WriteManifest, RefuseDelete, FinishDelete, TurnBack, WriteBackFails, ReportFailure
  <2> QED BY <1>1, <2>1, <2>2 DEF Delete
<1> QED BY <1>2 DEF RemovePage

\* What a deletion removes can be restored from the trash, whatever other
\* deletions, undos, creations and saves do among its steps.
THEOREM RemovedIsInTrash == Spec => TrashHoldsWhatIsRemoved
<1> DEFINE Held ==
      \A d \in Deletes : \A p \in gone'[d] \ gone[d] :
        file[p] # None =>
          /\ d \in manifests /\ trash[d][p] # None
          /\ trash[d][p] = file[p] \/ p \in rewritten[d]
<1>1. LifecycleInv /\ [Next]_vars => [Held]_vars
  <2> SUFFICES ASSUME LifecycleInv, [Next]_vars, NEW d \in Deletes, NEW p \in gone'[d] \ gone[d],
                      file[p] # None
               PROVE  /\ d \in manifests /\ trash[d][p] # None
                      /\ trash[d][p] = file[p] \/ p \in rewritten[d]
    OBVIOUS
  <2>1. RemovePage(d, p)
    BY OnlyRemovalTakes
  <2>2. phase[d] = "removing" /\ d \in manifests /\ p \in branch[d] /\ p \in Known
    BY <2>1 DEF RemovePage, IsNext, LifecycleInv, ProgressInv, TypeOK
  <2> QED BY <2>2 DEF LifecycleInv, CopiesInv, HistoryInv
<1> QED BY <1>1, InvariantHolds, PTL DEF TrashHoldsWhatIsRemoved, Spec

\* A deletion that fails half way leaves no page without a file that it has
\* taken itself.
THEOREM FailedDeletionsWriteBack == Spec => FailedDeleteLeavesFiles
<1> DEFINE Back ==
      \A d \in Deletes :
        result[d] = None /\ result'[d] = "failed" =>
          \A p \in branch[d] \ Files : TakenBy(Deletes \ {d}, p)
<1>1. LifecycleInv /\ [Next]_vars => [Back]_vars
  <2> SUFFICES ASSUME LifecycleInv, [Next]_vars, NEW d \in Deletes, NEW p \in branch[d] \ Files,
                      result[d] = None, result'[d] = "failed"
               PROVE  TakenBy(Deletes \ {d}, p)
    OBVIOUS
  <2>0. TypeOK /\ None # "failed"
    BY ResultAssumption DEF LifecycleInv, Results
  <2> USE <2>0, LifecycleAssumption DEF TypeOK, Calls, Goto, Return
  <2>1. phase[d] = "restoring" /\ left[d] = {}
    <3>1. ASSUME NEW e \in Deletes, Delete(e)
          PROVE  ReportFailure(e)
      BY <3>1 DEF Delete, WriteManifest, RefuseDelete, FinishDelete, TurnBack, WriteBackFails,
                  BeginDelete, CopyPage, RemovePage, RemoveFails, WriteBack
    <3>2. ASSUME NEW u \in Undos, Undo(u)
          PROVE  result'[d] = result[d]
      BY <3>2 DEF Undo, BeginUndo, BeginRestore, UndoFails, FinishUndo, FindFree, RestorePage
    <3>3. ASSUME NEW c \in Creates, Create(c)
          PROVE  result'[d] = result[d]
      BY <3>3 DEF Create, BeginCreate, WriteNew, ListNew, CommitEntry, Rollback, RemoveNew, LeaveNew
    <3>4. ASSUME NEW s \in Saves, Save(s)
          PROVE  result'[d] = result[d]
      BY <3>4 DEF Save, CheckSave, WriteSave, SaveFails
    <3>5. PICK e \in Deletes : ReportFailure(e)
      BY <3>1, <3>2, <3>3, <3>4 DEF Next, vars
    <3> QED BY <3>5 DEF ReportFailure
  <2> QED BY <2>1 DEF LifecycleInv, MissingInv
<1> QED BY <1>1, InvariantHolds, PTL DEF FailedDeleteLeavesFiles, Spec

-----------------------------------------------------------------------------
(***************************************************************************)
(* The list of pages and their files.                                      *)
(***************************************************************************)
\* A call that has returned keeps its result.
LEMMA ResultStays ==
  ASSUME TypeOK, ProgressInv, [Next]_vars, NEW k \in Calls, phase[k] = "done"
  PROVE  phase'[k] = "done" /\ result'[k] = result[k]
<1> USE LifecycleAssumption DEF TypeOK
<1>1. ASSUME NEW d \in Deletes, Delete(d)
      PROVE  phase'[k] = "done" /\ result'[k] = result[k]
  <2> USE DEF Calls, Goto, Return, Forget, IsNext, LeftWithout, fileVars, listVars, callVars
  <2>1. CASE WriteManifest(d)
    BY <2>1 DEF WriteManifest
  <2>2. CASE RefuseDelete(d)
    BY <2>2 DEF RefuseDelete
  <2>3. CASE FinishDelete(d)
    BY <2>3 DEF FinishDelete
  <2>4. CASE TurnBack(d)
    BY <2>4 DEF TurnBack, ToWriteBack
  <2>5. CASE WriteBackFails(d)
    BY <2>5 DEF WriteBackFails
  <2>6. CASE ReportFailure(d)
    BY <2>6 DEF ReportFailure
  <2>7. ASSUME NEW p \in Known, BeginDelete(d, p)
       PROVE  phase'[k] = "done" /\ result'[k] = result[k]
    BY <2>7 DEF BeginDelete
  <2>8. ASSUME NEW p \in Known, CopyPage(d, p)
       PROVE  phase'[k] = "done" /\ result'[k] = result[k]
    BY <2>8 DEF CopyPage
  <2>9. ASSUME NEW p \in Known, RemovePage(d, p)
       PROVE  phase'[k] = "done" /\ result'[k] = result[k]
    BY <2>9 DEF RemovePage, Put
  <2>10. ASSUME NEW p \in Known, RemoveFails(d, p)
       PROVE  phase'[k] = "done" /\ result'[k] = result[k]
    BY <2>10 DEF RemoveFails
  <2>11. ASSUME NEW p \in Known, WriteBack(d, p)
       PROVE  phase'[k] = "done" /\ result'[k] = result[k]
    BY <2>11 DEF WriteBack, Put
  <2> QED BY <1>1, <2>1, <2>2, <2>3, <2>4, <2>5, <2>6, <2>7, <2>8, <2>9, <2>10, <2>11 DEF Delete
<1>2. ASSUME NEW u \in Undos, Undo(u)
      PROVE  phase'[k] = "done" /\ result'[k] = result[k]
  <2> USE DEF Calls, Goto, Return, Forget, IsNext, LeftWithout, fileVars, listVars, callVars
  <2>1. CASE BeginUndo(u)
    BY <2>1 DEF BeginUndo
  <2>2. CASE BeginRestore(u)
    BY <2>2 DEF BeginRestore
  <2>3. CASE UndoFails(u)
    BY <2>3 DEF UndoFails, EndUndo
  <2>4. CASE FinishUndo(u)
    BY <2>4 DEF FinishUndo, EndUndo
  <2>5. ASSUME NEW p \in Known, FindFree(u, p)
       PROVE  phase'[k] = "done" /\ result'[k] = result[k]
    BY <2>5 DEF FindFree
  <2>6. ASSUME NEW p \in Known, RestorePage(u, p)
       PROVE  phase'[k] = "done" /\ result'[k] = result[k]
    BY <2>6 DEF RestorePage, Put
  <2> QED BY <1>2, <2>1, <2>2, <2>3, <2>4, <2>5, <2>6 DEF Undo
<1>3. ASSUME NEW c \in Creates, Create(c)
      PROVE  phase'[k] = "done" /\ result'[k] = result[k]
  <2> USE DEF Calls, Goto, Return, Forget, IsNext, LeftWithout, fileVars, listVars, callVars
  <2>1. CASE \E q \in Places : BeginCreate(c, q)
    BY <2>1 DEF BeginCreate
  <2>2. CASE WriteNew(c)
    BY <2>2 DEF WriteNew, Put
  <2>3. CASE ListNew(c)
    BY <2>3 DEF ListNew, ListedWith
  <2>4. CASE CommitEntry(c)
    BY <2>4 DEF CommitEntry
  <2>5. CASE Rollback(c)
    BY <2>5 DEF Rollback, Put
  <2>6. CASE RemoveNew(c)
    BY <2>6 DEF RemoveNew, Put
  <2>7. CASE LeaveNew(c)
    BY <2>7 DEF LeaveNew
  <2> QED BY <1>3, <2>1, <2>2, <2>3, <2>4, <2>5, <2>6, <2>7 DEF Create
<1>4. ASSUME NEW s \in Saves, Save(s)
      PROVE  phase'[k] = "done" /\ result'[k] = result[k]
  <2> USE DEF Calls, Goto, Return, Forget, IsNext, LeftWithout, fileVars, listVars, callVars
  <2>1. CASE \E p \in Known : CheckSave(s, p)
    BY <2>1 DEF CheckSave
  <2>2. CASE WriteSave(s)
    BY <2>2 DEF WriteSave, Put
  <2>3. CASE SaveFails(s)
    BY <2>3 DEF SaveFails
  <2> QED BY <1>4, <2>1, <2>2, <2>3 DEF Save
<1>5. CASE UNCHANGED vars
  BY <1>5 DEF vars
<1> QED BY <1>1, <1>2, <1>3, <1>4, <1>5 DEF Next

\* A deletion that turns back, or a creation that is rolled back, ends so.
LEMMA BoundToFail ==
  ASSUME TypeOK, ProgressInv, [Next]_vars, NEW k \in Calls, phase[k] \in {"restoring", "unwriting"}
  PROVE  phase'[k] \in {"restoring", "unwriting"} \/ result'[k] \notin Clean
<1> USE LifecycleAssumption, ResultAssumption DEF TypeOK, Clean, Results
<1>1. ASSUME NEW d \in Deletes, Delete(d)
      PROVE  phase'[k] \in {"restoring", "unwriting"} \/ result'[k] \notin Clean
  <2> USE DEF Calls, Goto, Return, Forget, IsNext, LeftWithout, fileVars, listVars, callVars
  <2>1. CASE WriteManifest(d)
    BY <2>1 DEF WriteManifest
  <2>2. CASE RefuseDelete(d)
    BY <2>2 DEF RefuseDelete
  <2>3. CASE FinishDelete(d)
    BY <2>3 DEF FinishDelete
  <2>4. CASE TurnBack(d)
    BY <2>4 DEF TurnBack, ToWriteBack
  <2>5. CASE WriteBackFails(d)
    BY <2>5 DEF WriteBackFails
  <2>6. CASE ReportFailure(d)
    BY <2>6 DEF ReportFailure
  <2>7. ASSUME NEW p \in Known, BeginDelete(d, p)
       PROVE  phase'[k] \in {"restoring", "unwriting"} \/ result'[k] \notin Clean
    BY <2>7 DEF BeginDelete
  <2>8. ASSUME NEW p \in Known, CopyPage(d, p)
       PROVE  phase'[k] \in {"restoring", "unwriting"} \/ result'[k] \notin Clean
    BY <2>8 DEF CopyPage
  <2>9. ASSUME NEW p \in Known, RemovePage(d, p)
       PROVE  phase'[k] \in {"restoring", "unwriting"} \/ result'[k] \notin Clean
    BY <2>9 DEF RemovePage, Put
  <2>10. ASSUME NEW p \in Known, RemoveFails(d, p)
       PROVE  phase'[k] \in {"restoring", "unwriting"} \/ result'[k] \notin Clean
    BY <2>10 DEF RemoveFails
  <2>11. ASSUME NEW p \in Known, WriteBack(d, p)
       PROVE  phase'[k] \in {"restoring", "unwriting"} \/ result'[k] \notin Clean
    BY <2>11 DEF WriteBack, Put
  <2> QED BY <1>1, <2>1, <2>2, <2>3, <2>4, <2>5, <2>6, <2>7, <2>8, <2>9, <2>10, <2>11 DEF Delete
<1>2. ASSUME NEW u \in Undos, Undo(u)
      PROVE  phase'[k] \in {"restoring", "unwriting"} \/ result'[k] \notin Clean
  <2> USE DEF Calls, Goto, Return, Forget, IsNext, LeftWithout, fileVars, listVars, callVars
  <2>1. CASE BeginUndo(u)
    BY <2>1 DEF BeginUndo
  <2>2. CASE BeginRestore(u)
    BY <2>2 DEF BeginRestore
  <2>3. CASE UndoFails(u)
    BY <2>3 DEF UndoFails, EndUndo
  <2>4. CASE FinishUndo(u)
    BY <2>4 DEF FinishUndo, EndUndo
  <2>5. ASSUME NEW p \in Known, FindFree(u, p)
       PROVE  phase'[k] \in {"restoring", "unwriting"} \/ result'[k] \notin Clean
    BY <2>5 DEF FindFree
  <2>6. ASSUME NEW p \in Known, RestorePage(u, p)
       PROVE  phase'[k] \in {"restoring", "unwriting"} \/ result'[k] \notin Clean
    BY <2>6 DEF RestorePage, Put
  <2> QED BY <1>2, <2>1, <2>2, <2>3, <2>4, <2>5, <2>6 DEF Undo
<1>3. ASSUME NEW c \in Creates, Create(c)
      PROVE  phase'[k] \in {"restoring", "unwriting"} \/ result'[k] \notin Clean
  <2> USE DEF Calls, Goto, Return, Forget, IsNext, LeftWithout, fileVars, listVars, callVars
  <2>1. CASE \E q \in Places : BeginCreate(c, q)
    BY <2>1 DEF BeginCreate
  <2>2. CASE WriteNew(c)
    BY <2>2 DEF WriteNew, Put
  <2>3. CASE ListNew(c)
    BY <2>3 DEF ListNew, ListedWith
  <2>4. CASE CommitEntry(c)
    BY <2>4 DEF CommitEntry
  <2>5. CASE Rollback(c)
    BY <2>5 DEF Rollback, Put
  <2>6. CASE RemoveNew(c)
    BY <2>6 DEF RemoveNew, Put
  <2>7. CASE LeaveNew(c)
    BY <2>7 DEF LeaveNew
  <2> QED BY <1>3, <2>1, <2>2, <2>3, <2>4, <2>5, <2>6, <2>7 DEF Create
<1>4. ASSUME NEW s \in Saves, Save(s)
      PROVE  phase'[k] \in {"restoring", "unwriting"} \/ result'[k] \notin Clean
  <2> USE DEF Calls, Goto, Return, Forget, IsNext, LeftWithout, fileVars, listVars, callVars
  <2>1. CASE \E p \in Known : CheckSave(s, p)
    BY <2>1 DEF CheckSave
  <2>2. CASE WriteSave(s)
    BY <2>2 DEF WriteSave, Put
  <2>3. CASE SaveFails(s)
    BY <2>3 DEF SaveFails
  <2> QED BY <1>4, <2>1, <2>2, <2>3 DEF Save
<1>5. CASE UNCHANGED vars
  BY <1>5 DEF vars
<1> QED BY <1>1, <1>2, <1>3, <1>4, <1>5 DEF Next

\* What is spoilt stays so.
LEMMA SpoiltStays == TypeOK /\ ProgressInv /\ Spoilt /\ [Next]_vars => Spoilt'
<1> SUFFICES ASSUME TypeOK, ProgressInv, Spoilt, [Next]_vars PROVE Spoilt'
  OBVIOUS
<1>1. PICK k \in Calls : result[k] \notin Clean \/ phase[k] \in {"restoring", "unwriting"}
  BY DEF Spoilt
<1>2. CASE result[k] \notin Clean
  <2>1. phase[k] = "done"
    BY <1>2 DEF ProgressInv, Clean
  <2> QED BY <1>2, <2>1, ResultStays DEF Spoilt
<1>3. CASE phase[k] \in {"restoring", "unwriting"}
  BY <1>3, BoundToFail DEF Spoilt
<1> QED BY <1>1, <1>2, <1>3

\* Every step keeps a deletion with the one that may undo it.
LEMMA UndoStep == LifecycleInv /\ UndoInv /\ [Next]_vars => UndoInv'
<1> SUFFICES ASSUME LifecycleInv, UndoInv, [Next]_vars PROVE UndoInv'
  OBVIOUS
<1>0. TypeOK /\ ProgressInv
  BY DEF LifecycleInv
<1> USE <1>0, LifecycleAssumption
<1>1. ASSUME NEW d \in Deletes, Delete(d)
      PROVE  UndoInv'
  <2> USE DEF TypeOK, ProgressInv, UndoInv, Undoing, Undone, Calls, Goto, Return, Forget, IsNext, LeftWithout, fileVars, listVars, callVars
  <2>1. CASE WriteManifest(d)
    BY <2>1 DEF WriteManifest
  <2>2. CASE RefuseDelete(d)
    BY <2>2 DEF RefuseDelete
  <2>3. CASE FinishDelete(d)
    <3>0. Len(undoable) \in Nat /\ \A i \in 1..Len(undoable) : undoable[i] \in Deletes
      BY DEF TypeOK
    <3>1. /\ phase[d] = "removing" /\ gone[d] = branch[d]
          /\ phase' = [phase EXCEPT ![d] = "done"] /\ undoable' = <<d>> \o undoable
          /\ at' = at /\ branch' = branch /\ left' = left /\ gone' = gone
      BY <2>3 DEF FinishDelete
    <3>2. (\A i \in 1..Len(undoable) : undoable[i] # d) /\ (\A u \in Undoing : at[u] # d)
      BY <3>1
    <3>3. /\ Len(undoable') = Len(undoable) + 1
          /\ undoable'[1] = d
          /\ \A i \in 2..Len(undoable') : undoable'[i] = undoable[i - 1] /\ i - 1 \in 1..Len(undoable)
      BY <3>1
    <3>4. Undoing' = Undoing /\ \A u \in Undoing : phase'[u] = phase[u]
      BY <3>1
    <3>5. \A i \in 1..Len(undoable') : i = 1 \/ i \in 2..Len(undoable')
      BY <3>3
    <3>a. /\ \A i, j \in 1..Len(undoable) : undoable[i] = undoable[j] => i = j
          /\ \A i \in 1..Len(undoable) : gone[undoable[i]] = branch[undoable[i]]
      BY DEF UndoInv
    <3>b. \A u \in Undoing : \A i \in 1..Len(undoable) : at[u] # undoable[i]
      BY DEF UndoInv
    <3> HIDE DEF TypeOK, ProgressInv, UndoInv, Undone, Undoing
    <3> HIDE <1>0
    <3>6. \A i, j \in 1..Len(undoable') : undoable'[i] = undoable'[j] => i = j
      <4> SUFFICES ASSUME NEW i \in 1..Len(undoable'), NEW j \in 1..Len(undoable'),
                          undoable'[i] = undoable'[j]
                   PROVE  i = j
        OBVIOUS
      <4>1. CASE i = 1 \/ j = 1
        BY <4>1, <3>2, <3>3, <3>5
      <4>2. CASE i \in 2..Len(undoable') /\ j \in 2..Len(undoable')
        <5>1. i - 1 = j - 1
          BY <4>2, <3>3, <3>a
        <5> QED BY <5>1, <4>2, <3>3
      <4> QED BY <4>1, <4>2, <3>5
    <3>7. \A i \in 1..Len(undoable') : gone'[undoable'[i]] = branch'[undoable'[i]]
      <4> SUFFICES ASSUME NEW i \in 1..Len(undoable')
                   PROVE  gone[undoable'[i]] = branch[undoable'[i]]
        BY <3>1
      <4>1. CASE i \in 2..Len(undoable')
        BY <4>1, <3>3, <3>a
      <4> QED BY <4>1, <3>1, <3>3, <3>5
    <3>8. \A u \in Undoing : \A i \in 1..Len(undoable') : at[u] # undoable'[i]
      BY <3>2, <3>3, <3>5, <3>b
    <3> QED BY <3>1, <3>4, <3>6, <3>7, <3>8 DEF UndoInv
  <2>4. CASE TurnBack(d)
    BY <2>4 DEF TurnBack, ToWriteBack
  <2>5. CASE WriteBackFails(d)
    BY <2>5 DEF WriteBackFails
  <2>6. CASE ReportFailure(d)
    BY <2>6 DEF ReportFailure
  <2>7. ASSUME NEW p \in Known, BeginDelete(d, p)
       PROVE  UndoInv'
    BY <2>7 DEF BeginDelete
  <2>8. ASSUME NEW p \in Known, CopyPage(d, p)
       PROVE  UndoInv'
    BY <2>8 DEF CopyPage
  <2>9. ASSUME NEW p \in Known, RemovePage(d, p)
       PROVE  UndoInv'
    BY <2>9 DEF RemovePage, Put
  <2>10. ASSUME NEW p \in Known, RemoveFails(d, p)
       PROVE  UndoInv'
    BY <2>10 DEF RemoveFails
  <2>11. ASSUME NEW p \in Known, WriteBack(d, p)
       PROVE  UndoInv'
    BY <2>11 DEF WriteBack, Put
  <2> QED BY <1>1, <2>1, <2>2, <2>3, <2>4, <2>5, <2>6, <2>7, <2>8, <2>9, <2>10, <2>11 DEF Delete
<1>2. ASSUME NEW u \in Undos, Undo(u)
      PROVE  UndoInv'
  <2> USE DEF TypeOK, ProgressInv, UndoInv, Undoing, Undone, Calls, Goto, Return, Forget, IsNext, LeftWithout, fileVars, listVars, callVars
  <2>1. CASE BeginUndo(u)
    BY <2>1 DEF BeginUndo
  <2>2. CASE BeginRestore(u)
    BY <2>2 DEF BeginRestore
  <2>3. CASE UndoFails(u)
    BY <2>3 DEF UndoFails, EndUndo
  <2>4. CASE FinishUndo(u)
    BY <2>4 DEF FinishUndo, EndUndo
  <2>5. ASSUME NEW p \in Known, FindFree(u, p)
       PROVE  UndoInv'
    BY <2>5 DEF FindFree
  <2>6. ASSUME NEW p \in Known, RestorePage(u, p)
       PROVE  UndoInv'
    BY <2>6 DEF RestorePage, Put
  <2> QED BY <1>2, <2>1, <2>2, <2>3, <2>4, <2>5, <2>6 DEF Undo
<1>3. ASSUME NEW c \in Creates, Create(c)
      PROVE  UndoInv'
  <2> USE DEF TypeOK, ProgressInv, UndoInv, Undoing, Undone, Calls, Goto, Return, Forget, IsNext, LeftWithout, fileVars, listVars, callVars
  <2>1. CASE \E q \in Places : BeginCreate(c, q)
    BY <2>1 DEF BeginCreate
  <2>2. CASE WriteNew(c)
    BY <2>2 DEF WriteNew, Put
  <2>3. CASE ListNew(c)
    BY <2>3 DEF ListNew, ListedWith
  <2>4. CASE CommitEntry(c)
    BY <2>4 DEF CommitEntry
  <2>5. CASE Rollback(c)
    BY <2>5 DEF Rollback, Put
  <2>6. CASE RemoveNew(c)
    BY <2>6 DEF RemoveNew, Put
  <2>7. CASE LeaveNew(c)
    BY <2>7 DEF LeaveNew
  <2> QED BY <1>3, <2>1, <2>2, <2>3, <2>4, <2>5, <2>6, <2>7 DEF Create
<1>4. ASSUME NEW s \in Saves, Save(s)
      PROVE  UndoInv'
  <2> USE DEF TypeOK, ProgressInv, UndoInv, Undoing, Undone, Calls, Goto, Return, Forget, IsNext, LeftWithout, fileVars, listVars, callVars
  <2>1. CASE \E p \in Known : CheckSave(s, p)
    BY <2>1 DEF CheckSave
  <2>2. CASE WriteSave(s)
    BY <2>2 DEF WriteSave, Put
  <2>3. CASE SaveFails(s)
    BY <2>3 DEF SaveFails
  <2> QED BY <1>4, <2>1, <2>2, <2>3 DEF Save
<1>5. CASE UNCHANGED vars
  BY <1>5 DEF vars, UndoInv, Undoing, listVars, callVars
<1> QED BY <1>1, <1>2, <1>3, <1>4, <1>5 DEF Next

\* When an undo ends, the others keep what they undo.
LEMMA OthersUndo ==
  ASSUME TypeOK, ProgressInv, UndoInv, NEW u \in Undoing,
         at' = [at EXCEPT ![u] = None], branch' = [branch EXCEPT ![at[u]] = {}],
         phase' = [phase EXCEPT ![u] = "done"]
  PROVE  \A v \in Undoing \ {u} :
           /\ v \in Undoing' /\ at'[v] = at[v] /\ phase'[v] = phase[v]
           /\ branch'[at[v]] = branch[at[v]]
<1> SUFFICES ASSUME NEW v \in Undoing \ {u}
             PROVE  /\ v \in Undoing' /\ at'[v] = at[v] /\ phase'[v] = phase[v]
                    /\ branch'[at[v]] = branch[at[v]]
  OBVIOUS
<1>1. u \in Calls /\ v \in Calls /\ v # u
  BY DEF Undoing, Calls
<1>2. at[v] # at[u] /\ at[v] \in Deletes
  BY DEF UndoInv, ProgressInv, Undoing
<1> QED BY <1>1, <1>2 DEF TypeOK, Undoing

\* Every step keeps the account of the list.
LEMMA ListStep == LifecycleInv /\ UndoInv /\ ListInv /\ [Next]_vars => ListInv'
<1> SUFFICES ASSUME LifecycleInv, UndoInv, ListInv, ~Spoilt, ~Spoilt', [Next]_vars,
                    NEW k \in Known
             PROVE  /\ k \in listed' \ Files' => Leaving(k)'
                    /\ k \in Files' \ listed' => Arriving(k)'
  BY SpoiltStays DEF ListInv, LifecycleInv
<1> DEFINE Goal == /\ k \in listed \ Files => Leaving(k)
                   /\ k \in Files \ listed => Arriving(k)
<1>0. TypeOK /\ ProgressInv /\ LoadedInv /\ CopiesInv /\ Goal
  BY DEF LifecycleInv, ListInv
<1>a. \A c \in Calls : result'[c] \in Clean
  BY DEF Spoilt
<1> USE <1>0, LifecycleAssumption, ResultAssumption
<1>1. ASSUME NEW d \in Deletes, Delete(d)
      PROVE  Goal'
  <2> USE DEF TypeOK, ProgressInv, UndoInv, Undoing, Undone, Files, Leaving, Arriving, Spoilt, Clean, Calls, Goto, Return, Forget, IsNext, LeftWithout, fileVars, listVars, callVars
  <2>1. CASE WriteManifest(d)
    BY <2>1 DEF WriteManifest
  <2>2. CASE RefuseDelete(d)
    BY <2>2 DEF RefuseDelete
  <2>3. CASE FinishDelete(d)
    <3>1. /\ gone[d] = branch[d] /\ listed' = listed \ gone[d] /\ file' = file
          /\ phase' = [phase EXCEPT ![d] = "done"]
          /\ result' = [result EXCEPT ![d] = IF branch[d] \cap Files = {} THEN "deleted" ELSE "overtaken"]
          /\ at' = at /\ branch' = branch /\ left' = left /\ gone' = gone
      BY <2>3 DEF FinishDelete
    <3> HIDE DEF TypeOK, ProgressInv, UndoInv, Undoing, Undone, Files, Leaving, Arriving, Spoilt
    <3>2. branch[d] \cap Files = {}
      <4>1. d \in Calls /\ result'[d] = IF branch[d] \cap Files = {} THEN "deleted" ELSE "overtaken"
        BY <3>1 DEF TypeOK, Calls
      <4> QED BY <1>a, <4>1 DEF Clean, Results
    <3>3. Leaving(k) /\ k \notin gone[d] => Leaving(k)'
      BY <3>1 DEF Leaving, TypeOK, Calls
    <3>4. Undoing' = Undoing /\ (\A u \in Undoing : phase'[u] = phase[u])
          /\ (k \in Creates => phase'[k] = phase[k])
      BY <3>1 DEF Undoing, TypeOK, Calls
    <3>5. Arriving(k) => Arriving(k)'
      BY <3>1, <3>4 DEF Arriving
    <3> QED BY <3>1, <3>2, <3>3, <3>5 DEF Files
  <2>4. CASE TurnBack(d)
    BY <2>4 DEF TurnBack, ToWriteBack
  <2>5. CASE WriteBackFails(d)
    BY <2>5 DEF WriteBackFails
  <2>6. CASE ReportFailure(d)
    BY <2>6 DEF ReportFailure
  <2>7. ASSUME NEW p \in Known, BeginDelete(d, p)
       PROVE  Goal'
    BY <2>7 DEF BeginDelete
  <2>8. ASSUME NEW p \in Known, CopyPage(d, p)
       PROVE  Goal'
    BY <2>8 DEF CopyPage
  <2>9. ASSUME NEW p \in Known, RemovePage(d, p)
       PROVE  Goal'
    BY <2>9 DEF RemovePage, Put
  <2>10. ASSUME NEW p \in Known, RemoveFails(d, p)
       PROVE  Goal'
    BY <2>10 DEF RemoveFails
  <2>11. ASSUME NEW p \in Known, WriteBack(d, p)
       PROVE  Goal'
    BY <2>11 DEF WriteBack, Put
  <2> QED BY <1>1, <2>1, <2>2, <2>3, <2>4, <2>5, <2>6, <2>7, <2>8, <2>9, <2>10, <2>11 DEF Delete
<1>2. ASSUME NEW u \in Undos, Undo(u)
      PROVE  Goal'
  <2> USE DEF TypeOK, ProgressInv, UndoInv, Undoing, Undone, Files, Leaving, Arriving, Spoilt, Clean, Calls, Goto, Return, Forget, IsNext, LeftWithout, fileVars, listVars, callVars
  <2>1. CASE BeginUndo(u)
    BY <2>1 DEF BeginUndo
  <2>2. CASE BeginRestore(u)
    BY <2>2 DEF BeginRestore
  <2>3. CASE UndoFails(u)
    <3>1. /\ listed' = listed /\ file' = file /\ gone' = [gone EXCEPT ![u] = {}]
          /\ phase' = [phase EXCEPT ![u] = "done"] /\ left' = [left EXCEPT ![u] = {}]
          /\ result' = [result EXCEPT ![u] = IF left[u] \in {{}, branch[at[u]]} THEN "refused" ELSE "broken"]
          /\ at' = [at EXCEPT ![u] = None] /\ branch' = [branch EXCEPT ![at[u]] = {}]
          /\ u \in Undoing /\ (phase[u] = "free" => left[u] # {})
      BY <2>3 DEF UndoFails, EndUndo, Undoing
    <3> HIDE DEF TypeOK, ProgressInv, UndoInv, Undoing, Undone, Files, Leaving, Arriving, Spoilt
    <3>2. left[u] \in {{}, branch[at[u]]}
      <4>1. u \in Calls /\ result'[u] = IF left[u] \in {{}, branch[at[u]]} THEN "refused" ELSE "broken"
        BY <3>1 DEF TypeOK, Calls
      <4> QED BY <1>a, <4>1 DEF Clean, Results
    <3>3. ~(phase[u] # "reading" /\ k \in branch[at[u]] \ left[u])
      <4>1. phase[u] \in {"reading", "free", "writing"}
        BY <3>1 DEF Undoing
      <4>2. phase[u] = "writing" => left[u] # {}
        BY <3>1 DEF UndoInv
      <4>3. phase[u] # "reading" => left[u] = branch[at[u]]
        BY <3>1, <3>2, <4>1, <4>2
      <4> QED BY <4>3
    <3>4. Leaving(k) => Leaving(k)'
      BY <3>1 DEF Leaving, TypeOK, Undoing, Calls
    <3>5. Arriving(k) => Arriving(k)'
      <4>1. CASE k \in Creates /\ phase[k] = "listing"
        BY <4>1, <3>1 DEF Arriving, TypeOK, Undoing, Calls
      <4>2. CASE \E v \in Undoing : phase[v] # "reading" /\ k \in branch[at[v]] \ left[v]
        <5>1. PICK v \in Undoing : phase[v] # "reading" /\ k \in branch[at[v]] \ left[v]
          BY <4>2
        <5>2. v # u /\ left'[v] = left[v]
          BY <5>1, <3>1, <3>3 DEF TypeOK, Undoing
        <5>3. v \in Undoing' /\ at'[v] = at[v] /\ phase'[v] = phase[v] /\ branch'[at[v]] = branch[at[v]]
          BY <5>2, <3>1, OthersUndo
        <5> QED BY <5>1, <5>2, <5>3, <3>1 DEF Arriving
      <4> QED BY <4>1, <4>2 DEF Arriving
    <3> QED BY <3>1, <3>4, <3>5 DEF Files
  <2>4. CASE FinishUndo(u)
    <3>1. /\ listed' = listed \cup branch[at[u]] /\ file' = file /\ gone' = [gone EXCEPT ![u] = {}]
          /\ phase' = [phase EXCEPT ![u] = "done"] /\ left' = left
          /\ result' = [result EXCEPT ![u] = IF branch[at[u]] \subseteq Files THEN "restored" ELSE "overtaken"]
          /\ at' = [at EXCEPT ![u] = None] /\ branch' = [branch EXCEPT ![at[u]] = {}]
          /\ u \in Undoing
      BY <2>4 DEF FinishUndo, EndUndo, Undoing
    <3> HIDE DEF TypeOK, ProgressInv, UndoInv, Undoing, Undone, Files, Leaving, Arriving, Spoilt
    <3>2. branch[at[u]] \subseteq Files
      <4>1. u \in Calls /\ result'[u] = IF branch[at[u]] \subseteq Files THEN "restored" ELSE "overtaken"
        BY <3>1 DEF TypeOK, Calls
      <4> QED BY <1>a, <4>1 DEF Clean, Results
    <3>3. Leaving(k) => Leaving(k)'
      BY <3>1 DEF Leaving, TypeOK, Undoing, Calls
    <3>4. ASSUME Arriving(k), k \notin branch[at[u]]
          PROVE  Arriving(k)'
      <4>1. CASE k \in Creates /\ phase[k] = "listing"
        BY <4>1, <3>1 DEF Arriving, TypeOK, Undoing, Calls
      <4>2. CASE \E v \in Undoing : phase[v] # "reading" /\ k \in branch[at[v]] \ left[v]
        <5>1. PICK v \in Undoing : phase[v] # "reading" /\ k \in branch[at[v]] \ left[v]
          BY <4>2
        <5>2. v # u
          BY <5>1, <3>4
        <5>3. v \in Undoing' /\ at'[v] = at[v] /\ phase'[v] = phase[v] /\ branch'[at[v]] = branch[at[v]]
          BY <5>2, <3>1, OthersUndo
        <5> QED BY <5>1, <5>2, <5>3, <3>1 DEF Arriving
      <4> QED BY <3>4, <4>1, <4>2 DEF Arriving
    <3> QED BY <3>1, <3>2, <3>3, <3>4 DEF Files
  <2>5. ASSUME NEW p \in Known, FindFree(u, p)
       PROVE  Goal'
    BY <2>5 DEF FindFree
  <2>6. ASSUME NEW p \in Known, RestorePage(u, p)
       PROVE  Goal'
    <3>1. /\ listed' = listed /\ file' = [file EXCEPT ![p] = trash[at[u]][p]]
          /\ gone' = [gone EXCEPT ![u] = {}]
          /\ phase' = [phase EXCEPT ![u] = "free"] /\ left' = [left EXCEPT ![u] = @ \ {p}]
          /\ at' = at /\ branch' = branch
          /\ u \in Undoing /\ phase[u] = "writing" /\ p \in gone[u]
      BY <2>6 DEF RestorePage, Put, Undoing
    <3>2. p \in branch[at[u]] /\ at[u] \in Deletes /\ phase[at[u]] = "done"
      BY <3>1 DEF ProgressInv, UndoInv, Undoing, Undone
    <3>3. Files' = Files \cup {p}
      BY <3>1, <3>2 DEF Files, CopiesInv, TypeOK
    <3>4. Leaving(k) => Leaving(k)'
      BY <3>1 DEF Leaving
    <3>5. Undoing' = Undoing
      BY <3>1 DEF Undoing
    <3>6. Arriving(p)'
      BY <3>1, <3>2, <3>5 DEF Arriving
    <3>7. Arriving(k) => Arriving(k)'
      BY <3>1, <3>5 DEF Arriving
    <3> QED BY <3>1, <3>3, <3>4, <3>6, <3>7
  <2> QED BY <1>2, <2>1, <2>2, <2>3, <2>4, <2>5, <2>6 DEF Undo
<1>3. ASSUME NEW c \in Creates, Create(c)
      PROVE  Goal'
  <2> USE DEF TypeOK, ProgressInv, UndoInv, Undoing, Undone, Files, Leaving, Arriving, Spoilt, Clean, Calls, Goto, Return, Forget, IsNext, LeftWithout, fileVars, listVars, callVars
  <2>1. CASE \E q \in Places : BeginCreate(c, q)
    BY <2>1 DEF BeginCreate
  <2>2. CASE WriteNew(c)
    <3>1. /\ listed' = listed /\ file' = [file EXCEPT ![c] = First]
          /\ phase' = [phase EXCEPT ![c] = "listing"] /\ phase[c] = "writing"
          /\ at' = at /\ branch' = branch /\ left' = left /\ gone' = gone
      BY <2>2 DEF WriteNew, Put
    <3>2. Files' = Files \cup {c}
      BY <3>1, ContentAssumption DEF Files, Known
    <3>3. (Leaving(k) => Leaving(k)') /\ Undoing' = Undoing
      BY <3>1 DEF Leaving, Undoing
    <3>4. Arriving(c)' /\ (Arriving(k) => Arriving(k)')
      BY <3>1, <3>3 DEF Arriving
    <3> QED BY <3>1, <3>2, <3>3, <3>4
  <2>3. CASE ListNew(c)
    <3>1. /\ listed' = listed \cup {c} /\ file' = file /\ c \in Files
          /\ phase' = [phase EXCEPT ![c] = "committing"]
          /\ at' = at /\ branch' = branch /\ left' = left /\ gone' = gone
      BY <2>3 DEF ListNew, ListedWith, LoadedInv, Known
    <3>2. (Leaving(k) => Leaving(k)') /\ Undoing' = Undoing
      BY <3>1 DEF Leaving, Undoing
    <3>3. Arriving(k) /\ k # c => Arriving(k)'
      BY <3>1, <3>2 DEF Arriving
    <3> QED BY <3>1, <3>2, <3>3 DEF Files
  <2>4. CASE CommitEntry(c)
    BY <2>4 DEF CommitEntry
  <2>5. CASE Rollback(c)
    BY <2>5 DEF Rollback, Put
  <2>6. CASE RemoveNew(c)
    BY <2>6 DEF RemoveNew, Put
  <2>7. CASE LeaveNew(c)
    BY <2>7 DEF LeaveNew
  <2> QED BY <1>3, <2>1, <2>2, <2>3, <2>4, <2>5, <2>6, <2>7 DEF Create
<1>4. ASSUME NEW s \in Saves, Save(s)
      PROVE  Goal'
  <2> USE DEF TypeOK, ProgressInv, UndoInv, Undoing, Undone, Files, Leaving, Arriving, Spoilt, Clean, Calls, Goto, Return, Forget, IsNext, LeftWithout, fileVars, listVars, callVars
  <2>1. CASE \E p \in Known : CheckSave(s, p)
    <3>1. /\ listed' = listed /\ file' = file /\ phase' = [phase EXCEPT ![s] = "queued"]
          /\ branch' = branch /\ left' = left /\ gone' = gone /\ \A u \in Undos : at'[u] = at[u]
      BY <2>1 DEF CheckSave
    <3>2. (Leaving(k) => Leaving(k)') /\ Undoing' = Undoing
      BY <3>1 DEF Leaving, Undoing
    <3>3. Arriving(k) => Arriving(k)'
      BY <3>1, <3>2 DEF Arriving, Undoing
    <3> QED BY <3>1, <3>2, <3>3 DEF Files
  <2>2. CASE WriteSave(s)
    <3>1. /\ listed' = listed /\ file' = [file EXCEPT ![at[s]] = s]
          /\ phase' = [phase EXCEPT ![s] = "done"]
          /\ result' = [result EXCEPT ![s] = IF at[s] \in Files THEN "saved" ELSE "revived"]
          /\ branch' = branch /\ left' = left /\ gone' = gone /\ \A u \in Undos : at'[u] = at[u]
      BY <2>2 DEF WriteSave, Put
    <3> HIDE DEF TypeOK, ProgressInv, UndoInv, Undoing, Undone, Files, Leaving, Arriving, Spoilt
    <3>2. at[s] \in Files
      <4>1. s \in Calls /\ result'[s] = IF at[s] \in Files THEN "saved" ELSE "revived"
        BY <3>1 DEF TypeOK, Calls
      <4> QED BY <1>a, <4>1 DEF Clean, Results
    <3>3. Files' = Files
      BY <3>1, <3>2 DEF Files
    <3>4. (Leaving(k) => Leaving(k)') /\ Undoing' = Undoing
      BY <3>1 DEF Leaving, Undoing, TypeOK, Calls
    <3>5. \A u \in Undoing : phase'[u] = phase[u] /\ at'[u] = at[u]
      BY <3>1 DEF Undoing, TypeOK, Calls
    <3>6. k \in Creates => phase'[k] = phase[k]
      BY <3>1 DEF TypeOK, Calls
    <3>7. Arriving(k) => Arriving(k)'
      BY <3>1, <3>4, <3>5, <3>6 DEF Arriving
    <3> QED BY <3>1, <3>3, <3>4, <3>7
  <2>3. CASE SaveFails(s)
    BY <2>3 DEF SaveFails
  <2> QED BY <1>4, <2>1, <2>2, <2>3 DEF Save
<1>5. CASE UNCHANGED vars
  BY <1>5 DEF vars, Undoing, Files, Leaving, Arriving, fileVars, listVars, callVars
<1> QED BY <1>1, <1>2, <1>3, <1>4, <1>5 DEF Next

\* The account of the list.
THEOREM AccountHolds == Spec => []AccountInv
<1>1. Init => UndoInv /\ ListInv
  <2> SUFFICES ASSUME Init PROVE UndoInv /\ ListInv
    OBVIOUS
  <2>1. Undoing = {} /\ Len(undoable) = 0
    BY DEF Init, Undoing, Calls
  <2>2. UndoInv
    BY <2>1 DEF UndoInv
  <2>3. listed = Files
    BY ContentAssumption DEF Init, Files, Known
  <2> QED BY <2>2, <2>3 DEF ListInv
<1> QED BY <1>1, InvariantHolds, UndoStep, ListStep, PTL DEF Spec, AccountInv

\* When no call is running, and none has failed half way or had its work undone,
\* the list holds the pages that have a file.
THEOREM ListIsTrue == Spec => []ListMatchesFiles
<1>1. AccountInv => ListMatchesFiles
  <2> SUFFICES ASSUME AccountInv, \A c \in Calls : phase[c] \in {"idle", "done"} /\ result[c] \in Clean
               PROVE  listed = Files
    BY DEF ListMatchesFiles
  <2>1. ~Spoilt
    BY DEF Spoilt
  <2>2. \A p \in Known : p \in listed <=> p \in Files
    BY <2>1 DEF AccountInv, ListInv, Leaving, Arriving, Undoing, Calls
  <2>3. listed \subseteq Known /\ Files \subseteq Known
    BY DEF AccountInv, LifecycleInv, TypeOK, Files
  <2> QED BY <2>2, <2>3
<1> QED BY <1>1, AccountHolds, PTL
=============================================================================
