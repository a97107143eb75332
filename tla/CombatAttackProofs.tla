------------------------ MODULE CombatAttackProofs ------------------------
(***************************************************************************)
(* Proofs about CombatAttack for every number of participants and every    *)
(* set of calls.                                                           *)
(***************************************************************************)
EXTENDS CombatAttack, SequenceTheorems, TLAPS

LEMMA MapIsNoParticipant == Map \notin Participants
BY CombatAssumption DEF Map, Participants

LEMMA InitInv == Init => CombatInv
<1> SUFFICES ASSUME Init PROVE CombatInv
  OBVIOUS
<1> USE CombatAssumption, CombatValuesAssumption, MapIsNoParticipant DEF Init
<1>1. TypeOK
  <2>1. StartOfSession \in MapState
    <3>1. 1 \in 1..MaxRound /\ 1 \in Participants
      BY DEF Participants
    <3> QED BY <3>1 DEF StartOfSession, MapState, Status
  <2>2. FullHealth \in Content
    BY DEF FullHealth, Content
  <2>3. /\ disk \in [Pages -> MapState \cup Content]
        /\ disk[Map] \in MapState /\ \A k \in Participants : disk[k] \in Content
    BY <2>1, <2>2 DEF Pages
  <2>4. PageTypes
    BY <2>3 DEF PageTypes, Pages, Option
  <2>5. MapTypes
    BY <2>3 DEF MapTypes
  <2>6. CallTypes
    BY DEF CallTypes, Option, Calls, Writers, Actions
  <2>7. StepTypes
    BY DEF StepTypes, Option, Phases
  <2> QED BY <2>4, <2>5, <2>6, <2>7 DEF TypeOK
<1>2. LinesInv /\ LogInv
  BY DEF LinesInv, MayBeIn, LogInv, Running, InTurn, InTask, Calls, Writers, Actions
<1>3. NotesInv /\ PlanInv
  BY DEF NotesInv, PlanInv, PlanOf, Noted, Prepared, FullHealth, Pages, Calls, Writers, Actions
<1>4. LandingInv /\ AtMostOneReversal
  BY DEF LandingInv, LandingOf, AtMostOneReversal, ReversalsOf, Calls, Writers, Actions
<1> QED BY <1>1, <1>2, <1>3, <1>4 DEF CombatInv

-----------------------------------------------------------------------------
LEMMA TurnsAreStates ==
  ASSUME TypeOK, NEW s \in Saves, NEW m \in LifecycleSteps(s) \cup TurnSteps
  PROVE  m \in MapState
<1> USE CombatAssumption DEF TypeOK, MapTypes
<1>0. model \in MapState /\ 1 \in 1..MaxRound /\ 1 \in Participants
  BY DEF Participants
<1>1. CASE m \in LifecycleSteps(s)
  <2>1. StartedBy(s) \in MapState
    BY <1>0 DEF StartedBy, MapState, Status
  <2>2. \A x \in Status : [model EXCEPT !.status = x] \in MapState
    BY <1>0 DEF MapState
  <2>3. [model EXCEPT !.session = None, !.status = "inactive", !.round = 1] \in MapState
    BY <1>0 DEF MapState, Status
  <2>4. model.status \in Status
    BY <1>0 DEF MapState
  <2> QED BY <1>1, <2>1, <2>2, <2>3, <2>4 DEF LifecycleSteps, Status
<1>2. CASE m \in TurnSteps
  <2>1. \A p \in Participants : [model EXCEPT !.turn = p] \in MapState
    BY <1>0 DEF MapState
  <2>2. \A r \in 1..MaxRound : [model EXCEPT !.turn = 1, !.round = r] \in MapState
    BY <1>0 DEF MapState
  <2>3. model.turn \in Participants
    BY <1>0 DEF MapState
  <2>4. model.turn < N => model.turn + 1 \in Participants
    BY <2>3 DEF Participants
  <2>5. [model EXCEPT !.turn = 1] \in MapState
    BY <1>0, <2>1
  <2>6. CASE m \in NextTurn
    <3>1. CASE model.turn < N
      <4>1. [model EXCEPT !.turn = model.turn + 1] \in MapState
        BY <2>1, <2>4, <3>1
      <4> QED BY <2>6, <3>1, <4>1 DEF NextTurn
    <3>2. CASE ~(model.turn < N)
      BY <2>2, <2>5, <2>6, <3>2 DEF NextTurn
    <3> QED BY <3>1, <3>2
  <2> QED BY <1>2, <2>1, <2>6 DEF TurnSteps, SelectedTurn
<1> QED BY <1>1, <1>2

LEMMA DamageIsHealth ==
  ASSUME NEW sheet \in Content
  PROVE  /\ Damaged(sheet) \in Content /\ Damaged(sheet).note = sheet.note
         /\ Damaged(sheet) # sheet => Damaged(sheet).hp = sheet.hp - 1
BY CombatAssumption DEF Damaged, Content

-----------------------------------------------------------------------------
\* The types, by the operators the actions are made of.
LEMMA SameTypes ==
  ASSUME TypeOK
  PROVE  /\ UNCHANGED pageVars => PageTypes'
         /\ UNCHANGED mapVars => MapTypes'
         /\ UNCHANGED callVars => CallTypes'
         /\ UNCHANGED <<turnLine, log, phase, result>> /\ restarts' \in 0..MaxRestarts => StepTypes'
BY DEF TypeOK, PageTypes, MapTypes, CallTypes, StepTypes, pageVars, mapVars, callVars

LEMMA GotoType ==
  ASSUME TypeOK, NEW c \in Calls, NEW p \in Phases, Goto(c, p), UNCHANGED <<log, restarts>>
  PROVE  turnLine' \in [Participants -> Seq(Actions)] => StepTypes'
BY DEF TypeOK, StepTypes, Goto

LEMMA OthersTurn ==
  ASSUME TypeOK, NEW c \in Calls, NEW r
  PROVE  NextInLine(c, r) \in [Participants -> Seq(Actions)]
<1>1. ASSUME NEW line \in Seq(Actions)
      PROVE  Without(line, c) \in Seq(Actions)
  BY HeadTailProperties DEF Without, IsHead
<1> QED BY <1>1 DEF TypeOK, StepTypes, NextInLine

LEMMA ReturnType ==
  ASSUME TypeOK, NEW c \in Calls, NEW r \in Results, Return(c, r), UNCHANGED restarts
  PROVE  /\ log' \subseteq Calls => StepTypes'
         /\ CallTypes'
<1>1. turnLine' \in [Participants -> Seq(Actions)]
  BY OthersTurn DEF Return
<1>2. ASSUME log' \subseteq Calls
      PROVE  StepTypes'
  BY <1>1, <1>2 DEF TypeOK, StepTypes, Return, Phases, Option
<1>3. CallTypes'
  <2> DEFINE forget(f) == [f EXCEPT ![c] = None]
  <2>0. CallTypes
    BY DEF TypeOK
  <2>1. /\ page' \in {page, forget(page)} /\ base' \in {base, forget(base)}
        /\ next' \in {next, forget(next)} /\ observed' = forget(observed)
        /\ asked' \in {asked, forget(asked)}
    BY DEF Return
  <2> HIDE DEF forget
  <2>3. asked' = [d \in Calls |-> asked'[d]]
    BY <2>0, <2>1 DEF CallTypes, forget
  <2>4. /\ page' \in [Calls -> Option(Pages)] /\ observed' \in [Calls -> Option(MapState)]
        /\ base' \in [Calls -> Option(MapState \cup Content)]
        /\ next' \in [Calls -> Option(MapState \cup Content)]
    <3>1. forget(page) \in [Calls -> Option(Pages)] /\ forget(observed) \in [Calls -> Option(MapState)]
      BY <2>0 DEF CallTypes, forget, Option
    <3>2. \A f \in {base, next} : forget(f) \in [Calls -> Option(MapState \cup Content)]
      BY <2>0 DEF CallTypes, forget, Option
    <3> QED BY <2>0, <2>1, <3>1, <3>2 DEF CallTypes
  <2>5. \A d \in Calls : base'[d] \in {base[d], None} /\ next'[d] \in {next[d], None}
    <3>1. \A f \in {base, next} : \A d \in Calls : forget(f)[d] \in {f[d], None}
      BY <2>0 DEF CallTypes, forget
    <3> QED BY <2>1, <3>1
  <2>6. \A d \in Saves : {base'[d], next'[d]} \subseteq Option(MapState)
    BY <2>0, <2>5 DEF CallTypes, Option, Calls
  <2>7. \A d \in Writers : {base'[d], next'[d]} \subseteq Option(Content)
    BY <2>0, <2>5 DEF CallTypes, Option, Calls
  <2> QED BY <2>3, <2>4, <2>6, <2>7 DEF CallTypes
<1> QED BY <1>2, <1>3

LEMMA LeaveLineType ==
  ASSUME TypeOK, NEW c \in Calls, IsWriting(c), LeaveLine(c)
  PROVE  writeLine' \in [Pages -> Seq(Calls)]
<1>1. CASE page[c] \in Pages
  <2>1. Tail(writeLine[page[c]]) \in Seq(Calls)
    BY <1>1, HeadTailProperties DEF TypeOK, PageTypes, IsWriting, IsHead
  <2> QED BY <2>1 DEF TypeOK, PageTypes, LeaveLine
<1>2. CASE page[c] \notin Pages
  BY <1>2 DEF TypeOK, PageTypes, LeaveLine
<1> QED BY <1>1, <1>2

LEMMA MapSaveType ==
  ASSUME TypeOK, NEW s \in Saves, NEW m \in MapState, NEW logs, BeginMapSave(s, m, logs)
  PROVE  TypeOK'
<1> USE CombatAssumption DEF BeginMapSave
<1>1. s \in Calls /\ Map \in Pages /\ "precondition" \in Phases /\ s \notin Writers
  BY DEF Calls, Pages, Phases, Writers, Actions
<1>2. StepTypes'
  BY <1>1, GotoType DEF TypeOK, StepTypes
<1>3. MapTypes'
  BY DEF TypeOK, MapTypes
<1>4. CallTypes'
  <2>1. runtime[Map] \in MapState
    BY DEF TypeOK, PageTypes
  <2> QED BY <1>1, <2>1 DEF TypeOK, CallTypes, Option
<1>5. PageTypes'
  BY <1>1 DEF TypeOK, PageTypes, Option
<1> QED BY <1>2, <1>3, <1>4, <1>5 DEF TypeOK

LEMMA RunningPage ==
  ASSUME LinesInv, NEW c \in Calls, Running(c)
  PROVE  /\ page[c] \in Pages
         /\ c \in Writers => page[c] \in Participants
         /\ c \in Saves => page[c] = Map
BY CombatAssumption DEF LinesInv, MayWrite, Pages, Calls, Writers, Actions

LEMMA SetTypes ==
  ASSUME TypeOK, NEW c \in Writers, NEW from \in Content, NEW to \in Content,
         base' = [base EXCEPT ![c] = from], next' = [next EXCEPT ![c] = to],
         page' \in [Calls -> Option(Pages)], UNCHANGED <<asked, observed>>
  PROVE  CallTypes'
<1>0. CallTypes /\ c \in Calls /\ c \notin Saves
  BY CombatAssumption DEF TypeOK, Calls, Writers, Actions
<1>1. /\ base' \in [Calls -> Option(MapState \cup Content)]
      /\ next' \in [Calls -> Option(MapState \cup Content)]
  BY <1>0 DEF CallTypes, Option
<1>2. \A d \in Saves : base'[d] = base[d] /\ next'[d] = next[d]
  BY <1>0 DEF CallTypes, Calls
<1>3. \A d \in Writers : base'[d] \in {base[d], from} /\ next'[d] \in {next[d], to}
  BY <1>0 DEF CallTypes, Calls
<1>4. \A d \in Writers : {base'[d], next'[d]} \subseteq Option(Content)
  BY <1>0, <1>3 DEF CallTypes, Option
<1> QED BY <1>0, <1>1, <1>2, <1>4 DEF CallTypes

\* base and next are what a call's page can hold.
LEMMA StartWriteType ==
  ASSUME TypeOK, NEW c \in Writers, NEW k \in Participants, NEW from \in Content,
         NEW to \in Content, StartWrite(c, k, from, to),
         UNCHANGED <<turnLine, log, restarts, asked, observed>>, page' \in [Calls -> Option(Pages)]
  PROVE  PageTypes' /\ CallTypes' /\ StepTypes'
<1> USE CombatAssumption DEF StartWrite
<1>1. c \in Calls /\ k \in Pages /\ "precondition" \in Phases /\ c \notin Saves
  BY DEF Calls, Pages, Phases, Writers, Actions
<1>2. StepTypes'
  BY <1>1, GotoType DEF TypeOK, StepTypes
<1>3. CallTypes'
  BY <1>1, SetTypes
<1>4. PageTypes'
  BY <1>1 DEF TypeOK, PageTypes, Option
<1> QED BY <1>2, <1>3, <1>4

LEMMA LandingType ==
  ASSUME TypeOK, LinesInv, NEW c \in Calls, Running(c), base[c] # None, next[c] # None
  PROVE  /\ base[c] \in MapState \cup Content /\ next[c] \in MapState \cup Content
         /\ page[c] = Map => base[c] \in MapState /\ next[c] \in MapState
         /\ page[c] \in Participants => base[c] \in Content /\ next[c] \in Content
         /\ page[c] \in Pages
BY CombatAssumption, MapIsNoParticipant DEF TypeOK, CallTypes, LinesInv, MayWrite, Calls,
    Writers, Option, Pages


LEMMA PutType ==
  ASSUME TypeOK, LinesInv, NEW c \in Calls, Running(c), base[c] # None, next[c] # None,
         PutOnDisk(c)
  PROVE  /\ disk' \in [Pages -> MapState \cup Content] /\ disk'[Map] \in MapState
         /\ \A k \in Participants : disk'[k] \in Content
         /\ landed' \subseteq Calls
<1>1. Map \in Pages /\ Participants \subseteq Pages
  BY DEF Pages
<1> QED BY <1>1, LandingType DEF TypeOK, PageTypes, PutOnDisk

LEMMA ThrowType ==
  ASSUME TypeOK, LinesInv, NEW c \in Calls, Running(c), IsWriting(c), base[c] # None,
         next[c] # None, Throw(c)
  PROVE  /\ runtime' \in [Pages -> MapState \cup Content] /\ runtime'[Map] \in MapState
         /\ \A k \in Participants : runtime'[k] \in Content
         /\ writeLine' \in [Pages -> Seq(Calls)]
         /\ UNCHANGED <<newest, accepted>> /\ CallTypes' /\ StepTypes'
<1>1. Map \in Pages /\ Participants \subseteq Pages
  BY DEF Pages
<1>2. /\ runtime' \in [Pages -> MapState \cup Content] /\ runtime'[Map] \in MapState
      /\ \A k \in Participants : runtime'[k] \in Content
  BY <1>1, LandingType DEF TypeOK, PageTypes, Throw
<1>3. CallTypes' /\ StepTypes'
  <2>1. CASE c \in Writers
    BY <2>1, SameTypes, GotoType DEF Throw, AfterThrow, Phases, TypeOK, StepTypes
  <2>2. CASE c \notin Writers
    BY <2>2, ReturnType DEF Throw, AfterThrow, Results, TypeOK, StepTypes
  <2> QED BY <2>1, <2>2
<1> QED BY <1>2, <1>3, LeaveLineType DEF Throw


LEMMA TypeStep == CombatInv /\ [Next]_vars => TypeOK'
<1> SUFFICES ASSUME CombatInv, [Next]_vars PROVE TypeOK'
  OBVIOUS
<1>0. TypeOK /\ LinesInv /\ LogInv /\ PlanInv
  BY DEF CombatInv
<1> USE <1>0 DEF TypeOK, StepTypes
<1>1. ASSUME NEW c \in Calls, Progress(c)
      PROVE  TypeOK'
  <2>1. CASE Refuse(c)
    BY CombatAssumption, SameTypes, ReturnType, <2>1 DEF Refuse, Awaiting, Results
  <2>2. CASE Observe(c)
    <3>1. c \in Attacks /\ page[c] \in Participants /\ c \in Actions
      BY <2>2, RunningPage DEF Observe, LinesInv, MayBeIn, Running, Writers, Actions
    <3>2. turnLine' \in [Participants -> Seq(Actions)]
      BY <2>2, <3>1, AppendProperties DEF Observe
    <3>3. CallTypes'
      BY <2>2, <3>1 DEF Observe, CallTypes, MapTypes, Option
    <3> QED BY <2>2, <3>2, <3>3, SameTypes, GotoType DEF Observe, Stay, Phases
  <2>3. CASE EnterAttack(c)
    BY CombatAssumption, SameTypes, GotoType, <2>3 DEF EnterAttack, Phases, Stay, CallTypes
  <2>4. CASE CheckMap(c)
    BY CombatAssumption, SameTypes, GotoType, <2>4 DEF CheckMap, Phases, Stay
  <2>5. CASE Roll(c)
    <3>1. c \in Attacks /\ page[c] \in Participants /\ c \in Writers
      BY <2>5, RunningPage DEF Roll, LinesInv, MayBeIn, Running, Writers, Actions
    <3>2. PICK sheet, outcome \in Content :
            base' = [base EXCEPT ![c] = sheet] /\ next' = [next EXCEPT ![c] = outcome]
      <4>1. runtime[page[c]] \in Content
        BY <3>1 DEF PageTypes
      <4> QED BY <2>5, <4>1, DamageIsHealth DEF Roll
    <3>3. CallTypes'
      <4>1. page' \in [Calls -> Option(Pages)] /\ UNCHANGED <<asked, observed>>
        BY <2>5 DEF Roll, CallTypes
      <4> QED BY <3>1, <3>2, <4>1, SetTypes
    <3> QED BY <2>5, <3>3, SameTypes, GotoType DEF Roll, Stay, Phases
  <2>6. CASE Commit(c)
    <3>1. c \in Attacks /\ page[c] \in Participants /\ c \in Writers
      BY <2>6, RunningPage DEF Commit, LinesInv, MayBeIn, Running, Writers, Actions
    <3>2. CASE next[c] = base[c]
      BY <2>6, <3>2, SameTypes, GotoType DEF Commit, Phases
    <3>3. CASE next[c] # base[c]
      <4>1. base[c] \in Content /\ next[c] \in Content
        BY <3>1, <3>3 DEF CallTypes, PlanInv, PlanOf, Option, Calls
      <4> QED BY <2>6, <3>1, <3>3, <4>1, SameTypes, StartWriteType DEF Commit, CallTypes
    <3> QED BY <3>2, <3>3
  <2>7. CASE Classify(c)
    BY CombatAssumption, SameTypes, GotoType, <2>7 DEF Classify, Phases, Stay, CallTypes
  <2>8. CASE Prepare(c)
    <3>1. c \in Undos /\ c \in Writers /\ page[c] \in Participants /\ asked[c] \in Attacks
      BY <2>8, RunningPage DEF Prepare, LinesInv, MayBeIn, LogInv, Running, Writers, Actions
    <3>2. runtime[page[c]] \in Content /\ base[asked[c]] \in Content
      <4>1. base[asked[c]] # None
        <5>1. next[asked[c]] # base[asked[c]]
          BY <2>8, <3>1 DEF Prepare, LogInv, InTurn, Reversible
        <5> QED BY <3>1, <5>1 DEF PlanInv, PlanOf, Calls, Writers, Actions
      <4> QED BY <3>1, <4>1 DEF PageTypes, CallTypes, Option, Writers, Actions
    <3>3. [runtime[page[c]] EXCEPT !.hp = base[asked[c]].hp] \in Content
      BY <3>2 DEF Content
    <3> QED BY <2>8, <3>1, <3>2, <3>3, SameTypes, StartWriteType DEF Prepare, CallTypes
  <2>9. CASE MeetPrecondition(c)
    <3>1. page[c] \in Pages
      BY <2>9, RunningPage DEF MeetPrecondition, Running
    <3>2. writeLine' \in [Pages -> Seq(Calls)] /\ accepted' \in [Pages -> Option(Calls)]
      BY <2>9, <3>1, AppendProperties DEF MeetPrecondition, PageTypes, Option
    <3>3. PageTypes'
      BY <2>9, <3>2 DEF MeetPrecondition, PageTypes
    <3> QED BY <2>9, <3>3, SameTypes, GotoType DEF MeetPrecondition, Phases
  <2>10. CASE StartTask(c)
    BY CombatAssumption, SameTypes, GotoType, <2>10 DEF StartTask, Phases
  <2>11. CASE Validate(c)
    BY CombatAssumption, SameTypes, GotoType, <2>11 DEF Validate, Phases
  <2>12. CASE EnterWrite(c)
    BY CombatAssumption, SameTypes, GotoType, <2>12 DEF EnterWrite, Phases
  <2>13. CASE LeaveQueue(c)
    <3>1. IsWriting(c)
      BY <2>13 DEF LeaveQueue, LinesInv, InTask
    <3>2. PageTypes'
      BY <2>13, <3>1, LeaveLineType DEF LeaveQueue, PageTypes
    <3> QED BY <2>13, <3>2, SameTypes, ReturnType DEF LeaveQueue, Results
  <2>14. CASE ValidationThrows(c)
    <3>1. IsWriting(c) /\ Running(c) /\ base[c] # None /\ next[c] # None
      BY <2>14 DEF ValidationThrows, LinesInv, InTask, Running, PlanInv, PlanOf, Prepared
    <3>2. PageTypes'
      BY <2>14, <3>1, ThrowType DEF ValidationThrows, PageTypes
    <3> QED BY <2>14, <3>1, <3>2, ThrowType, SameTypes DEF ValidationThrows, Throw
  <2>15. CASE WriteLands(c)
    <3>1. Running(c) /\ base[c] # None /\ next[c] # None
      BY <2>15 DEF WriteLands, Running, PlanInv, PlanOf, Prepared
    <3>2. PageTypes'
      BY <2>15, <3>1, PutType DEF WriteLands, PageTypes
    <3> QED BY <2>15, <3>2, SameTypes, GotoType DEF WriteLands, Phases
  <2>16. CASE WriteThrows(c)
    <3>1. IsWriting(c) /\ Running(c) /\ base[c] # None /\ next[c] # None
      BY <2>16 DEF WriteThrows, LinesInv, InTask, Running, PlanInv, PlanOf, Prepared
    <3>2. PageTypes'
      BY <2>16, <3>1, ThrowType, PutType DEF WriteThrows, PageTypes
    <3> QED BY <2>16, <3>1, <3>2, ThrowType, SameTypes DEF WriteThrows, Throw
  <2>17. CASE InquireAfterThrow(c)
    <3>1. PICK r \in {FoundAfterThrow(c), "uncertain"} : Return(c, r)
      BY <2>17 DEF InquireAfterThrow
    <3>2. r \in Results
      BY DEF FoundAfterThrow, Results
    <3> QED BY <2>17, <3>1, <3>2, SameTypes, ReturnType DEF InquireAfterThrow
  <2>18. CASE WriteSaved(c)
    <3>1. IsWriting(c) /\ Running(c) /\ base[c] # None /\ next[c] # None
      BY <2>18 DEF WriteSaved, LinesInv, InTask, Running, PlanInv, PlanOf, Prepared
    <3>2. PageTypes'
      BY <2>18, <3>1, LandingType, LeaveLineType DEF WriteSaved, PageTypes, Pages
    <3> QED BY <2>18, <3>2, SameTypes, GotoType DEF WriteSaved, Phases
  <2>19. CASE WriteUncertain(c)
    <3>1. IsWriting(c)
      BY <2>19 DEF WriteUncertain, LinesInv, InTask
    <3>2. PageTypes'
      BY <2>19, <3>1, LeaveLineType DEF WriteUncertain, PageTypes
    <3> QED BY <2>19, <3>2, SameTypes, ReturnType DEF WriteUncertain, Results
  <2>20. CASE VerifyHealth(c)
    BY CombatAssumption, SameTypes, GotoType, ReturnType, <2>20 DEF VerifyHealth, Phases, Results
  <2>21. CASE AppendTransaction(c)
    BY CombatAssumption, SameTypes, ReturnType, <2>21 DEF AppendTransaction, Results
  <2>22. CASE NothingToLog(c)
    BY CombatAssumption, SameTypes, ReturnType, <2>22 DEF NothingToLog, Results
  <2> QED
    BY <1>1, <2>1, <2>2, <2>3, <2>4, <2>5, <2>6, <2>7, <2>8, <2>9, <2>10, <2>11, <2>12, <2>13,
        <2>14, <2>15, <2>16, <2>17, <2>18, <2>19, <2>20, <2>21, <2>22 DEF Progress
<1>2. ASSUME NEW a \in Attacks, NEW p \in Participants, BeginAttack(a, p)
      PROVE  TypeOK'
  <2>1. a \in Calls /\ p \in Pages
    BY DEF Calls, Writers, Actions, Pages
  <2>2. CallTypes'
    BY <1>2, <2>1 DEF BeginAttack, CallTypes, Option
  <2> QED BY <1>2, <2>1, <2>2, SameTypes, GotoType DEF BeginAttack, Stay, Phases
<1>3. ASSUME NEW u \in Undos, NEW a \in Attacks, BeginUndo(u, a)
      PROVE  TypeOK'
  <2>1. u \in Calls /\ u \in Actions /\ page[a] \in Participants /\ page[a] \in Pages
    BY <1>3 DEF BeginUndo, LogInv, Calls, Writers, Actions, Pages
  <2>2. CallTypes'
    BY <1>3, <2>1 DEF BeginUndo, CallTypes, Option
  <2>3. turnLine' \in [Participants -> Seq(Actions)]
    BY <1>3, <2>1, AppendProperties DEF BeginUndo
  <2> QED BY <1>3, <2>1, <2>2, <2>3, SameTypes, GotoType DEF BeginUndo, Stay, Phases
<1>4. ASSUME NEW e \in Edits, NEW p \in Participants, NEW h \in 0..MaxHp, Edit(e, p, h)
      PROVE  TypeOK'
  <2>1. e \in Writers /\ e \in Calls /\ p \in Pages
    BY DEF Calls, Writers, Pages
  <2>2. runtime[p] \in Content /\ [hp |-> h, note |-> e] \in Content
    BY DEF PageTypes, Content
  <2>3. page' \in [Calls -> Option(Pages)]
    BY <1>4, <2>1 DEF Edit, CallTypes, Option
  <2> QED BY <1>4, <2>1, <2>2, <2>3, SameTypes, StartWriteType DEF Edit
<1>5. ASSUME NEW s \in Saves, UseTurnControl(s)
      PROVE  TypeOK'
  BY CombatAssumption, TurnsAreStates, MapSaveType, <1>5 DEF UseTurnControl
<1>6. ASSUME NEW s \in Saves, DropToken(s)
      PROVE  TypeOK'
  BY CombatAssumption, MapSaveType, <1>6 DEF DropToken, MapTypes
<1>7. CASE DragToken
  BY CombatAssumption, SameTypes, <1>7 DEF DragToken, MapTypes, MapState
<1>8. CASE Restart
  <2> DEFINE running == {c \in Calls : phase[c] \notin {"idle", "done"}}
              forget(f, kept) == [c \in Calls |-> IF c \in running \ kept THEN None ELSE f[c]]
  <2>1. PageTypes'
    BY <1>8 DEF Restart, PageTypes, Option
  <2>2. MapTypes'
    BY <1>8 DEF Restart, PageTypes, MapTypes
  <2>3. CallTypes'
    <3>1. /\ page' = forget(page, {}) /\ base' = forget(base, {}) /\ next' = forget(next, {})
          /\ observed' = forget(observed, {}) /\ asked' = forget(asked, Undos)
      BY <1>8 DEF Restart
    <3>2. asked' = [c \in Calls |-> asked'[c]]
      BY <3>1
    <3>3. \A c \in Calls : base'[c] \in {base[c], None} /\ next'[c] \in {next[c], None}
      BY <3>1
    <3>4. /\ page' \in [Calls -> Option(Pages)] /\ observed' \in [Calls -> Option(MapState)]
          /\ base' \in [Calls -> Option(MapState \cup Content)]
          /\ next' \in [Calls -> Option(MapState \cup Content)]
      BY <3>1 DEF CallTypes, Option
    <3>5. \A c \in Saves : {base'[c], next'[c]} \subseteq Option(MapState)
      BY <3>3 DEF CallTypes, Option, Calls
    <3>6. \A c \in Writers : {base'[c], next'[c]} \subseteq Option(Content)
      BY <3>3 DEF CallTypes, Option, Calls
    <3> QED BY <3>2, <3>4, <3>5, <3>6 DEF CallTypes
  <2>4. StepTypes'
    <3>1. phase' \in [Calls -> Phases] /\ result' \in [Calls -> Option(Results)]
      BY <1>8 DEF Restart, StepTypes, Phases, Results, Option
    <3>2. turnLine' \in [Participants -> Seq(Actions)] /\ log' \subseteq Calls
      BY <1>8 DEF Restart, StepTypes
    <3>3. restarts' \in 0..MaxRestarts
      BY <1>8, CombatAssumption DEF Restart, StepTypes
    <3> QED BY <3>1, <3>2, <3>3 DEF StepTypes
  <2> QED BY <2>1, <2>2, <2>3, <2>4
<1>9. CASE UNCHANGED vars
  BY <1>9, SameTypes DEF vars
<1> QED BY <1>1, <1>2, <1>3, <1>4, <1>5, <1>6, <1>7, <1>8, <1>9 DEF Next
-----------------------------------------------------------------------------
(***************************************************************************)
(* The lines: one call moves, the others stay where they are.              *)
(***************************************************************************)
LEMMA AppendKeepsHead ==
  ASSUME NEW S, NEW line \in Seq(S), NEW x \in S, NEW c, IsHead(line, c)
  PROVE  IsHead(Append(line, x), c)
BY AppendProperties DEF IsHead

LEMMA OneMoves ==
  ASSUME LinesInv, NEW c \in Calls,
         \A d \in Calls \ {c} :
           phase'[d] = phase[d] /\ result'[d] = result[d] /\ page'[d] = page[d],
         \A k \in Participants, d \in Calls \ {c} :
           IsHead(turnLine[k], d) => IsHead(turnLine'[k], d),
         \A k \in Pages, d \in Calls \ {c} :
           IsHead(writeLine[k], d) => IsHead(writeLine'[k], d),
         MayBeIn(c, phase'[c]),
         phase'[c] # "done" => result'[c] = None,
         phase'[c] \notin {"idle", "done"} => page'[c] \in MayWrite(c),
         c \in Actions /\ phase'[c] \in InTurn => IsHead(turnLine'[page'[c]], c),
         phase'[c] \in InTask => IsHead(writeLine'[page'[c]], c)
  PROVE  LinesInv'
<1>1. \A d \in Calls : MayBeIn(d, phase'[d])
  BY DEF LinesInv
<1>2. \A d \in Calls :
        /\ phase'[d] # "done" => result'[d] = None
        /\ phase'[d] \notin {"idle", "done"} => page'[d] \in MayWrite(d)
  BY DEF LinesInv, Running
<1>3. ASSUME NEW d \in Actions, phase'[d] \in InTurn
      PROVE  IsHead(turnLine'[page'[d]], d)
  <2>1. CASE d # c
    <3>1. d \in Calls /\ IsHead(turnLine[page[d]], d) /\ page[d] \in Participants
      BY <1>3, <2>1, CombatAssumption DEF LinesInv, Running, InTurn, MayWrite, Calls, Writers,
          Actions
    <3> QED BY <2>1, <3>1
  <2> QED BY <1>3, <2>1
<1>4. ASSUME NEW d \in Calls, phase'[d] \in InTask
      PROVE  IsHead(writeLine'[page'[d]], d)
  <2>1. CASE d # c
    <3>1. IsHead(writeLine[page[d]], d) /\ page[d] \in Pages
      BY <1>4, <2>1 DEF LinesInv, Running, InTask, IsWriting, MayWrite, Pages
    <3> QED BY <2>1, <3>1
  <2> QED BY <1>4, <2>1
<1> QED BY <1>1, <1>2, <1>3, <1>4 DEF LinesInv, Running, IsWriting, MayWrite

\* Who leaves a line is its head: no other call was.
LEMMA LeavingKeepsHeads ==
  ASSUME TypeOK, NEW c \in Calls, IsWriting(c), LeaveLine(c)
  PROVE  \A k \in Pages, d \in Calls \ {c} :
           IsHead(writeLine[k], d) => IsHead(writeLine'[k], d)
BY DEF TypeOK, PageTypes, IsWriting, IsHead, LeaveLine

\* A call goes on, and may leave its page's line.
LEMMA GotoLines ==
  ASSUME LinesInv, TypeOK, NEW c \in Calls, NEW p \in Phases, Goto(c, p), Running(c),
         UNCHANGED <<page, turnLine>>, MayBeIn(c, p),
         UNCHANGED writeLine \/ (p \notin InTask /\ IsWriting(c) /\ LeaveLine(c)),
         p \in InTurn /\ c \in Actions => phase[c] \in InTurn \/ IsHead(turnLine[page[c]], c),
         p \in InTask => phase[c] \in InTask \/ IsWriting(c)
  PROVE  LinesInv'
<1>1. /\ \A d \in Calls \ {c} : phase'[d] = phase[d]
      /\ phase'[c] = p /\ result' = result
  BY DEF Goto, TypeOK, StepTypes
<1>2. result[c] = None /\ page[c] \in MayWrite(c)
  BY DEF LinesInv, Running
<1>3. c \in Actions /\ p \in InTurn => IsHead(turnLine[page[c]], c)
  BY DEF LinesInv
<1>4. p \in InTask => IsHead(writeLine[page[c]], c)
  BY DEF LinesInv, IsWriting
<1>5. \A k \in Pages, d \in Calls \ {c} :
        IsHead(writeLine[k], d) => IsHead(writeLine'[k], d)
  BY LeavingKeepsHeads
<1> QED BY <1>1, <1>2, <1>3, <1>4, <1>5, OneMoves

LEMMA ReturnLines ==
  ASSUME LinesInv, TypeOK, NEW c \in Calls, NEW r, Return(c, r),
         UNCHANGED writeLine \/ (IsWriting(c) /\ LeaveLine(c))
  PROVE  LinesInv'
<1>1. /\ \A d \in Calls \ {c} : phase'[d] = phase[d] /\ result'[d] = result[d]
      /\ phase'[c] = "done"
  BY DEF Return, TypeOK, StepTypes
<1>2. \A d \in Calls \ {c} : page'[d] = page[d]
  BY DEF Return, TypeOK, CallTypes
<1>3. \A k \in Participants, d \in Calls \ {c} :
        IsHead(turnLine[k], d) => IsHead(turnLine'[k], d)
  BY DEF Return, NextInLine, Without, IsHead, TypeOK, StepTypes
<1>4. \A k \in Pages, d \in Calls \ {c} :
        IsHead(writeLine[k], d) => IsHead(writeLine'[k], d)
  BY LeavingKeepsHeads
<1> QED BY <1>1, <1>2, <1>3, <1>4, OneMoves DEF MayBeIn, InTurn, InTask

\* A call joins the end of a target's line.
LEMMA JoinKeepsHeads ==
  ASSUME TypeOK, NEW k \in Participants, NEW c \in Actions,
         turnLine' = [turnLine EXCEPT ![k] = Append(@, c)]
  PROVE  \A l \in Participants : \A d : IsHead(turnLine[l], d) => IsHead(turnLine'[l], d)
<1> SUFFICES ASSUME NEW l \in Participants, NEW d, IsHead(turnLine[l], d)
             PROVE  IsHead(turnLine'[l], d)
  OBVIOUS
<1>1. turnLine[l] \in Seq(Actions)
  BY DEF TypeOK, StepTypes
<1>2. IsHead(Append(turnLine[l], c), d)
  BY <1>1, AppendKeepsHead
<1> QED BY <1>2 DEF TypeOK, StepTypes

LEMMA ThrowLines ==
  ASSUME LinesInv, TypeOK, NEW c \in Calls, Running(c), IsWriting(c), Throw(c),
         phase[c] \in InTurn
  PROVE  LinesInv'
<1>1. CASE c \in Writers
  <2>1. UNCHANGED <<page, turnLine>> /\ "failed" \in Phases /\ "failed" \notin InTask
    BY <1>1 DEF Throw, AfterThrow, callVars, Phases, InTask
  <2> QED BY <1>1, <2>1, GotoLines DEF Throw, AfterThrow, MayBeIn
<1>2. CASE c \notin Writers
  BY <1>2, ReturnLines DEF Throw, AfterThrow
<1> QED BY <1>1, <1>2

LEMMA MapSaveLines ==
  ASSUME LinesInv, TypeOK, NEW s \in Saves, NEW m, NEW logs, BeginMapSave(s, m, logs)
  PROVE  LinesInv'
<1>1. s \in Calls /\ s \notin Actions
  BY CombatAssumption DEF Calls, Writers, Actions
<1>2. /\ \A d \in Calls \ {s} : phase'[d] = phase[d] /\ page'[d] = page[d]
      /\ phase'[s] = "precondition" /\ result' = result /\ page'[s] = Map
      /\ UNCHANGED <<turnLine, writeLine>>
  BY <1>1 DEF BeginMapSave, Goto, TypeOK, StepTypes, CallTypes
<1>3. result[s] = None
  BY <1>1 DEF BeginMapSave, LinesInv
<1>4. LinesInv'
  BY <1>1, <1>2, <1>3, OneMoves DEF MayBeIn, MayWrite, InTurn, InTask
<1> QED BY <1>4

LEMMA LinesStep == CombatInv /\ [Next]_vars => LinesInv'
<1> SUFFICES ASSUME CombatInv, [Next]_vars PROVE LinesInv'
  OBVIOUS
<1>0. TypeOK /\ LinesInv /\ LogInv
  BY DEF CombatInv
<1> USE <1>0 DEF Calls, Writers, Actions
<1>1. ASSUME NEW c \in Calls, Progress(c)
      PROVE  LinesInv'
  <2>1. CASE Refuse(c)
    BY CombatAssumption, ReturnLines, <2>1 DEF Refuse, Awaiting, pageVars
  <2>2. CASE Observe(c)
    <3>1. c \in Attacks /\ page[c] \in Participants /\ page' = page /\ writeLine' = writeLine
      BY <2>2, RunningPage DEF Observe, LinesInv, MayBeIn, Running, Stay, pageVars
    <3>2. \A k \in Participants : \A d : IsHead(turnLine[k], d) => IsHead(turnLine'[k], d)
      BY <2>2, <3>1, JoinKeepsHeads DEF Observe
    <3>3. /\ \A d \in Calls \ {c} : phase'[d] = phase[d]
          /\ phase'[c] = "lined" /\ result' = result /\ result[c] = None
      BY <2>2 DEF Observe, Goto, TypeOK, StepTypes, LinesInv, Running
    <3>4. LinesInv'
      BY <3>1, <3>2, <3>3, CombatAssumption, OneMoves DEF MayBeIn, MayWrite, InTurn, InTask
    <3> QED BY <3>4
  <2>3. CASE EnterAttack(c)
    BY CombatAssumption, GotoLines, <2>3 DEF EnterAttack, Phases, InTurn, InTask, MayBeIn,
        Running, pageVars, callVars, LinesInv, Stay
  <2>4. CASE CheckMap(c)
    BY CombatAssumption, GotoLines, <2>4 DEF CheckMap, Phases, InTurn, InTask, MayBeIn, Running,
        pageVars, callVars, LinesInv, Stay
  <2>5. CASE Roll(c)
    BY CombatAssumption, GotoLines, <2>5 DEF Roll, Phases, InTurn, InTask, MayBeIn, Running,
        pageVars, callVars, LinesInv, Stay
  <2>6. CASE Commit(c)
    BY CombatAssumption, GotoLines, <2>6 DEF Commit, StartWrite, Phases, InTurn, InTask,
        MayBeIn, Running, pageVars, callVars, LinesInv
  <2>7. CASE Classify(c)
    BY CombatAssumption, GotoLines, <2>7 DEF Classify, Phases, InTurn, InTask, MayBeIn, Running,
        pageVars, callVars, LinesInv, Stay
  <2>8. CASE Prepare(c)
    BY CombatAssumption, GotoLines, <2>8 DEF Prepare, StartWrite, Phases, InTurn, InTask,
        MayBeIn, Running, pageVars, callVars, LinesInv
  <2>9. CASE MeetPrecondition(c)
    <3>1. page[c] \in Pages /\ page' = page /\ turnLine' = turnLine
      BY <2>9, RunningPage DEF MeetPrecondition, Running, callVars
    <3>2. ASSUME NEW k \in Pages, NEW d, IsHead(writeLine[k], d)
          PROVE  IsHead(writeLine'[k], d)
      <4>1. writeLine[k] \in Seq(Calls)
        BY DEF TypeOK, PageTypes
      <4>2. IsHead(Append(writeLine[k], c), d)
        BY <3>2, <4>1, AppendKeepsHead
      <4> QED BY <2>9, <3>2, <4>2 DEF MeetPrecondition, TypeOK, PageTypes
    <3>3. /\ \A d \in Calls \ {c} : phase'[d] = phase[d]
          /\ phase'[c] = "queued" /\ result' = result /\ result[c] = None
      BY <2>9 DEF MeetPrecondition, Goto, TypeOK, StepTypes, LinesInv, Running
    <3>4. page[c] \in MayWrite(c) /\ (c \in Actions => IsHead(turnLine[page[c]], c))
      BY <2>9 DEF MeetPrecondition, LinesInv, Running, InTurn
    <3>5. LinesInv'
      BY <3>1, <3>2, <3>3, <3>4, OneMoves DEF MayBeIn, InTask
    <3> QED BY <3>5
  <2>10. CASE StartTask(c)
    BY CombatAssumption, GotoLines, <2>10 DEF StartTask, Phases, InTurn, InTask, MayBeIn,
        Running, pageVars, callVars, LinesInv
  <2>11. CASE Validate(c)
    BY CombatAssumption, GotoLines, <2>11 DEF Validate, Phases, InTurn, InTask, MayBeIn,
        Running, pageVars, callVars, LinesInv
  <2>12. CASE EnterWrite(c)
    BY CombatAssumption, GotoLines, <2>12 DEF EnterWrite, Phases, InTurn, InTask, MayBeIn,
        Running, pageVars, callVars, LinesInv
  <2>13. CASE LeaveQueue(c)
    BY CombatAssumption, ReturnLines, <2>13 DEF LeaveQueue, LinesInv, InTask
  <2>14. CASE ValidationThrows(c)
    <3>1. IsWriting(c)
      BY <2>14 DEF ValidationThrows, LinesInv, InTask
    <3> QED BY <2>14, <3>1, ThrowLines DEF ValidationThrows, Running, InTurn
  <2>15. CASE WriteLands(c)
    BY CombatAssumption, GotoLines, <2>15 DEF WriteLands, Phases, InTurn, InTask, MayBeIn,
        Running, callVars, LinesInv
  <2>16. CASE WriteThrows(c)
    <3>1. IsWriting(c)
      BY <2>16 DEF WriteThrows, LinesInv, InTask
    <3> QED BY <2>16, <3>1, ThrowLines DEF WriteThrows, Running, InTurn
  <2>17. CASE InquireAfterThrow(c)
    BY CombatAssumption, ReturnLines, <2>17 DEF InquireAfterThrow, pageVars
  <2>18. CASE WriteSaved(c)
    BY CombatAssumption, GotoLines, <2>18 DEF WriteSaved, Phases, InTurn, InTask, MayBeIn,
        Running, callVars, LinesInv
  <2>19. CASE WriteUncertain(c)
    BY CombatAssumption, ReturnLines, <2>19 DEF WriteUncertain, LinesInv, InTask
  <2>20. CASE VerifyHealth(c)
    BY CombatAssumption, GotoLines, ReturnLines, <2>20 DEF VerifyHealth, Phases, InTurn, InTask,
        MayBeIn, Running, pageVars, callVars, LinesInv
  <2>21. CASE AppendTransaction(c)
    BY CombatAssumption, ReturnLines, <2>21 DEF AppendTransaction, pageVars
  <2>22. CASE NothingToLog(c)
    BY CombatAssumption, ReturnLines, <2>22 DEF NothingToLog, pageVars
  <2> QED
    BY <1>1, <2>1, <2>2, <2>3, <2>4, <2>5, <2>6, <2>7, <2>8, <2>9, <2>10, <2>11, <2>12, <2>13,
        <2>14, <2>15, <2>16, <2>17, <2>18, <2>19, <2>20, <2>21, <2>22 DEF Progress
<1>2. ASSUME NEW a \in Attacks, NEW p \in Participants, BeginAttack(a, p)
      PROVE  LinesInv'
  <2>1. a \in Calls /\ a \in Actions /\ a \notin Saves
    BY CombatAssumption DEF Calls, Writers, Actions
  <2>2. /\ \A d \in Calls \ {a} : phase'[d] = phase[d] /\ page'[d] = page[d]
        /\ phase'[a] = "context" /\ result' = result /\ page'[a] = p
        /\ UNCHANGED <<turnLine, writeLine>>
    BY <1>2, <2>1 DEF BeginAttack, Goto, TypeOK, StepTypes, CallTypes, Stay, pageVars
  <2>3. result[a] = None
    BY <1>2, <2>1 DEF BeginAttack, LinesInv
  <2>4. LinesInv'
    BY <2>1, <2>2, <2>3, OneMoves DEF MayBeIn, MayWrite, InTurn, InTask
  <2> QED BY <2>4
<1>3. ASSUME NEW u \in Undos, NEW a \in Attacks, BeginUndo(u, a)
      PROVE  LinesInv'
  <2>1. u \in Calls /\ u \in Actions /\ u \notin Saves /\ page[a] \in Participants
    BY <1>3, CombatAssumption DEF BeginUndo, LogInv, Calls, Writers, Actions
  <2>2. /\ \A d \in Calls \ {u} : phase'[d] = phase[d] /\ page'[d] = page[d]
        /\ phase'[u] = "lined" /\ result' = result /\ page'[u] = page[a]
        /\ UNCHANGED writeLine
    BY <1>3, <2>1 DEF BeginUndo, Goto, TypeOK, StepTypes, CallTypes, Stay, pageVars
  <2>3. result[u] = None
    BY <1>3, <2>1 DEF BeginUndo, LinesInv
  <2>4. \A k \in Participants : \A d : IsHead(turnLine[k], d) => IsHead(turnLine'[k], d)
    BY <1>3, <2>1, JoinKeepsHeads DEF BeginUndo
  <2>5. LinesInv'
    BY <2>1, <2>2, <2>3, <2>4, OneMoves DEF MayBeIn, MayWrite, InTurn, InTask
  <2> QED BY <2>5
<1>4. ASSUME NEW e \in Edits, NEW p \in Participants, NEW h \in 0..MaxHp, Edit(e, p, h)
      PROVE  LinesInv'
  <2>1. e \in Calls /\ e \notin Actions /\ e \notin Saves
    BY CombatAssumption DEF Calls, Writers, Actions
  <2>2. /\ \A d \in Calls \ {e} : phase'[d] = phase[d] /\ page'[d] = page[d]
        /\ phase'[e] = "precondition" /\ result' = result /\ page'[e] = p
        /\ UNCHANGED <<turnLine, writeLine>>
    BY <1>4, <2>1 DEF Edit, StartWrite, Goto, TypeOK, StepTypes, CallTypes
  <2>3. result[e] = None
    BY <1>4, <2>1 DEF Edit, LinesInv
  <2>4. LinesInv'
    BY <2>1, <2>2, <2>3, OneMoves DEF MayBeIn, MayWrite, InTurn, InTask
  <2> QED BY <2>4
<1>5. ASSUME NEW s \in Saves, UseTurnControl(s)
      PROVE  LinesInv'
  BY <1>5, MapSaveLines DEF UseTurnControl
<1>6. ASSUME NEW s \in Saves, DropToken(s)
      PROVE  LinesInv'
  BY <1>6, MapSaveLines DEF DropToken
<1>7. CASE DragToken
  BY CombatAssumption, <1>7 DEF DragToken, LinesInv, Running, InTurn, IsWriting, pageVars,
      callVars
<1>8. CASE Restart
  BY CombatAssumption, <1>8 DEF Restart, LinesInv, Running, InTurn, InTask, MayBeIn
<1>9. CASE UNCHANGED vars
  BY <1>9 DEF vars, pageVars, callVars, LinesInv, Running, InTurn, IsWriting
<1> QED BY <1>1, <1>2, <1>3, <1>4, <1>5, <1>6, <1>7, <1>8, <1>9 DEF Next
-----------------------------------------------------------------------------
(***************************************************************************)
(* The log and what it is read for.                                        *)
(***************************************************************************)
LEMMA OneMovesLog ==
  ASSUME LogInv, AtMostOneReversal, log \subseteq Calls, NEW c \in Calls, c \notin log,
         UNCHANGED log,
         \A d \in Calls \ {c} :
           phase'[d] = phase[d] /\ page'[d] = page[d] /\ asked'[d] = asked[d]
             /\ base'[d] = base[d] /\ next'[d] = next[d],
         c \in Undos /\ phase'[c] \notin {"idle", "done"} =>
           asked'[c] \in Attacks \cap log /\ page'[c] = page[asked'[c]],
         c \in Undos /\ phase'[c] \in InTurn => Reversible(asked'[c])
  PROVE  LogInv' /\ AtMostOneReversal'
<1> USE DEF Calls, Writers, Actions
<1>1. \A a : ReversalsOf(a)' = ReversalsOf(a)
  BY DEF ReversalsOf
<1>2. \A a \in Attacks \cap log : Reversible(a)' <=> Reversible(a)
  BY <1>1 DEF Reversible
<1>3. \A d \in log : phase'[d] = "done" /\ (d \in Attacks => page'[d] \in Participants)
  <2>1. \A d \in log : phase[d] = "done" /\ (d \in Attacks => page[d] \in Participants)
    BY DEF LogInv
  <2>2. \A d \in log \cap Calls : d \in Calls \ {c}
    OBVIOUS
  <2> QED BY <2>1, <2>2 DEF LogInv
<1>4. ASSUME NEW u \in Undos, phase'[u] \notin {"idle", "done"}
      PROVE  asked'[u] \in Attacks \cap log /\ page'[u] = page'[asked'[u]]
  BY <1>4 DEF LogInv, Running
<1>5. ASSUME NEW u \in Undos, phase'[u] \in InTurn
      PROVE  Reversible(asked[u])'
  <2>1. asked'[u] \in Attacks \cap log
    BY <1>4, <1>5 DEF InTurn
  <2>2. Reversible(asked'[u])
    BY <1>5 DEF LogInv
  <2> QED BY <1>2, <2>1, <2>2
<1>6. LogInv'
  BY <1>3, <1>4, <1>5 DEF LogInv, Running
<1>7. AtMostOneReversal'
  BY <1>1 DEF AtMostOneReversal
<1> QED BY <1>6, <1>7

LEMMA GotoLog ==
  ASSUME LogInv, AtMostOneReversal, TypeOK, NEW c \in Calls, NEW p \in Phases, Goto(c, p),
         Running(c), UNCHANGED <<log, page, asked>>,
         \A d \in Calls \ {c} : base'[d] = base[d] /\ next'[d] = next[d],
         c \in Undos /\ p \in InTurn => phase[c] \in InTurn \/ Reversible(asked[c])
  PROVE  LogInv' /\ AtMostOneReversal'
<1>1. /\ \A d \in Calls \ {c} : phase'[d] = phase[d]
      /\ phase'[c] = p /\ log \subseteq Calls /\ c \notin log
  BY DEF Goto, TypeOK, StepTypes, LogInv, Running
<1>2. c \in Undos => asked[c] \in Attacks \cap log /\ page[c] = page[asked[c]]
  BY DEF LogInv
<1>3. c \in Undos /\ p \in InTurn => Reversible(asked[c])
  BY DEF LogInv
<1> QED BY <1>1, <1>2, <1>3, OneMovesLog

\* Who returns forgets what is its own.
LEMMA ReturnKeeps ==
  ASSUME TypeOK, NEW c \in Calls, NEW r, Return(c, r)
  PROVE  /\ phase'[c] = "done" /\ result'[c] = r
         /\ \A d \in Calls \ {c} :
              phase'[d] = phase[d] /\ result'[d] = result[d] /\ page'[d] = page[d]
                /\ asked'[d] = asked[d] /\ base'[d] = base[d] /\ next'[d] = next[d]
         /\ \/ base'[c] = None /\ next'[c] = None /\ ~MayBeLogged(c, r)
            \/ base'[c] = base[c] /\ next'[c] = next[c] /\ page'[c] = page[c] /\ MayBeLogged(c, r)
         /\ c \in Undos => asked'[c] = asked[c]
BY DEF Return, TypeOK, StepTypes, CallTypes

LEMMA ReturnLog ==
  ASSUME LogInv, AtMostOneReversal, TypeOK, NEW c \in Calls, NEW r, Return(c, r),
         phase[c] # "done", UNCHANGED log
  PROVE  LogInv' /\ AtMostOneReversal'
<1>1. log \subseteq Calls /\ c \notin log
  BY DEF TypeOK, StepTypes, LogInv
<1> QED BY <1>1, ReturnKeeps, OneMovesLog DEF InTurn

LEMMA ThrowLog ==
  ASSUME LogInv, AtMostOneReversal, TypeOK, NEW c \in Calls, Throw(c), Running(c),
         phase[c] \in InTurn
  PROVE  LogInv' /\ AtMostOneReversal'
<1>1. CASE c \in Writers
  BY <1>1, GotoLog DEF Throw, AfterThrow, callVars, Phases
<1>2. CASE c \notin Writers
  BY <1>2, ReturnLog DEF Throw, AfterThrow, Running
<1> QED BY <1>1, <1>2

LEMMA MapSaveLog ==
  ASSUME LogInv, AtMostOneReversal, TypeOK, NEW s \in Saves, NEW m, NEW logs,
         BeginMapSave(s, m, logs)
  PROVE  LogInv' /\ AtMostOneReversal'
<1>1. s \in Calls /\ s \notin Undos /\ log \subseteq Calls /\ s \notin log
  BY CombatAssumption DEF Calls, Writers, Actions, TypeOK, StepTypes, LogInv, BeginMapSave
<1>2. /\ UNCHANGED log
      /\ \A d \in Calls \ {s} :
           phase'[d] = phase[d] /\ page'[d] = page[d] /\ asked'[d] = asked[d]
             /\ base'[d] = base[d] /\ next'[d] = next[d]
  BY <1>1 DEF BeginMapSave, Goto, TypeOK, StepTypes, CallTypes
<1> QED BY <1>1, <1>2, OneMovesLog

\* Only the undo at the head of its target's line adds a reversal, and it has
\* seen that there is none.
LEMMA AppendLog ==
  ASSUME LogInv, AtMostOneReversal, LinesInv, TypeOK, NEW c \in Calls, NEW r,
         phase[c] = "audit", Return(c, r), MayBeLogged(c, r) \/ c \notin Attacks,
         log' = log \cup {c}
  PROVE  LogInv' /\ AtMostOneReversal'
<1> USE DEF Calls, Writers, Actions
<1>1. /\ phase'[c] = "done" /\ log \subseteq Calls /\ c \notin log
      /\ \A d \in Calls \ {c} :
              phase'[d] = phase[d] /\ page'[d] = page[d]
                /\ asked'[d] = asked[d] /\ base'[d] = base[d] /\ next'[d] = next[d]
      /\ c \in Undos => asked'[c] = asked[c]
  BY ReturnKeeps DEF TypeOK, StepTypes, LogInv
<1>2. c \in Attacks => page'[c] \in Participants /\ base'[c] = base[c] /\ next'[c] = next[c]
  BY ReturnKeeps, CombatAssumption DEF LinesInv, Running, MayWrite
<1>3. \A a : ReversalsOf(a)' = ReversalsOf(a) \cup {u \in {c} \cap Undos : asked[c] = a}
  BY <1>1 DEF ReversalsOf
<1>4. ASSUME NEW u \in Undos, phase'[u] \in InTurn
      PROVE  Reversible(asked[u])'
  <2>1. /\ u # c /\ asked'[u] = asked[u] /\ asked[u] \in Attacks \cap log
        /\ page[u] = page[asked[u]] /\ Reversible(asked[u]) /\ phase[u] \in InTurn
    BY <1>1, <1>4 DEF InTurn, LogInv, Running
  <2>2. ~(c \in Undos /\ asked[c] = asked[u])
    <3>1. c \in Undos => page[c] = page[asked[c]] /\ IsHead(turnLine[page[c]], c)
      BY DEF LogInv, LinesInv, Running, InTurn
    <3>2. IsHead(turnLine[page[u]], u)
      BY <2>1 DEF LinesInv
    <3> QED BY <2>1, <3>1, <3>2 DEF IsHead
  <2>3. ReversalsOf(asked'[u]) = {} /\ next[asked'[u]] # base[asked'[u]]
    BY <2>1 DEF Reversible
  <2>4. ReversalsOf(asked[u])' = {}
    BY <1>3, <2>1, <2>2, <2>3
  <2>5. (next[asked[u]] # base[asked[u]])'
    BY <1>1, <1>2, <2>1, <2>3
  <2> QED BY <2>4, <2>5 DEF Reversible
<1>5. LogInv'
  <2>1. \A d \in log' : phase'[d] = "done" /\ (d \in Attacks => page'[d] \in Participants)
    BY <1>1, <1>2 DEF LogInv
  <2>2. ASSUME NEW u \in Undos, phase'[u] \notin {"idle", "done"}
        PROVE  asked'[u] \in Attacks \cap log' /\ page'[u] = page'[asked'[u]]
    BY <1>1, <2>2 DEF LogInv, Running
  <2> QED BY <1>4, <2>1, <2>2 DEF LogInv, Running
<1>6. AtMostOneReversal'
  <2>1. c \in Undos => ReversalsOf(asked[c]) = {}
    BY DEF LogInv, InTurn, Reversible
  <2> QED BY <1>3, <2>1 DEF AtMostOneReversal
<1> QED BY <1>5, <1>6


LEMMA LogStep == CombatInv /\ [Next]_vars => (LogInv /\ AtMostOneReversal)'
<1> SUFFICES ASSUME CombatInv, [Next]_vars PROVE (LogInv /\ AtMostOneReversal)'
  OBVIOUS
<1>0. TypeOK /\ LinesInv /\ LogInv /\ AtMostOneReversal
  BY DEF CombatInv
<1> USE <1>0
<1>1. ASSUME NEW c \in Calls, Progress(c)
      PROVE  (LogInv /\ AtMostOneReversal)'
  <2>1. CASE Refuse(c)
    BY ReturnLog, <2>1 DEF Refuse, Awaiting
  <2>2. CASE Observe(c)
    BY GotoLog, <2>2 DEF Observe, Phases, Running, InTurn, callVars, Stay
  <2>3. CASE EnterAttack(c)
    BY GotoLog, CombatAssumption, <2>3 DEF EnterAttack, Phases, Running, InTurn, callVars, Stay,
        Actions
  <2>4. CASE CheckMap(c)
    BY GotoLog, <2>4 DEF CheckMap, Phases, Running, InTurn, callVars, Stay
  <2>5. CASE Roll(c)
    <3>1. UNCHANGED <<log, page, asked>> /\ c \notin Undos
      BY <2>5, CombatAssumption DEF Roll, Stay, LinesInv, MayBeIn, Actions
    <3>2. \A d \in Calls \ {c} : base'[d] = base[d] /\ next'[d] = next[d]
      BY <2>5 DEF Roll, TypeOK, CallTypes
    <3> QED BY <2>5, <3>1, <3>2, GotoLog DEF Roll, Phases, Running
  <2>6. CASE Commit(c)
    <3>1. UNCHANGED <<log, page, asked>> /\ c \notin Undos
      BY <2>6, CombatAssumption DEF Commit, callVars, LinesInv, MayBeIn, Actions
    <3>2. \A d \in Calls \ {c} : base'[d] = base[d] /\ next'[d] = next[d]
      BY <2>6 DEF Commit, StartWrite, callVars, TypeOK, CallTypes
    <3>3. PICK q \in {"audit", "precondition"} : Goto(c, q)
      BY <2>6 DEF Commit, StartWrite
    <3> QED BY <2>6, <3>1, <3>2, <3>3, GotoLog DEF Commit, Phases, Running
  <2>7. CASE Classify(c)
    BY GotoLog, <2>7 DEF Classify, Phases, Running, InTurn, callVars, Stay
  <2>8. CASE Prepare(c)
    <3>1. UNCHANGED <<log, page, asked>>
      BY <2>8 DEF Prepare
    <3>2. \A d \in Calls \ {c} : base'[d] = base[d] /\ next'[d] = next[d]
      BY <2>8 DEF Prepare, StartWrite, TypeOK, CallTypes
    <3> QED BY <2>8, <3>1, <3>2, GotoLog DEF Prepare, StartWrite, Phases, Running, InTurn
  <2>9. CASE MeetPrecondition(c)
    BY GotoLog, <2>9 DEF MeetPrecondition, Phases, Running, InTurn, callVars
  <2>10. CASE StartTask(c)
    BY GotoLog, <2>10 DEF StartTask, Phases, Running, InTurn, callVars
  <2>11. CASE Validate(c)
    BY GotoLog, <2>11 DEF Validate, Phases, Running, InTurn, callVars
  <2>12. CASE EnterWrite(c)
    BY GotoLog, <2>12 DEF EnterWrite, Phases, Running, InTurn, callVars
  <2>13. CASE LeaveQueue(c)
    BY ReturnLog, <2>13 DEF LeaveQueue
  <2>14. CASE ValidationThrows(c)
    BY <2>14, ThrowLog DEF ValidationThrows, Running, InTurn
  <2>15. CASE WriteLands(c)
    BY GotoLog, <2>15 DEF WriteLands, Phases, Running, InTurn, callVars
  <2>16. CASE WriteThrows(c)
    BY <2>16, ThrowLog DEF WriteThrows, Running, InTurn
  <2>17. CASE InquireAfterThrow(c)
    BY ReturnLog, <2>17 DEF InquireAfterThrow
  <2>18. CASE WriteSaved(c)
    BY GotoLog, <2>18 DEF WriteSaved, Phases, Running, InTurn, callVars
  <2>19. CASE WriteUncertain(c)
    BY ReturnLog, <2>19 DEF WriteUncertain
  <2>20. CASE VerifyHealth(c)
    BY GotoLog, ReturnLog, <2>20 DEF VerifyHealth, Phases, Running, InTurn, callVars
  <2>21. CASE AppendTransaction(c)
    <3>1. PICK r : Return(c, r) /\ log' \in {log, log \cup {c}} /\ r \in {"completed", "unconfirmed"}
      BY <2>21 DEF AppendTransaction
    <3>2. CASE log' = log \cup {c}
      BY <2>21, <3>1, <3>2, AppendLog DEF AppendTransaction, MayBeLogged
    <3>3. CASE log' = log
      BY <2>21, <3>1, <3>3, ReturnLog DEF AppendTransaction
    <3> QED BY <3>1, <3>2, <3>3
  <2>22. CASE NothingToLog(c)
    BY ReturnLog, <2>22 DEF NothingToLog
  <2> QED
    BY <1>1, <2>1, <2>2, <2>3, <2>4, <2>5, <2>6, <2>7, <2>8, <2>9, <2>10, <2>11, <2>12, <2>13,
        <2>14, <2>15, <2>16, <2>17, <2>18, <2>19, <2>20, <2>21, <2>22 DEF Progress
<1>2. ASSUME NEW a \in Attacks, NEW p \in Participants, BeginAttack(a, p)
      PROVE  (LogInv /\ AtMostOneReversal)'
  <2>1. a \in Calls /\ a \notin Undos /\ a \notin log /\ log \subseteq Calls
    BY <1>2, CombatAssumption DEF BeginAttack, Calls, Writers, Actions, LogInv, TypeOK, StepTypes
  <2>2. /\ UNCHANGED log
        /\ \A d \in Calls \ {a} :
             phase'[d] = phase[d] /\ page'[d] = page[d] /\ asked'[d] = asked[d]
               /\ base'[d] = base[d] /\ next'[d] = next[d]
    BY <1>2, <2>1 DEF BeginAttack, Goto, Stay, TypeOK, StepTypes, CallTypes
  <2>3. LogInv' /\ AtMostOneReversal'
    BY <2>1, <2>2, OneMovesLog
  <2> QED BY <2>3
<1>3. ASSUME NEW u \in Undos, NEW a \in Attacks, BeginUndo(u, a)
      PROVE  (LogInv /\ AtMostOneReversal)'
  <2>1. u \in Calls /\ u \notin log /\ log \subseteq Calls /\ u # a /\ a \in Calls
    BY <1>3, CombatAssumption DEF BeginUndo, Calls, Writers, Actions, LogInv, TypeOK, StepTypes
  <2>2. /\ UNCHANGED log /\ phase'[u] = "lined" /\ asked'[u] = a /\ page'[u] = page[a]
        /\ \A d \in Calls \ {u} :
             phase'[d] = phase[d] /\ page'[d] = page[d] /\ asked'[d] = asked[d]
               /\ base'[d] = base[d] /\ next'[d] = next[d]
    BY <1>3, <2>1 DEF BeginUndo, Goto, Stay, TypeOK, StepTypes, CallTypes
  <2>3. a \in Attacks \cap log
    BY <1>3 DEF BeginUndo
  <2>4. LogInv' /\ AtMostOneReversal'
    BY <2>1, <2>2, <2>3, OneMovesLog DEF InTurn
  <2> QED BY <2>4
<1>4. ASSUME NEW e \in Edits, NEW p \in Participants, NEW h \in 0..MaxHp, Edit(e, p, h)
      PROVE  (LogInv /\ AtMostOneReversal)'
  <2>1. e \in Calls /\ e \notin Undos /\ e \notin log /\ log \subseteq Calls
    BY <1>4, CombatAssumption DEF Edit, Calls, Writers, Actions, LogInv, TypeOK, StepTypes
  <2>2. /\ UNCHANGED log
        /\ \A d \in Calls \ {e} :
             phase'[d] = phase[d] /\ page'[d] = page[d] /\ asked'[d] = asked[d]
               /\ base'[d] = base[d] /\ next'[d] = next[d]
    BY <1>4, <2>1 DEF Edit, StartWrite, Goto, TypeOK, StepTypes, CallTypes
  <2>3. LogInv' /\ AtMostOneReversal'
    BY <2>1, <2>2, OneMovesLog
  <2> QED BY <2>3
<1>5. ASSUME NEW s \in Saves, UseTurnControl(s)
      PROVE  (LogInv /\ AtMostOneReversal)'
  BY <1>5, MapSaveLog DEF UseTurnControl
<1>6. ASSUME NEW s \in Saves, DropToken(s)
      PROVE  (LogInv /\ AtMostOneReversal)'
  BY <1>6, MapSaveLog DEF DropToken
<1>7. CASE DragToken
  BY <1>7 DEF DragToken, callVars, LogInv, AtMostOneReversal, ReversalsOf, Reversible, Running
<1>8. CASE Restart
  <2>1. /\ \A u \in Undos : phase'[u] \in {"idle", "done"} /\ asked'[u] = asked[u]
        /\ \A d \in log : d \in Calls /\ phase'[d] = "done" /\ page'[d] = page[d]
        /\ UNCHANGED log
    BY <1>8 DEF Restart, LogInv, TypeOK, StepTypes, Calls, Writers, Actions
  <2>2. \A a : ReversalsOf(a)' = ReversalsOf(a)
    BY <2>1 DEF ReversalsOf
  <2>3. LogInv'
    BY <2>1 DEF LogInv, Running, InTurn
  <2>4. AtMostOneReversal'
    BY <2>2 DEF AtMostOneReversal
  <2> QED BY <2>3, <2>4
<1>9. CASE UNCHANGED vars
  BY <1>9 DEF vars, callVars, LogInv, AtMostOneReversal, ReversalsOf, Reversible, Running
<1> QED BY <1>1, <1>2, <1>3, <1>4, <1>5, <1>6, <1>7, <1>8, <1>9 DEF Next
-----------------------------------------------------------------------------
(***************************************************************************)
(* What calls are going to write.                                          *)
(***************************************************************************)
LEMMA OneMovesPlan ==
  ASSUME LogInv, PlanInv, NEW c \in Calls, c \notin log,
         \A d \in Calls \ {c} :
           phase'[d] = phase[d] /\ asked'[d] = asked[d] /\ base'[d] = base[d]
             /\ next'[d] = next[d],
         PlanOf(c)'
  PROVE  PlanInv'
<1>1. ASSUME NEW d \in Calls \ {c}
      PROVE  PlanOf(d)'
  <2>1. PlanOf(d)
    BY DEF PlanInv
  <2>2. d \in Undos /\ phase[d] \in Prepared => asked[d] \in Calls \ {c}
    BY DEF LogInv, Running, Prepared, Calls, Writers, Actions
  <2> QED BY <2>1, <2>2 DEF PlanOf
<1> QED BY <1>1 DEF PlanInv

LEMMA GotoPlan ==
  ASSUME LogInv, PlanInv, TypeOK, NEW c \in Calls, NEW p \in Phases, Goto(c, p),
         phase[c] # "done", UNCHANGED <<asked, base, next>>,
         p \in Prepared => phase[c] \in Prepared,
         p \in Prepared \ {"audit"} => phase[c] # "audit"
  PROVE  PlanInv'
<1>1. /\ \A d \in Calls \ {c} : phase'[d] = phase[d]
      /\ phase'[c] = p /\ c \notin log
  BY DEF Goto, TypeOK, StepTypes, LogInv
<1>2. PlanOf(c)'
  BY <1>1 DEF PlanInv, PlanOf
<1> QED BY <1>1, <1>2, OneMovesPlan

LEMMA ReturnPlan ==
  ASSUME LogInv, PlanInv, TypeOK, NEW c \in Calls, NEW r, Return(c, r), phase[c] # "done"
  PROVE  PlanInv'
<1>1. c \notin log
  BY DEF LogInv
<1>2. PlanOf(c)'
  BY ReturnKeeps DEF PlanInv, PlanOf, Prepared
<1> QED BY <1>1, <1>2, ReturnKeeps, OneMovesPlan

LEMMA ThrowPlan ==
  ASSUME LogInv, PlanInv, TypeOK, NEW c \in Calls, Throw(c), phase[c] \in Prepared \ {"audit"}
  PROVE  PlanInv'
<1>0. phase[c] # "done"
  BY DEF Prepared
<1>1. CASE c \in Writers
  BY <1>0, <1>1, GotoPlan DEF Throw, AfterThrow, callVars, Phases, Prepared
<1>2. CASE c \notin Writers
  BY <1>0, <1>2, ReturnPlan DEF Throw, AfterThrow
<1> QED BY <1>1, <1>2

\* A content is a health and a note, and None is none.
LEMMA Contents ==
  /\ None \notin Content /\ None \notin MapState
  /\ \A x \in Content : x.hp \in Int /\ x.note \in Edits \cup {None}
  /\ \A x, y \in Content : x.hp # y.hp => x # y
BY CombatAssumption, CombatValuesAssumption DEF Content

LEMMA MapSavePlan ==
  ASSUME LogInv, PlanInv, TypeOK, NEW s \in Saves, NEW m \in MapState, NEW logs,
         BeginMapSave(s, m, logs)
  PROVE  PlanInv'
<1>1. s \in Calls /\ s \notin Writers /\ s \notin Actions /\ s \notin Undos
        /\ s \notin Attacks /\ s \notin Edits /\ s \notin log
  BY CombatAssumption DEF Calls, Writers, Actions, LogInv, BeginMapSave
<1>2. /\ base'[s] = runtime[Map] /\ next'[s] = m
      /\ \A d \in Calls \ {s} :
           phase'[d] = phase[d] /\ asked'[d] = asked[d] /\ base'[d] = base[d]
             /\ next'[d] = next[d]
  BY <1>1 DEF BeginMapSave, Goto, TypeOK, StepTypes, CallTypes
<1>3. runtime[Map] # None /\ m # None
  BY Contents DEF TypeOK, PageTypes
<1>4. PlanOf(s)'
  BY <1>1, <1>2, <1>3 DEF PlanOf
<1> QED BY <1>1, <1>2, <1>4, OneMovesPlan


LEMMA PlanStep == CombatInv /\ [Next]_vars => PlanInv'
<1> SUFFICES ASSUME CombatInv, [Next]_vars PROVE PlanInv'
  OBVIOUS
<1>0. TypeOK /\ LinesInv /\ LogInv /\ NotesInv /\ PlanInv /\ LandingInv
  BY DEF CombatInv
<1> USE <1>0
<1>1. ASSUME NEW c \in Calls, Progress(c)
      PROVE  PlanInv'
  <2>1. CASE Refuse(c)
    BY ReturnPlan, <2>1 DEF Refuse, Awaiting
  <2>2. CASE Observe(c)
    BY GotoPlan, <2>2 DEF Observe, Phases, Prepared, callVars
  <2>3. CASE EnterAttack(c)
    BY GotoPlan, <2>3 DEF EnterAttack, Phases, Prepared, callVars
  <2>4. CASE CheckMap(c)
    BY GotoPlan, <2>4 DEF CheckMap, Phases, Prepared, callVars
  <2>5. CASE Roll(c)
    <3>1. c \in Attacks /\ c \in Writers /\ c \in Actions /\ c \notin Edits /\ c \notin Undos
            /\ page[c] \in Participants /\ c \notin log
      BY <2>5, RunningPage, CombatAssumption DEF Roll, LinesInv, MayBeIn, Running, LogInv,
          Writers, Actions
    <3>2. runtime[page[c]] \in Content
      BY <3>1 DEF TypeOK, PageTypes
    <3>3. /\ phase'[c] = "map again" /\ base'[c] = runtime[page[c]]
          /\ next'[c] \in {runtime[page[c]], Damaged(runtime[page[c]])}
          /\ \A d \in Calls \ {c} :
               phase'[d] = phase[d] /\ asked'[d] = asked[d] /\ base'[d] = base[d]
                 /\ next'[d] = next[d]
      BY <2>5 DEF Roll, Goto, TypeOK, StepTypes, CallTypes
    <3>4. PlanOf(c)'
      BY <3>1, <3>2, <3>3, DamageIsHealth, Contents DEF PlanOf, Prepared
    <3> QED BY <3>1, <3>3, <3>4, OneMovesPlan
  <2>6. CASE Commit(c)
    <3>1. c \in Attacks /\ c \in Writers /\ c \in Actions /\ c \notin Edits /\ c \notin Undos
            /\ c \notin log /\ base[c] # None
      <4>1. c \in Attacks /\ page[c] \in Participants
        BY <2>6, RunningPage DEF Commit, LinesInv, MayBeIn, Running, Writers, Actions
      <4>2. sheets[c].target = runtime[page[c]] /\ runtime[page[c]] \in Content
        BY <2>6, <4>1 DEF Commit, TargetUntouched, TypeOK, PageTypes
      <4> QED BY <2>6, <4>1, <4>2, CombatAssumption, Contents DEF Commit, LogInv, Writers, Actions
    <3>2. CASE next[c] = base[c]
      <4>1. /\ phase'[c] = "audit" /\ UNCHANGED <<asked, base, next>>
            /\ \A d \in Calls \ {c} : phase'[d] = phase[d]
        BY <2>6, <3>2 DEF Commit, Goto, callVars, TypeOK, StepTypes
      <4>2. PlanOf(c)'
        BY <3>1, <4>1 DEF PlanInv, PlanOf
      <4> QED BY <3>1, <4>1, <4>2, OneMovesPlan
    <3>3. CASE next[c] # base[c]
      <4>1. /\ phase'[c] = "precondition" /\ UNCHANGED <<asked, base, next>>
            /\ \A d \in Calls \ {c} : phase'[d] = phase[d]
        BY <2>6, <3>3 DEF Commit, StartWrite, Goto, TypeOK, StepTypes, CallTypes
      <4>2. PlanOf(c)'
        BY <3>1, <3>3, <4>1 DEF PlanInv, PlanOf
      <4> QED BY <3>1, <4>1, <4>2, OneMovesPlan
    <3> QED BY <3>2, <3>3
  <2>7. CASE Classify(c)
    BY GotoPlan, <2>7 DEF Classify, Phases, Prepared, callVars
  <2>8. CASE Prepare(c)
    <3>1. /\ c \in Undos /\ c \in Writers /\ c \in Actions /\ c \notin Edits /\ c \notin Attacks
          /\ c \notin log /\ asked[c] \in Attacks /\ asked[c] # c /\ page[c] \in Participants
          /\ next[asked[c]] # base[asked[c]]
      BY <2>8, RunningPage, CombatAssumption DEF Prepare, LinesInv, MayBeIn, Running, LogInv,
          InTurn, Reversible, Writers, Actions
    <3>2. runtime[page[c]] \in Content /\ base[asked[c]] \in Content
      <4>1. base[asked[c]] # None
        BY <3>1 DEF PlanInv, PlanOf, Calls, Writers, Actions
      <4> QED BY <3>1, <4>1 DEF TypeOK, PageTypes, CallTypes, Option, Writers, Actions
    <3>3. /\ phase'[c] = "precondition" /\ base'[c] = runtime[page[c]]
          /\ next'[c] = [runtime[page[c]] EXCEPT !.hp = base[asked[c]].hp]
          /\ runtime[page[c]].hp = next[asked[c]].hp /\ UNCHANGED asked
          /\ \A d \in Calls \ {c} :
               phase'[d] = phase[d] /\ base'[d] = base[d] /\ next'[d] = next[d]
      BY <2>8 DEF Prepare, HealthAsLeftBy, StartWrite, Goto, TypeOK, StepTypes, CallTypes
    <3>4. next'[c] \in Content /\ next'[c].note = base'[c].note /\ next'[c].hp = base[asked[c]].hp
      BY <3>2, <3>3 DEF Content
    <3>5. /\ base'[asked'[c]] = base[asked[c]] /\ next'[asked'[c]] = next[asked[c]]
      BY <3>1, <3>3 DEF Calls, Writers, Actions
    <3>6. PlanOf(c)'
      BY <3>1, <3>2, <3>3, <3>4, <3>5, Contents DEF PlanOf
    <3> QED BY <3>1, <3>3, <3>6, OneMovesPlan
  <2>9. CASE MeetPrecondition(c)
    BY GotoPlan, <2>9 DEF MeetPrecondition, Phases, Prepared, callVars
  <2>10. CASE StartTask(c)
    BY GotoPlan, <2>10 DEF StartTask, Phases, Prepared, callVars
  <2>11. CASE Validate(c)
    BY GotoPlan, <2>11 DEF Validate, Phases, Prepared, callVars
  <2>12. CASE EnterWrite(c)
    BY GotoPlan, <2>12 DEF EnterWrite, Phases, Prepared, callVars
  <2>13. CASE LeaveQueue(c)
    BY ReturnPlan, <2>13 DEF LeaveQueue
  <2>14. CASE ValidationThrows(c)
    BY <2>14, ThrowPlan DEF ValidationThrows, Prepared
  <2>15. CASE WriteLands(c)
    BY GotoPlan, <2>15 DEF WriteLands, Phases, Prepared, callVars
  <2>16. CASE WriteThrows(c)
    BY <2>16, ThrowPlan DEF WriteThrows, Prepared
  <2>17. CASE InquireAfterThrow(c)
    BY ReturnPlan, <2>17 DEF InquireAfterThrow
  <2>18. CASE WriteSaved(c)
    BY GotoPlan, <2>18 DEF WriteSaved, Phases, Prepared, callVars
  <2>19. CASE WriteUncertain(c)
    BY ReturnPlan, <2>19 DEF WriteUncertain
  <2>20. CASE VerifyHealth(c)
    BY GotoPlan, ReturnPlan, <2>20 DEF VerifyHealth, Phases, Prepared, callVars
  <2>21. CASE AppendTransaction(c)
    BY ReturnPlan, <2>21 DEF AppendTransaction
  <2>22. CASE NothingToLog(c)
    BY ReturnPlan, <2>22 DEF NothingToLog
  <2> QED
    BY <1>1, <2>1, <2>2, <2>3, <2>4, <2>5, <2>6, <2>7, <2>8, <2>9, <2>10, <2>11, <2>12, <2>13,
        <2>14, <2>15, <2>16, <2>17, <2>18, <2>19, <2>20, <2>21, <2>22 DEF Progress
<1>2. ASSUME NEW a \in Attacks, NEW p \in Participants, BeginAttack(a, p)
      PROVE  PlanInv'
  <2>1. a \in Calls /\ a \notin Undos /\ a \notin log
    BY <1>2, CombatAssumption DEF BeginAttack, Calls, Writers, Actions, LogInv
  <2>2. /\ phase'[a] = "context" /\ UNCHANGED <<base, next>>
        /\ \A d \in Calls \ {a} : phase'[d] = phase[d] /\ asked'[d] = asked[d]
    BY <1>2, <2>1 DEF BeginAttack, Goto, TypeOK, StepTypes, CallTypes
  <2>3. PlanOf(a)'
    BY <2>1, <2>2 DEF PlanInv, PlanOf, Prepared
  <2> QED BY <2>1, <2>2, <2>3, OneMovesPlan
<1>3. ASSUME NEW u \in Undos, NEW a \in Attacks, BeginUndo(u, a)
      PROVE  PlanInv'
  <2>1. u \in Calls /\ u \notin log
    BY <1>3 DEF BeginUndo, Calls, Writers, Actions, LogInv
  <2>2. /\ phase'[u] = "lined" /\ UNCHANGED <<base, next>>
        /\ \A d \in Calls \ {u} : phase'[d] = phase[d] /\ asked'[d] = asked[d]
    BY <1>3, <2>1 DEF BeginUndo, Goto, TypeOK, StepTypes, CallTypes
  <2>3. PlanOf(u)'
    BY <2>1, <2>2 DEF PlanInv, PlanOf, Prepared
  <2> QED BY <2>1, <2>2, <2>3, OneMovesPlan
<1>4. ASSUME NEW e \in Edits, NEW p \in Participants, NEW h \in 0..MaxHp, Edit(e, p, h)
      PROVE  PlanInv'
  <2>1. /\ e \in Calls /\ e \notin Actions /\ e \notin Attacks /\ e \notin Undos /\ e \notin log
        /\ e # None /\ e \notin landed
    BY <1>4, CombatAssumption DEF Edit, Calls, Writers, Actions, LogInv, LandingInv, LandingOf
  <2>2. runtime[p] \in Content /\ runtime[p].note # e
    BY <2>1 DEF TypeOK, PageTypes, NotesInv, Noted
  <2>3. [hp |-> h, note |-> e] \in Content
    BY DEF Content
  <2>4. /\ base'[e] = runtime[p] /\ next'[e] = [hp |-> h, note |-> e]
        /\ \A d \in Calls \ {e} :
             phase'[d] = phase[d] /\ asked'[d] = asked[d] /\ base'[d] = base[d]
               /\ next'[d] = next[d]
    BY <1>4, <2>1 DEF Edit, StartWrite, Goto, TypeOK, StepTypes, CallTypes
  <2>5. PlanOf(e)'
    BY <2>1, <2>2, <2>3, <2>4, Contents DEF PlanOf
  <2> QED BY <2>1, <2>4, <2>5, OneMovesPlan
<1>5. ASSUME NEW s \in Saves, UseTurnControl(s)
      PROVE  PlanInv'
  BY <1>5, TurnsAreStates, MapSavePlan DEF UseTurnControl
<1>6. ASSUME NEW s \in Saves, DropToken(s)
      PROVE  PlanInv'
  BY <1>6, MapSavePlan DEF DropToken, TypeOK, MapTypes
<1>7. CASE DragToken
  BY <1>7 DEF DragToken, callVars, PlanInv, PlanOf
<1>8. CASE Restart
  <2> SUFFICES ASSUME NEW c \in Calls PROVE PlanOf(c)'
    BY DEF PlanInv
  <2>1. PlanOf(c)
    BY DEF PlanInv
  <2>2. /\ phase'[c] \in {"idle", "done"}
        /\ \/ base'[c] = base[c] /\ next'[c] = next[c]
           \/ base'[c] = None /\ next'[c] = None
    BY <1>8 DEF Restart
  <2> QED BY <2>1, <2>2 DEF PlanOf, Prepared
<1>9. CASE UNCHANGED vars
  BY <1>9 DEF vars, callVars, PlanInv, PlanOf
<1> QED BY <1>1, <1>2, <1>3, <1>4, <1>5, <1>6, <1>7, <1>8, <1>9 DEF Next
-----------------------------------------------------------------------------
(***************************************************************************)
(* The notes on the pages.                                                 *)
(***************************************************************************)
LEMMA OneMovesNotes ==
  ASSUME NotesInv, NEW c \in Calls, landed \subseteq landed',
         \A d \in Calls \ {c} : base'[d] = base[d],
         c \in Writers /\ base'[c] # None => base'[c] = base[c] \/ base'[c].note \in Noted,
         \A k \in Participants : disk'[k] = disk[k] \/ disk'[k].note \in Noted',
         \A k \in Participants : runtime'[k] = runtime[k] \/ runtime'[k].note \in Noted'
  PROVE  NotesInv'
<1>1. Noted \subseteq Noted'
  BY DEF Noted
<1>2. Writers \subseteq Calls
  BY DEF Calls
<1> QED BY <1>1, <1>2 DEF NotesInv

\* A command writes its own note or keeps the one of its base.
LEMMA NextNote ==
  ASSUME NotesInv, PlanInv, NEW c \in Writers, base[c] # None
  PROVE  next[c].note \in Noted \cup {c}
BY DEF NotesInv, PlanInv, PlanOf, Calls, Writers

LEMMA ReturnNotes ==
  ASSUME NotesInv, TypeOK, NEW c \in Calls, NEW r, Return(c, r),
         UNCHANGED <<disk, runtime, landed>>
  PROVE  NotesInv'
BY ReturnKeeps, OneMovesNotes

\* A write that throws, whether it landed or not.
LEMMA ThrowNotes ==
  ASSUME NotesInv, PlanInv, LinesInv, TypeOK, NEW c \in Calls, Running(c),
         phase[c] \in Prepared, Throw(c), PutOnDisk(c) \/ UNCHANGED <<disk, landed>>
  PROVE  NotesInv'
<1>1. base[c] # None
  BY DEF PlanInv, PlanOf
<1>2. page[c] \in Participants => c \in Writers
  BY RunningPage, MapIsNoParticipant DEF Calls
<1>3. \A k \in Participants : disk'[k] = disk[k] \/ disk'[k].note \in Noted'
  <2>1. ASSUME NEW k \in Participants, PutOnDisk(c), disk'[k] # disk[k]
        PROVE  disk'[k].note \in Noted'
    <3>1. k = page[c] /\ disk'[k] = next[c] /\ landed' = landed \cup {c}
      BY <2>1 DEF PutOnDisk, TypeOK, PageTypes
    <3>2. next[c].note \in Noted \cup {c}
      BY <1>1, <1>2, <3>1, NextNote
    <3> QED BY <3>1, <3>2 DEF Noted
  <2> QED BY <2>1
<1>4. \A k \in Participants : runtime'[k] = runtime[k] \/ runtime'[k].note \in Noted'
  BY <1>1, <1>2 DEF Throw, PutOnDisk, NotesInv, Noted, TypeOK, PageTypes
<1>5. /\ \A d \in Calls \ {c} : base'[d] = base[d]
      /\ base'[c] \in {base[c], None}
  BY ReturnKeeps DEF Throw, AfterThrow, callVars
<1>6. landed \subseteq landed'
  BY DEF PutOnDisk
<1> QED BY <1>3, <1>4, <1>5, <1>6, OneMovesNotes

LEMMA MapSaveNotes ==
  ASSUME NotesInv, TypeOK, NEW s \in Saves, NEW m, NEW logs, BeginMapSave(s, m, logs)
  PROVE  NotesInv'
<1>1. s \in Calls /\ s \notin Writers
  BY CombatAssumption DEF Calls, Writers, Actions
<1>2. /\ UNCHANGED <<disk, runtime, landed>>
      /\ \A d \in Calls \ {s} : base'[d] = base[d]
  BY <1>1 DEF BeginMapSave, TypeOK, CallTypes
<1> QED BY <1>1, <1>2, OneMovesNotes


LEMMA NotesStep == CombatInv /\ [Next]_vars => NotesInv'
<1> SUFFICES ASSUME CombatInv, [Next]_vars PROVE NotesInv'
  OBVIOUS
<1>0. TypeOK /\ LinesInv /\ NotesInv /\ PlanInv /\ LandingInv
  BY DEF CombatInv
<1> USE <1>0
<1>1. ASSUME NEW c \in Calls, Progress(c)
      PROVE  NotesInv'
  <2>1. CASE Refuse(c)
    BY ReturnNotes, <2>1 DEF Refuse, Awaiting, pageVars
  <2>2. CASE Observe(c)
    BY OneMovesNotes, <2>2 DEF Observe, pageVars, callVars, Stay
  <2>3. CASE EnterAttack(c)
    BY OneMovesNotes, <2>3 DEF EnterAttack, pageVars, callVars, Stay
  <2>4. CASE CheckMap(c)
    BY OneMovesNotes, <2>4 DEF CheckMap, pageVars, callVars, Stay
  <2>5. CASE Roll(c)
    <3>1. page[c] \in Participants
      BY <2>5, RunningPage DEF Roll, LinesInv, MayBeIn, Running, Writers, Actions
    <3>2. /\ base'[c] = runtime[page[c]] /\ UNCHANGED <<disk, runtime, landed>>
          /\ \A d \in Calls \ {c} : base'[d] = base[d]
      BY <2>5 DEF Roll, Stay, pageVars, TypeOK, CallTypes
    <3> QED BY <3>1, <3>2, OneMovesNotes DEF NotesInv
  <2>6. CASE Commit(c)
    <3>1. UNCHANGED <<disk, runtime, landed, base>>
      BY <2>6 DEF Commit, StartWrite, pageVars, callVars, TypeOK, CallTypes
    <3> QED BY <3>1, OneMovesNotes
  <2>7. CASE Classify(c)
    BY OneMovesNotes, <2>7 DEF Classify, pageVars, callVars, Stay
  <2>8. CASE Prepare(c)
    <3>1. page[c] \in Participants
      BY <2>8, RunningPage DEF Prepare, LinesInv, MayBeIn, Running, Writers, Actions
    <3>2. /\ base'[c] = runtime[page[c]] /\ UNCHANGED <<disk, runtime, landed>>
          /\ \A d \in Calls \ {c} : base'[d] = base[d]
      BY <2>8 DEF Prepare, StartWrite, TypeOK, CallTypes
    <3> QED BY <3>1, <3>2, OneMovesNotes DEF NotesInv
  <2>9. CASE MeetPrecondition(c)
    BY OneMovesNotes, <2>9 DEF MeetPrecondition, pageVars, callVars
  <2>10. CASE StartTask(c)
    BY OneMovesNotes, <2>10 DEF StartTask, pageVars, callVars
  <2>11. CASE Validate(c)
    BY OneMovesNotes, <2>11 DEF Validate, pageVars, callVars
  <2>12. CASE EnterWrite(c)
    BY OneMovesNotes, <2>12 DEF EnterWrite, pageVars, callVars
  <2>13. CASE LeaveQueue(c)
    BY ReturnNotes, <2>13 DEF LeaveQueue, pageVars
  <2>14. CASE ValidationThrows(c)
    BY <2>14, ThrowNotes DEF ValidationThrows, Prepared, Running
  <2>15. CASE WriteLands(c)
    <3>1. base[c] # None /\ (page[c] \in Participants => c \in Writers)
      BY <2>15, RunningPage, MapIsNoParticipant DEF WriteLands, PlanInv, PlanOf, Prepared,
          Running, Calls
    <3>2. \A k \in Participants : disk'[k] = disk[k] \/ disk'[k].note \in Noted'
      BY <2>15, <3>1, NextNote DEF WriteLands, PutOnDisk, Noted, TypeOK, PageTypes
    <3>3. landed \subseteq landed' /\ UNCHANGED <<runtime, base>>
      BY <2>15 DEF WriteLands, PutOnDisk, callVars
    <3> QED BY <3>2, <3>3, OneMovesNotes
  <2>16. CASE WriteThrows(c)
    BY <2>16, ThrowNotes DEF WriteThrows, Prepared, Running
  <2>17. CASE InquireAfterThrow(c)
    BY ReturnNotes, <2>17 DEF InquireAfterThrow, pageVars
  <2>18. CASE WriteSaved(c)
    <3>1. base[c] # None /\ (page[c] \in Participants => c \in Writers) /\ c \in landed
      BY <2>18, RunningPage, MapIsNoParticipant DEF WriteSaved, PlanInv, PlanOf, LandingInv,
          LandingOf, Prepared, Running, Calls
    <3>2. \A k \in Participants : runtime'[k] = runtime[k] \/ runtime'[k].note \in Noted'
      BY <2>18, <3>1, NextNote DEF WriteSaved, Noted, TypeOK, PageTypes
    <3>3. UNCHANGED <<disk, landed, base>>
      BY <2>18 DEF WriteSaved, callVars
    <3> QED BY <3>2, <3>3, OneMovesNotes
  <2>19. CASE WriteUncertain(c)
    BY ReturnNotes, <2>19 DEF WriteUncertain, pageVars
  <2>20. CASE VerifyHealth(c)
    <3>1. UNCHANGED <<disk, runtime, landed>>
      BY <2>20 DEF VerifyHealth, pageVars
    <3>2. CASE UNCHANGED base
      BY <3>1, <3>2, OneMovesNotes
    <3> QED BY <2>20, <3>1, <3>2, ReturnNotes DEF VerifyHealth, callVars
  <2>21. CASE AppendTransaction(c)
    BY ReturnNotes, <2>21 DEF AppendTransaction, pageVars
  <2>22. CASE NothingToLog(c)
    BY ReturnNotes, <2>22 DEF NothingToLog, pageVars
  <2> QED
    BY <1>1, <2>1, <2>2, <2>3, <2>4, <2>5, <2>6, <2>7, <2>8, <2>9, <2>10, <2>11, <2>12, <2>13,
        <2>14, <2>15, <2>16, <2>17, <2>18, <2>19, <2>20, <2>21, <2>22 DEF Progress
<1>2. ASSUME NEW a \in Attacks, NEW p \in Participants, BeginAttack(a, p)
      PROVE  NotesInv'
  BY <1>2 DEF BeginAttack, pageVars, callVars, Stay, NotesInv, Noted
<1>3. ASSUME NEW u \in Undos, NEW a \in Attacks, BeginUndo(u, a)
      PROVE  NotesInv'
  BY <1>3 DEF BeginUndo, pageVars, callVars, Stay, NotesInv, Noted
<1>4. ASSUME NEW e \in Edits, NEW p \in Participants, NEW h \in 0..MaxHp, Edit(e, p, h)
      PROVE  NotesInv'
  <2>1. e \in Calls
    BY DEF Calls, Writers
  <2>2. /\ base'[e] = runtime[p] /\ UNCHANGED <<disk, runtime, landed>>
        /\ \A d \in Calls \ {e} : base'[d] = base[d]
    BY <1>4, <2>1 DEF Edit, StartWrite, TypeOK, CallTypes
  <2> QED BY <2>1, <2>2, OneMovesNotes DEF NotesInv
<1>5. ASSUME NEW s \in Saves, UseTurnControl(s)
      PROVE  NotesInv'
  BY <1>5, MapSaveNotes DEF UseTurnControl
<1>6. ASSUME NEW s \in Saves, DropToken(s)
      PROVE  NotesInv'
  BY <1>6, MapSaveNotes DEF DropToken
<1>7. CASE DragToken
  BY <1>7 DEF DragToken, pageVars, callVars, Stay, NotesInv, Noted
<1>8. CASE Restart
  <2>1. \A c \in Writers : base'[c] \in {base[c], None}
    BY <1>8 DEF Restart, Calls
  <2>2. runtime' = disk /\ UNCHANGED <<disk, landed>>
    BY <1>8 DEF Restart
  <2> QED BY <2>1, <2>2 DEF NotesInv, Noted
<1>9. CASE UNCHANGED vars
  BY <1>9 DEF vars, pageVars, callVars, NotesInv, Noted
<1> QED BY <1>1, <1>2, <1>3, <1>4, <1>5, <1>6, <1>7, <1>8, <1>9 DEF Next
-----------------------------------------------------------------------------
(***************************************************************************)
(* What has landed.                                                        *)
(***************************************************************************)
\* Two commands of one target's line cannot both be in their turn, nor two
\* writes of a page in their task.
LEMMA OneInTurn ==
  ASSUME LinesInv, NEW c \in Actions, NEW d \in Actions, phase[c] \in InTurn,
         phase[d] \in InTurn, page[c] = page[d]
  PROVE  c = d
BY DEF LinesInv, IsHead

LEMMA OneInTask ==
  ASSUME LinesInv, NEW c \in Calls, NEW d \in Calls, phase[c] \in InTask,
         phase[d] \in InTask, page[c] = page[d]
  PROVE  c = d
BY DEF LinesInv, IsWriting, IsHead

LEMMA OneMovesLanding ==
  ASSUME LandingInv, NEW c \in Calls, UNCHANGED <<disk, since, landed>>,
         \A d \in Calls \ {c} :
           phase'[d] = phase[d] /\ result'[d] = result[d] /\ page'[d] = page[d]
             /\ base'[d] = base[d] /\ next'[d] = next[d],
         \A d \in Calls \ {c} : d \in log' => d \in log,
         LandingOf(c)'
  PROVE  LandingInv'
<1>1. ASSUME NEW d \in Calls \ {c}
      PROVE  LandingOf(d)'
  <2>1. LandingOf(d)
    BY DEF LandingInv
  <2> QED BY <2>1 DEF LandingOf
<1> QED BY <1>1 DEF LandingInv

\* A call goes on to a step at which nothing needs to have landed.
LEMMA GotoLanding ==
  ASSUME LandingInv, LinesInv, LogInv, TypeOK, NEW c \in Calls, NEW p \in Phases, Goto(c, p),
         Running(c), UNCHANGED <<disk, since, landed, log, page>>,
         \A d \in Calls \ {c} : base'[d] = base[d] /\ next'[d] = next[d],
         c \in landed => p \in {"landed", "verifying", "audit", "done"},
         p \in {"landed", "verifying"} => c \in landed,
         p = "audit" => c \in landed \/ (c \in Attacks /\ next'[c] = base'[c]),
         p \in {"validated", "writing"} /\ c \in Attacks => since[c] = {},
         p = "writing" /\ c \in Writers => disk[page[c]] = base'[c]
  PROVE  LandingInv'
<1>1. /\ \A d \in Calls \ {c} : phase'[d] = phase[d]
      /\ phase'[c] = p /\ result' = result /\ c \notin log
  BY DEF Goto, TypeOK, StepTypes, LogInv, Running
<1>2. result[c] = None /\ None # "unchanged"
  BY CombatValuesAssumption DEF LinesInv, Running, Results
<1>3. LandingOf(c)'
  BY <1>1, <1>2 DEF LandingInv, LandingOf
<1> QED BY <1>1, <1>3, OneMovesLanding

LEMMA ReturnLanding ==
  ASSUME LandingInv, LogInv, TypeOK, NEW c \in Calls, NEW r, Return(c, r), phase[c] # "done",
         UNCHANGED <<disk, since, landed>>,
         log' = log \/ (phase[c] = "audit" /\ log' = log \cup {c}
                          /\ (c \in Attacks => MayBeLogged(c, r))),
         c \in Writers /\ r = "unchanged" => c \notin landed
  PROVE  LandingInv'
<1>1. c \notin log
  BY DEF LogInv
<1>2. LandingOf(c)'
  BY <1>1, ReturnKeeps DEF LandingInv, LandingOf
<1> QED BY <1>2, ReturnKeeps, OneMovesLanding

\* The bytes reach the file.  A command that failed before still finds its own
\* content, or that of somebody else's note.
LEMMA PutLanding ==
  ASSUME LandingInv, LinesInv, NotesInv, PlanInv, LogInv, TypeOK, NEW c \in Calls,
         phase[c] = "writing", PutOnDisk(c), UNCHANGED <<since, log>>,
         \A d \in Calls \ {c} :
           phase'[d] = phase[d] /\ result'[d] = result[d] /\ page'[d] = page[d]
             /\ base'[d] = base[d] /\ next'[d] = next[d],
         LandingOf(c)'
  PROVE  LandingInv'
<1>0. Running(c) /\ base[c] # None /\ c \notin landed /\ landed' = landed \cup {c}
  BY DEF Running, PlanInv, PlanOf, Prepared, LandingInv, LandingOf, PutOnDisk
<1>1. ASSUME NEW d \in Calls \ {c}
      PROVE  LandingOf(d)'
  <2>1. LandingOf(d) /\ (d \in landed' <=> d \in landed)
    BY <1>0 DEF LandingInv
  <2>2. CASE phase[d] \in {"writing", "failed"} /\ d \in Writers /\ page[d] = page[c]
    <3>1. c \in Writers /\ page[c] \in Participants /\ page[c] \in Pages
      <4>1. page[d] \in Participants
        BY <2>2, RunningPage DEF Running
      <4> QED BY <1>0, <2>2, <4>1, RunningPage, MapIsNoParticipant DEF Calls
    <3>2. disk[page[c]] = base[c] /\ disk'[page[c]] = next[c]
      BY <3>1 DEF LandingInv, LandingOf, PutOnDisk, TypeOK, PageTypes
    <3>3. phase[d] # "writing"
      BY <2>2, OneInTask DEF InTask
    <3>4. CASE c \in Edits /\ d \in landed
      <4>1. next[c].note = c /\ c # None
        BY <1>0, <3>4, CombatAssumption DEF PlanInv, PlanOf
      <4>2. base[d].note \in Noted
        BY <2>2, <3>3 DEF PlanInv, PlanOf, Prepared, NotesInv
      <4>3. base[d].note # c
        BY <1>0, <4>1, <4>2 DEF Noted
      <4> QED BY <1>0, <2>1, <2>2, <3>2, <3>3, <4>1, <4>3 DEF LandingOf
    <3>5. CASE c \in Actions /\ d \in landed
      <4>1. next[c].note = base[c].note
        BY <1>0, <3>5 DEF PlanInv, PlanOf
      <4>2. d \notin Actions
        BY <2>2, <3>3, <3>5, OneInTurn DEF InTurn
      <4> QED BY <1>0, <2>1, <2>2, <3>2, <3>3, <4>1, <4>2 DEF LandingOf
    <3> QED BY <1>0, <2>1, <2>2, <3>1, <3>3, <3>4, <3>5 DEF LandingOf, Writers
  <2>3. CASE ~(phase[d] \in {"writing", "failed"} /\ d \in Writers /\ page[d] = page[c])
    <3>1. phase[d] \in {"writing", "failed"} /\ d \in Writers => disk'[page[d]] = disk[page[d]]
      BY <2>3, RunningPage DEF PutOnDisk, TypeOK, PageTypes, Running
    <3> QED BY <2>1, <3>1 DEF LandingOf
  <2> QED BY <2>2, <2>3
<1> QED BY <1>1 DEF LandingInv

LEMMA WriterDiffers ==
  ASSUME PlanInv, LogInv, TypeOK, NEW c \in Writers, phase[c] \in Prepared \ {"audit"}
  PROVE  base[c] # None /\ next[c] # base[c] /\ (c \in Edits => next[c].note # base[c].note)
<1>1. base[c] # None /\ PlanOf(c)
  BY DEF PlanInv, PlanOf, Calls
<1>2. CASE c \in Edits
  BY <1>1, <1>2 DEF PlanOf
<1>3. CASE c \in Attacks
  BY <1>1, <1>3, CombatAssumption DEF PlanOf
<1>4. CASE c \in Undos
  <2>1. /\ asked[c] \in Attacks /\ next[asked[c]] # base[asked[c]] /\ PlanOf(asked[c])
    BY <1>4 DEF LogInv, Running, Prepared, InTurn, Reversible, PlanInv, Calls, Writers, Actions
  <2>2. base[asked[c]] \in Content
    BY <2>1 DEF PlanOf, TypeOK, CallTypes, Option, Writers, Actions
  <2>3. next[asked[c]].hp = base[asked[c]].hp - 1 /\ base[asked[c]].hp \in Int
    BY <2>1, <2>2, Contents DEF PlanOf
  <2> QED BY <1>1, <1>4, <2>3, CombatAssumption DEF PlanOf
<1> QED BY <1>2, <1>3, <1>4 DEF Writers, Actions

LEMMA ThrowLanding ==
  ASSUME LandingInv, LinesInv, NotesInv, PlanInv, LogInv, TypeOK, NEW c \in Calls, Throw(c),
         UNCHANGED <<since, log>>,
         \/ phase[c] \in {"checking", "validated", "writing"} /\ UNCHANGED <<disk, landed>>
         \/ phase[c] = "writing" /\ PutOnDisk(c)
  PROVE  LandingInv'
<1>0. /\ Running(c) /\ c \notin landed /\ c \notin log /\ result[c] = None /\ None # "unchanged"
      /\ phase[c] \in Prepared \ {"audit"}
  BY CombatValuesAssumption DEF LandingInv, LandingOf, LogInv, LinesInv, Running, Results,
      Prepared
<1>1. /\ \A d \in Calls \ {c} :
           phase'[d] = phase[d] /\ result'[d] = result[d] /\ page'[d] = page[d]
             /\ base'[d] = base[d] /\ next'[d] = next[d]
      /\ phase'[c] = IF c \in Writers THEN "failed" ELSE "done"
      /\ c \in Writers => result'[c] = None /\ page'[c] = page[c] /\ base'[c] = base[c]
                            /\ next'[c] = next[c]
      /\ result'[c] # "unchanged"
  BY <1>0, ReturnKeeps DEF Throw, AfterThrow, Goto, callVars, TypeOK, StepTypes
<1>2. CASE UNCHANGED <<disk, landed>>
  <2>1. LandingOf(c)'
    BY <1>0, <1>1, <1>2 DEF LandingInv, LandingOf
  <2> QED BY <1>1, <1>2, <2>1, OneMovesLanding
<1>3. CASE phase[c] = "writing" /\ PutOnDisk(c)
  <2>1. c \in Writers => disk'[page[c]] = next[c]
    BY <1>0, <1>3, RunningPage DEF PutOnDisk, TypeOK, PageTypes
  <2>2. c \in Edits => next[c].note # base[c].note
    BY <1>0, WriterDiffers DEF Writers
  <2>3. c \in Attacks => since[c] = {}
    BY <1>3 DEF LandingInv, LandingOf
  <2>4. LandingOf(c)'
    BY <1>0, <1>1, <2>1, <2>2, <2>3 DEF LandingOf, Writers
  <2> QED BY <1>1, <1>3, <2>4, PutLanding
<1> QED BY <1>2, <1>3

LEMMA MapSaveLanding ==
  ASSUME LandingInv, LogInv, LinesInv, TypeOK, NEW s \in Saves, NEW m, NEW logs,
         BeginMapSave(s, m, logs)
  PROVE  LandingInv'
<1>1. s \in Calls /\ s \notin Writers /\ s \notin Attacks /\ s \notin landed /\ s \notin log
  BY CombatAssumption DEF Calls, Writers, Actions, LogInv, LandingInv, LandingOf, BeginMapSave
<1>2. /\ UNCHANGED <<disk, landed, log>> /\ phase'[s] = "precondition"
      /\ \A d \in Calls \ {s} :
           phase'[d] = phase[d] /\ result'[d] = result[d] /\ page'[d] = page[d]
             /\ base'[d] = base[d] /\ next'[d] = next[d]
  BY <1>1 DEF BeginMapSave, Goto, TypeOK, StepTypes, CallTypes
<1>3. \A a \in Attacks : phase[a] \notin Stoppable => since'[a] = since[a]
  BY DEF BeginMapSave
<1>4. ASSUME NEW d \in Calls
      PROVE  LandingOf(d)'
  <2>1. CASE d = s
    BY <1>1, <1>2, <2>1 DEF LandingOf
  <2>2. CASE d # s
    <3>1. LandingOf(d)
      BY DEF LandingInv
    <3>2. phase[d] \in Stoppable => d \notin landed /\ phase[d] \notin {"validated", "writing"}
      BY <3>1 DEF LandingOf, Stoppable, Awaiting
    <3> QED BY <1>2, <1>3, <2>2, <3>1, <3>2 DEF LandingOf
  <2> QED BY <2>1, <2>2
<1> QED BY <1>4 DEF LandingInv


LEMMA LandingStep == CombatInv /\ [Next]_vars => LandingInv'
<1> SUFFICES ASSUME CombatInv, [Next]_vars PROVE LandingInv'
  OBVIOUS
<1>0. TypeOK /\ LinesInv /\ LogInv /\ NotesInv /\ PlanInv /\ LandingInv
  BY DEF CombatInv
<1> USE <1>0
<1>1. ASSUME NEW c \in Calls, Progress(c)
      PROVE  LandingInv'
  <2>1. CASE Refuse(c)
    <3>1. c \notin landed /\ phase[c] # "done"
      BY <2>1 DEF Refuse, Awaiting, LandingInv, LandingOf
    <3> QED BY <2>1, <3>1, ReturnLanding DEF Refuse, pageVars, mapVars
  <2>2. CASE Observe(c)
    <3>1. c \notin landed
      BY <2>2 DEF Observe, LandingInv, LandingOf
    <3> QED BY <2>2, <3>1, GotoLanding DEF Observe, Stay, pageVars, mapVars, Phases, Running
  <2>3. CASE EnterAttack(c)
    <3>1. c \notin landed
      BY <2>3 DEF EnterAttack, LandingInv, LandingOf
    <3> QED BY <2>3, <3>1, GotoLanding DEF EnterAttack, Stay, pageVars, mapVars, Phases, Running
  <2>4. CASE CheckMap(c)
    <3>1. c \notin landed
      BY <2>4 DEF CheckMap, LandingInv, LandingOf
    <3> QED BY <2>4, <3>1, GotoLanding DEF CheckMap, Stay, pageVars, mapVars, callVars, Phases, Running
  <2>5. CASE Roll(c)
    <3>1. c \notin landed
      BY <2>5 DEF Roll, LandingInv, LandingOf
    <3>2. \A d \in Calls \ {c} : base'[d] = base[d] /\ next'[d] = next[d]
      BY <2>5 DEF Roll, TypeOK, CallTypes
    <3> QED BY <2>5, <3>1, <3>2, GotoLanding DEF Roll, Stay, pageVars, mapVars, Phases, Running
  <2>6. CASE Commit(c)
    <3>1. c \notin landed /\ c \in Attacks
      BY <2>6 DEF Commit, LandingInv, LandingOf, LinesInv, MayBeIn
    <3>2. UNCHANGED <<disk, since, landed, log, page, base, next>>
      BY <2>6 DEF Commit, StartWrite, pageVars, mapVars, callVars, TypeOK, CallTypes
    <3>3. CASE next[c] = base[c]
      BY <2>6, <3>1, <3>2, <3>3, GotoLanding DEF Commit, Phases, Running
    <3>4. CASE next[c] # base[c]
      BY <2>6, <3>1, <3>2, <3>4, GotoLanding DEF Commit, StartWrite, Phases, Running
    <3> QED BY <3>3, <3>4
  <2>7. CASE Classify(c)
    <3>1. c \notin landed
      BY <2>7 DEF Classify, LandingInv, LandingOf
    <3> QED BY <2>7, <3>1, GotoLanding DEF Classify, Stay, pageVars, mapVars, Phases, Running
  <2>8. CASE Prepare(c)
    <3>1. c \notin landed
      BY <2>8 DEF Prepare, LandingInv, LandingOf
    <3>2. \A d \in Calls \ {c} : base'[d] = base[d] /\ next'[d] = next[d]
      BY <2>8 DEF Prepare, StartWrite, TypeOK, CallTypes
    <3> QED BY <2>8, <3>1, <3>2, GotoLanding DEF Prepare, StartWrite, pageVars, mapVars, Phases, Running
  <2>9. CASE MeetPrecondition(c)
    <3>1. c \notin landed
      BY <2>9 DEF MeetPrecondition, LandingInv, LandingOf
    <3> QED BY <2>9, <3>1, GotoLanding DEF MeetPrecondition, mapVars, callVars, Phases, Running
  <2>10. CASE StartTask(c)
    <3>1. c \notin landed
      BY <2>10 DEF StartTask, LandingInv, LandingOf
    <3>2. c \in Saves => c \notin Writers /\ c \notin Attacks
      BY CombatAssumption DEF Writers, Actions
    <3> QED BY <2>10, <3>1, <3>2, GotoLanding DEF StartTask, pageVars, mapVars, callVars, Phases, Running
  <2>11. CASE Validate(c)
    <3>1. c \notin landed
      BY <2>11 DEF Validate, LandingInv, LandingOf
    <3>2. c \in Attacks => since[c] = {}
      BY <2>11, CombatAssumption DEF Validate, StillValid, AsObserved, MapAsObserved
    <3> QED BY <2>11, <3>1, <3>2, GotoLanding DEF Validate, pageVars, mapVars, callVars, Phases, Running
  <2>12. CASE EnterWrite(c)
    <3>1. c \notin landed /\ (c \in Attacks => since[c] = {})
      BY <2>12 DEF EnterWrite, LandingInv, LandingOf
    <3> QED BY <2>12, <3>1, GotoLanding DEF EnterWrite, BaseIsDurable, pageVars, mapVars, callVars, Phases, Running
  <2>13. CASE LeaveQueue(c)
    <3>1. c \notin landed /\ phase[c] # "done"
      BY <2>13 DEF LeaveQueue, LandingInv, LandingOf
    <3> QED BY <2>13, <3>1, ReturnLanding DEF LeaveQueue, mapVars
  <2>14. CASE ValidationThrows(c)
    BY <2>14, ThrowLanding DEF ValidationThrows, Throw, mapVars
  <2>15. CASE WriteLands(c)
    <3>1. /\ \A d \in Calls \ {c} : phase'[d] = phase[d]
          /\ phase'[c] = "landed" /\ UNCHANGED <<result, page, base, next, since, log>>
      BY <2>15 DEF WriteLands, Goto, callVars, mapVars, TypeOK, StepTypes
    <3>2. c \notin log /\ result[c] = None /\ None # "unchanged" /\ (c \in Attacks => since[c] = {})
      BY <2>15, CombatValuesAssumption DEF WriteLands, LandingInv, LandingOf, LogInv, LinesInv,
          Results
    <3>3. landed' = landed \cup {c}
      BY <2>15 DEF WriteLands, PutOnDisk
    <3>4. LandingOf(c)'
      BY <3>1, <3>2, <3>3 DEF LandingOf
    <3> QED BY <2>15, <3>1, <3>4, PutLanding DEF WriteLands
  <2>16. CASE WriteThrows(c)
    BY <2>16, ThrowLanding DEF WriteThrows, Throw, mapVars
  <2>17. CASE InquireAfterThrow(c)
    <3>1. PICK r \in {FoundAfterThrow(c), "uncertain"} : Return(c, r)
      BY <2>17 DEF InquireAfterThrow
    <3>2. ASSUME c \in Writers, r = "unchanged"
          PROVE  c \notin landed
      <4>1. disk[page[c]] = base[c]
        BY <3>1, <3>2 DEF FoundAfterThrow
      <4>2. next[c] # base[c]
        BY <2>17, <3>2, WriterDiffers DEF InquireAfterThrow, Prepared
      <4> QED BY <2>17, <3>2, <4>1, <4>2 DEF InquireAfterThrow, LandingInv, LandingOf
    <3> QED BY <2>17, <3>1, <3>2, ReturnLanding DEF InquireAfterThrow, pageVars, mapVars
  <2>18. CASE WriteSaved(c)
    <3>1. c \in landed
      BY <2>18 DEF WriteSaved, LandingInv, LandingOf
    <3> QED BY <2>18, <3>1, GotoLanding DEF WriteSaved, mapVars, callVars, Phases, Running
  <2>19. CASE WriteUncertain(c)
    BY <2>19, ReturnLanding DEF WriteUncertain, mapVars
  <2>20. CASE VerifyHealth(c)
    <3>1. c \in landed
      BY <2>20 DEF VerifyHealth, LandingInv, LandingOf
    <3>2. UNCHANGED <<disk, since, landed, log>>
      BY <2>20 DEF VerifyHealth, pageVars, mapVars
    <3>3. CASE Goto(c, "audit") /\ UNCHANGED callVars
      BY <2>20, <3>1, <3>2, <3>3, GotoLanding DEF VerifyHealth, callVars, Phases, Running
    <3>4. CASE \E r \in {"completed", "uncertain"} : Return(c, r)
      BY <2>20, <3>2, <3>4, ReturnLanding DEF VerifyHealth
    <3> QED BY <2>20, <3>3, <3>4 DEF VerifyHealth
  <2>21. CASE AppendTransaction(c)
    <3>1. PICK r : Return(c, r) /\ log' \in {log, log \cup {c}} /\ r \in {"completed", "unconfirmed"}
      BY <2>21 DEF AppendTransaction
    <3> QED BY <2>21, <3>1, ReturnLanding DEF AppendTransaction, MayBeLogged, pageVars, mapVars
  <2>22. CASE NothingToLog(c)
    BY <2>22, ReturnLanding DEF NothingToLog, pageVars, mapVars
  <2> QED
    BY <1>1, <2>1, <2>2, <2>3, <2>4, <2>5, <2>6, <2>7, <2>8, <2>9, <2>10, <2>11, <2>12, <2>13,
        <2>14, <2>15, <2>16, <2>17, <2>18, <2>19, <2>20, <2>21, <2>22 DEF Progress
<1>2. ASSUME NEW a \in Attacks, NEW p \in Participants, BeginAttack(a, p)
      PROVE  LandingInv'
  <2>1. a \in Calls /\ a \notin log /\ a \notin landed /\ result[a] = None /\ None # "unchanged"
    BY <1>2, CombatValuesAssumption DEF BeginAttack, Calls, Writers, Actions, LogInv,
        LandingInv, LandingOf, LinesInv, Results
  <2>2. /\ UNCHANGED <<disk, since, landed, log, result, base, next>> /\ phase'[a] = "context"
        /\ \A d \in Calls \ {a} : phase'[d] = phase[d] /\ page'[d] = page[d]
    BY <1>2, <2>1 DEF BeginAttack, Goto, Stay, pageVars, mapVars, TypeOK, StepTypes, CallTypes
  <2>3. LandingOf(a)'
    BY <2>1, <2>2 DEF LandingOf
  <2> QED BY <2>1, <2>2, <2>3, OneMovesLanding
<1>3. ASSUME NEW u \in Undos, NEW a \in Attacks, BeginUndo(u, a)
      PROVE  LandingInv'
  <2>1. u \in Calls /\ u \notin log /\ u \notin landed /\ result[u] = None /\ None # "unchanged"
    BY <1>3, CombatValuesAssumption DEF BeginUndo, Calls, Writers, Actions, LogInv, LandingInv,
        LandingOf, LinesInv, Results
  <2>2. /\ UNCHANGED <<disk, since, landed, log, result, base, next>> /\ phase'[u] = "lined"
        /\ \A d \in Calls \ {u} : phase'[d] = phase[d] /\ page'[d] = page[d]
    BY <1>3, <2>1 DEF BeginUndo, Goto, Stay, pageVars, mapVars, TypeOK, StepTypes, CallTypes
  <2>3. LandingOf(u)'
    BY <2>1, <2>2 DEF LandingOf
  <2> QED BY <2>1, <2>2, <2>3, OneMovesLanding
<1>4. ASSUME NEW e \in Edits, NEW p \in Participants, NEW h \in 0..MaxHp, Edit(e, p, h)
      PROVE  LandingInv'
  <2>1. /\ e \in Calls /\ e \notin log /\ e \notin landed /\ result[e] = None /\ None # "unchanged"
        /\ e \notin Attacks
    BY <1>4, CombatValuesAssumption, CombatAssumption DEF Edit, Calls, Writers, Actions, LogInv,
        LandingInv, LandingOf, LinesInv, Results
  <2>2. /\ UNCHANGED <<disk, since, landed, log, result>> /\ phase'[e] = "precondition"
        /\ \A d \in Calls \ {e} :
             phase'[d] = phase[d] /\ page'[d] = page[d] /\ base'[d] = base[d] /\ next'[d] = next[d]
    BY <1>4, <2>1 DEF Edit, StartWrite, Goto, mapVars, TypeOK, StepTypes, CallTypes
  <2>3. LandingOf(e)'
    BY <2>1, <2>2 DEF LandingOf
  <2> QED BY <2>1, <2>2, <2>3, OneMovesLanding
<1>5. ASSUME NEW s \in Saves, UseTurnControl(s)
      PROVE  LandingInv'
  BY <1>5, MapSaveLanding DEF UseTurnControl
<1>6. ASSUME NEW s \in Saves, DropToken(s)
      PROVE  LandingInv'
  BY <1>6, MapSaveLanding DEF DropToken
<1>7. CASE DragToken
  BY <1>7 DEF DragToken, pageVars, callVars, LandingInv, LandingOf
<1>8. CASE Restart
  <2> SUFFICES ASSUME NEW c \in Calls PROVE LandingOf(c)'
    BY DEF LandingInv
  <2>1. LandingOf(c)
    BY DEF LandingInv
  <2>2. /\ UNCHANGED <<disk, landed, log>>
        /\ phase'[c] \in {"idle", "done"} /\ (phase[c] # "idle" => phase'[c] = "done")
        /\ phase[c] = "done" => base'[c] = base[c] /\ next'[c] = next[c]
        /\ c \in Attacks => since'[c] = {}
        /\ result'[c] = "unchanged" => result[c] = "unchanged"
    BY <1>8 DEF Restart
  <2>3. c \in log => phase[c] = "done"
    BY DEF LogInv
  <2> QED BY <2>1, <2>2, <2>3 DEF LandingOf
<1>9. CASE UNCHANGED vars
  BY <1>9 DEF vars, pageVars, mapVars, callVars, LandingInv, LandingOf
<1> QED BY <1>1, <1>2, <1>3, <1>4, <1>5, <1>6, <1>7, <1>8, <1>9 DEF Next
-----------------------------------------------------------------------------
(***************************************************************************)
(* Theorems.                                                               *)
(***************************************************************************)
\* The inductive invariant of attacks, undos, edits and map saves.
THEOREM InvariantHolds == Spec => []CombatInv
<1>1. Init => CombatInv
  BY InitInv
<1>2. CombatInv /\ [Next]_vars => CombatInv'
  BY TypeStep, LinesStep, LogStep, NotesStep, PlanStep, LandingStep DEF CombatInv
<1> QED BY <1>1, <1>2, PTL DEF Spec

\* Every variable keeps its type.
THEOREM TypeCorrect == Spec => []TypeOK
<1>1. CombatInv => TypeOK
  BY DEF CombatInv
<1> QED BY <1>1, InvariantHolds, PTL

\* The log never holds two reversals of one attack.
THEOREM OneReversal == Spec => []AtMostOneReversal
<1>1. CombatInv => AtMostOneReversal
  BY DEF CombatInv
<1> QED BY <1>1, InvariantHolds, PTL

\* What the log tells has been in the file, or changed nothing.
THEOREM LogIsTrue == Spec => []LogTellsWhatHappened
<1>1. CombatInv => LogTellsWhatHappened
  BY DEF CombatInv, LandingInv, LandingOf, LogTellsWhatHappened, TypeOK, StepTypes
<1> QED BY <1>1, InvariantHolds, PTL

\* A command that reports the page unchanged has never been in the file.
THEOREM UnchangedIsTrue == Spec => []UnchangedLeftNothing
<1>1. CombatInv => UnchangedLeftNothing
  BY DEF CombatInv, LandingInv, LandingOf, UnchangedLeftNothing, Calls, Writers
<1> QED BY <1>1, InvariantHolds, PTL

\* An attack overtaken by a turn control or a dropped token before the queue
\* looked at the map for the last time never reaches its target.
THEOREM OvertakenNeverLands == Spec => []OvertakenAttackNeverLands
<1>1. CombatInv => OvertakenAttackNeverLands
  BY DEF CombatInv, LandingInv, LandingOf, OvertakenAttackNeverLands, Calls, Writers, Actions
<1> QED BY <1>1, InvariantHolds, PTL

\* Only WriteLands and WriteThrows put a content into a file.
LEMMA OnlyWritesLand ==
  ASSUME CombatInv, [Next]_vars, NEW c \in Actions, c \in landed', c \notin landed
  PROVE  phase[c] = "writing" /\ PutOnDisk(c)
<1> USE DEF pageVars, Stay
<1>1. ASSUME NEW d \in Calls, Progress(d)
      PROVE  phase[c] = "writing" /\ PutOnDisk(c)
  <2>1. CASE WriteLands(d) \/ WriteThrows(d)
    BY <2>1 DEF WriteLands, WriteThrows, PutOnDisk
  <2>2. ASSUME Refuse(d) \/ Observe(d) \/ EnterAttack(d) \/ CheckMap(d) \/ Roll(d) \/ Commit(d)
                 \/ Classify(d) \/ Prepare(d)
        PROVE  landed' = landed
    BY <2>2 DEF Refuse, Observe, EnterAttack, CheckMap, Roll, Commit, StartWrite, Classify,
        Prepare
  <2>3. ASSUME MeetPrecondition(d) \/ StartTask(d) \/ Validate(d) \/ EnterWrite(d)
                 \/ LeaveQueue(d) \/ ValidationThrows(d) \/ InquireAfterThrow(d)
        PROVE  landed' = landed
    BY <2>3 DEF MeetPrecondition, StartTask, Validate, EnterWrite, LeaveQueue, ValidationThrows,
                InquireAfterThrow
  <2>4. ASSUME WriteSaved(d) \/ WriteUncertain(d) \/ VerifyHealth(d) \/ AppendTransaction(d)
                 \/ NothingToLog(d)
        PROVE  landed' = landed
    BY <2>4 DEF WriteSaved, WriteUncertain, VerifyHealth, AppendTransaction, NothingToLog
  <2> QED BY <1>1, <2>1, <2>2, <2>3, <2>4 DEF Progress
<1>2. ASSUME NEW a \in Attacks, NEW p \in Participants, BeginAttack(a, p)
      PROVE  landed' = landed
  BY <1>2 DEF BeginAttack
<1>3. ASSUME NEW u \in Undos, NEW a \in Attacks, BeginUndo(u, a)
      PROVE  landed' = landed
  BY <1>3 DEF BeginUndo
<1>4. ASSUME NEW e \in Edits, NEW p \in Participants, NEW h \in 0..MaxHp, Edit(e, p, h)
      PROVE  landed' = landed
  BY <1>4 DEF Edit, StartWrite
<1>5. ASSUME NEW s \in Saves, UseTurnControl(s) \/ DropToken(s)
      PROVE  landed' = landed
  BY <1>5 DEF UseTurnControl, DropToken, BeginMapSave
<1>6. CASE DragToken \/ Restart \/ UNCHANGED vars
  BY <1>6 DEF DragToken, Restart, vars
<1> QED BY <1>1, <1>2, <1>3, <1>4, <1>5, <1>6 DEF Next

\* Damage and its undo move the health they find by what their transaction
\* says, and keep the rest of the page.
THEOREM HealthMoves == Spec => HealthMovesAsLogged
<1> DEFINE Moved ==
      \A c \in Actions \cap (landed' \ landed) :
         LET old == disk[page[c]]
             new == disk'[page[c]]
         IN  /\ new.note = old.note
             /\ c \in Attacks => new.hp = old.hp - 1
             /\ c \in Undos   => LET a == asked[c]
                                 IN  old.hp = next[a].hp /\ new.hp = base[a].hp
<1>1. CombatInv /\ [Next]_vars => [Moved]_vars
  <2> SUFFICES ASSUME CombatInv, [Next]_vars, NEW c \in Actions, c \in landed', c \notin landed
               PROVE  /\ disk'[page[c]].note = disk[page[c]].note
                      /\ c \in Attacks => disk'[page[c]].hp = disk[page[c]].hp - 1
                      /\ c \in Undos => /\ disk[page[c]].hp = next[asked[c]].hp
                                        /\ disk'[page[c]].hp = base[asked[c]].hp
    OBVIOUS
  <2>1. phase[c] = "writing" /\ PutOnDisk(c) /\ c \in Writers /\ c \in Calls
    BY OnlyWritesLand DEF Calls, Writers
  <2>2. disk[page[c]] = base[c] /\ disk'[page[c]] = next[c]
    BY <2>1, RunningPage DEF CombatInv, LandingInv, LandingOf, PutOnDisk, TypeOK, PageTypes,
        Running
  <2>3. PlanOf(c) /\ phase[c] \in Prepared \ {"audit"}
    BY <2>1 DEF CombatInv, PlanInv, Prepared
  <2> QED BY <2>2, <2>3 DEF PlanOf
<1> QED BY <1>1, InvariantHolds, PTL DEF HealthMovesAsLogged, Spec
=============================================================================
