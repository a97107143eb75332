----------------------- MODULE ScopedTreeMoveProofs -----------------------
(***************************************************************************)
(* Proofs about ScopedTreeMove for every set of operations, saves and      *)
(* pages.                                                                  *)
(***************************************************************************)
EXTENDS ScopedTreeMove, TLAPS

\* The page a move is working on is one it planned, and the journal knows it.
LEMMA AtPage ==
  ASSUME MoveInv, NEW m \in Moves, stage[m] \in {"reading", "queued"} \cup InQueue
  PROVE  /\ at[m] \in Pages /\ at[m] \in left[m] /\ at[m] \in affected[m]
         /\ source[m][at[m]] \in Contents /\ target[m][at[m]] \in Contents
         /\ journal[m] # {}
<1>1. stage[m] \in Journaled
  BY DEF Journaled, InQueue
<1>2. at[m] \in left[m] /\ left[m] \subseteq affected[m] /\ affected[m] \subseteq Pages
  BY <1>1, MoveAssumption DEF MoveInv, TypeOK, PlanInv, Actors
<1>3. journal[m] # {}
  BY <1>1 DEF MoveInv, KnownInv
<1> QED BY <1>2, <1>3 DEF MoveInv, PlanInv

\* What one step of the initial guards does.
LEMMA GuardEffect ==
  ASSUME MoveInv, NEW m \in Moves, NEW p \in Pages, Guard(m, p)
  PROVE  /\ stage[m] = "guarding" /\ left[m] \subseteq affected[m] /\ affected[m] \in SUBSET Pages
         /\ \E s \in {"thrown", "journaling", "guarding"}, l \in SUBSET affected[m] :
              stage' = [stage EXCEPT ![m] = s] /\ left' = [left EXCEPT ![m] = l]
         /\ UNCHANGED <<journal, at, disk, runtime, affected, source, target, recovers, newest, accepted>>
<1> USE MoveAssumption
<1>1. /\ stage[m] = "guarding" /\ left[m] \subseteq affected[m] /\ affected[m] \in SUBSET Pages
      /\ UNCHANGED <<journal, at, disk, runtime, affected, source, target, recovers, newest, accepted>>
  BY DEF Guard, MoveInv, PlanInv, TypeOK, Actors, files, plan, line
<1>2. left = [left EXCEPT ![m] = left[m]] /\ stage = [stage EXCEPT ![m] = "guarding"]
  BY <1>1 DEF MoveInv, TypeOK
<1>3. CASE disk[p] # source[m][p]
  BY <1>1, <1>2, <1>3 DEF Guard, Go
<1>4. CASE disk[p] = source[m][p] /\ left[m] = {p}
  BY <1>1, <1>2, <1>4 DEF Guard, Go
<1>5. CASE disk[p] = source[m][p] /\ left[m] # {p}
  <2>1. left' = [left EXCEPT ![m] = left[m] \ {p}] /\ stage' = stage
    BY <1>5 DEF Guard
  <2> QED BY <1>1, <1>2, <2>1
<1> QED BY <1>3, <1>4, <1>5

\* The three outcomes of one step of an inspection: it ends, goes on to the
\* next page, or has planned the recovery of the pages in f.
InspectionEnds(r) ==
  /\ \E s \in {"refused", "done"} : stage' = [stage EXCEPT ![r] = s]
  /\ UNCHANGED <<left, affected, source, target>>

InspectionGoesOn(r, p, f) ==
  /\ affected' = [affected EXCEPT ![r] = f]
  /\ left' = [left EXCEPT ![r] = left[r] \ {p}]
  /\ UNCHANGED <<stage, source, target>>

RecoveryPlanned(r, f) ==
  /\ affected' = [affected EXCEPT ![r] = f]
  /\ left' = [left EXCEPT ![r] = f]
  /\ stage' = [stage EXCEPT ![r] = "guarding"]
  /\ source' = [source EXCEPT ![r] = [q \in Pages |-> IF q \in f THEN runtime[q] ELSE None]]
  /\ target' = [target EXCEPT ![r] =
                  [q \in Pages |-> IF q \in f THEN source[recovers[r]][q] ELSE None]]

LEMMA InspectEffect ==
  ASSUME MoveInv, NEW r \in Moves, NEW p \in Pages, Inspect(r, p)
  PROVE  /\ stage[r] = "inspecting" /\ journal[r] = {} /\ recovers[r] \in Moves
         /\ affected[recovers[r]] \in SUBSET Pages
         /\ UNCHANGED <<journal, at, disk, runtime, recovers, newest, accepted>>
         /\ \/ InspectionEnds(r)
            \/ \E f \in SUBSET affected[recovers[r]] : InspectionGoesOn(r, p, f)
            \/ \E f \in SUBSET affected[recovers[r]] : RecoveryPlanned(r, f)
<1> DEFINE m == recovers[r]
           found == affected[r] \cup (IF disk[p] = source[m][p] THEN {} ELSE {p})
<1>1. /\ stage[r] = "inspecting" /\ journal[r] = {} /\ p \in left[r] /\ m \in Moves
      /\ affected[m] \in SUBSET Pages
      /\ UNCHANGED <<journal, at, disk, runtime, recovers, newest, accepted>>
  BY DEF Inspect, MoveInv, TypeOK, PlanInv, Unjournaled, Actors, Plan, files, line, plan
<1>2. found \in SUBSET affected[m]
  BY <1>1 DEF MoveInv, PlanInv
<1>3. CASE ~Classifiable(r, p)
  BY <1>1, <1>3 DEF Inspect, Go, plan, InspectionEnds
<1>4. CASE Classifiable(r, p) /\ left[r] # {p}
  <2>1. InspectionGoesOn(r, p, found)
    BY <1>4 DEF Inspect, InspectionGoesOn
  <2> QED BY <1>1, <1>2, <2>1
<1>5. CASE Classifiable(r, p) /\ left[r] = {p} /\ found = {}
  BY <1>1, <1>5 DEF Inspect, Go, plan, InspectionEnds
<1>6. CASE Classifiable(r, p) /\ left[r] = {p} /\ found # {}
  <2>1. RecoveryPlanned(r, found)
    BY <1>6 DEF Inspect, Plan, Go, RecoveryPlanned
  <2> QED BY <1>1, <1>2, <2>1
<1> QED BY <1>3, <1>4, <1>5, <1>6

\* What the readback does.
LEMMA ReadBackEffect ==
  ASSUME MoveInv, NEW m \in Moves, NEW ok \in BOOLEAN, ReadBack(m, ok)
  PROVE  /\ stage[m] = "verifying"
         /\ UNCHANGED <<disk, journal, at, affected, source, target, recovers, newest, accepted>>
         /\ \/ /\ stage' = [stage EXCEPT ![m] = "failing"] /\ UNCHANGED <<runtime, left>>
            \/ /\ \E s \in {"committing", "moving"} : stage' = [stage EXCEPT ![m] = s]
               /\ left' = [left EXCEPT ![m] = left[m] \ {at[m]}]
               /\ runtime' = [runtime EXCEPT ![at[m]] = target[m][at[m]]]
               /\ disk[at[m]] = target[m][at[m]]
<1>1. /\ stage[m] = "verifying"
      /\ UNCHANGED <<disk, journal, at, affected, source, target, recovers, newest, accepted>>
  BY DEF ReadBack, plan, line
<1>2. CASE ok /\ disk[at[m]] = target[m][at[m]] /\ ~IsStale(m, at[m])
  BY <1>1, <1>2 DEF ReadBack, Go
<1>3. CASE ~(ok /\ disk[at[m]] = target[m][at[m]] /\ ~IsStale(m, at[m]))
  BY <1>1, <1>3 DEF ReadBack, Go
<1> QED BY <1>2, <1>3

\* A journal write of a move leaves it with an entry, if it had one.
LEMMA EnteredEffect ==
  ASSUME TypeOK, NEW m \in Moves, NEW place \in Places, NEW ok \in BOOLEAN, NEW landed \in BOOLEAN,
         Entered(m, place, ok, landed)
  PROVE  /\ journal' \in [Moves -> SUBSET Places]
         /\ \A o \in Moves : journal[o] \subseteq journal'[o]
         /\ \A o \in Moves \ {m} : journal'[o] = journal[o]
         /\ ok => place \in journal'[m]
BY DEF Entered, TypeOK

\* The types.
LEMMA TypeStep ==
  ASSUME MoveInv, [Next]_vars
  PROVE  TypeOK'
<1> USE MoveAssumption DEF MoveInv, Go, files, plan, line
<1>1. ASSUME NEW m \in Moves, NEW P \in SUBSET Pages, StartMove(m, P)
      PROVE  TypeOK'
  BY <1>1 DEF StartMove, Begins, Plan, TypeOK, Contents, Actors, Stages, InQueue
<1>2. ASSUME NEW m \in Moves, NEW o \in Moves, StartRecovery(m, o)
      PROVE  TypeOK'
  BY <1>2 DEF StartRecovery, Begins, TypeOK, Actors, Stages, InQueue
<1>3. ASSUME NEW m \in Moves, NEW p \in Pages, Inspect(m, p)
      PROVE  TypeOK'
  <2>0. /\ stage[m] = "inspecting" /\ journal[m] = {} /\ recovers[m] \in Moves
        /\ affected[recovers[m]] \in SUBSET Pages
        /\ UNCHANGED <<journal, at, disk, runtime, recovers, newest, accepted>>
    BY <1>3, InspectEffect
  <2>1. CASE InspectionEnds(m)
    BY <2>0, <2>1 DEF TypeOK, Actors, Stages, InQueue, Ended, InspectionEnds
  <2>2. ASSUME NEW f \in SUBSET affected[recovers[m]], InspectionGoesOn(m, p, f)
        PROVE  TypeOK'
    BY <2>0, <2>2 DEF TypeOK, Actors, InQueue, InspectionGoesOn
  <2>3. ASSUME NEW f \in SUBSET affected[recovers[m]], RecoveryPlanned(m, f)
        PROVE  TypeOK'
    BY <2>0, <2>3 DEF TypeOK, Actors, Stages, InQueue, RecoveryPlanned
  <2> QED BY <1>3, InspectEffect, <2>1, <2>2, <2>3
<1>4. ASSUME NEW m \in Moves, NEW p \in Pages, Guard(m, p)
      PROVE  TypeOK'
  <2>0. stage[m] = "guarding" /\ left[m] \subseteq affected[m] /\ affected[m] \in SUBSET Pages
    BY <1>4, GuardEffect
  <2>1. PICK s \in {"thrown", "journaling", "guarding"}, l \in SUBSET affected[m] :
            stage' = [stage EXCEPT ![m] = s] /\ left' = [left EXCEPT ![m] = l]
    BY <1>4, GuardEffect
  <2>2. UNCHANGED <<journal, at, disk, runtime, affected, source, target, recovers, newest, accepted>>
    BY <1>4, GuardEffect
  <2> QED BY <2>0, <2>1, <2>2 DEF TypeOK, Actors, Stages, InQueue, Ended
<1>5. ASSUME NEW m \in Moves, GuardReadFails(m)
      PROVE  TypeOK'
  BY <1>5 DEF GuardReadFails, TypeOK, Actors, Stages, InQueue, Ended
<1>6. ASSUME NEW m \in Moves, NEW ok \in BOOLEAN, NEW landed \in BOOLEAN, BeginJournal(m, ok, landed)
      PROVE  TypeOK'
  BY <1>6 DEF BeginJournal, Entered, TypeOK, Actors, Stages, InQueue, Ended, Places
<1>7. ASSUME NEW m \in Moves, NEW p \in Pages, BeginPage(m, p)
      PROVE  TypeOK'
  BY <1>7 DEF BeginPage, TypeOK, Actors, Stages
<1>8. ASSUME NEW m \in Moves, NEW ok \in BOOLEAN, CheckPage(m, ok)
      PROVE  TypeOK'
  <2>1. at[m] \in Pages /\ at[m] \in left[m] /\ journal[m] # {}
    BY <1>8, AtPage DEF CheckPage
  <2>2. /\ stage[m] = "reading" /\ \E s \in {"queued", "failing"} : stage' = [stage EXCEPT ![m] = s]
        /\ UNCHANGED <<journal, left, at, newest, disk, runtime, affected, source, target, recovers>>
    BY <1>8 DEF CheckPage
  <2>3. accepted' = accepted \/ accepted' = [accepted EXCEPT ![at[m]] = m]
    BY <1>8 DEF CheckPage
  <2>4. PICK s \in {"queued", "failing"} : stage' = [stage EXCEPT ![m] = s]
    BY <2>2
  <2>5. stage' \in [Actors -> Stages] /\ accepted' \in [Pages -> Actors \cup {None}]
    BY <2>1, <2>3, <2>4 DEF TypeOK, Actors, Stages
  <2>6. \A o \in Moves : stage'[o] \in {"reading", "queued"} \cup InQueue => at'[o] \in left'[o]
    BY <2>1, <2>2, <2>4 DEF TypeOK, InQueue
  <2> QED BY <2>2, <2>5, <2>6 DEF TypeOK
<1>9. ASSUME NEW m \in Moves, NEW ok \in BOOLEAN, StartWrite(m, ok)
      PROVE  TypeOK'
  BY <1>9 DEF StartWrite, MayStart, TypeOK, Actors, Stages, InQueue
<1>10. ASSUME NEW m \in Moves, NEW ok \in BOOLEAN, NEW landed \in BOOLEAN, WriteSettles(m, ok, landed)
      PROVE  TypeOK'
  <2>1. /\ stage[m] = "writing" /\ \E s \in {"verifying", "failing"} : stage' = [stage EXCEPT ![m] = s]
        /\ UNCHANGED <<runtime, journal, left, at, affected, source, target, recovers, newest, accepted>>
        /\ disk' = disk \/ disk' = [disk EXCEPT ![at[m]] = target[m][at[m]]]
    BY <1>10 DEF WriteSettles
  <2>2. at[m] \in Pages /\ at[m] \in left[m] /\ target[m][at[m]] \in Contents /\ journal[m] # {}
    BY <2>1, AtPage DEF InQueue
  <2>3. PICK s \in {"verifying", "failing"} : stage' = [stage EXCEPT ![m] = s]
    BY <2>1
  <2>4. stage' \in [Actors -> Stages] /\ disk' \in [Pages -> Contents]
    BY <2>1, <2>2, <2>3 DEF TypeOK, Stages, InQueue
  <2>5. \A o \in Moves : stage'[o] \in {"reading", "queued"} \cup InQueue => at'[o] \in left'[o]
    BY <2>1, <2>2, <2>3 DEF TypeOK, InQueue
  <2> QED BY <2>1, <2>4, <2>5 DEF TypeOK
<1>11. ASSUME NEW m \in Moves, NEW ok \in BOOLEAN, ReadBack(m, ok)
      PROVE  TypeOK'
  <2>0. /\ stage[m] = "verifying"
        /\ UNCHANGED <<disk, journal, at, affected, source, target, recovers, newest, accepted>>
    BY <1>11, ReadBackEffect
  <2>1. /\ at[m] \in Pages /\ at[m] \in left[m] /\ target[m][at[m]] \in Contents
        /\ journal[m] # {}
    BY <2>0, AtPage DEF InQueue
  <2>2. CASE stage' = [stage EXCEPT ![m] = "failing"] /\ UNCHANGED <<runtime, left>>
    BY <2>0, <2>1, <2>2 DEF TypeOK, Actors, Stages
  <2>3. CASE /\ \E s \in {"committing", "moving"} : stage' = [stage EXCEPT ![m] = s]
             /\ left' = [left EXCEPT ![m] = left[m] \ {at[m]}]
             /\ runtime' = [runtime EXCEPT ![at[m]] = target[m][at[m]]]
             /\ disk[at[m]] = target[m][at[m]]
    BY <2>0, <2>1, <2>3 DEF TypeOK, Actors, Stages, InQueue
  <2> QED BY <1>11, ReadBackEffect, <2>2, <2>3
<1>12. ASSUME NEW m \in Moves, NEW ok \in BOOLEAN, NEW landed \in BOOLEAN, Commit(m, ok, landed)
      PROVE  TypeOK'
  BY <1>12 DEF Commit, Entered, TypeOK, Actors, Stages, InQueue, Places
<1>13. ASSUME NEW m \in Moves, NEW ok \in BOOLEAN, RemovePending(m, ok)
      PROVE  TypeOK'
  BY <1>13 DEF RemovePending, TypeOK, Actors, Stages, InQueue, Ended
<1>14. ASSUME NEW m \in Moves, NEW ok \in BOOLEAN, NEW landed \in BOOLEAN, FailJournal(m, ok, landed)
      PROVE  TypeOK'
  BY <1>14 DEF FailJournal, Entered, TypeOK, Actors, Stages, InQueue, Ended, Places
<1>15. ASSUME NEW e \in Saves, NEW p \in Pages, QueueSave(e, p)
      PROVE  TypeOK'
  BY <1>15 DEF QueueSave, TypeOK, Actors, Stages
<1>16. ASSUME NEW e \in Saves, StartSave(e)
      PROVE  TypeOK'
  BY <1>16 DEF StartSave, TypeOK, Actors, Stages, InQueue, Ended
<1>17. ASSUME NEW e \in Saves, NEW ok \in BOOLEAN, NEW landed \in BOOLEAN, SaveSettles(e, ok, landed)
      PROVE  TypeOK'
  <2>1. /\ stage[e] = "writing" /\ \E s \in {"done", "failed"} : stage' = [stage EXCEPT ![e] = s]
        /\ UNCHANGED <<journal, left, at, affected, source, target, recovers, newest, accepted>>
        /\ disk' = disk \/ disk' = [disk EXCEPT ![at[e]] = e]
        /\ runtime' = runtime \/ runtime' = [runtime EXCEPT ![at[e]] = e]
             \/ runtime' = [runtime EXCEPT ![at[e]] = source[e][at[e]]]
    BY <1>17 DEF SaveSettles
  <2>2. at[e] \in Pages /\ source[e][at[e]] \in Contents /\ e \notin Moves
    BY <2>1 DEF PlanInv
  <2>3. PICK s \in {"done", "failed"} : stage' = [stage EXCEPT ![e] = s]
    BY <2>1
  <2>4. stage' \in [Actors -> Stages]
    BY <2>1, <2>3 DEF TypeOK, Stages, Ended
  <2>6. e \in Contents
    BY DEF Contents, Actors
  <2>7. disk' \in [Pages -> Contents]
    BY <2>1, <2>2, <2>6 DEF TypeOK
  <2>8. runtime' \in [Pages -> Contents]
    <3> DEFINE x == source[e][at[e]]
    <3>1. x \in Contents /\ at[e] \in Pages /\ runtime \in [Pages -> Contents]
      BY <2>2 DEF TypeOK
    <3>2. \/ runtime' = runtime
          \/ runtime' = [runtime EXCEPT ![at[e]] = e]
          \/ runtime' = [runtime EXCEPT ![at[e]] = x]
      BY <2>1
    <3> HIDE DEF x
    <3> QED BY <2>6, <3>1, <3>2
  <2>5. \A o \in Moves : stage'[o] \in {"reading", "queued"} \cup InQueue => at'[o] \in left'[o]
    BY <2>1, <2>2, <2>3 DEF TypeOK, InQueue
  <2> QED BY <2>1, <2>4, <2>5, <2>7, <2>8 DEF TypeOK
<1>18. ASSUME NEW p \in Pages, NEW x \in Outside, OutsideEdit(p, x)
      PROVE  TypeOK'
  BY <1>18 DEF OutsideEdit, TypeOK, Contents
<1>19. ASSUME Restart
      PROVE  TypeOK'
  BY <1>19 DEF Restart, TypeOK, Actors, Stages, InQueue, Ended
<1>20. CASE UNCHANGED vars
  BY <1>20 DEF vars, TypeOK
<1> QED
  BY <1>1, <1>2, <1>3, <1>4, <1>5, <1>6, <1>7, <1>8, <1>9, <1>10, <1>11, <1>12, <1>13, <1>14, <1>15, <1>16, <1>17, <1>18, <1>19, <1>20
  DEF Next, Progress, SaveProgress

\* A move past its inspection that changes its stage keeps its plan.
LEMMA PlanKept ==
  ASSUME MoveInv, NEW m \in Moves, NEW s \in Stages \ {"idle", "inspecting"},
         stage[m] = "guarding" \/ stage[m] \in Journaled,
         stage' = [stage EXCEPT ![m] = s],
         s \in Unjournaled => journal'[m] = {},
         \A o \in Moves : left'[o] = left[o] \/ (o = m /\ left'[o] \subseteq affected[o]),
         \A o \in Moves : journal[o] \subseteq journal'[o],
         \A o \in Moves \ {m} : journal'[o] = journal[o],
         UNCHANGED <<at, affected, source, target, recovers>>
  PROVE  PlanInv'
<1> USE MoveAssumption DEF MoveInv
<1>1. stage'[m] = s /\ \A a \in Actors \ {m} : stage'[a] = stage[a]
  BY DEF TypeOK, Actors
<1>2. stage[m] = "guarding" \/ journal[m] # {}
  BY DEF KnownInv
<1>3. \A o \in Moves : stage'[o] \in Unjournaled => journal'[o] = {}
  BY <1>1 DEF PlanInv, Actors
<1>4. \A o \in Moves : stage'[o] = "idle" => affected'[o] = {}
  BY <1>1 DEF PlanInv, Actors
<1>5. \A o \in Moves :
        journal'[o] # {} \/ stage'[o] \in {"guarding", "journaling"} =>
          \A p \in affected'[o] : source'[o][p] \in Contents /\ target'[o][p] \in Contents
  BY <1>1, <1>2 DEF PlanInv, Actors
<1>6. \A o \in Moves :
        stage'[o] \in Journaled \cup {"guarding", "journaling"} => left'[o] \subseteq affected'[o]
  BY <1>1 DEF PlanInv, Actors
<1>7. \A r \in Moves : stage'[r] = "inspecting" =>
        /\ recovers'[r] \in Moves /\ journal'[recovers[r]] # {}
        /\ left'[r] \cup affected'[r] \subseteq affected'[recovers[r]]
  BY <1>1 DEF PlanInv, Actors
<1>8. \A e \in Saves : stage'[e] \in {"queued", "writing"} =>
        at'[e] \in Pages /\ source'[e][at[e]] \in Contents
  BY <1>1 DEF PlanInv, Actors
<1> QED BY <1>3, <1>4, <1>5, <1>6, <1>7, <1>8 DEF PlanInv, Contents

\* Plans stay complete and final.
LEMMA PlanStep ==
  ASSUME MoveInv, [Next]_vars
  PROVE  PlanInv'
<1> USE MoveAssumption DEF MoveInv, Go, files, plan, line
<1>1. ASSUME NEW m \in Moves, NEW P \in SUBSET Pages, StartMove(m, P)
      PROVE  PlanInv'
  BY <1>1 DEF StartMove, Begins, Plan, PlanInv, TypeOK, Unjournaled, InQueue, Ended, Contents, Actors, Places
<1>2. ASSUME NEW m \in Moves, NEW o \in Moves, StartRecovery(m, o)
      PROVE  PlanInv'
  <2>1. /\ stage[m] = "idle" /\ o # m /\ journal[o] # {}
        /\ recovers' = [recovers EXCEPT ![m] = o]
        /\ left' = [left EXCEPT ![m] = affected[o]]
        /\ Go(m, "inspecting")
        /\ UNCHANGED <<journal, affected, at, source, target>>
    BY <1>2 DEF StartRecovery, Begins
  <2>2. /\ stage' = [stage EXCEPT ![m] = "inspecting"] /\ m \in Actors
        /\ stage \in [Actors -> Stages] /\ left \in [Moves -> SUBSET Pages]
        /\ recovers \in [Moves -> Moves \cup {None}]
    BY <2>1 DEF TypeOK, Actors
  <2>3. \A n \in Moves : stage'[n] # "inspecting" \/ n # m => stage'[n] = stage[n]
    BY <2>2 DEF Actors
  <2>4. \A n \in Moves : n # m => recovers'[n] = recovers[n] /\ left'[n] = left[n]
    BY <2>1, <2>2
  <2>5. /\ stage'[m] = "inspecting" /\ recovers'[m] = o /\ left'[m] = affected[o]
        /\ affected[m] = {}
    BY <2>1, <2>2 DEF PlanInv
  <2>6. \A n \in Moves : stage'[n] \in Unjournaled => journal'[n] = {}
    BY <2>1, <2>3, <2>5 DEF PlanInv, Unjournaled
  <2>7. \A n \in Moves : stage'[n] = "idle" => affected'[n] = {}
    BY <2>1, <2>3, <2>5 DEF PlanInv
  <2>8. \A n \in Moves :
          journal'[n] # {} \/ stage'[n] \in {"guarding", "journaling"} =>
            \A p \in affected'[n] : source'[n][p] \in Contents /\ target'[n][p] \in Contents
    BY <2>1, <2>3, <2>5 DEF PlanInv
  <2>9. \A n \in Moves :
          stage'[n] \in Journaled \cup {"guarding", "journaling"} => left'[n] \subseteq affected'[n]
    BY <2>1, <2>3, <2>4, <2>5 DEF PlanInv, Journaled, InQueue
  <2>10. \A r \in Moves : stage'[r] = "inspecting" =>
           /\ recovers'[r] \in Moves /\ journal'[recovers[r]'] # {}
           /\ left'[r] \cup affected'[r] \subseteq affected'[recovers[r]']
    BY <2>1, <2>3, <2>4, <2>5 DEF PlanInv
  <2>11. \A e \in Saves : stage'[e] \in {"queued", "writing"} =>
           at'[e] \in Pages /\ source'[e][at[e]] \in Contents
    BY <2>1, <2>2, <2>5 DEF PlanInv, Actors
  <2> QED BY <2>1, <2>6, <2>7, <2>8, <2>9, <2>10, <2>11 DEF PlanInv, Contents
<1>3. ASSUME NEW m \in Moves, NEW p \in Pages, Inspect(m, p)
      PROVE  PlanInv'
  <2>0. /\ stage[m] = "inspecting" /\ journal[m] = {} /\ recovers[m] \in Moves
        /\ affected[recovers[m]] \in SUBSET Pages
        /\ UNCHANGED <<journal, at, disk, runtime, recovers, newest, accepted>>
    BY <1>3, InspectEffect
  <2>1. CASE InspectionEnds(m)
    <3>1. PICK s \in {"refused", "done"} : stage' = [stage EXCEPT ![m] = s]
      BY <2>1 DEF InspectionEnds
    <3>2. UNCHANGED <<journal, at, recovers, left, affected, source, target>>
      BY <2>0, <2>1 DEF InspectionEnds
    <3>3. \A a \in Actors : stage'[a] = stage[a] \/ (a = m /\ stage'[a] \in {"refused", "done"})
      BY <3>1 DEF TypeOK, Actors
    <3> QED BY <3>2, <3>3 DEF PlanInv, Unjournaled, Journaled, InQueue, Actors
  <2>2. ASSUME NEW f \in SUBSET affected[recovers[m]], InspectionGoesOn(m, p, f)
        PROVE  PlanInv'
    BY <2>0, <2>2 DEF PlanInv, Journaled, InQueue, InspectionGoesOn
  <2>3. ASSUME NEW f \in SUBSET affected[recovers[m]], RecoveryPlanned(m, f)
        PROVE  PlanInv'
    <3>1. /\ \A a \in Actors \ {m} : stage'[a] = stage[a] /\ affected'[a] = affected[a] /\ source'[a] = source[a]
          /\ \A o \in Moves \ {m} : left'[o] = left[o] /\ target'[o] = target[o]
      BY <2>3 DEF RecoveryPlanned, TypeOK, Actors
    <3>2. /\ stage'[m] = "guarding" /\ left'[m] = f /\ affected'[m] = f
          /\ \A p1 \in f : source'[m][p1] = runtime[p1] /\ target'[m][p1] = source[recovers[m]][p1]
      BY <2>0, <2>3 DEF RecoveryPlanned, TypeOK, Actors
    <3>3. \A p1 \in f : source'[m][p1] \in Contents /\ target'[m][p1] \in Contents
      <4>1. journal[recovers[m]] # {}
        BY <2>0 DEF PlanInv
      <4>2. \A p1 \in f : runtime[p1] \in Contents /\ source[recovers[m]][p1] \in Contents
        BY <2>0, <4>1 DEF PlanInv, TypeOK
      <4> QED BY <3>2, <4>2
    <3>4. recovers' = recovers /\ at' = at /\ journal' = journal
      BY <2>0
    <3>5. \A o \in Moves : stage'[o] \in Unjournaled => journal'[o] = {}
      BY <2>0, <3>1, <3>4 DEF PlanInv, Actors
    <3>6. \A o \in Moves : stage'[o] = "idle" => affected'[o] = {}
      BY <3>1, <3>2 DEF PlanInv, Actors
    <3>7. \A o \in Moves :
            journal'[o] # {} \/ stage'[o] \in {"guarding", "journaling"} =>
              \A p1 \in affected'[o] : source'[o][p1] \in Contents /\ target'[o][p1] \in Contents
      BY <3>1, <3>2, <3>3, <3>4 DEF PlanInv, Actors
    <3>8. \A o \in Moves :
            stage'[o] \in Journaled \cup {"guarding", "journaling"} => left'[o] \subseteq affected'[o]
      BY <3>1, <3>2 DEF PlanInv, Actors
    <3>9. \A r \in Moves : stage'[r] = "inspecting" =>
            /\ recovers'[r] \in Moves /\ journal'[recovers'[r]] # {}
            /\ left'[r] \cup affected'[r] \subseteq affected'[recovers'[r]]
      <4> SUFFICES ASSUME NEW r \in Moves, stage'[r] = "inspecting"
                   PROVE  /\ recovers[r] \in Moves /\ journal[recovers[r]] # {}
                          /\ left'[r] \cup affected'[r] \subseteq affected'[recovers[r]]
        BY <3>4
      <4>1. r # m /\ stage[r] = "inspecting"
        BY <3>1, <3>2 DEF Actors
      <4>2. recovers[r] \in Moves \ {m}
        BY <2>0, <4>1 DEF PlanInv
      <4> QED BY <3>1, <4>1, <4>2 DEF PlanInv, Actors
    <3>10. \A e \in Saves : stage'[e] \in {"queued", "writing"} =>
             at'[e] \in Pages /\ source'[e][at'[e]] \in Contents
      BY <3>1, <3>4 DEF PlanInv, Actors
    <3> QED BY <3>5, <3>6, <3>7, <3>8, <3>9, <3>10 DEF PlanInv, Contents, Actors
  <2> QED BY <1>3, InspectEffect, <2>1, <2>2, <2>3
<1>4. ASSUME NEW m \in Moves, NEW p \in Pages, Guard(m, p)
      PROVE  PlanInv'
  <2>0. stage[m] = "guarding" /\ left[m] \subseteq affected[m] /\ affected[m] \in SUBSET Pages
    BY <1>4, GuardEffect
  <2>1. PICK s \in {"thrown", "journaling", "guarding"}, l \in SUBSET affected[m] :
            stage' = [stage EXCEPT ![m] = s] /\ left' = [left EXCEPT ![m] = l]
    BY <1>4, GuardEffect
  <2>2. UNCHANGED <<journal, at, disk, runtime, affected, source, target, recovers, newest, accepted>>
    BY <1>4, GuardEffect
  <2>3. s \in {"guarding", "journaling"} => journal'[m] = {}
    BY <2>0, <2>2 DEF PlanInv, Unjournaled
  <2>4. \A o \in Moves : left'[o] = left[o] \/ (o = m /\ left'[o] \subseteq affected[o])
    BY <2>1 DEF TypeOK
  <2>5. s \in Stages \ {"idle", "inspecting"} /\ (s \in Unjournaled => journal'[m] = {})
    BY <2>3 DEF Stages, Ended, Unjournaled
  <2> QED BY <2>0, <2>1, <2>2, <2>4, <2>5, PlanKept
<1>5. ASSUME NEW m \in Moves, GuardReadFails(m)
      PROVE  PlanInv'
  BY <1>5 DEF GuardReadFails, PlanInv, Unjournaled
<1>6. ASSUME NEW m \in Moves, NEW ok \in BOOLEAN, NEW landed \in BOOLEAN, BeginJournal(m, ok, landed)
      PROVE  PlanInv'
  BY <1>6 DEF BeginJournal, Entered, PlanInv, TypeOK, Unjournaled, Journaled, InQueue, Actors
<1>7. ASSUME NEW m \in Moves, NEW p \in Pages, BeginPage(m, p)
      PROVE  PlanInv'
  BY <1>7 DEF BeginPage, PlanInv, Unjournaled, Journaled, Actors
<1>8. ASSUME NEW m \in Moves, NEW ok \in BOOLEAN, CheckPage(m, ok)
      PROVE  PlanInv'
  <2>1. at[m] \in Pages /\ at[m] \in left[m] /\ journal[m] # {}
    BY <1>8, AtPage DEF CheckPage
  <2>2. /\ stage[m] = "reading" /\ \E s \in {"queued", "failing"} : stage' = [stage EXCEPT ![m] = s]
        /\ UNCHANGED <<journal, left, at, newest, disk, runtime, affected, source, target, recovers>>
    BY <1>8 DEF CheckPage
  <2>3. accepted' = accepted \/ accepted' = [accepted EXCEPT ![at[m]] = m]
    BY <1>8 DEF CheckPage
  <2>4. PICK s \in {"queued", "failing"} : stage' = [stage EXCEPT ![m] = s]
    BY <2>2
  <2>5. s \in Stages \ {"idle", "inspecting"} /\ s \notin Unjournaled /\ stage[m] \in Journaled
    BY <2>2 DEF Stages, Unjournaled, Journaled
  <2> QED BY <2>2, <2>4, <2>5, PlanKept
<1>9. ASSUME NEW m \in Moves, NEW ok \in BOOLEAN, StartWrite(m, ok)
      PROVE  PlanInv'
  BY <1>9 DEF StartWrite, MayStart, PlanInv, Unjournaled, Journaled
<1>10. ASSUME NEW m \in Moves, NEW ok \in BOOLEAN, NEW landed \in BOOLEAN, WriteSettles(m, ok, landed)
      PROVE  PlanInv'
  BY <1>10 DEF WriteSettles, PlanInv, Unjournaled, Journaled, InQueue
<1>11. ASSUME NEW m \in Moves, NEW ok \in BOOLEAN, ReadBack(m, ok)
      PROVE  PlanInv'
  <2>0. /\ stage[m] = "verifying"
        /\ UNCHANGED <<disk, journal, at, affected, source, target, recovers, newest, accepted>>
    BY <1>11, ReadBackEffect
  <2>1. /\ at[m] \in Pages /\ at[m] \in left[m] /\ target[m][at[m]] \in Contents
        /\ journal[m] # {}
    BY <2>0, AtPage DEF InQueue
  <2>2. CASE stage' = [stage EXCEPT ![m] = "failing"] /\ UNCHANGED <<runtime, left>>
    BY <2>0, <2>1, <2>2 DEF PlanInv, Unjournaled, Journaled, InQueue
  <2>3. CASE /\ \E s \in {"committing", "moving"} : stage' = [stage EXCEPT ![m] = s]
             /\ left' = [left EXCEPT ![m] = left[m] \ {at[m]}]
             /\ runtime' = [runtime EXCEPT ![at[m]] = target[m][at[m]]]
             /\ disk[at[m]] = target[m][at[m]]
    <3>1. PICK s \in {"committing", "moving"} : stage' = [stage EXCEPT ![m] = s]
      BY <2>3
    <3>2. s \in Stages \ {"idle", "inspecting"} /\ s \notin Unjournaled /\ stage[m] \in Journaled
      BY <2>0 DEF Stages, Unjournaled, Journaled, InQueue
    <3>3. \A o \in Moves : left'[o] = left[o] \/ (o = m /\ left'[o] \subseteq affected[o])
      BY <2>3, <3>2 DEF TypeOK, PlanInv
    <3> QED BY <2>0, <3>1, <3>2, <3>3, PlanKept
  <2> QED BY <1>11, ReadBackEffect, <2>2, <2>3
<1>12. ASSUME NEW m \in Moves, NEW ok \in BOOLEAN, NEW landed \in BOOLEAN, Commit(m, ok, landed)
      PROVE  PlanInv'
  <2>1. /\ stage[m] = "committing" /\ stage' = [stage EXCEPT ![m] = IF ok THEN "cleaning" ELSE "failing"]
        /\ UNCHANGED <<left, at, disk, runtime, affected, source, target, recovers, newest, accepted>>
    BY <1>12 DEF Commit
  <2>2. /\ journal' \in [Moves -> SUBSET Places] /\ \A o \in Moves : journal[o] \subseteq journal'[o]
        /\ \A o \in Moves \ {m} : journal'[o] = journal[o]
        /\ ok => "committed" \in journal'[m]
    BY <1>12, EnteredEffect DEF Commit, Places
  <2>3. PICK s \in {"cleaning", "failing"} : stage' = [stage EXCEPT ![m] = s]
    BY <2>1
  <2>4. s \in Stages \ {"idle", "inspecting"} /\ s \notin Unjournaled /\ stage[m] \in Journaled
    BY <2>1 DEF Stages, Unjournaled, Journaled
  <2> QED BY <2>1, <2>2, <2>3, <2>4, PlanKept
<1>13. ASSUME NEW m \in Moves, NEW ok \in BOOLEAN, RemovePending(m, ok)
      PROVE  PlanInv'
  <2>1. /\ stage[m] = "cleaning" /\ stage' = [stage EXCEPT ![m] = "done"]
        /\ UNCHANGED <<left, at, disk, runtime, affected, source, target, recovers, newest, accepted>>
    BY <1>13 DEF RemovePending
  <2>2. "committed" \in journal[m]
    BY <2>1 DEF KnownInv
  <2>3. /\ journal' \in [Moves -> SUBSET Places] /\ journal'[m] # {} /\ journal[m] # {}
        /\ \A o \in Moves \ {m} : journal'[o] = journal[o]
    BY <1>13, <2>2 DEF RemovePending, TypeOK
  <2> QED BY <2>1, <2>3 DEF PlanInv, Unjournaled, Journaled, Actors
<1>14. ASSUME NEW m \in Moves, NEW ok \in BOOLEAN, NEW landed \in BOOLEAN, FailJournal(m, ok, landed)
      PROVE  PlanInv'
  <2>1. /\ stage[m] = "failing" /\ stage' = [stage EXCEPT ![m] = "failed"]
        /\ UNCHANGED <<left, at, disk, runtime, affected, source, target, recovers, newest, accepted>>
    BY <1>14 DEF FailJournal
  <2>2. /\ journal' \in [Moves -> SUBSET Places] /\ \A o \in Moves : journal[o] \subseteq journal'[o]
        /\ \A o \in Moves \ {m} : journal'[o] = journal[o]
        /\ ok => "failed" \in journal'[m]
    BY <1>14, EnteredEffect DEF FailJournal, Places
  <2>3. /\ "failed" \in Stages \ {"idle", "inspecting"} /\ "failed" \notin Unjournaled
        /\ stage[m] \in Journaled
    BY <2>1 DEF Stages, Ended, Unjournaled, Journaled
  <2> QED BY <2>1, <2>2, <2>3, PlanKept
<1>15. ASSUME NEW e \in Saves, NEW p \in Pages, QueueSave(e, p)
      PROVE  PlanInv'
  BY <1>15 DEF QueueSave, PlanInv, TypeOK, InQueue, Actors
<1>16. ASSUME NEW e \in Saves, StartSave(e)
      PROVE  PlanInv'
  BY <1>16 DEF StartSave, PlanInv
<1>17. ASSUME NEW e \in Saves, NEW ok \in BOOLEAN, NEW landed \in BOOLEAN, SaveSettles(e, ok, landed)
      PROVE  PlanInv'
  BY <1>17 DEF SaveSettles, PlanInv
<1>18. ASSUME NEW p \in Pages, NEW x \in Outside, OutsideEdit(p, x)
      PROVE  PlanInv'
  BY <1>18 DEF OutsideEdit, PlanInv
<1>19. ASSUME Restart
      PROVE  PlanInv'
  BY <1>19 DEF Restart, PlanInv, Unjournaled, Ended, Actors
<1>20. CASE UNCHANGED vars
  BY <1>20 DEF vars, PlanInv
<1> QED
  BY <1>1, <1>2, <1>3, <1>4, <1>5, <1>6, <1>7, <1>8, <1>9, <1>10, <1>11, <1>12, <1>13, <1>14, <1>15, <1>16, <1>17, <1>18, <1>19, <1>20
  DEF Next, Progress, SaveProgress

\* One write per page, over what the move recorded.
LEMMA LineStep ==
  ASSUME MoveInv, [Next]_vars
  PROVE  LineInv'
<1> USE MoveAssumption DEF MoveInv, Go, files, plan, line
<1>1. ASSUME NEW m \in Moves, NEW P \in SUBSET Pages, StartMove(m, P)
      PROVE  LineInv'
  BY <1>1 DEF StartMove, Begins, Plan, LineInv, InQueue
<1>2. ASSUME NEW m \in Moves, NEW o \in Moves, StartRecovery(m, o)
      PROVE  LineInv'
  BY <1>2 DEF StartRecovery, Begins, LineInv, InQueue
<1>3. ASSUME NEW m \in Moves, NEW p \in Pages, Inspect(m, p)
      PROVE  LineInv'
  <2>0. /\ stage[m] = "inspecting" /\ journal[m] = {} /\ recovers[m] \in Moves
        /\ affected[recovers[m]] \in SUBSET Pages
        /\ UNCHANGED <<journal, at, disk, runtime, recovers, newest, accepted>>
    BY <1>3, InspectEffect
  <2>1. CASE InspectionEnds(m)
    BY <2>0, <2>1 DEF LineInv, InQueue, InspectionEnds
  <2>2. ASSUME NEW f \in SUBSET affected[recovers[m]], InspectionGoesOn(m, p, f)
        PROVE  LineInv'
    BY <2>0, <2>2 DEF LineInv, InspectionGoesOn
  <2>3. ASSUME NEW f \in SUBSET affected[recovers[m]], RecoveryPlanned(m, f)
        PROVE  LineInv'
    BY <2>0, <2>3 DEF LineInv, InQueue, RecoveryPlanned
  <2> QED BY <1>3, InspectEffect, <2>1, <2>2, <2>3
<1>4. ASSUME NEW m \in Moves, NEW p \in Pages, Guard(m, p)
      PROVE  LineInv'
  <2>0. stage[m] = "guarding" /\ left[m] \subseteq affected[m] /\ affected[m] \in SUBSET Pages
    BY <1>4, GuardEffect
  <2>1. PICK s \in {"thrown", "journaling", "guarding"}, l \in SUBSET affected[m] :
            stage' = [stage EXCEPT ![m] = s] /\ left' = [left EXCEPT ![m] = l]
    BY <1>4, GuardEffect
  <2>2. UNCHANGED <<journal, at, disk, runtime, affected, source, target, recovers, newest, accepted>>
    BY <1>4, GuardEffect
  <2> QED BY <2>0, <2>1, <2>2 DEF LineInv, InQueue
<1>5. ASSUME NEW m \in Moves, GuardReadFails(m)
      PROVE  LineInv'
  BY <1>5 DEF GuardReadFails, LineInv, InQueue
<1>6. ASSUME NEW m \in Moves, NEW ok \in BOOLEAN, NEW landed \in BOOLEAN, BeginJournal(m, ok, landed)
      PROVE  LineInv'
  BY <1>6 DEF BeginJournal, LineInv, InQueue
<1>7. ASSUME NEW m \in Moves, NEW p \in Pages, BeginPage(m, p)
      PROVE  LineInv'
  BY <1>7 DEF BeginPage, LineInv, InQueue
<1>8. ASSUME NEW m \in Moves, NEW ok \in BOOLEAN, CheckPage(m, ok)
      PROVE  LineInv'
  <2>1. at[m] \in Pages /\ at[m] \in left[m] /\ journal[m] # {}
    BY <1>8, AtPage DEF CheckPage
  <2>2. /\ stage[m] = "reading" /\ \E s \in {"queued", "failing"} : stage' = [stage EXCEPT ![m] = s]
        /\ UNCHANGED <<journal, left, at, newest, disk, runtime, affected, source, target, recovers>>
    BY <1>8 DEF CheckPage
  <2>3. accepted' = accepted \/ accepted' = [accepted EXCEPT ![at[m]] = m]
    BY <1>8 DEF CheckPage
  <2> QED BY <2>1, <2>2, <2>3 DEF LineInv, InQueue
<1>9. ASSUME NEW m \in Moves, NEW ok \in BOOLEAN, StartWrite(m, ok)
      PROVE  LineInv'
  BY <1>9 DEF StartWrite, MayStart, LineInv, Busy
<1>10. ASSUME NEW m \in Moves, NEW ok \in BOOLEAN, NEW landed \in BOOLEAN, WriteSettles(m, ok, landed)
      PROVE  LineInv'
  BY <1>10 DEF WriteSettles, LineInv, TypeOK, InQueue, Actors
<1>11. ASSUME NEW m \in Moves, NEW ok \in BOOLEAN, ReadBack(m, ok)
      PROVE  LineInv'
  <2>0. /\ stage[m] = "verifying"
        /\ UNCHANGED <<disk, journal, at, affected, source, target, recovers, newest, accepted>>
    BY <1>11, ReadBackEffect
  <2>1. /\ at[m] \in Pages /\ at[m] \in left[m] /\ target[m][at[m]] \in Contents
        /\ journal[m] # {}
    BY <2>0, AtPage DEF InQueue
  <2>2. CASE stage' = [stage EXCEPT ![m] = "failing"] /\ UNCHANGED <<runtime, left>>
    BY <2>0, <2>1, <2>2 DEF LineInv, InQueue
  <2>3. CASE /\ \E s \in {"committing", "moving"} : stage' = [stage EXCEPT ![m] = s]
             /\ left' = [left EXCEPT ![m] = left[m] \ {at[m]}]
             /\ runtime' = [runtime EXCEPT ![at[m]] = target[m][at[m]]]
             /\ disk[at[m]] = target[m][at[m]]
    BY <2>0, <2>1, <2>3 DEF LineInv, InQueue
  <2> QED BY <1>11, ReadBackEffect, <2>2, <2>3
<1>12. ASSUME NEW m \in Moves, NEW ok \in BOOLEAN, NEW landed \in BOOLEAN, Commit(m, ok, landed)
      PROVE  LineInv'
  BY <1>12 DEF Commit, LineInv, InQueue
<1>13. ASSUME NEW m \in Moves, NEW ok \in BOOLEAN, RemovePending(m, ok)
      PROVE  LineInv'
  BY <1>13 DEF RemovePending, LineInv, InQueue
<1>14. ASSUME NEW m \in Moves, NEW ok \in BOOLEAN, NEW landed \in BOOLEAN, FailJournal(m, ok, landed)
      PROVE  LineInv'
  BY <1>14 DEF FailJournal, LineInv, InQueue
<1>15. ASSUME NEW e \in Saves, NEW p \in Pages, QueueSave(e, p)
      PROVE  LineInv'
  BY <1>15 DEF QueueSave, LineInv, InQueue
<1>16. ASSUME NEW e \in Saves, StartSave(e)
      PROVE  LineInv'
  BY <1>16 DEF StartSave, LineInv, Busy
<1>17. ASSUME NEW e \in Saves, NEW ok \in BOOLEAN, NEW landed \in BOOLEAN, SaveSettles(e, ok, landed)
      PROVE  LineInv'
  BY <1>17 DEF SaveSettles, LineInv, InQueue, Actors
<1>18. ASSUME NEW p \in Pages, NEW x \in Outside, OutsideEdit(p, x)
      PROVE  LineInv'
  BY <1>18 DEF OutsideEdit, LineInv
<1>19. ASSUME Restart
      PROVE  LineInv'
  BY <1>19 DEF Restart, LineInv, InQueue, Ended, Actors
<1>20. CASE UNCHANGED vars
  BY <1>20 DEF vars, LineInv
<1> QED
  BY <1>1, <1>2, <1>3, <1>4, <1>5, <1>6, <1>7, <1>8, <1>9, <1>10, <1>11, <1>12, <1>13, <1>14, <1>15, <1>16, <1>17, <1>18, <1>19, <1>20
  DEF Next, Progress, SaveProgress

\* The journal knows every move whose content is met.
LEMMA KnownStep ==
  ASSUME MoveInv, [Next]_vars
  PROVE  KnownInv'
<1> USE MoveAssumption DEF MoveInv, Go, files, plan, line
<1>1. ASSUME NEW m \in Moves, NEW P \in SUBSET Pages, StartMove(m, P)
      PROVE  KnownInv'
  BY <1>1 DEF StartMove, Begins, Plan, KnownInv, Known, TypeOK, Journaled, InQueue
<1>2. ASSUME NEW m \in Moves, NEW o \in Moves, StartRecovery(m, o)
      PROVE  KnownInv'
  BY <1>2 DEF StartRecovery, Begins, KnownInv, Known, Journaled, InQueue
<1>3. ASSUME NEW m \in Moves, NEW p \in Pages, Inspect(m, p)
      PROVE  KnownInv'
  <2>0. /\ stage[m] = "inspecting" /\ journal[m] = {} /\ recovers[m] \in Moves
        /\ affected[recovers[m]] \in SUBSET Pages
        /\ UNCHANGED <<journal, at, disk, runtime, recovers, newest, accepted>>
    BY <1>3, InspectEffect
  <2>1. CASE InspectionEnds(m)
    BY <2>0, <2>1 DEF KnownInv, Known, Journaled, InQueue, InspectionEnds
  <2>2. ASSUME NEW f \in SUBSET affected[recovers[m]], InspectionGoesOn(m, p, f)
        PROVE  KnownInv'
    BY <2>0, <2>2 DEF KnownInv, Known, InspectionGoesOn
  <2>3. ASSUME NEW f \in SUBSET affected[recovers[m]], RecoveryPlanned(m, f)
        PROVE  KnownInv'
    BY <2>0, <2>3 DEF KnownInv, Known, TypeOK, Journaled, InQueue, Actors, RecoveryPlanned
  <2> QED BY <1>3, InspectEffect, <2>1, <2>2, <2>3
<1>4. ASSUME NEW m \in Moves, NEW p \in Pages, Guard(m, p)
      PROVE  KnownInv'
  <2>0. stage[m] = "guarding" /\ left[m] \subseteq affected[m] /\ affected[m] \in SUBSET Pages
    BY <1>4, GuardEffect
  <2>1. PICK s \in {"thrown", "journaling", "guarding"}, l \in SUBSET affected[m] :
            stage' = [stage EXCEPT ![m] = s] /\ left' = [left EXCEPT ![m] = l]
    BY <1>4, GuardEffect
  <2>2. UNCHANGED <<journal, at, disk, runtime, affected, source, target, recovers, newest, accepted>>
    BY <1>4, GuardEffect
  <2> QED BY <2>0, <2>1, <2>2 DEF KnownInv, Known, Journaled, InQueue
<1>5. ASSUME NEW m \in Moves, GuardReadFails(m)
      PROVE  KnownInv'
  BY <1>5 DEF GuardReadFails, KnownInv, Known, Journaled, InQueue
<1>6. ASSUME NEW m \in Moves, NEW ok \in BOOLEAN, NEW landed \in BOOLEAN, BeginJournal(m, ok, landed)
      PROVE  KnownInv'
  <2>1. /\ stage[m] = "journaling" /\ stage' = [stage EXCEPT ![m] = IF ok THEN "moving" ELSE "thrown"]
        /\ UNCHANGED <<left, at, disk, runtime, affected, source, target, recovers, newest, accepted>>
    BY <1>6 DEF BeginJournal
  <2>2. /\ journal' \in [Moves -> SUBSET Places] /\ \A o \in Moves : journal[o] \subseteq journal'[o]
        /\ \A o \in Moves \ {m} : journal'[o] = journal[o]
        /\ ok => "pending" \in journal'[m]
    BY <1>6, EnteredEffect DEF BeginJournal, Places
  <2> QED BY <2>1, <2>2 DEF KnownInv, Known, Journaled, InQueue
<1>7. ASSUME NEW m \in Moves, NEW p \in Pages, BeginPage(m, p)
      PROVE  KnownInv'
  BY <1>7 DEF BeginPage, KnownInv, Known, Journaled
<1>8. ASSUME NEW m \in Moves, NEW ok \in BOOLEAN, CheckPage(m, ok)
      PROVE  KnownInv'
  BY <1>8 DEF CheckPage, KnownInv, Known, TypeOK, PlanInv, Journaled, InQueue, Ended, Contents, Actors, Places
<1>9. ASSUME NEW m \in Moves, NEW ok \in BOOLEAN, StartWrite(m, ok)
      PROVE  KnownInv'
  BY <1>9 DEF StartWrite, MayStart, KnownInv, Known, Journaled
<1>10. ASSUME NEW m \in Moves, NEW ok \in BOOLEAN, NEW landed \in BOOLEAN, WriteSettles(m, ok, landed)
      PROVE  KnownInv'
  <2>1. /\ stage[m] = "writing" /\ \E s \in {"verifying", "failing"} : stage' = [stage EXCEPT ![m] = s]
        /\ UNCHANGED <<runtime, journal, left, at, affected, source, target, recovers, newest, accepted>>
        /\ disk' = disk \/ disk' = [disk EXCEPT ![at[m]] = target[m][at[m]]]
    BY <1>10 DEF WriteSettles
  <2>2. at[m] \in Pages /\ at[m] \in left[m] /\ target[m][at[m]] \in Contents /\ journal[m] # {}
    BY <2>1, AtPage DEF InQueue
  <2>3. PICK s \in {"verifying", "failing"} : stage' = [stage EXCEPT ![m] = s]
    BY <2>1
  <2>4. \A o \in Moves : stage'[o] \in Journaled => journal'[o] # {}
    BY <2>1, <2>2, <2>3 DEF KnownInv, TypeOK
  <2>5. \A o \in Moves : stage'[o] = "cleaning" => "committed" \in journal'[o]
    BY <2>1, <2>3 DEF KnownInv, TypeOK
  <2>6. Known(target[m][at[m]])
    BY <2>2 DEF KnownInv, Known
  <2>7. \A q \in Pages : Known(disk[q])' /\ Known(runtime[q])'
    <3> TAKE q \in Pages
    <3>1. disk'[q] = disk[q] \/ disk'[q] = target[m][at[m]]
      BY <2>1, <2>2 DEF TypeOK
    <3> QED BY <2>1, <2>2, <2>6, <3>1 DEF KnownInv, Known
  <2>8. /\ \A a \in Actors, q \in Pages : Known(source[a][q])'
        /\ \A o \in Moves, q \in Pages : target'[o][q] = o \/ Known(target[o][q])'
    BY <2>1 DEF KnownInv, Known
  <2> QED BY <2>4, <2>5, <2>7, <2>8 DEF KnownInv
<1>11. ASSUME NEW m \in Moves, NEW ok \in BOOLEAN, ReadBack(m, ok)
      PROVE  KnownInv'
  <2>0. /\ stage[m] = "verifying"
        /\ UNCHANGED <<disk, journal, at, affected, source, target, recovers, newest, accepted>>
    BY <1>11, ReadBackEffect
  <2>1. /\ at[m] \in Pages /\ at[m] \in left[m] /\ target[m][at[m]] \in Contents
        /\ journal[m] # {}
    BY <2>0, AtPage DEF InQueue
  <2>2. CASE stage' = [stage EXCEPT ![m] = "failing"] /\ UNCHANGED <<runtime, left>>
    BY <2>0, <2>1, <2>2 DEF KnownInv, Known
  <2>3. CASE /\ \E s \in {"committing", "moving"} : stage' = [stage EXCEPT ![m] = s]
             /\ left' = [left EXCEPT ![m] = left[m] \ {at[m]}]
             /\ runtime' = [runtime EXCEPT ![at[m]] = target[m][at[m]]]
             /\ disk[at[m]] = target[m][at[m]]
    BY <2>0, <2>1, <2>3 DEF KnownInv, Known, TypeOK
  <2> QED BY <1>11, ReadBackEffect, <2>2, <2>3
<1>12. ASSUME NEW m \in Moves, NEW ok \in BOOLEAN, NEW landed \in BOOLEAN, Commit(m, ok, landed)
      PROVE  KnownInv'
  BY <1>12 DEF Commit, Entered, KnownInv, Known, TypeOK, Journaled
<1>13. ASSUME NEW m \in Moves, NEW ok \in BOOLEAN, RemovePending(m, ok)
      PROVE  KnownInv'
  BY <1>13 DEF RemovePending, KnownInv, Known
<1>14. ASSUME NEW m \in Moves, NEW ok \in BOOLEAN, NEW landed \in BOOLEAN, FailJournal(m, ok, landed)
      PROVE  KnownInv'
  BY <1>14 DEF FailJournal, Entered, KnownInv, Known, Journaled
<1>15. ASSUME NEW e \in Saves, NEW p \in Pages, QueueSave(e, p)
      PROVE  KnownInv'
  BY <1>15 DEF QueueSave, KnownInv, Known, TypeOK
<1>16. ASSUME NEW e \in Saves, StartSave(e)
      PROVE  KnownInv'
  BY <1>16 DEF StartSave, KnownInv, Known
<1>17. ASSUME NEW e \in Saves, NEW ok \in BOOLEAN, NEW landed \in BOOLEAN, SaveSettles(e, ok, landed)
      PROVE  KnownInv'
  BY <1>17 DEF SaveSettles, KnownInv, Known, TypeOK, Actors
<1>18. ASSUME NEW p \in Pages, NEW x \in Outside, OutsideEdit(p, x)
      PROVE  KnownInv'
  BY <1>18 DEF OutsideEdit, KnownInv, Known
<1>19. ASSUME Restart
      PROVE  KnownInv'
  BY <1>19 DEF Restart, KnownInv, Known, Journaled, InQueue, Actors
<1>20. CASE UNCHANGED vars
  BY <1>20 DEF vars, KnownInv, Known
<1> QED
  BY <1>1, <1>2, <1>3, <1>4, <1>5, <1>6, <1>7, <1>8, <1>9, <1>10, <1>11, <1>12, <1>13, <1>14, <1>15, <1>16, <1>17, <1>18, <1>19, <1>20
  DEF Next, Progress, SaveProgress

\* The inductive invariant of moves, recoveries and saves.
THEOREM MoveInvariance == Spec => []MoveInv
<1>1. Init => MoveInv
  <2> SUFFICES ASSUME Init PROVE MoveInv
    OBVIOUS
  <2> USE MoveAssumption DEF Init
  <2>1. TypeOK
    BY DEF TypeOK, Nothing, Contents, Actors, Stages, InQueue
  <2>2. PlanInv
    BY DEF PlanInv, Actors
  <2>3. LineInv
    BY DEF LineInv, Actors, InQueue
  <2>4. KnownInv
    BY DEF KnownInv, Known, Nothing, Actors, Journaled, InQueue
  <2> QED BY <2>1, <2>2, <2>3, <2>4 DEF MoveInv
<1>2. MoveInv /\ [Next]_vars => MoveInv'
  BY TypeStep, PlanStep, LineStep, KnownStep DEF MoveInv
<1> QED BY <1>1, <1>2, PTL DEF Spec

\* Whatever fails and whenever the program stops, a page that holds a move's
\* content belongs to a move the journal knows.
THEOREM JournalPrecedesWrites == Spec => []WriteAhead
<1>1. MoveInv => WriteAhead
  BY DEF MoveInv, KnownInv, Known, WriteAhead
<1> QED BY <1>1, MoveInvariance, PTL

\* The content a move or a recovery replaces is the one its journal entry holds,
\* or another program's.
THEOREM ReplacedContentIsKept == Spec => ReplacedIsInJournal
<1> DEFINE Replaced ==
      \A m \in Moves :
        stage[m] = "writing" /\ stage'[m] \in {"verifying", "failing"} /\ disk' # disk
        => /\ journal[m] # {}
           /\ disk[at[m]] \in Outside \cup {source[m][at[m]]}
<1>1. MoveInv => Replaced
  <2> SUFFICES ASSUME MoveInv, NEW m \in Moves, stage[m] = "writing"
               PROVE  journal[m] # {} /\ disk[at[m]] \in Outside \cup {source[m][at[m]]}
    OBVIOUS
  <2> QED BY AtPage DEF MoveInv, LineInv, InQueue
<1>2. MoveInv /\ [Next]_vars => [Replaced]_vars
  BY <1>1
<1> QED BY <1>2, MoveInvariance, PTL DEF Spec, ReplacedIsInJournal

\* Operation by operation: once the journal has a plan, or knows what a recovery
\* recovers, it stays as it is.
LEMMA PlansAreFinal ==
  ASSUME LoopInv, [Next]_vars
  PROVE  /\ \A n \in Moves : journal[n] # {} =>
              /\ journal'[n] # {} /\ affected'[n] = affected[n]
              /\ source'[n] = source[n] /\ target'[n] = target[n]
         /\ \A r \in Moves : recovers[r] # None => recovers'[r] = recovers[r]
<1> USE MoveAssumption DEF LoopInv, MoveInv, Go, files, plan, line
<1> DEFINE Goal ==
      /\ \A n \in Moves : journal[n] # {} =>
           /\ journal'[n] # {} /\ affected'[n] = affected[n]
           /\ source'[n] = source[n] /\ target'[n] = target[n]
      /\ \A r \in Moves : recovers[r] # None => recovers'[r] = recovers[r]
<1>1. ASSUME NEW m \in Moves, NEW P \in SUBSET Pages, StartMove(m, P)
      PROVE  Goal
  <2>1. journal[m] = {}
    BY <1>1 DEF StartMove, Begins, PlanInv, Unjournaled
  <2> QED BY <1>1, <2>1 DEF StartMove, Plan, TypeOK
<1>2. ASSUME NEW m \in Moves, NEW o \in Moves, StartRecovery(m, o)
      PROVE  Goal
  <2>1. recovers[m] = None
    BY <1>2 DEF StartRecovery, Begins, RecoveryInv
  <2> QED BY <1>2, <2>1 DEF StartRecovery, TypeOK
<1>3. ASSUME NEW m \in Moves, NEW p \in Pages, Inspect(m, p)
      PROVE  Goal
  <2>1. journal[m] = {} /\ UNCHANGED <<journal, recovers>>
    BY <1>3, InspectEffect
  <2>2. CASE InspectionEnds(m)
    BY <2>1, <2>2 DEF InspectionEnds
  <2>3. ASSUME NEW f \in SUBSET affected[recovers[m]], InspectionGoesOn(m, p, f)
        PROVE  Goal
    BY <2>1, <2>3 DEF TypeOK, InspectionGoesOn
  <2>4. ASSUME NEW f \in SUBSET affected[recovers[m]], RecoveryPlanned(m, f)
        PROVE  Goal
    BY <2>1, <2>4 DEF TypeOK, RecoveryPlanned
  <2> QED BY <1>3, InspectEffect, <2>2, <2>3, <2>4
<1>4. ASSUME NEW m \in Moves, NEW ok \in BOOLEAN, RemovePending(m, ok)
      PROVE  Goal
  <2>1. "committed" \in journal[m]
    BY <1>4 DEF RemovePending, KnownInv
  <2> QED BY <1>4, <2>1 DEF RemovePending, TypeOK
<1>5. ASSUME NEW m \in Moves, NEW place \in Places, NEW ok \in BOOLEAN, NEW landed \in BOOLEAN,
             Entered(m, place, ok, landed), UNCHANGED plan
      PROVE  Goal
  BY <1>5, EnteredEffect
<1>6. ASSUME NEW m \in Moves, NEW ok \in BOOLEAN, NEW landed \in BOOLEAN,
             BeginJournal(m, ok, landed) \/ Commit(m, ok, landed) \/ FailJournal(m, ok, landed)
      PROVE  Goal
  BY <1>5, <1>6 DEF BeginJournal, Commit, FailJournal, Places
<1>7. ASSUME NEW e \in Saves, NEW p \in Pages, QueueSave(e, p)
      PROVE  Goal
  BY <1>7 DEF QueueSave, TypeOK, Actors
<1>8. ASSUME NEW m \in Moves, NEW p \in Pages, Guard(m, p) \/ BeginPage(m, p)
      PROVE  Goal
  BY <1>8, GuardEffect DEF BeginPage
<1>9. ASSUME NEW m \in Moves, NEW ok \in BOOLEAN, NEW landed \in BOOLEAN,
             \/ CheckPage(m, ok) \/ StartWrite(m, ok) \/ ReadBack(m, ok)
             \/ WriteSettles(m, ok, landed)
      PROVE  Goal
  BY <1>9 DEF CheckPage, StartWrite, ReadBack, WriteSettles
<1>10. ASSUME NEW e \in Saves, NEW ok \in BOOLEAN, NEW landed \in BOOLEAN, SaveSettles(e, ok, landed)
      PROVE  Goal
  BY <1>10 DEF SaveSettles
<1>11. /\ \A m \in Moves : GuardReadFails(m) => Goal
       /\ \A e \in Saves : StartSave(e) => Goal
  BY DEF GuardReadFails, StartSave
<1>12. ASSUME NEW p \in Pages, NEW x \in Outside, OutsideEdit(p, x)
      PROVE  Goal
  BY <1>12 DEF OutsideEdit
<1>13. ASSUME Restart
      PROVE  Goal
  BY <1>13 DEF Restart
<1>14. ASSUME UNCHANGED vars
      PROVE  Goal
  BY <1>14 DEF vars
<1> QED
  <2> HIDE DEF Goal
  <2>1. Goal
    BY <1>1, <1>2, <1>3, <1>4, <1>6, <1>7, <1>8, <1>9, <1>10, <1>11, <1>12, <1>13, <1>14
    DEF Next, Progress, SaveProgress
  <2> QED BY <2>1 DEF Goal

LEMMA MayWriteShrinks ==
  ASSUME LoopInv, [Next]_vars, NEW x \in Actors, NEW p \in Pages, MayWrite(x, p)'
  PROVE  MayWrite(x, p)
<1> USE MoveAssumption DEF LoopInv, MoveInv, Go, files, plan, line
<1> USE DEF MayWrite, Unjournaled
<1>0. stage \in [Actors -> Stages] /\ left \in [Moves -> SUBSET Pages] /\ Moves \subseteq Actors
      /\ Saves \subseteq Actors /\ Moves \cap Saves = {}
      /\ at \in [Actors -> Pages \cup {None}]
  BY DEF TypeOK, Actors
<1>1. ASSUME NEW m \in Moves, NEW P \in SUBSET Pages, StartMove(m, P)
      PROVE  MayWrite(x, p)
  BY <1>0, <1>1 DEF StartMove, Begins, Plan, Actors
<1>2. ASSUME NEW m \in Moves, NEW o \in Moves, StartRecovery(m, o)
      PROVE  MayWrite(x, p)
  BY <1>0, <1>2 DEF StartRecovery, Begins, Actors
<1>3. ASSUME NEW m \in Moves, NEW q \in Pages, Inspect(m, q)
      PROVE  MayWrite(x, p)
  <2>1. stage[m] = "inspecting" /\ UNCHANGED at
    BY <1>3, InspectEffect
  <2>2. CASE x = m
    BY <2>1, <2>2, <1>0
  <2>3. CASE x # m
    <3>1. stage'[x] = stage[x] /\ (x \in Moves => left'[x] = left[x])
      BY <1>3, InspectEffect, <1>0, <2>3 DEF InspectionEnds, InspectionGoesOn, RecoveryPlanned
    <3> QED BY <3>1, <2>1 DEF Actors
  <2> QED BY <2>2, <2>3
<1>4. ASSUME NEW m \in Moves, NEW q \in Pages, Guard(m, q)
      PROVE  MayWrite(x, p)
  <2>1. stage[m] = "guarding" /\ UNCHANGED at
    BY <1>4, GuardEffect
  <2>2. PICK s \in {"thrown", "journaling", "guarding"}, l \in SUBSET affected[m] :
            stage' = [stage EXCEPT ![m] = s] /\ left' = [left EXCEPT ![m] = l]
    BY <1>4, GuardEffect
  <2> QED BY <2>1, <2>2, <1>0 DEF Actors
<1>5. ASSUME NEW m \in Moves, NEW q \in Pages, BeginPage(m, q)
      PROVE  MayWrite(x, p)
  BY <1>0, <1>5 DEF BeginPage, Actors
<1>6. ASSUME NEW m \in Moves, NEW ok \in BOOLEAN, NEW landed \in BOOLEAN,
             \/ BeginJournal(m, ok, landed) \/ Commit(m, ok, landed) \/ FailJournal(m, ok, landed)
             \/ RemovePending(m, ok) \/ GuardReadFails(m)
      PROVE  MayWrite(x, p)
  BY <1>0, <1>6 DEF BeginJournal, Commit, FailJournal, RemovePending, GuardReadFails, Actors
<1>7. ASSUME NEW m \in Moves, NEW ok \in BOOLEAN, CheckPage(m, ok)
      PROVE  MayWrite(x, p)
  <2>1. /\ stage[m] = "reading" /\ \E s \in {"queued", "failing"} : stage' = [stage EXCEPT ![m] = s]
        /\ UNCHANGED <<left, at>>
    BY <1>7 DEF CheckPage
  <2> QED BY <2>1, <1>0 DEF Actors
<1>8. ASSUME NEW m \in Moves, NEW ok \in BOOLEAN, StartWrite(m, ok)
      PROVE  MayWrite(x, p)
  BY <1>0, <1>8 DEF StartWrite, MayStart, Actors
<1>9. ASSUME NEW m \in Moves, NEW ok \in BOOLEAN, NEW landed \in BOOLEAN, WriteSettles(m, ok, landed)
      PROVE  MayWrite(x, p)
  BY <1>0, <1>9 DEF WriteSettles, Actors
<1>10. ASSUME NEW m \in Moves, NEW ok \in BOOLEAN, ReadBack(m, ok)
      PROVE  MayWrite(x, p)
  <2>1. /\ stage[m] = "verifying" /\ UNCHANGED at
        /\ \/ stage' = [stage EXCEPT ![m] = "failing"] /\ UNCHANGED left
           \/ /\ \E s \in {"committing", "moving"} : stage' = [stage EXCEPT ![m] = s]
              /\ left' = [left EXCEPT ![m] = left[m] \ {at[m]}]
    BY <1>10, ReadBackEffect
  <2> QED BY <2>1, <1>0 DEF Actors
<1>11. ASSUME NEW e \in Saves, NEW q \in Pages, QueueSave(e, q)
      PROVE  MayWrite(x, p)
  BY <1>0, <1>11 DEF QueueSave, Actors
<1>12. ASSUME NEW e \in Saves, StartSave(e)
      PROVE  MayWrite(x, p)
  BY <1>0, <1>12 DEF StartSave, Actors
<1>13. ASSUME NEW e \in Saves, NEW ok \in BOOLEAN, NEW landed \in BOOLEAN, SaveSettles(e, ok, landed)
      PROVE  MayWrite(x, p)
  BY <1>0, <1>13 DEF SaveSettles, Actors
<1>14. ASSUME NEW q \in Pages, NEW y \in Outside, OutsideEdit(q, y)
      PROVE  MayWrite(x, p)
  BY <1>14 DEF OutsideEdit
<1>15. ASSUME Restart
      PROVE  MayWrite(x, p)
  BY <1>15 DEF Restart, Ended
<1>16. CASE UNCHANGED vars
  BY <1>16 DEF vars
<1> QED
  BY <1>1, <1>2, <1>3, <1>4, <1>5, <1>6, <1>7, <1>8, <1>9, <1>10, <1>11, <1>12, <1>13, <1>14, <1>15, <1>16
  DEF Next, Progress, SaveProgress

\* Where a page's content can come from.
LEMMA DiskComesFrom ==
  ASSUME LoopInv, [Next]_vars, NEW p \in Pages
  PROVE  \/ disk'[p] = disk[p]
         \/ disk'[p] \in Outside
         \/ \E e \in Saves : disk'[p] = e /\ MayWrite(e, p) /\ ~MayWrite(e, p)'
         \/ \E m \in Moves : /\ stage[m] = "writing" /\ at[m] = p
                             /\ stage'[m] \in {"verifying", "failing"} /\ at'[m] = p
                             /\ disk'[p] = target[m][p] /\ UNCHANGED target
<1> USE MoveAssumption DEF LoopInv, MoveInv, Go, files, plan, line
<1> DEFINE Goal ==
      \/ disk'[p] = disk[p]
      \/ disk'[p] \in Outside
      \/ \E e \in Saves : disk'[p] = e /\ MayWrite(e, p) /\ ~MayWrite(e, p)'
      \/ \E m \in Moves : /\ stage[m] = "writing" /\ at[m] = p
                          /\ stage'[m] \in {"verifying", "failing"} /\ at'[m] = p
                          /\ disk'[p] = target[m][p] /\ UNCHANGED target
<1>1. ASSUME NEW m \in Moves, NEW ok \in BOOLEAN, NEW landed \in BOOLEAN, WriteSettles(m, ok, landed)
      PROVE  Goal
  <2>1. /\ stage[m] = "writing" /\ stage'[m] \in {"verifying", "failing"}
        /\ UNCHANGED <<at, target>>
        /\ disk' = disk \/ disk' = [disk EXCEPT ![at[m]] = target[m][at[m]]]
    BY <1>1 DEF WriteSettles, TypeOK, Actors
  <2> QED BY <2>1 DEF TypeOK
<1>2. ASSUME NEW e \in Saves, NEW ok \in BOOLEAN, NEW landed \in BOOLEAN, SaveSettles(e, ok, landed)
      PROVE  Goal
  <2>1. /\ stage[e] = "writing" /\ stage'[e] \in {"done", "failed"}
        /\ disk' = disk \/ disk' = [disk EXCEPT ![at[e]] = e]
    BY <1>2 DEF SaveSettles, TypeOK, Actors
  <2>2. MayWrite(e, p) /\ ~MayWrite(e, p)'
    BY <2>1 DEF MayWrite
  <2> QED BY <2>1, <2>2 DEF TypeOK
<1>3. ASSUME NEW q \in Pages, NEW x \in Outside, OutsideEdit(q, x)
      PROVE  Goal
  BY <1>3 DEF OutsideEdit, TypeOK
<1>4. ASSUME UNCHANGED disk
      PROVE  Goal
  BY <1>4
<1>5. ASSUME NEW m \in Moves, NEW o \in Moves, NEW P \in SUBSET Pages, NEW q \in Pages,
             NEW ok \in BOOLEAN, NEW landed \in BOOLEAN,
             \/ StartMove(m, P) \/ StartRecovery(m, o) \/ Inspect(m, q) \/ Guard(m, q)
             \/ GuardReadFails(m) \/ BeginJournal(m, ok, landed) \/ BeginPage(m, q)
             \/ CheckPage(m, ok) \/ StartWrite(m, ok) \/ ReadBack(m, ok)
             \/ Commit(m, ok, landed) \/ RemovePending(m, ok) \/ FailJournal(m, ok, landed)
      PROVE  UNCHANGED disk
  BY <1>5 DEF StartMove, StartRecovery, Inspect, Guard, GuardReadFails, BeginJournal, BeginPage,
              CheckPage, StartWrite, ReadBack, Commit, RemovePending, FailJournal
<1>6. ASSUME NEW e \in Saves, NEW q \in Pages, QueueSave(e, q) \/ StartSave(e)
      PROVE  UNCHANGED disk
  BY <1>6 DEF QueueSave, StartSave
<1>7. Restart \/ UNCHANGED vars => UNCHANGED disk
  BY DEF Restart, vars
<1> QED
  <2> HIDE DEF Goal
  <2>1. Goal
    BY <1>1, <1>2, <1>3, <1>4, <1>5, <1>6, <1>7 DEF Next, Progress, SaveProgress
  <2> QED BY <2>1 DEF Goal

\* What the loaded page holds is loaded from the file, or saved, or rolled back.
LEMMA RuntimeComesFrom ==
  ASSUME LoopInv, [Next]_vars, NEW p \in Pages
  PROVE  \/ runtime'[p] \in {runtime[p], disk[p]}
         \/ \E e \in Saves : runtime'[p] = source[e][p]
         \/ \E e \in Saves : runtime'[p] = e /\ ~MayWrite(e, p)'
<1> USE MoveAssumption DEF LoopInv, MoveInv, Go, files, plan, line
<1> DEFINE Goal ==
      \/ runtime'[p] \in {runtime[p], disk[p]}
      \/ \E e \in Saves : runtime'[p] = source[e][p]
      \/ \E e \in Saves : runtime'[p] = e /\ ~MayWrite(e, p)'
<1>1. ASSUME NEW m \in Moves, NEW ok \in BOOLEAN, ReadBack(m, ok)
      PROVE  Goal
  <2>1. \/ UNCHANGED runtime
        \/ runtime' = [runtime EXCEPT ![at[m]] = target[m][at[m]]] /\ disk[at[m]] = target[m][at[m]]
    BY <1>1, ReadBackEffect
  <2> QED BY <2>1 DEF TypeOK
<1>2. ASSUME NEW e \in Saves, NEW ok \in BOOLEAN, NEW landed \in BOOLEAN, SaveSettles(e, ok, landed)
      PROVE  Goal
  <2>1. /\ stage'[e] \in {"done", "failed"}
        /\ \/ runtime' = runtime
           \/ runtime' = [runtime EXCEPT ![at[e]] = e]
           \/ runtime' = [runtime EXCEPT ![at[e]] = source[e][at[e]]]
    BY <1>2 DEF SaveSettles, TypeOK, Actors
  <2>2. ~MayWrite(e, p)'
    BY <2>1 DEF MayWrite
  <2> QED BY <2>1, <2>2 DEF TypeOK
<1>3. ASSUME UNCHANGED runtime
      PROVE  Goal
  BY <1>3
<1>4. ASSUME Restart
      PROVE  Goal
  BY <1>4 DEF Restart
<1>5. ASSUME NEW m \in Moves, NEW o \in Moves, NEW P \in SUBSET Pages, NEW q \in Pages,
             NEW ok \in BOOLEAN, NEW landed \in BOOLEAN,
             \/ StartMove(m, P) \/ StartRecovery(m, o) \/ Inspect(m, q) \/ Guard(m, q)
             \/ GuardReadFails(m) \/ BeginJournal(m, ok, landed) \/ BeginPage(m, q)
             \/ CheckPage(m, ok) \/ StartWrite(m, ok) \/ WriteSettles(m, ok, landed)
             \/ Commit(m, ok, landed) \/ RemovePending(m, ok) \/ FailJournal(m, ok, landed)
      PROVE  UNCHANGED runtime
  BY <1>5 DEF StartMove, StartRecovery, Inspect, Guard, GuardReadFails, BeginJournal, BeginPage,
              CheckPage, StartWrite, WriteSettles, Commit, RemovePending, FailJournal
<1>6. ASSUME NEW e \in Saves, NEW q \in Pages, QueueSave(e, q) \/ StartSave(e)
      PROVE  UNCHANGED runtime
  BY <1>6 DEF QueueSave, StartSave
<1>7. ASSUME NEW q \in Pages, NEW x \in Outside, OutsideEdit(q, x)
      PROVE  UNCHANGED runtime
  BY <1>7 DEF OutsideEdit
<1> QED
  <2> HIDE DEF Goal
  <2>1. UNCHANGED vars => UNCHANGED runtime
    BY DEF vars
  <2>2. Goal
    BY <1>1, <1>2, <1>3, <1>4, <1>5, <1>6, <1>7, <2>1 DEF Next, Progress, SaveProgress
  <2> QED BY <2>2 DEF Goal

\* What is recorded as before is loaded or not recorded; what a move is to write
\* is its own, or was recorded before.
LEMMA PlanComesFrom ==
  ASSUME LoopInv, [Next]_vars, NEW p \in Pages
  PROVE  /\ \A a \in Actors : source'[a][p] \in {source[a][p], runtime[p], None}
         /\ \A m \in Moves : source'[m][p] # source[m][p] => MayWrite(m, p)
         /\ \A m \in Moves : \/ target'[m][p] \in {target[m][p], m, None}
                             \/ \E n \in Moves : target'[m][p] = source[n][p]
<1> USE MoveAssumption DEF LoopInv, MoveInv, Go, files, plan, line
<1> DEFINE Goal ==
      /\ \A a \in Actors : source'[a][p] \in {source[a][p], runtime[p], None}
      /\ \A m \in Moves : source'[m][p] # source[m][p] => MayWrite(m, p)
      /\ \A m \in Moves : \/ target'[m][p] \in {target[m][p], m, None}
                          \/ \E n \in Moves : target'[m][p] = source[n][p]
<1>1. ASSUME NEW m \in Moves, NEW P \in SUBSET Pages, StartMove(m, P)
      PROVE  Goal
  <2>1. MayWrite(m, p)
    BY <1>1 DEF StartMove, Begins, MayWrite, Unjournaled
  <2> QED BY <1>1, <2>1 DEF StartMove, Plan, TypeOK, Actors
<1>2. ASSUME NEW m \in Moves, NEW q \in Pages, Inspect(m, q)
      PROVE  Goal
  <2>1. stage[m] = "inspecting" /\ recovers[m] \in Moves
    BY <1>2, InspectEffect
  <2>2. MayWrite(m, p)
    BY <2>1 DEF MayWrite, Unjournaled
  <2>3. CASE UNCHANGED <<source, target>>
    BY <2>3
  <2>4. ASSUME NEW f \in SUBSET affected[recovers[m]], RecoveryPlanned(m, f)
        PROVE  Goal
    BY <2>1, <2>2, <2>4 DEF RecoveryPlanned, TypeOK, Actors
  <2> QED BY <1>2, InspectEffect, <2>3, <2>4 DEF InspectionEnds, InspectionGoesOn
<1>3. ASSUME NEW e \in Saves, NEW q \in Pages, QueueSave(e, q)
      PROVE  Goal
  BY <1>3 DEF QueueSave, TypeOK, Actors
<1>4. ASSUME UNCHANGED <<source, target>>
      PROVE  Goal
  BY <1>4
<1>5. ASSUME NEW m \in Moves, NEW o \in Moves, NEW q \in Pages,
             NEW ok \in BOOLEAN, NEW landed \in BOOLEAN,
             \/ StartRecovery(m, o) \/ Guard(m, q)
             \/ GuardReadFails(m) \/ BeginJournal(m, ok, landed) \/ BeginPage(m, q)
             \/ CheckPage(m, ok) \/ StartWrite(m, ok) \/ WriteSettles(m, ok, landed) \/ ReadBack(m, ok)
             \/ Commit(m, ok, landed) \/ RemovePending(m, ok) \/ FailJournal(m, ok, landed)
      PROVE  UNCHANGED <<source, target>>
  BY <1>5 DEF StartRecovery, Guard, GuardReadFails, BeginJournal, BeginPage,
              CheckPage, StartWrite, WriteSettles, ReadBack, Commit, RemovePending, FailJournal
<1>6. ASSUME NEW e \in Saves, NEW ok \in BOOLEAN, NEW landed \in BOOLEAN,
             StartSave(e) \/ SaveSettles(e, ok, landed)
      PROVE  UNCHANGED <<source, target>>
  BY <1>6 DEF StartSave, SaveSettles
<1>7. ASSUME NEW q \in Pages, NEW x \in Outside, OutsideEdit(q, x)
      PROVE  UNCHANGED <<source, target>>
  BY <1>7 DEF OutsideEdit
<1> QED
  <2> HIDE DEF Goal
  <2>1. Restart \/ UNCHANGED vars => UNCHANGED <<source, target>>
    BY DEF Restart, vars
  <2>2. Goal
    BY <1>1, <1>2, <1>3, <1>4, <1>5, <1>6, <1>7, <2>1 DEF Next, Progress, SaveProgress
  <2> QED BY <2>2 DEF Goal

\* A content that is somewhere will not be written there again.
LEMMA UnusedStep ==
  ASSUME LoopInv, [Next]_vars
  PROVE  UnusedInv'
<1> USE MoveAssumption
<1>1. TypeOK /\ UnusedInv /\ Saves \subseteq Actors /\ Moves \subseteq Actors /\ None \notin Actors
      /\ Actors \cap Outside = {}
  BY DEF LoopInv, MoveInv, Actors
<1>2. ASSUME NEW p \in Pages, NEW x, Unused(x, p)
      PROVE  Unused(x, p)'
  BY <1>2, MayWriteShrinks DEF Unused
<1>3. ASSUME NEW p \in Pages, NEW x \in Actors, x = disk'[p]
      PROVE  ~MayWrite(x, p)'
  <2>1. CASE disk'[p] = disk[p]
    BY <1>1, <1>2, <1>3, <2>1 DEF UnusedInv, Unused
  <2>2. CASE disk'[p] \in Outside
    BY <1>1, <1>3, <2>2
  <2>3. CASE \E e \in Saves : disk'[p] = e /\ MayWrite(e, p) /\ ~MayWrite(e, p)'
    BY <1>3, <2>3
  <2>4. ASSUME NEW m \in Moves, stage'[m] \in {"verifying", "failing"}, at'[m] = p,
               disk'[p] = target[m][p]
        PROVE  ~MayWrite(x, p)'
    <3>1. CASE x = m
      BY <1>1, <2>4, <3>1, MoveAssumption DEF MayWrite, Unjournaled
    <3>2. CASE x # m
      BY <1>1, <1>2, <1>3, <2>4, <3>2 DEF UnusedInv, Unused
    <3> QED BY <3>1, <3>2
  <2> QED BY <2>1, <2>2, <2>3, <2>4, DiskComesFrom
<1>4. ASSUME NEW p \in Pages, NEW x \in Actors, x = runtime'[p]
      PROVE  ~MayWrite(x, p)'
  BY <1>1, <1>2, <1>4, RuntimeComesFrom DEF UnusedInv, Unused
<1>5. ASSUME NEW p \in Pages, NEW a \in Actors, NEW x \in Actors, x = source'[a][p]
      PROVE  ~MayWrite(x, p)'
  BY <1>1, <1>2, <1>5, PlanComesFrom DEF UnusedInv, Unused
<1>6. ASSUME NEW p \in Pages, NEW m \in Moves, NEW x \in Actors \ {m}, x = target'[m][p]
      PROVE  ~MayWrite(x, p)'
  BY <1>1, <1>2, <1>6, PlanComesFrom DEF UnusedInv, Unused
<1>7. ASSUME NEW p \in Pages, NEW m \in Moves
      PROVE  source'[m][p] # m
  BY <1>1, PlanComesFrom DEF UnusedInv, Unused
<1>8. /\ \A p \in Pages : Unused(disk[p], p)' /\ Unused(runtime[p], p)'
      /\ \A a \in Actors, p \in Pages : Unused(source[a][p], p)'
      /\ \A m \in Moves, p \in Pages : target'[m][p] = m \/ Unused(target[m][p], p)'
  BY <1>3, <1>4, <1>5, <1>6 DEF Unused, MayWrite
<1> QED BY <1>7, <1>8 DEF UnusedInv

\* A recovery asked for keeps to the pages of what it recovers.
LEMMA RecoveryStep ==
  ASSUME LoopInv, [Next]_vars
  PROVE  RecoveryInv'
<1> USE MoveAssumption DEF Go, files, plan, line
<1>0. TypeOK /\ PlanInv /\ RecoveryInv /\ MoveInv
  BY DEF LoopInv, MoveInv
<1>1. /\ \A n \in Moves : journal[n] # {} =>
           /\ journal'[n] # {} /\ affected'[n] = affected[n]
           /\ source'[n] = source[n] /\ target'[n] = target[n]
      /\ \A r \in Moves : recovers[r] # None => recovers'[r] = recovers[r]
  BY PlansAreFinal
\* A move whose plan is kept is as it was.
<1>2. ASSUME NEW m \in Moves, recovers'[m] = recovers[m], affected'[m] = affected[m],
             target'[m] = target[m], stage'[m] = "idle" => stage[m] = "idle"
      PROVE  /\ stage'[m] = "idle" => recovers'[m] = None
             /\ recovers'[m] = None => \A p \in Pages : target'[m][p] \in {m, None}
             /\ recovers'[m] # None => /\ journal'[recovers'[m]] # {}
                                      /\ affected'[m] \subseteq affected'[recovers'[m]]
  <2>1. /\ stage[m] = "idle" => recovers[m] = None
        /\ recovers[m] = None => \A p \in Pages : target[m][p] \in {m, None}
        /\ recovers[m] # None => /\ journal[recovers[m]] # {} /\ recovers[m] \in Moves
                                /\ affected[m] \subseteq affected[recovers[m]]
    BY <1>0 DEF RecoveryInv, TypeOK
  <2>2. recovers[m] # None => /\ journal'[recovers[m]] # {}
                             /\ affected'[recovers[m]] = affected[recovers[m]]
    BY <1>1, <2>1
  <2> QED BY <1>2, <2>1, <2>2
<1>3. ASSUME UNCHANGED <<recovers, affected, target>>,
             \A m \in Moves : stage'[m] = "idle" => stage[m] = "idle"
      PROVE  RecoveryInv'
  BY <1>2, <1>3 DEF RecoveryInv
<1>4. ASSUME NEW m \in Moves, NEW P \in SUBSET Pages, StartMove(m, P)
      PROVE  RecoveryInv'
  <2>1. stage[m] = "idle" /\ recovers[m] = None
    BY <1>0, <1>4 DEF StartMove, Begins, RecoveryInv
  <2>2. /\ stage'[m] # "idle" /\ recovers'[m] = None
        /\ \A p \in Pages : target'[m][p] \in {m, None}
    BY <1>0, <1>4, <2>1 DEF StartMove, Plan, TypeOK, Actors
  <2>3. \A o \in Moves \ {m} : /\ recovers'[o] = recovers[o] /\ affected'[o] = affected[o]
                               /\ target'[o] = target[o] /\ stage'[o] = stage[o]
    BY <1>0, <1>4 DEF StartMove, Plan, TypeOK, Actors
  <2> QED BY <1>2, <2>2, <2>3 DEF RecoveryInv
<1>5. ASSUME NEW m \in Moves, NEW o \in Moves, StartRecovery(m, o)
      PROVE  RecoveryInv'
  <2>1. affected[m] = {} /\ journal[o] # {}
    BY <1>0, <1>5 DEF StartRecovery, Begins, PlanInv
  <2>2. /\ stage'[m] # "idle" /\ recovers'[m] = o /\ o # None /\ affected'[m] = {}
        /\ journal'[o] # {}
    BY <1>0, <1>1, <1>5, <2>1 DEF StartRecovery, TypeOK, Actors
  <2>3. \A n \in Moves \ {m} : /\ recovers'[n] = recovers[n] /\ affected'[n] = affected[n]
                               /\ target'[n] = target[n] /\ stage'[n] = stage[n]
    BY <1>0, <1>5 DEF StartRecovery, TypeOK, Actors
  <2> QED BY <1>2, <2>2, <2>3 DEF RecoveryInv
<1>6. ASSUME NEW m \in Moves, NEW p \in Pages, Inspect(m, p)
      PROVE  RecoveryInv'
  <2>1. /\ stage[m] = "inspecting" /\ journal[m] = {} /\ recovers[m] \in Moves
        /\ UNCHANGED <<journal, recovers>>
    BY <1>0, <1>6, InspectEffect
  <2>2. journal[recovers[m]] # {} /\ recovers[m] # None /\ recovers[m] # m
    BY <1>0, <2>1 DEF PlanInv
  <2>3. CASE InspectionEnds(m)
    BY <1>0, <1>3, <2>1, <2>3 DEF InspectionEnds, TypeOK, Actors
  <2>4. ASSUME NEW f \in SUBSET affected[recovers[m]],
               InspectionGoesOn(m, p, f) \/ RecoveryPlanned(m, f)
        PROVE  RecoveryInv'
    <3>1. /\ affected'[m] = f /\ stage'[m] # "idle"
          /\ \A o \in Moves \ {m} : /\ affected'[o] = affected[o] /\ target'[o] = target[o]
                                    /\ stage'[o] = stage[o]
      BY <1>0, <2>1, <2>4 DEF InspectionGoesOn, RecoveryPlanned, TypeOK, Actors
    <3>2. affected'[recovers[m]] = affected[recovers[m]]
      BY <1>1, <2>1, <2>2
    <3> QED BY <1>2, <2>1, <2>2, <3>1, <3>2 DEF RecoveryInv
  <2> QED BY <1>0, <1>6, InspectEffect, <2>3, <2>4
<1>7. ASSUME NEW m \in Moves, NEW p \in Pages, Guard(m, p)
      PROVE  RecoveryInv'
  BY <1>0, <1>3, <1>7, GuardEffect DEF TypeOK, Actors
<1>8. ASSUME NEW m \in Moves, NEW ok \in BOOLEAN, ReadBack(m, ok)
      PROVE  RecoveryInv'
  BY <1>0, <1>3, <1>8, ReadBackEffect DEF TypeOK, Actors
<1>9. ASSUME NEW m \in Moves, NEW ok \in BOOLEAN, NEW landed \in BOOLEAN,
             \/ BeginJournal(m, ok, landed) \/ \E p \in Pages : BeginPage(m, p)
             \/ StartWrite(m, ok) \/ WriteSettles(m, ok, landed) \/ GuardReadFails(m)
             \/ Commit(m, ok, landed) \/ RemovePending(m, ok) \/ FailJournal(m, ok, landed)
      PROVE  RecoveryInv'
  BY <1>0, <1>3, <1>9
  DEF BeginJournal, BeginPage, StartWrite, WriteSettles, GuardReadFails, Commit, RemovePending,
      FailJournal, TypeOK, Actors
<1>10. ASSUME NEW m \in Moves, NEW ok \in BOOLEAN, CheckPage(m, ok)
      PROVE  RecoveryInv'
  <2>1. /\ \E s \in {"queued", "failing"} : stage' = [stage EXCEPT ![m] = s]
        /\ UNCHANGED <<recovers, affected, target>>
    BY <1>10 DEF CheckPage
  <2> QED BY <1>0, <1>3, <2>1 DEF TypeOK, Actors
<1>11. ASSUME NEW e \in Saves, NEW p \in Pages, QueueSave(e, p)
      PROVE  RecoveryInv'
  <2>1. \A m \in Moves : /\ recovers'[m] = recovers[m] /\ affected'[m] = affected[m]
                         /\ target'[m] = target[m] /\ stage'[m] = stage[m]
    BY <1>0, <1>11 DEF QueueSave, TypeOK, Actors
  <2> QED BY <1>2, <2>1 DEF RecoveryInv
<1>12. ASSUME NEW e \in Saves, NEW ok \in BOOLEAN, NEW landed \in BOOLEAN,
              StartSave(e) \/ SaveSettles(e, ok, landed)
      PROVE  RecoveryInv'
  BY <1>0, <1>3, <1>12 DEF StartSave, SaveSettles, TypeOK, Actors
<1>13. ASSUME NEW p \in Pages, NEW x \in Outside, OutsideEdit(p, x)
      PROVE  RecoveryInv'
  BY <1>3, <1>13 DEF OutsideEdit
<1>14. ASSUME Restart
      PROVE  RecoveryInv'
  BY <1>0, <1>3, <1>14 DEF Restart, Ended, TypeOK, Actors
<1>15. CASE UNCHANGED vars
  BY <1>3, <1>15 DEF vars
<1> QED
  BY <1>4, <1>5, <1>6, <1>7, <1>8, <1>9, <1>10, <1>11, <1>12, <1>13, <1>14, <1>15
  DEF Next, Progress, SaveProgress

\* The loop begins with all the pages of the plan.
LEMMA LoopBegins ==
  ASSUME LoopInv, [Next]_vars, NEW m \in Moves, stage'[m] = "journaling"
  PROVE  left'[m] = affected'[m]
<1> USE MoveAssumption DEF LoopInv, MoveInv, Go, files, plan, line
<1> DEFINE Whole == left'[m] = affected'[m]
<1>0. /\ stage \in [Actors -> Stages] /\ left \in [Moves -> SUBSET Pages] /\ Moves \subseteq Actors
      /\ affected \in [Actors -> SUBSET Pages] /\ stage'[m] = "journaling" /\ Saves \cap Moves = {}
      /\ Saves \subseteq Actors
  BY DEF TypeOK, Actors
<1>1. ASSUME stage[m] = "journaling", left'[m] = left[m], affected'[m] = affected[m]
      PROVE  Whole
  BY <1>1 DEF CompleteInv
<1>2. ASSUME NEW n \in Moves, NEW p \in Pages, Guard(n, p)
      PROVE  Whole
  <2>1. stage[n] = "guarding" /\ UNCHANGED affected
    BY <1>2, GuardEffect
  <2>2. CASE n = m /\ left[n] = {p}
    BY <1>0, <1>2, <2>1, <2>2 DEF Guard
  <2>3. CASE n = m /\ left[n] # {p}
    BY <1>0, <1>2, <2>1, <2>3 DEF Guard
  <2>4. CASE n # m
    <3>1. stage'[m] = stage[m] /\ left'[m] = left[m]
      BY <1>0, <1>2, <2>4, GuardEffect
    <3> QED BY <1>0, <1>1, <2>1, <3>1
  <2> QED BY <2>2, <2>3, <2>4
<1>3. ASSUME NEW n \in Moves, NEW P \in SUBSET Pages, StartMove(n, P)
      PROVE  Whole
  BY <1>0, <1>1, <1>3 DEF StartMove, Plan
<1>4. ASSUME NEW n \in Moves, NEW o \in Moves, StartRecovery(n, o)
      PROVE  Whole
  BY <1>0, <1>1, <1>4 DEF StartRecovery
<1>5. ASSUME NEW n \in Moves, NEW p \in Pages, Inspect(n, p)
      PROVE  Whole
  <2>1. stage[n] = "inspecting"
    BY <1>5, InspectEffect
  <2>2. stage'[n] # "journaling"
    BY <1>0, <1>5, <2>1, InspectEffect DEF InspectionEnds, InspectionGoesOn, RecoveryPlanned
  <2>3. n # m => stage'[m] = stage[m] /\ left'[m] = left[m] /\ affected'[m] = affected[m]
    BY <1>0, <1>5, InspectEffect DEF InspectionEnds, InspectionGoesOn, RecoveryPlanned
  <2> QED BY <1>0, <1>1, <2>2, <2>3
<1>6. ASSUME NEW n \in Moves, NEW ok \in BOOLEAN, ReadBack(n, ok)
      PROVE  Whole
  BY <1>0, <1>1, <1>6, ReadBackEffect
<1>7. ASSUME NEW n \in Moves, NEW ok \in BOOLEAN, NEW landed \in BOOLEAN,
             \/ BeginJournal(n, ok, landed) \/ \E p \in Pages : BeginPage(n, p)
             \/ StartWrite(n, ok) \/ WriteSettles(n, ok, landed) \/ GuardReadFails(n)
             \/ Commit(n, ok, landed) \/ RemovePending(n, ok) \/ FailJournal(n, ok, landed)
      PROVE  Whole
  BY <1>0, <1>1, <1>7
  DEF BeginJournal, BeginPage, StartWrite, WriteSettles, GuardReadFails, Commit, RemovePending,
      FailJournal
<1>8. ASSUME NEW n \in Moves, NEW ok \in BOOLEAN, CheckPage(n, ok)
      PROVE  Whole
  <2>1. /\ \E s \in {"queued", "failing"} : stage' = [stage EXCEPT ![n] = s]
        /\ UNCHANGED <<left, affected>>
    BY <1>8 DEF CheckPage
  <2> QED BY <1>0, <1>1, <2>1
<1>9. ASSUME NEW e \in Saves, NEW p \in Pages, QueueSave(e, p)
      PROVE  Whole
  BY <1>0, <1>1, <1>9 DEF QueueSave
<1>10. ASSUME NEW e \in Saves, NEW ok \in BOOLEAN, NEW landed \in BOOLEAN,
              StartSave(e) \/ SaveSettles(e, ok, landed)
      PROVE  Whole
  BY <1>0, <1>1, <1>10 DEF StartSave, SaveSettles
<1>11. ASSUME NEW p \in Pages, NEW x \in Outside, OutsideEdit(p, x)
      PROVE  Whole
  BY <1>0, <1>1, <1>11 DEF OutsideEdit
<1>12. ASSUME Restart
      PROVE  Whole
  BY <1>0, <1>12 DEF Restart, Ended
<1>13. ASSUME UNCHANGED vars
      PROVE  Whole
  BY <1>0, <1>1, <1>13 DEF vars
<1> QED
  <2> HIDE DEF Whole
  <2>1. Whole
    BY <1>2, <1>3, <1>4, <1>5, <1>6, <1>7, <1>8, <1>9, <1>10, <1>11, <1>12, <1>13
    DEF Next, Progress, SaveProgress
  <2> QED BY <2>1 DEF Whole

\* A page counts as written once its content has been read back.
LEMMA WrittenComesFrom ==
  ASSUME LoopInv, [Next]_vars, NEW m \in Moves, NEW p \in affected[m],
         journal[m] # {}, Written(m, p)'
  PROVE  \/ Written(m, p)
         \/ disk[p] = target[m][p] /\ disk' = disk
<1> USE MoveAssumption DEF LoopInv, MoveInv, Go, files, plan, line
<1> DEFINE Goal == \/ Written(m, p)
                   \/ disk[p] = target[m][p] /\ disk' = disk
<1>0. /\ stage \in [Actors -> Stages] /\ left \in [Moves -> SUBSET Pages] /\ Moves \subseteq Actors
      /\ Saves \subseteq Actors /\ Saves \cap Moves = {} /\ journal \in [Moves -> SUBSET Places]
      /\ at \in [Actors -> Pages \cup {None}] /\ affected \in [Actors -> SUBSET Pages]
      /\ stage[m] \notin {"idle", "inspecting", "guarding", "journaling"}
  BY DEF TypeOK, Actors, PlanInv, Unjournaled
\* The steps that add nothing to what is written.
<1>1. ASSUME journal'[m] \cap {"committed"} \subseteq journal[m],
             stage'[m] = stage[m] /\ left'[m] = left[m]
      PROVE  Goal
  BY <1>1 DEF Written
<1>2. ASSUME NEW n \in Moves, NEW P \in SUBSET Pages, StartMove(n, P)
      PROVE  Goal
  BY <1>0, <1>1, <1>2 DEF StartMove, Begins, Plan
<1>3. ASSUME NEW n \in Moves, NEW o \in Moves, StartRecovery(n, o)
      PROVE  Goal
  BY <1>0, <1>1, <1>3 DEF StartRecovery, Begins
<1>4. ASSUME NEW n \in Moves, NEW q \in Pages, Inspect(n, q)
      PROVE  Goal
  <2>1. stage[n] = "inspecting" /\ n # m /\ UNCHANGED journal
    BY <1>0, <1>4, InspectEffect
  <2>2. stage'[m] = stage[m] /\ left'[m] = left[m]
    BY <1>0, <1>4, <2>1, InspectEffect DEF InspectionEnds, InspectionGoesOn, RecoveryPlanned
  <2> QED BY <1>1, <2>1, <2>2
<1>5. ASSUME NEW n \in Moves, NEW q \in Pages, Guard(n, q)
      PROVE  Goal
  <2>1. n # m /\ UNCHANGED journal
    BY <1>0, <1>5, GuardEffect
  <2>2. stage'[m] = stage[m] /\ left'[m] = left[m]
    BY <1>0, <1>5, <2>1, GuardEffect
  <2> QED BY <1>1, <2>1, <2>2
<1>6. ASSUME NEW n \in Moves, GuardReadFails(n)
      PROVE  Goal
  BY <1>0, <1>1, <1>6 DEF GuardReadFails
<1>7. ASSUME NEW n \in Moves, NEW ok \in BOOLEAN, NEW landed \in BOOLEAN, BeginJournal(n, ok, landed)
      PROVE  Goal
  <2>1. n # m
    BY <1>0, <1>7 DEF BeginJournal
  <2> QED BY <1>0, <1>1, <1>7, <2>1 DEF BeginJournal, Entered
<1>8. ASSUME NEW n \in Moves, NEW q \in Pages, BeginPage(n, q)
      PROVE  Goal
  BY <1>0, <1>8 DEF BeginPage, Written
<1>9. ASSUME NEW n \in Moves, NEW ok \in BOOLEAN, CheckPage(n, ok)
      PROVE  Goal
  <2>1. /\ stage[n] = "reading" /\ \E s \in {"queued", "failing"} : stage' = [stage EXCEPT ![n] = s]
        /\ UNCHANGED <<left, journal>>
    BY <1>9 DEF CheckPage
  <2> QED BY <2>1, <1>0 DEF Written
<1>10. ASSUME NEW n \in Moves, NEW ok \in BOOLEAN, StartWrite(n, ok)
      PROVE  Goal
  BY <1>0, <1>10 DEF StartWrite, Written
<1>11. ASSUME NEW n \in Moves, NEW ok \in BOOLEAN, NEW landed \in BOOLEAN, WriteSettles(n, ok, landed)
      PROVE  Goal
  BY <1>0, <1>11 DEF WriteSettles, Written
<1>12. ASSUME NEW n \in Moves, NEW ok \in BOOLEAN, ReadBack(n, ok)
      PROVE  Goal
  <2>1. /\ stage[n] = "verifying" /\ UNCHANGED <<disk, journal>>
        /\ \/ stage' = [stage EXCEPT ![n] = "failing"] /\ UNCHANGED left
           \/ /\ \E s \in {"committing", "moving"} : stage' = [stage EXCEPT ![n] = s]
              /\ left' = [left EXCEPT ![n] = left[n] \ {at[n]}]
              /\ disk[at[n]] = target[n][at[n]]
    BY <1>12, ReadBackEffect
  <2>2. CASE n # m
    <3>1. stage'[m] = stage[m] /\ left'[m] = left[m]
      BY <1>0, <2>1, <2>2
    <3> QED BY <1>1, <2>1, <3>1
  <2>3. CASE n = m /\ p = at[m]
    <3>1. stage'[m] = "failing" \/ disk[p] = target[m][p]
      BY <1>0, <2>1, <2>3
    <3> QED BY <2>1, <3>1 DEF Written
  <2>4. CASE n = m /\ p # at[m] /\ p \in left[m]
    <3>1. stage'[m] = "failing" \/ p \in left'[m] \/ Goal
      BY <1>0, <2>1, <2>4
    <3>2. stage'[m] = "committing" => left[m] \subseteq {at[m]}
      BY <1>0, <1>12, <2>4 DEF ReadBack, LastPage
    <3>3. stage'[m] \in {"failing", "moving"} \/ Goal
      BY <1>0, <2>1, <2>4, <3>2
    <3> QED BY <2>1, <3>1, <3>3 DEF Written
  <2>5. CASE n = m /\ p \notin left[m]
    BY <2>1, <2>5 DEF Written
  <2> QED BY <2>2, <2>3, <2>4, <2>5
<1>13. ASSUME NEW n \in Moves, NEW ok \in BOOLEAN, NEW landed \in BOOLEAN, Commit(n, ok, landed)
      PROVE  Goal
  BY <1>0, <1>13 DEF Commit, Entered, Written
<1>14. ASSUME NEW n \in Moves, NEW ok \in BOOLEAN, RemovePending(n, ok)
      PROVE  Goal
  BY <1>0, <1>14 DEF RemovePending, Written
<1>15. ASSUME NEW n \in Moves, NEW ok \in BOOLEAN, NEW landed \in BOOLEAN, FailJournal(n, ok, landed)
      PROVE  Goal
  BY <1>0, <1>15 DEF FailJournal, Entered, Written
<1>16. ASSUME NEW e \in Saves, NEW q \in Pages, QueueSave(e, q)
      PROVE  Goal
  BY <1>0, <1>1, <1>16 DEF QueueSave
<1>17. ASSUME NEW e \in Saves, NEW ok \in BOOLEAN, NEW landed \in BOOLEAN,
              StartSave(e) \/ SaveSettles(e, ok, landed)
      PROVE  Goal
  BY <1>0, <1>1, <1>17 DEF StartSave, SaveSettles
<1>18. ASSUME NEW q \in Pages, NEW x \in Outside, OutsideEdit(q, x)
      PROVE  Goal
  BY <1>1, <1>18 DEF OutsideEdit
<1>19. ASSUME Restart
      PROVE  Goal
  BY <1>0, <1>19 DEF Restart, Ended, Written
<1>20. ASSUME UNCHANGED vars
      PROVE  Goal
  BY <1>1, <1>20 DEF vars
<1> QED
  <2> HIDE DEF Goal
  <2>1. Goal
    BY <1>2, <1>3, <1>4, <1>5, <1>6, <1>7, <1>8, <1>9, <1>10, <1>11, <1>12, <1>13, <1>14, <1>15, <1>16, <1>17, <1>18, <1>19, <1>20
    DEF Next, Progress, SaveProgress
  <2> QED BY <2>1 DEF Goal

\* The first entry of a move is written when its loop has not begun.
LEMMA JournalBegins ==
  ASSUME LoopInv, [Next]_vars, NEW m \in Moves, journal[m] = {}, journal'[m] # {}
  PROVE  affected'[m] = affected[m] /\ \A p \in affected[m] : ~Written(m, p)'
<1> USE MoveAssumption DEF LoopInv, MoveInv, Go, files, plan, line
<1> DEFINE Goal == affected'[m] = affected[m] /\ \A p \in affected[m] : ~Written(m, p)'
<1>0. /\ stage \in [Actors -> Stages] /\ Moves \subseteq Actors /\ journal \in [Moves -> SUBSET Places]
      /\ stage[m] \notin {"committing", "cleaning", "failing"}
  BY DEF TypeOK, Actors, KnownInv, Journaled
<1>1. ASSUME NEW n \in Moves, NEW ok \in BOOLEAN, NEW landed \in BOOLEAN, BeginJournal(n, ok, landed)
      PROVE  Goal
  <2>1. CASE n # m
    BY <1>0, <1>1, <2>1 DEF BeginJournal, Entered
  <2>2. CASE n = m
    <3>1. left[m] = affected[m]
      BY <1>1, <2>2 DEF BeginJournal, CompleteInv
    <3>2. /\ UNCHANGED <<left, affected>> /\ stage'[m] \in {"moving", "thrown"}
          /\ "committed" \notin journal'[m]
      BY <1>0, <1>1, <2>2 DEF BeginJournal, Entered
    <3> QED BY <3>1, <3>2 DEF Written
  <2> QED BY <2>1, <2>2
<1>2. ASSUME NEW n \in Moves, NEW ok \in BOOLEAN, NEW landed \in BOOLEAN,
             Commit(n, ok, landed) \/ RemovePending(n, ok) \/ FailJournal(n, ok, landed)
      PROVE  Goal
  BY <1>0, <1>2 DEF Commit, RemovePending, FailJournal, Entered
<1>3. UNCHANGED journal => Goal
  OBVIOUS
<1>4. ASSUME NEW n \in Moves, NEW o \in Moves, NEW ok \in BOOLEAN, NEW landed \in BOOLEAN,
             \/ \E P \in SUBSET Pages : StartMove(n, P)
             \/ \E q \in Pages : Inspect(n, q) \/ Guard(n, q) \/ BeginPage(n, q)
             \/ StartRecovery(n, o) \/ GuardReadFails(n)
             \/ CheckPage(n, ok) \/ StartWrite(n, ok) \/ WriteSettles(n, ok, landed) \/ ReadBack(n, ok)
      PROVE  UNCHANGED journal
  BY <1>4 DEF StartMove, Inspect, Guard, BeginPage, StartRecovery, GuardReadFails,
              CheckPage, StartWrite, WriteSettles, ReadBack
<1>5. ASSUME NEW e \in Saves, NEW ok \in BOOLEAN, NEW landed \in BOOLEAN,
             \/ \E q \in Pages : QueueSave(e, q)
             \/ StartSave(e) \/ SaveSettles(e, ok, landed)
      PROVE  UNCHANGED journal
  BY <1>5 DEF QueueSave, StartSave, SaveSettles
<1>6. /\ \A q \in Pages, x \in Outside : OutsideEdit(q, x) => UNCHANGED journal
      /\ Restart \/ UNCHANGED vars => UNCHANGED journal
  BY DEF OutsideEdit, Restart, vars
<1> QED
  <2> HIDE DEF Goal
  <2>1. Goal
    BY <1>1, <1>2, <1>3, <1>4, <1>5, <1>6 DEF Next, Progress, SaveProgress
  <2> QED BY <2>1 DEF Goal

\* What a move has written is never again what it was before.
LEMMA CompleteStep ==
  ASSUME LoopInv, [Next]_vars, MoveInv'
  PROVE  CompleteInv'
<1> USE MoveAssumption
<1>0. TypeOK /\ PlanInv /\ KnownInv /\ UnusedInv /\ RecoveryInv /\ CompleteInv /\ MoveInv
  BY DEF LoopInv, MoveInv
<1>1. /\ \A n \in Moves : journal[n] # {} =>
           /\ journal'[n] # {} /\ affected'[n] = affected[n]
           /\ source'[n] = source[n] /\ target'[n] = target[n]
      /\ \A r \in Moves : recovers[r] # None => recovers'[r] = recovers[r]
  BY PlansAreFinal
<1>2. ASSUME NEW p \in Pages, Unrecovered(p)'
      PROVE  Unrecovered(p)
  <2>1. \A r \in Moves : recovers[r] # None => recovers[r] \in Moves /\ journal[recovers[r]] # {}
    BY <1>0 DEF RecoveryInv, TypeOK
  <2> QED BY <1>1, <1>2, <2>1 DEF Unrecovered
<1>3. ASSUME NEW m \in Moves, NEW p \in affected'[m], Written(m, p)', Unrecovered(p)',
             disk'[p] \notin Outside
      PROVE  disk'[p] # source'[m][p]
  <2>1. journal'[m] # {}
    BY <1>3 DEF Written, MoveInv, KnownInv, Journaled, InQueue
  <2>2. journal[m] # {}
    BY <1>3, <2>1, JournalBegins
  <2>3. affected'[m] = affected[m] /\ source'[m] = source[m] /\ p \in Pages
    BY <1>0, <1>1, <1>3, <2>2 DEF TypeOK, Actors
  <2>4. Unrecovered(p)
    BY <1>2, <1>3, <2>3
  <2>5. \A o \in Moves : p \in affected[o] => recovers[o] = None
    BY <1>0, <2>4 DEF RecoveryInv, TypeOK, Unrecovered
  <2>6. \A o \in Moves : p \in affected[o] /\ journal[o] # {} => target[o][p] = o
    <3>1. \A o \in Moves : p \in affected[o] /\ journal[o] # {} => target[o][p] \in Contents
      BY <1>0 DEF PlanInv
    <3>2. None \notin Contents
      BY DEF Contents, Actors
    <3> QED BY <1>0, <2>3, <2>5, <3>1, <3>2 DEF RecoveryInv
  <2>7. CASE disk[p] = target[m][p] /\ disk' = disk
    BY <1>0, <1>3, <2>2, <2>3, <2>6, <2>7 DEF UnusedInv
  <2>8. CASE Written(m, p)
    <3>1. disk[p] \in Outside \/ disk[p] # source[m][p]
      BY <1>0, <1>3, <2>3, <2>4, <2>8 DEF CompleteInv
    <3>2. CASE disk'[p] = disk[p]
      BY <1>3, <2>3, <3>1, <3>2
    <3>3. ASSUME NEW e \in Saves, disk'[p] = e, MayWrite(e, p)
          PROVE  disk'[p] # source[m][p]
      <4>1. Unused(source[m][p], p)
        BY <1>0, <2>3 DEF UnusedInv, Actors
      <4> QED BY <3>3, <4>1 DEF Unused, Actors
    <3>4. ASSUME NEW o \in Moves, stage[o] = "writing", at[o] = p, disk'[p] = target[o][p]
          PROVE  disk'[p] # source[m][p]
      <4>1. p \in left[o] /\ p \in affected[o] /\ journal[o] # {}
        BY <1>0, <3>4, AtPage DEF InQueue
      <4>2. disk'[p] = o
        BY <2>6, <3>4, <4>1
      <4>3. MayWrite(o, p)
        BY <3>4, <4>1 DEF MayWrite
      <4>4. Unused(source[m][p], p)
        BY <1>0, <2>3 DEF UnusedInv, Actors
      <4> QED BY <4>2, <4>3, <4>4 DEF Unused, Actors
    <3> QED BY <1>3, <2>3, <3>2, <3>3, <3>4, DiskComesFrom
  <2> QED BY <1>3, <2>2, <2>3, <2>7, <2>8, WrittenComesFrom
<1> QED BY <1>3, LoopBegins DEF CompleteInv

\* The inductive invariant of what moves leave behind.
THEOREM LoopInvariance == Spec => []LoopInv
<1>1. Init => UnusedInv /\ RecoveryInv /\ CompleteInv
  <2> SUFFICES ASSUME Init PROVE UnusedInv /\ RecoveryInv /\ CompleteInv
    OBVIOUS
  <2>1. UnusedInv
    BY MoveAssumption DEF Init, UnusedInv, Unused, Nothing, Actors
  <2>2. RecoveryInv
    BY MoveAssumption DEF Init, RecoveryInv, Nothing, Actors
  <2>3. CompleteInv
    BY MoveAssumption DEF Init, CompleteInv, Actors
  <2> QED BY <2>1, <2>2, <2>3
<1>2. /\ MoveInv /\ MoveInv' /\ UnusedInv /\ RecoveryInv /\ CompleteInv /\ [Next]_vars
      => UnusedInv' /\ RecoveryInv' /\ CompleteInv'
  BY UnusedStep, RecoveryStep, CompleteStep DEF LoopInv
<1> QED BY <1>1, <1>2, MoveInvariance, PTL DEF Spec, LoopInv

\* The promise of a committed entry: nothing that fails, is saved or stops
\* afterwards puts a page back to what it was before the move.
THEOREM CommittedMovesAreWhole == Spec => []CommittedIsComplete
<1>1. LoopInv => CommittedIsComplete
  BY DEF LoopInv, CompleteInv, Written, CommittedIsComplete
<1> QED BY <1>1, LoopInvariance, PTL
=============================================================================
