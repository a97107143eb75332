--------------------------- MODULE ScopedTreeMove ---------------------------
(***************************************************************************)
(* Scoped tree moves and their recovery (executeScopedTreeChanges,         *)
(* inspectScopedTreeRecovery and recoverScopedTreeMove of                  *)
(* js/storage/pageStorage.js, with js/storage/operationJournal.js): a move *)
(* of a few pages records in a journal what it is about to replace, writes *)
(* page after page through guarded page commands, and stops at the first   *)
(* failure; a recovery is a move back.  Editor saves go on in between, and *)
(* the program may stop at any moment.                                     *)
(*                                                                         *)
(* The write queue is taken for what WriteQueue shows of it: one write at  *)
(* a time per page, dropped when a newer one has been accepted.  The       *)
(* checks a guarded write repeats inside the queue are one action.         *)
(***************************************************************************)
EXTENDS Naturals

CONSTANTS
  Moves,       \* operations of one history: moves, undos, recoveries
  Saves,       \* editor saves
  Pages,
  Structured,  \* pages whose saves repeat their precondition in the queue
  Initial,     \* the content a page has at first
  Outside,     \* contents other programs write
  None

ASSUME MoveNumbers == Moves \subseteq Nat

ASSUME MoveAssumption ==
  /\ Structured \subseteq Pages
  /\ Moves \cap Saves = {}
  /\ (Moves \cup Saves) \cap (Outside \cup {Initial}) = {}
  /\ Initial \notin Outside
  /\ None \notin Moves \cup Saves \cup Pages \cup Outside \cup {Initial}

VARIABLES
  disk,      \* the durable content of a page
  runtime,   \* livePage.content
  journal,   \* the directories that hold an entry of the operation
  stage,     \* where an operation or a save is
  affected,  \* the pages of its entries
  left,      \* those that the current loop still has to visit
  at,        \* the page whose command it awaits
  source,    \* before.pages[].content, a save's base
  target,    \* after.pages[].content
  recovers,  \* recoveryOf
  newest,    \* the holder of a page's newest write revision
  accepted   \* the holder of the newest revision that was queued

files == <<disk, runtime>>
plan  == <<affected, source, target, recovers>>
line  == <<newest, accepted>>
vars  == <<disk, runtime, journal, stage, affected, left, at, source, target,
           recovers, newest, accepted>>

Actors   == Moves \cup Saves
Contents == Actors \cup Outside \cup {Initial}
Places   == {"pending", "failed", "committed"}
Ended    == {"done", "refused", "thrown", "failed", "dead"}
InQueue  == {"writing", "verifying"}
Stages   == {"idle", "inspecting", "guarding", "journaling", "moving", "reading",
             "queued", "committing", "cleaning", "failing"} \cup InQueue \cup Ended

Nothing == [p \in Pages |-> None]

Go(a, s) == stage' = [stage EXCEPT ![a] = s]

\* Mutant: a task also waits for the tasks that have not started, itself too.
BusyWhenQueued(p) ==
  \E a \in Actors : stage[a] \in InQueue \cup {"queued"} /\ at[a] = p

\* Some write of the page is past its start in the queue.
Busy(p) == \E a \in Actors : stage[a] \in InQueue /\ at[a] = p

IsStale(a, p) ==
  IF accepted[p] = None THEN newest[p] # a ELSE accepted[p] # a

Init ==
  /\ disk     = [p \in Pages |-> Initial]
  /\ runtime  = disk
  /\ journal  = [m \in Moves |-> {}]
  /\ stage    = [a \in Actors |-> "idle"]
  /\ affected = [a \in Actors |-> {}]
  /\ left     = [m \in Moves |-> {}]
  /\ at       = [a \in Actors |-> None]
  /\ source   = [a \in Actors |-> Nothing]
  /\ target   = [m \in Moves |-> Nothing]
  /\ recovers = [m \in Moves |-> None]
  /\ newest   = [p \in Pages |-> None]
  /\ accepted = [p \in Pages |-> None]

\* executeScopedTreeChanges begins: it is based on the loaded contents.
Plan(m, P, t) ==
  /\ affected' = [affected EXCEPT ![m] = P]
  /\ left'     = [left EXCEPT ![m] = P]
  /\ source'   = [source EXCEPT ![m] = [p \in Pages |-> IF p \in P THEN runtime[p] ELSE None]]
  /\ target'   = [target EXCEPT ![m] = t]
  /\ Go(m, "guarding")

\* Operations are numbered in the order they begin.
Begins(m) ==
  stage[m] = "idle" /\ \A n \in Moves : n < m => stage[n] # "idle"

StartMove(m, P) ==
  /\ Begins(m) /\ P # {}
  /\ Plan(m, P, [p \in Pages |-> IF p \in P THEN m ELSE None])
  /\ UNCHANGED <<journal, at, recovers>> /\ UNCHANGED files /\ UNCHANGED line

\* recoverScopedTreeMove finds an entry of operation m in one of the places.
StartRecovery(r, m) ==
  /\ Begins(r) /\ m # r /\ journal[m] # {}
  /\ recovers' = [recovers EXCEPT ![r] = m]
  /\ left'     = [left EXCEPT ![r] = affected[m]]
  /\ Go(r, "inspecting")
  /\ UNCHANGED <<journal, affected, at, source, target>>
  /\ UNCHANGED files /\ UNCHANGED line

\* The file holds exactly one of the two recorded contents, and so does the
\* loaded page.
Classifiable(r, p) ==
  LET m == recovers[r]
  IN runtime[p] = disk[p] /\ disk[p] \in {source[m][p], target[m][p]}

\* One page of inspectScopedTreeRecovery; after the last one the recovery goes
\* on as a move that is based on what the loaded pages hold by then.
Inspect(r, p) ==
  /\ stage[r] = "inspecting" /\ p \in left[r]
  /\ LET m     == recovers[r]
         found == affected[r] \cup (IF disk[p] = source[m][p] THEN {} ELSE {p})
     IN IF ~Classifiable(r, p)
        THEN Go(r, "refused") /\ UNCHANGED <<left, plan>>
        ELSE IF left[r] # {p}
        THEN /\ left' = [left EXCEPT ![r] = @ \ {p}]
             /\ affected' = [affected EXCEPT ![r] = found]
             /\ UNCHANGED <<stage, source, target, recovers>>
        ELSE IF found = {}
        THEN Go(r, "done") /\ UNCHANGED <<left, plan>>
        ELSE /\ Plan(r, found, [q \in Pages |-> IF q \in found THEN source[m][q] ELSE None])
             /\ UNCHANGED recovers
  /\ UNCHANGED <<journal, at>> /\ UNCHANGED files /\ UNCHANGED line

\* The guard of each page, before anything is written.
Guard(m, p) ==
  /\ stage[m] = "guarding" /\ p \in left[m]
  /\ IF disk[p] # source[m][p]
     THEN Go(m, "thrown") /\ UNCHANGED left
     ELSE /\ left' = [left EXCEPT ![m] = IF @ = {p} THEN affected[m] ELSE @ \ {p}]
          /\ IF left[m] = {p} THEN Go(m, "journaling") ELSE UNCHANGED stage
  /\ UNCHANGED <<journal, at>> /\ UNCHANGED files /\ UNCHANGED plan /\ UNCHANGED line

GuardReadFails(m) ==
  /\ stage[m] = "guarding"
  /\ Go(m, "thrown")
  /\ UNCHANGED <<journal, left, at>> /\ UNCHANGED files /\ UNCHANGED plan /\ UNCHANGED line

\* An entry is written and read back; a write that fails may have landed.
Entered(m, place, ok, landed) ==
  /\ ok => landed
  /\ journal' = [journal EXCEPT ![m] = IF landed THEN @ \cup {place} ELSE @]

\* Mutant: the entry is not read back, and a failed write of it goes unnoticed.
BeginUnverified(m, ok, landed) ==
  /\ stage[m] = "journaling"
  /\ Entered(m, "pending", ok, landed)
  /\ Go(m, "moving")
  /\ UNCHANGED <<left, at>> /\ UNCHANGED files /\ UNCHANGED plan /\ UNCHANGED line

\* beginWorkspaceOperation, outside of the try block.
BeginJournal(m, ok, landed) ==
  /\ stage[m] = "journaling"
  /\ Entered(m, "pending", ok, landed)
  /\ Go(m, IF ok THEN "moving" ELSE "thrown")
  /\ UNCHANGED <<left, at>> /\ UNCHANGED files /\ UNCHANGED plan /\ UNCHANGED line

\* persistPageContentCommand of the next page takes a revision.
BeginPage(m, p) ==
  /\ stage[m] = "moving" /\ p \in left[m]
  /\ newest' = [newest EXCEPT ![p] = m]
  /\ at' = [at EXCEPT ![m] = p]
  /\ Go(m, "reading")
  /\ UNCHANGED <<journal, left, accepted>> /\ UNCHANGED files /\ UNCHANGED plan

\* Its precondition: the write is queued, or blocked.
CheckPage(m, readable) ==
  LET p == at[m]
  IN /\ stage[m] = "reading"
     /\ IF readable /\ disk[p] = source[m][p]
        THEN /\ accepted' = IF newest[p] = m THEN [accepted EXCEPT ![p] = m] ELSE accepted
             /\ Go(m, "queued")
        ELSE Go(m, "failing") /\ UNCHANGED accepted
     /\ UNCHANGED <<journal, left, at, newest>> /\ UNCHANGED files /\ UNCHANGED plan

\* Mutant: the queued task relies on the precondition read before queueing.
WritesUnchecked(m) == ~IsStale(m, at[m])

\* The write's task: revision, both preconditions and the guard.
MayStart(m) == ~IsStale(m, at[m]) /\ disk[at[m]] = source[m][at[m]]

StartWrite(m, readable) ==
  /\ stage[m] = "queued" /\ ~Busy(at[m])
  /\ Go(m, IF readable /\ MayStart(m) THEN "writing" ELSE "failing")
  /\ UNCHANGED <<journal, left, at>> /\ UNCHANGED files /\ UNCHANGED plan /\ UNCHANGED line

\* The adapter's promise settles.  The rollback of a rejected write leaves the
\* loaded page as it is: nothing has published to it since the command began.
WriteSettles(m, ok, landed) ==
  /\ stage[m] = "writing"
  /\ ok => landed
  /\ disk' = IF landed THEN [disk EXCEPT ![at[m]] = target[m][at[m]]] ELSE disk
  /\ Go(m, IF ok THEN "verifying" ELSE "failing")
  /\ UNCHANGED <<runtime, journal, left, at>> /\ UNCHANGED plan /\ UNCHANGED line

\* Mutant: the loop ends with the page before the last.
LastPageSkipped(m, p) == \A q, o \in left[m] \ {p} : q = o

LastPage(m, p) == left[m] = {p}

\* The readback.  Only a saved write updates the loaded page; then comes the
\* next page, or the end of the loop.
ReadBack(m, readable) ==
  LET p == at[m]
  IN /\ stage[m] = "verifying"
     /\ IF readable /\ disk[p] = target[m][p] /\ ~IsStale(m, p)
        THEN /\ runtime' = [runtime EXCEPT ![p] = target[m][p]]
             /\ left' = [left EXCEPT ![m] = @ \ {p}]
             /\ Go(m, IF LastPage(m, p) THEN "committing" ELSE "moving")
        ELSE Go(m, "failing") /\ UNCHANGED <<runtime, left>>
     /\ UNCHANGED <<disk, journal, at>> /\ UNCHANGED plan /\ UNCHANGED line

\* commitWorkspaceOperation: the committed entry, then the pending one goes.
Commit(m, ok, landed) ==
  /\ stage[m] = "committing"
  /\ Entered(m, "committed", ok, landed)
  /\ Go(m, IF ok THEN "cleaning" ELSE "failing")
  /\ UNCHANGED <<left, at>> /\ UNCHANGED files /\ UNCHANGED plan /\ UNCHANGED line

RemovePending(m, ok) ==
  /\ stage[m] = "cleaning"
  /\ journal' = [journal EXCEPT ![m] = IF ok THEN @ \ {"pending"} ELSE @]
  /\ Go(m, "done")
  /\ UNCHANGED <<left, at>> /\ UNCHANGED files /\ UNCHANGED plan /\ UNCHANGED line

\* failWorkspaceOperation: the pending entry stays, no page is put back.
FailJournal(m, ok, landed) ==
  /\ stage[m] = "failing"
  /\ Entered(m, "failed", ok, landed)
  /\ Go(m, "failed")
  /\ UNCHANGED <<left, at>> /\ UNCHANGED files /\ UNCHANGED plan /\ UNCHANGED line

(***************************************************************************)
(* An editor save of a page, with its precondition fulfilled when it is    *)
(* queued (PageCommand has its details).                                   *)
(***************************************************************************)
QueueSave(e, p) ==
  /\ stage[e] = "idle" /\ disk[p] = runtime[p]
  /\ newest'   = [newest EXCEPT ![p] = e]
  /\ accepted' = [accepted EXCEPT ![p] = e]
  /\ affected' = [affected EXCEPT ![e] = {p}]
  /\ at'       = [at EXCEPT ![e] = p]
  /\ source'   = [source EXCEPT ![e][p] = runtime[p]]
  /\ Go(e, "queued")
  /\ UNCHANGED <<journal, left, target, recovers>> /\ UNCHANGED files

StartSave(e) ==
  LET p == at[e]
  IN /\ stage[e] = "queued" /\ ~Busy(p)
     /\ Go(e, IF IsStale(e, p) \/ (p \in Structured /\ disk[p] # source[e][p])
              THEN "refused" ELSE "writing")
     /\ UNCHANGED <<journal, left, at>> /\ UNCHANGED files /\ UNCHANGED plan /\ UNCHANGED line

SaveSettles(e, ok, landed) ==
  LET p == at[e]
  IN /\ stage[e] = "writing"
     /\ ok => landed
     /\ disk' = IF landed THEN [disk EXCEPT ![p] = e] ELSE disk
     /\ runtime' = IF ~ok THEN [runtime EXCEPT ![p] = source[e][p]]
                   ELSE IF IsStale(e, p) THEN runtime ELSE [runtime EXCEPT ![p] = e]
     /\ Go(e, IF ok THEN "done" ELSE "failed")
     /\ UNCHANGED <<journal, left, at>> /\ UNCHANGED plan /\ UNCHANGED line

OutsideEdit(p, x) ==
  /\ disk' = [disk EXCEPT ![p] = x]
  /\ UNCHANGED <<runtime, journal, stage, left, at>> /\ UNCHANGED plan /\ UNCHANGED line

\* The program stops and is started again: it reads the pages, and nothing else
\* of what it was doing is left.  An adapter write has landed or it has not.
Restart ==
  /\ runtime'  = disk
  /\ stage'    = [a \in Actors |-> IF stage[a] \in {"idle"} \cup Ended THEN stage[a] ELSE "dead"]
  /\ left'     = [m \in Moves |-> {}]
  /\ at'       = [a \in Actors |-> None]
  /\ newest'   = [p \in Pages |-> None]
  /\ accepted' = [p \in Pages |-> None]
  /\ UNCHANGED <<disk, journal>> /\ UNCHANGED plan

Progress(m) ==
  \/ \E p \in Pages : Inspect(m, p) \/ Guard(m, p) \/ BeginPage(m, p)
  \/ \E ok, landed \in BOOLEAN :
       BeginJournal(m, ok, landed) \/ WriteSettles(m, ok, landed)
         \/ Commit(m, ok, landed) \/ FailJournal(m, ok, landed)
  \/ \E ok \in BOOLEAN :
       CheckPage(m, ok) \/ StartWrite(m, ok) \/ ReadBack(m, ok) \/ RemovePending(m, ok)

SaveProgress(e) ==
  \/ StartSave(e)
  \/ \E ok, landed \in BOOLEAN : SaveSettles(e, ok, landed)

Next ==
  \/ \E m \in Moves :
       \/ \E P \in SUBSET Pages : StartMove(m, P)
       \/ \E o \in Moves : StartRecovery(m, o)
       \/ Progress(m)
       \/ GuardReadFails(m)
  \/ \E e \in Saves :
       \/ \E p \in Pages : QueueSave(e, p)
       \/ SaveProgress(e)
  \/ \E p \in Pages, x \in Outside : OutsideEdit(p, x)
  \/ Restart

Spec == Init /\ [][Next]_vars

\* The adapter's promises settle, and the event loop runs what waits for them.
FairSpec ==
  /\ Spec
  /\ \A m \in Moves : WF_vars(Progress(m))
  /\ \A e \in Saves : WF_vars(SaveProgress(e))

-----------------------------------------------------------------------------
TypeOK ==
  /\ disk \in [Pages -> Contents]
  /\ runtime \in [Pages -> Contents]
  /\ journal \in [Moves -> SUBSET Places]
  /\ stage \in [Actors -> Stages]
  /\ affected \in [Actors -> SUBSET Pages]
  /\ left \in [Moves -> SUBSET Pages]
  /\ at \in [Actors -> Pages \cup {None}]
  /\ \A m \in Moves : stage[m] \in {"reading", "queued"} \cup InQueue => at[m] \in left[m]
  /\ source \in [Actors -> [Pages -> Contents \cup {None}]]
  /\ target \in [Moves -> [Pages -> Contents \cup {None}]]
  /\ recovers \in [Moves -> Moves \cup {None}]
  /\ newest \in [Pages -> Actors \cup {None}]
  /\ accepted \in [Pages -> Actors \cup {None}]

-----------------------------------------------------------------------------
(***************************************************************************)
(* The inductive invariant.                                                *)
(***************************************************************************)
Unjournaled == {"idle", "inspecting", "guarding", "journaling"}
Journaled   == {"moving", "reading", "queued", "committing", "cleaning", "failing"} \cup InQueue

\* Plans are complete and, once the journal has them, final; a recovery in
\* inspection reads the plan of a journaled operation.
PlanInv ==
  /\ \A m \in Moves : stage[m] \in Unjournaled => journal[m] = {}
  /\ \A m \in Moves : stage[m] = "idle" => affected[m] = {}
  /\ \A m \in Moves :
       journal[m] # {} \/ stage[m] \in {"guarding", "journaling"} =>
         \A p \in affected[m] : source[m][p] \in Contents /\ target[m][p] \in Contents
  /\ \A m \in Moves :
       stage[m] \in Journaled \cup {"guarding", "journaling"} => left[m] \subseteq affected[m]
  /\ \A r \in Moves : stage[r] = "inspecting" =>
       /\ recovers[r] \in Moves /\ journal[recovers[r]] # {}
       /\ left[r] \cup affected[r] \subseteq affected[recovers[r]]
  /\ \A e \in Saves : stage[e] \in {"queued", "writing"} =>
       at[e] \in Pages /\ source[e][at[e]] \in Contents

\* One write per page is past its start, and what a move is about to replace
\* is what it recorded, or another program's.
LineInv ==
  /\ \A a, b \in Actors :
       stage[a] \in InQueue /\ stage[b] \in InQueue /\ at[a] = at[b] => a = b
  /\ \A m \in Moves :
       stage[m] = "writing" => disk[at[m]] \in Outside \cup {source[m][at[m]]}

\* A content of a move is met only when the journal knows the move.
Known(x) == x \in Moves => journal[x] # {}

KnownInv ==
  /\ \A m \in Moves : stage[m] \in Journaled => journal[m] # {}
  /\ \A m \in Moves : stage[m] = "cleaning" => "committed" \in journal[m]
  /\ \A p \in Pages : Known(disk[p]) /\ Known(runtime[p])
  /\ \A a \in Actors, p \in Pages : Known(source[a][p])
  /\ \A m \in Moves, p \in Pages : target[m][p] = m \/ Known(target[m][p])

MoveInv == TypeOK /\ PlanInv /\ LineInv /\ KnownInv

\* What has been written of a content cannot be written again: as long as a move
\* or save may still write the page, its content has not been there.
MayWrite(x, p) ==
  IF x \in Saves THEN stage[x] \in {"idle", "queued", "writing"}
  ELSE \/ stage[x] \in Unjournaled
       \/ stage[x] \in {"moving", "reading", "queued", "writing"} /\ p \in left[x]
       \/ stage[x] = "verifying" /\ p \in left[x] \ {at[x]}

Unused(x, p) == x \in Actors => ~MayWrite(x, p)

UnusedInv ==
  /\ \A p \in Pages : Unused(disk[p], p) /\ Unused(runtime[p], p)
  /\ \A a \in Actors, p \in Pages : Unused(source[a][p], p)
  /\ \A m \in Moves, p \in Pages : target[m][p] = m \/ Unused(target[m][p], p)
  /\ \A m \in Moves, p \in Pages : source[m][p] # m

\* A recovery touches no other pages than the operation it recovers; all others
\* write contents of their own.
RecoveryInv ==
  \A m \in Moves :
    /\ stage[m] = "idle" => recovers[m] = None
    /\ recovers[m] = None => \A p \in Pages : target[m][p] \in {m, None}
    /\ recovers[m] # None => /\ journal[recovers[m]] # {}
                            /\ affected[m] \subseteq affected[recovers[m]]

-----------------------------------------------------------------------------
\* "A verified pending journal precedes all page writes", across crashes and
\* journal writes that fail: no file holds a move's content while none of the
\* journal's places has an entry of the move.
WriteAhead ==
  \A p \in Pages : disk[p] \in Moves => journal[disk[p]] # {}

\* No recovery has been asked for that touches the page.
Unrecovered(p) == \A r \in Moves : recovers[r] # None => p \notin affected[recovers[r]]

\* A committed entry stands for the whole move, whatever failed, was saved or
\* stopped around it: none of its pages is still what it was before, unless
\* someone asked for a recovery or another program wrote that content again.
CommittedIsComplete ==
  \A m \in Moves : "committed" \in journal[m] =>
    \A p \in affected[m] : Unrecovered(p) => disk[p] \in Outside \/ disk[p] # source[m][p]

\* What an operation of moves or recoveries replaces is not lost: its entry in
\* the journal holds the content, unless another program wrote it after the
\* last check.
ReplacedIsInJournal ==
  [][\A m \in Moves :
       stage[m] = "writing" /\ stage'[m] \in {"verifying", "failing"} /\ disk' # disk
       => /\ journal[m] # {}
          /\ disk[at[m]] \in Outside \cup {source[m][at[m]]}]_vars

\* What the loop of a move has left behind is no longer what it was, either.
Written(m, p) ==
  \/ "committed" \in journal[m] \/ stage[m] \in {"committing", "cleaning"}
  \/ stage[m] \in {"moving", "reading", "queued", "writing", "verifying"} /\ p \notin left[m]

CompleteInv ==
  /\ \A m \in Moves : stage[m] = "journaling" => left[m] = affected[m]
  /\ \A m \in Moves : \A p \in affected[m] :
       Written(m, p) /\ Unrecovered(p) => disk[p] \in Outside \/ disk[p] # source[m][p]

LoopInv == MoveInv /\ UnusedInv /\ RecoveryInv /\ CompleteInv

\* A move that has begun ends: no page command leaves it waiting.
EveryMoveEnds ==
  \A m \in Moves : stage[m] = "inspecting" \/ stage[m] = "guarding" ~> stage[m] \in Ended
=============================================================================
