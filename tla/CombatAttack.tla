---------------------------- MODULE CombatAttack ----------------------------
(***************************************************************************)
(* Attacks on a campaign map and their undo (js/combat/,                   *)
(* js/events/combatAttackReversal.js), among the turn controls of the map  *)
(* and other health commands of the same character pages.                  *)
(*                                                                         *)
(* An attack observes the map and both character pages, waits for its      *)
(* target's place in a line, checks the files, rolls, checks them again    *)
(* and writes the target page through the write queue, where its           *)
(* observation is checked once more; then it is appended to the event log. *)
(* An undo reads the log, waits in the same line, reads the log again and  *)
(* writes the health back if the page still holds what the attack left.    *)
(***************************************************************************)
EXTENDS Integers, Sequences

CONSTANTS
  None,
  N,            \* participants of the initiative; each has a page of its own
  Attacks, Undos,
  Edits,        \* other commands that write a character page: sheet, token
  Saves,        \* saves of the map: turn controls and dropped tokens
  MaxHp,
  MaxRound,     \* bound of the rounds of a session
  MaxRestarts   \* bound of the times the program is closed and opened

ASSUME CombatAssumption ==
  /\ N \in Nat \ {0} /\ MaxHp \in Nat /\ MaxRound \in Nat \ {0}
  /\ MaxRestarts \in Nat
  /\ None \notin Attacks \cup Undos \cup Edits \cup Saves
  /\ Attacks \cap (Undos \cup Edits \cup Saves) = {}
  /\ Undos \cap (Edits \cup Saves) = {}
  /\ Edits \cap Saves = {}

Participants == 1..N
Map          == 0
Pages        == {Map} \cup Participants
Actions      == Attacks \cup Undos      \* what waits in a target's line
Writers      == Actions \cup Edits      \* the commands of character pages
Calls        == Writers \cup Saves

\* A character page as far as an attack reads or keeps it: its health, and
\* which command last changed the rest of it.
Content  == [hp : 0..MaxHp, note : Edits \cup {None}]
First    == "first"
\* The map: session id (the save that started it), status, round, the current
\* participant of the initiative, and whether a token stands elsewhere.
Status   == {"inactive", "active", "paused", "finished"}
MapState == [session : Saves \cup {None, First}, status : Status, round : 1..MaxRound,
             turn : Participants, moved : BOOLEAN]

VARIABLES
  disk,       \* the files
  runtime,    \* page.content of the loaded pages
  newest,     \* the newest write revision of each page
  accepted,   \* the newest revision the write queue has accepted
  writeLine,  \* the write queue: each page's line
  turnLine,   \* combatActionQueue: each target page's line
  model,      \* the open map's model
  dirty,      \* the store's dirty flag
  log,        \* the calls whose transaction is in the event log
  phase, result,
  page,       \* the page a call writes
  asked,      \* an attack's request: session and actor; an undo's: the attack
  observed,   \* what an attack observed of the map
  sheets,     \* what it observed of the actor's and the target's page
  base, next, \* the content a call starts from and the one it writes
  since,      \* the map saves begun since an attack took hold of the model
  landed,     \* the calls whose content has reached the file
  restarts

pageVars == <<disk, runtime, newest, accepted, writeLine, landed>>
mapVars  == <<model, dirty, since>>
callVars == <<page, asked, observed, sheets, base, next>>
vars     == <<pageVars, mapVars, callVars, turnLine, log, phase, result, restarts>>

Phases == {"idle", "context", "lined", "map", "target", "map again", "target again",
           "prepare", "precondition", "queued", "checking", "validated", "writing",
           "landed", "failed", "verifying", "audit", "done"}
Results == {"completed", "persisted", "unconfirmed", "uncertain", "unchanged", "lost"}

ASSUME CombatValuesAssumption == None \notin Results \cup Content \cup MapState

-----------------------------------------------------------------------------
Goto(c, p) == phase' = [phase EXCEPT ![c] = p] /\ UNCHANGED result

IsHead(line, c) == line # <<>> /\ Head(line) = c

Without(line, c) == IF IsHead(line, c) THEN Tail(line) ELSE line

\* Mutant: a rejection is the last thing that happens in the line.
NextAfterSuccess(c, r) ==
  IF c \in Actions /\ r # "unchanged"
  THEN [turnLine EXCEPT ![page[c]] = Without(@, c)] ELSE turnLine

\* `previous.catch(() => {})`: the next of the line goes on whatever happened.
NextInLine(c, r) ==
  IF c \in Actions THEN [turnLine EXCEPT ![page[c]] = Without(@, c)] ELSE turnLine

\* What a logged attack changed is what its transaction says.
MayBeLogged(c, r) == c \in Attacks /\ r \in {"completed", "unconfirmed"}

\* The call returns to whoever awaits it.
Return(c, r) ==
  LET forget(f) == [f EXCEPT ![c] = None]
  IN /\ phase'    = [phase EXCEPT ![c] = "done"]
     /\ result'   = [result EXCEPT ![c] = r]
     /\ turnLine' = NextInLine(c, r)
     /\ observed' = forget(observed)
     /\ sheets'   = forget(sheets)
     /\ asked'    = IF c \in Undos THEN asked ELSE forget(asked)
     /\ IF MayBeLogged(c, r) THEN UNCHANGED <<page, base, next>>
        ELSE page' = forget(page) /\ base' = forget(base) /\ next' = forget(next)

IsWriting(c) == IsHead(writeLine[page[c]], c)

LeaveLine(c) == writeLine' = [writeLine EXCEPT ![page[c]] = Tail(@)]

(***************************************************************************)
(* A step of an attack or undo refuses when what it checks has changed, or *)
(* when the adapter's read it awaits fails.                                *)
(***************************************************************************)
Awaiting == {"context", "lined", "map", "target", "map again", "target again",
             "prepare", "precondition"}

\* Until the queue has asked it for the last time an attack can be overtaken.
Stoppable == Awaiting \cup {"queued", "checking"}

Refuse(c) ==
  /\ phase[c] \in Awaiting
  /\ phase[c] = "lined" => IsHead(turnLine[page[c]], c)
  /\ Return(c, "unchanged")
  /\ UNCHANGED pageVars /\ UNCHANGED mapVars /\ UNCHANGED <<log, restarts>>

-----------------------------------------------------------------------------
(***************************************************************************)
(* The map: its turn controls, and the saves they start.                   *)
(***************************************************************************)
StartedBy(s) == [model EXCEPT !.session = s, !.status = "active", !.round = 1]

\* startCombatSession, pause, resume, finish and prepareNext.
LifecycleSteps(s) ==
  CASE model.status = "inactive" -> {StartedBy(s)}
    [] model.status = "finished" ->
         {StartedBy(s), [model EXCEPT !.session = None, !.status = "inactive", !.round = 1]}
    [] model.status = "active"   -> {[model EXCEPT !.status = x] : x \in {"paused", "finished"}}
    [] model.status = "paused"   -> {[model EXCEPT !.status = x] : x \in {"active", "finished"}}

\* planCombatTurn; the last participant's turn ends the round.
NextTurn ==
  IF model.turn < N THEN {[model EXCEPT !.turn = @ + 1]}
  ELSE IF model.status = "active"
       THEN {[model EXCEPT !.turn = 1, !.round = r] : r \in {model.round + 1} \cap 1..MaxRound}
       ELSE {[model EXCEPT !.turn = 1]}

\* The previous turn, or a participant selected from the list.
SelectedTurn == {[model EXCEPT !.turn = p] : p \in Participants}

\* Before a session the initiative moves freely; a paused or finished one is
\* frozen.
TurnSteps ==
  IF model.status \in {"active", "inactive"} THEN NextTurn \cup SelectedTurn ELSE {}

\* saveCampaignMapAndSync: a new model object takes the old one's place and the
\* dirty flag is cleared before the save is awaited.
BeginMapSave(s, m, logs) ==
  /\ phase[s] = "idle"
  /\ asked'  = [asked EXCEPT ![s] = logs]
  /\ model'  = m
  /\ dirty'  = FALSE
  /\ since'  = [a \in Attacks |-> IF phase[a] \in Stoppable THEN since[a] \cup {s} ELSE since[a]]
  /\ page'   = [page EXCEPT ![s] = Map]
  /\ base'   = [base EXCEPT ![s] = runtime[Map]]
  /\ next'   = [next EXCEPT ![s] = m]
  /\ newest' = [newest EXCEPT ![Map] = s]
  /\ Goto(s, "precondition")
  /\ UNCHANGED <<disk, runtime, accepted, writeLine, landed, observed, sheets,
                 turnLine, log, restarts>>

\* runPopupAction, when the operation changed something.  What happens without
\* a session is not logged.
UseTurnControl(s) ==
  \E m \in LifecycleSteps(s) \cup TurnSteps :
    m # model /\ BeginMapSave(s, m, None \notin {m.session} \cap {model.session})

\* A dragged token changes the model in place, and is saved when dropped: drags
\* are bounded by the saves left for their drops.
DragToken ==
  /\ \E s \in Saves : phase[s] = "idle"
  /\ model' = [model EXCEPT !.moved = ~@]
  /\ dirty' = TRUE
  /\ UNCHANGED since /\ UNCHANGED pageVars /\ UNCHANGED callVars
  /\ UNCHANGED <<turnLine, log, phase, result, restarts>>

DropToken(s) == dirty /\ BeginMapSave(s, model, FALSE)

-----------------------------------------------------------------------------
(***************************************************************************)
(* The way of every write: a precondition, the queue, the callbacks in it. *)
(***************************************************************************)
\* persistPageContentCommand takes its revision first.
StartWrite(c, k, from, to) ==
  /\ base'   = [base EXCEPT ![c] = from]
  /\ next'   = [next EXCEPT ![c] = to]
  /\ newest' = [newest EXCEPT ![k] = c]
  /\ Goto(c, "precondition")
  /\ UNCHANGED <<disk, runtime, accepted, writeLine, landed>>

BaseIsDurable(c) == disk[page[c]] = base[c]

IsCurrent(c) == accepted[page[c]] = c

\* evaluatePageWritePrecondition, before the queue.
MeetPrecondition(c) ==
  /\ phase[c] = "precondition" /\ disk[page[c]] = base[c]
  /\ writeLine' = [writeLine EXCEPT ![page[c]] = Append(@, c)]
  /\ accepted'  = IF newest[page[c]] = c THEN [accepted EXCEPT ![page[c]] = c] ELSE accepted
  /\ Goto(c, "queued")
  /\ UNCHANGED <<disk, runtime, newest, landed>> /\ UNCHANGED mapVars
  /\ UNCHANGED callVars /\ UNCHANGED <<turnLine, log, restarts>>

\* The queue reaches the write.  A map save has no callback to wait for.
StartTask(c) ==
  /\ phase[c] = "queued" /\ IsWriting(c) /\ IsCurrent(c)
  /\ Goto(c, IF c \in Saves THEN "writing" ELSE "checking")
  /\ UNCHANGED pageVars /\ UNCHANGED mapVars /\ UNCHANGED callVars
  /\ UNCHANGED <<turnLine, log, restarts>>

LegalAttack(a, m) ==
  m.status = "active" /\ m.session = asked[a].session /\ m.turn = asked[a].actor

\* readObservation: the same model object, clean, with the same contents.
MapAsObserved(a) ==
  since[a] = {} /\ ~dirty /\ model = observed[a] /\ LegalAttack(a, model)

SheetsNow(a) == [actor |-> runtime[asked[a].actor], target |-> runtime[page[a]]]

AsObserved(a) == MapAsObserved(a) /\ SheetsNow(a) = sheets[a]

\* Mutant: the queue does not ask the caller.
AlwaysValid(c) == TRUE

\* The caller's validateBeforeWrite.
StillValid(c) ==
  CASE c \in Attacks -> AsObserved(c)
    [] c \in Undos   -> runtime[page[c]] = sheets[c]
    [] OTHER         -> TRUE

\* The file is what it was; validateBeforeWrite looks at what is loaded, and then
\* awaits the card type catalogue.
Validate(c) ==
  /\ phase[c] = "checking" /\ IsCurrent(c) /\ BaseIsDurable(c) /\ StillValid(c)
  /\ Goto(c, "validated")
  /\ UNCHANGED pageVars /\ UNCHANGED mapVars /\ UNCHANGED callVars
  /\ UNCHANGED <<turnLine, log, restarts>>

\* The file was read once more: the turn that calls the adapter's write.
EnterWrite(c) ==
  /\ phase[c] = "validated" /\ IsCurrent(c) /\ BaseIsDurable(c)
  /\ Goto(c, "writing")
  /\ UNCHANGED pageVars /\ UNCHANGED mapVars /\ UNCHANGED callVars
  /\ UNCHANGED <<turnLine, log, restarts>>

\* Superseded in the queue, or blocked by a precondition or its failing read.
LeaveQueue(c) ==
  /\ \/ phase[c] = "queued" /\ IsWriting(c) /\ ~IsCurrent(c)
     \/ phase[c] \in {"checking", "validated"}
  /\ LeaveLine(c)
  /\ Return(c, "unchanged")
  /\ UNCHANGED <<disk, runtime, newest, accepted, landed>> /\ UNCHANGED mapVars
  /\ UNCHANGED <<log, restarts>>

\* Mutant: a command that failed goes on to its transaction.
AuditAnyway(c) == Goto(c, "audit") /\ UNCHANGED callVars /\ UNCHANGED turnLine

\* A health command reads the file before it reports.
AfterThrow(c) ==
  IF c \in Writers
  THEN Goto(c, "failed") /\ UNCHANGED callVars /\ UNCHANGED turnLine
  ELSE Return(c, "uncertain")

\* What throws in the queue rolls the loaded page back to what the command
\* started from.
Throw(c) ==
  /\ runtime'   = [runtime EXCEPT ![page[c]] = base[c]]
  /\ LeaveLine(c)
  /\ AfterThrow(c)
  /\ UNCHANGED <<newest, accepted>> /\ UNCHANGED mapVars
  /\ UNCHANGED <<log, restarts>>

\* validateBeforeWrite throws: what it checks has changed, or a read failed.
ValidationThrows(c) ==
  /\ phase[c] \in {"checking", "validated"}
  /\ Throw(c) /\ UNCHANGED <<disk, landed>>

PutOnDisk(c) ==
  /\ disk'   = [disk EXCEPT ![page[c]] = next[c]]
  /\ landed' = landed \cup {c}

\* storageAdapter.writeText succeeds.
WriteLands(c) ==
  /\ phase[c] = "writing"
  /\ PutOnDisk(c) /\ Goto(c, "landed")
  /\ UNCHANGED <<runtime, newest, accepted, writeLine>> /\ UNCHANGED mapVars
  /\ UNCHANGED callVars /\ UNCHANGED <<turnLine, log, restarts>>

\* It throws, perhaps after its bytes reached the file.
WriteThrows(c) ==
  /\ phase[c] = "writing"
  /\ Throw(c)
  /\ PutOnDisk(c) \/ UNCHANGED <<disk, landed>>

\* Mutant: a write that threw did not happen.
FailedMeansUnchanged(c) == "unchanged"

\* commitVariablesChange reads the file to tell what a throw left.
FoundAfterThrow(c) ==
  CASE disk[page[c]] = base[c] -> "unchanged"
    [] disk[page[c]] = next[c] -> "persisted"
    [] OTHER                   -> "uncertain"

InquireAfterThrow(c) ==
  /\ phase[c] = "failed"
  /\ \E r \in {FoundAfterThrow(c), "uncertain"} : Return(c, r)
  /\ UNCHANGED pageVars /\ UNCHANGED mapVars /\ UNCHANGED <<log, restarts>>

\* The readback agreed and no newer write was accepted meanwhile: the loaded
\* page is what was written.
WriteSaved(c) ==
  /\ phase[c] = "landed" /\ IsCurrent(c)
  /\ runtime'   = [runtime EXCEPT ![page[c]] = next[c]]
  /\ LeaveLine(c)
  /\ Goto(c, IF c \in Saves THEN "audit" ELSE "verifying")
  /\ UNCHANGED <<disk, newest, accepted, landed>> /\ UNCHANGED mapVars
  /\ UNCHANGED callVars /\ UNCHANGED <<turnLine, log, restarts>>

\* Superseded after the write, or the readback failed.
WriteUncertain(c) ==
  /\ phase[c] = "landed"
  /\ c \in Saves => ~IsCurrent(c)
  /\ LeaveLine(c)
  /\ Return(c, "uncertain")
  /\ UNCHANGED <<disk, runtime, newest, accepted, landed>> /\ UNCHANGED mapVars
  /\ UNCHANGED <<log, restarts>>

\* verifyDurableCharacterHealth, after the queue has gone on.
VerifyHealth(c) ==
  /\ phase[c] = "verifying"
  /\ \/ /\ disk[page[c]].hp = next[c].hp
        /\ IF c \in Edits THEN Return(c, "completed")
           ELSE Goto(c, "audit") /\ UNCHANGED callVars /\ UNCHANGED turnLine
     \/ Return(c, "uncertain")
  /\ UNCHANGED pageVars /\ UNCHANGED mapVars /\ UNCHANGED <<log, restarts>>

\* appendTransactionRecord.  Appends have a queue of their own, so each is one
\* step; one that throws may have written its line.
AppendTransaction(c) ==
  /\ phase[c] = "audit" /\ (c \in Saves => asked[c])
  /\ \/ log' = log \cup {c} /\ Return(c, "completed")
     \/ log' \in {log, log \cup {c}} /\ Return(c, "unconfirmed")
  /\ UNCHANGED pageVars /\ UNCHANGED mapVars /\ UNCHANGED restarts

\* createCombatSessionTransaction returned no transaction.
NothingToLog(s) ==
  /\ phase[s] = "audit" /\ s \in Saves /\ ~asked[s]
  /\ Return(s, "completed")
  /\ UNCHANGED pageVars /\ UNCHANGED mapVars /\ UNCHANGED <<log, restarts>>

-----------------------------------------------------------------------------
(***************************************************************************)
(* executeCombatAttack.                                                    *)
(***************************************************************************)
Stay == UNCHANGED pageVars /\ UNCHANGED log /\ UNCHANGED restarts

\* submitCombatAttack takes the session and the current participant from the
\* model, and the target from the form.
BeginAttack(a, target) ==
  /\ phase[a] = "idle" /\ model.status # "inactive" /\ target # model.turn
  /\ page'  = [page EXCEPT ![a] = target]
  /\ asked' = [asked EXCEPT ![a] = [session |-> model.session, actor |-> model.turn]]
  /\ Goto(a, "context")
  /\ UNCHANGED <<observed, sheets, base, next, turnLine>> /\ UNCHANGED mapVars /\ Stay

\* The card type catalogue was read: the map is observed and the attack waits
\* its turn.  One whose model object was replaced meanwhile refuses at the head
\* of the line at the latest; here it refuses at once.
Observe(a) ==
  /\ phase[a] = "context" /\ since[a] = {} /\ LegalAttack(a, model)
  /\ observed' = [observed EXCEPT ![a] = model]
  /\ turnLine' = [turnLine EXCEPT ![page[a]] = Append(@, a)]
  /\ Goto(a, "lined")
  /\ UNCHANGED <<page, asked, sheets, base, next>> /\ UNCHANGED mapVars /\ Stay

\* The head of the line: the map's page must hold what the model does.
EnterAttack(a) ==
  /\ a \in Attacks /\ phase[a] = "lined" /\ IsHead(turnLine[page[a]], a)
  /\ MapAsObserved(a) /\ runtime[Map] = model
  /\ sheets' = [sheets EXCEPT ![a] = SheetsNow(a)]
  /\ Goto(a, "map")
  /\ UNCHANGED <<page, asked, observed, base, next, turnLine>> /\ UNCHANGED mapVars /\ Stay

\* checkMap and checkTarget: neither the loaded page nor its file has changed.
MapUntouched(a) == runtime[Map] = observed[a] /\ disk[Map] = observed[a]

TargetUntouched(a) ==
  runtime[page[a]] = sheets[a].target /\ disk[page[a]] = sheets[a].target

CheckMap(a) ==
  /\ phase[a] \in {"map", "map again"} /\ MapUntouched(a)
  /\ phase[a] = "map again" => AsObserved(a)
  /\ Goto(a, IF phase[a] = "map" THEN "target" ELSE "target again")
  /\ UNCHANGED callVars /\ UNCHANGED turnLine /\ UNCHANGED mapVars /\ Stay

\* A hit takes one point; health ends at zero.
Damaged(sheet) == IF sheet.hp > 0 THEN [sheet EXCEPT !.hp = @ - 1] ELSE sheet

\* resolveSingleTargetAttack: a miss or a hit.
Roll(a) ==
  /\ phase[a] = "target" /\ TargetUntouched(a)
  /\ LET sheet == runtime[page[a]]
     IN  /\ base' = [base EXCEPT ![a] = sheet]
         /\ \E outcome \in {sheet, Damaged(sheet)} : next' = [next EXCEPT ![a] = outcome]
  /\ Goto(a, "map again")
  /\ UNCHANGED <<page, asked, observed, sheets, turnLine>> /\ UNCHANGED mapVars /\ Stay

\* A miss, or a hit that changes nothing, is logged without a write.
Commit(a) ==
  /\ phase[a] = "target again" /\ TargetUntouched(a) /\ AsObserved(a)
  /\ base[a] = sheets[a].target
  /\ IF next[a] = base[a] THEN Goto(a, "audit") /\ UNCHANGED callVars /\ UNCHANGED pageVars
     ELSE /\ StartWrite(a, page[a], base[a], next[a])
          /\ UNCHANGED <<page, asked, observed, sheets>>
  /\ UNCHANGED <<turnLine, log, restarts>> /\ UNCHANGED mapVars

-----------------------------------------------------------------------------
(***************************************************************************)
(* undoTransaction of an attack, and the other commands.                   *)
(***************************************************************************)
\* Event history offers the attacks of the log; the first read finds the page.
BeginUndo(u, a) ==
  /\ phase[u] = "idle" /\ a \in log
  /\ asked'    = [asked EXCEPT ![u] = a]
  /\ page'     = [page EXCEPT ![u] = page[a]]
  /\ turnLine' = [turnLine EXCEPT ![page[a]] = Append(@, u)]
  /\ Goto(u, "lined")
  /\ UNCHANGED <<observed, sheets, base, next>> /\ UNCHANGED mapVars /\ Stay

ReversalsOf(a) == {u \in log \cap Undos : asked[u] = a}

\* Mutant: what the first read of the log showed is good enough.
AnyAttack(a) == next[a] # base[a]

\* classifyCombatAttackReversal
Reversible(a) == ReversalsOf(a) = {} /\ next[a] # base[a]

\* The head of the line reads the log again, and takes hold of the page.
Classify(u) ==
  /\ u \in Undos /\ phase[u] = "lined" /\ IsHead(turnLine[page[u]], u)
  /\ Reversible(asked[u])
  /\ sheets' = [sheets EXCEPT ![u] = runtime[page[u]]]
  /\ Goto(u, "prepare")
  /\ UNCHANGED <<page, asked, observed, base, next, turnLine>> /\ UNCHANGED mapVars /\ Stay

\* Mutant: any health is set back.
AnyHealth(sheet, a) == TRUE

\* sameHealth(plan.before, evidence.after)
HealthAsLeftBy(sheet, a) == sheet.hp = next[a].hp

Prepare(u) ==
  /\ phase[u] = "prepare"
  /\ LET a     == asked[u]
         sheet == runtime[page[u]]
     IN /\ HealthAsLeftBy(sheet, a)
        /\ StartWrite(u, page[u], sheet, [sheet EXCEPT !.hp = base[a].hp])
  /\ UNCHANGED <<page, asked, observed, sheets>>
  /\ UNCHANGED <<turnLine, log, restarts>> /\ UNCHANGED mapVars

\* A character sheet, a token's health or another variable of the page.
Edit(e, k, h) ==
  /\ phase[e] = "idle"
  /\ page' = [page EXCEPT ![e] = k]
  /\ StartWrite(e, k, runtime[k], [hp |-> h, note |-> e])
  /\ UNCHANGED <<asked, observed, sheets>>
  /\ UNCHANGED <<turnLine, log, restarts>> /\ UNCHANGED mapVars

\* The program is closed and opened on the same workspace.
Restart ==
  /\ restarts < MaxRestarts
  /\ restarts' = restarts + 1
  /\ runtime'   = disk
  /\ newest'    = [k \in Pages |-> None]
  /\ accepted'  = [k \in Pages |-> None]
  /\ writeLine' = [k \in Pages |-> <<>>]
  /\ turnLine'  = [k \in Participants |-> <<>>]
  /\ model'     = disk[Map]
  /\ dirty'     = FALSE
  /\ since'     = [a \in Attacks |-> {}]
  /\ LET running == {c \in Calls : phase[c] \notin {"idle", "done"}}
         forget(f, kept) == [c \in Calls |-> IF c \in running \ kept THEN None ELSE f[c]]
     IN /\ phase'  = [c \in Calls |-> IF c \in running THEN "done" ELSE phase[c]]
        /\ result' = [c \in Calls |-> IF c \in running THEN "lost" ELSE result[c]]
        /\ page'     = forget(page, {})
        /\ base'     = forget(base, {})
        /\ next'     = forget(next, {})
        /\ observed' = forget(observed, {})
        /\ sheets'   = forget(sheets, {})
        /\ asked'    = forget(asked, Undos)
  /\ UNCHANGED <<disk, landed, log>>

-----------------------------------------------------------------------------
StartOfSession ==
  [session |-> First, status |-> "active", round |-> 1, turn |-> 1, moved |-> FALSE]
FullHealth == [hp |-> MaxHp, note |-> None]

\* A saved map with a session on its first turn, opened in the editor.
Init ==
  /\ disk      = [k \in Pages |-> IF k = Map THEN StartOfSession ELSE FullHealth]
  /\ runtime   = disk
  /\ newest    = [k \in Pages |-> None]
  /\ accepted  = [k \in Pages |-> None]
  /\ writeLine = [k \in Pages |-> <<>>]
  /\ turnLine  = [k \in Participants |-> <<>>]
  /\ model     = disk[Map]
  /\ dirty     = FALSE
  /\ since     = [a \in Attacks |-> {}]
  /\ log       = {}
  /\ landed    = {}
  /\ restarts  = 0
  /\ phase     = [c \in Calls |-> "idle"]
  /\ result    = [c \in Calls |-> None]
  /\ page      = [c \in Calls |-> None]
  /\ asked     = [c \in Calls |-> None]
  /\ observed  = [c \in Calls |-> None]
  /\ sheets    = [c \in Calls |-> None]
  /\ base      = [c \in Calls |-> None]
  /\ next      = [c \in Calls |-> None]

\* What happens by itself once a call has begun.
Progress(c) ==
  \/ Refuse(c)
  \/ Observe(c) \/ EnterAttack(c) \/ CheckMap(c) \/ Roll(c) \/ Commit(c)
  \/ Classify(c) \/ Prepare(c)
  \/ MeetPrecondition(c) \/ StartTask(c) \/ Validate(c) \/ EnterWrite(c) \/ LeaveQueue(c)
  \/ ValidationThrows(c) \/ WriteLands(c) \/ WriteThrows(c) \/ InquireAfterThrow(c)
  \/ WriteSaved(c) \/ WriteUncertain(c) \/ VerifyHealth(c)
  \/ AppendTransaction(c) \/ NothingToLog(c)

Next ==
  \/ \E c \in Calls : Progress(c)
  \/ \E a \in Attacks, p \in Participants : BeginAttack(a, p)
  \/ \E u \in Undos, a \in Attacks : BeginUndo(u, a)
  \/ \E e \in Edits, p \in Participants, h \in 0..MaxHp : Edit(e, p, h)
  \/ \E s \in Saves : UseTurnControl(s) \/ DropToken(s)
  \/ DragToken
  \/ Restart

Spec == Init /\ [][Next]_vars

\* The adapter answers and the event loop turns; nobody has to begin anything.
FairSpec == Spec /\ \A c \in Calls : WF_vars(Progress(c))

-----------------------------------------------------------------------------
Option(S) == S \cup {None}

PageTypes ==
  /\ disk \in [Pages -> MapState \cup Content] /\ runtime \in [Pages -> MapState \cup Content]
  /\ disk[Map] \in MapState /\ runtime[Map] \in MapState
  /\ \A k \in Participants : disk[k] \in Content /\ runtime[k] \in Content
  /\ newest \in [Pages -> Option(Calls)] /\ accepted \in [Pages -> Option(Calls)]
  /\ writeLine \in [Pages -> Seq(Calls)]
  /\ landed \subseteq Calls

MapTypes == model \in MapState /\ dirty \in BOOLEAN /\ since \in [Attacks -> SUBSET Saves]

CallTypes ==
  /\ page \in [Calls -> Option(Pages)]
  /\ observed \in [Calls -> Option(MapState)]
  /\ asked = [c \in Calls |-> asked[c]]
  /\ base \in [Calls -> Option(MapState \cup Content)]
  /\ next \in [Calls -> Option(MapState \cup Content)]
  /\ \A c \in Saves : {base[c], next[c]} \subseteq Option(MapState)
  /\ \A c \in Writers : {base[c], next[c]} \subseteq Option(Content)

StepTypes ==
  /\ phase \in [Calls -> Phases] /\ result \in [Calls -> Option(Results)]
  /\ turnLine \in [Participants -> Seq(Actions)]
  /\ log \subseteq Calls
  /\ restarts \in 0..MaxRestarts

TypeOK == PageTypes /\ MapTypes /\ CallTypes /\ StepTypes

-----------------------------------------------------------------------------
(***************************************************************************)
(* The inductive invariant.                                                *)
(***************************************************************************)
Running(c) == phase[c] \notin {"idle", "done"}

InTurn == {"map", "target", "map again", "target again", "prepare", "precondition",
           "queued", "checking", "validated", "writing", "landed", "failed",
           "verifying", "audit"}
InTask == {"checking", "validated", "writing", "landed"}
Prepared == {"precondition", "queued", "checking", "validated", "writing", "landed",
             "failed", "verifying", "audit"}

\* What a call is tells which phases it can be in, and which page it writes.
MayBeIn(c, p) ==
  /\ p \in {"context", "map", "target", "map again", "target again"} => c \in Attacks
  /\ p = "lined" => c \in Actions
  /\ p = "prepare" => c \in Undos
  /\ p \in {"failed", "verifying"} => c \in Writers

MayWrite(c) == IF c \in Saves THEN {Map} ELSE Participants

\* Whoever acts is the head of its lines.
LinesInv ==
  /\ \A c \in Calls : MayBeIn(c, phase[c])
  /\ \A c \in Calls : phase[c] # "done" => result[c] = None
  /\ \A c \in Calls : Running(c) => page[c] \in MayWrite(c)
  /\ \A c \in Actions : phase[c] \in InTurn => IsHead(turnLine[page[c]], c)
  /\ \A c \in Calls : phase[c] \in InTask => IsWriting(c)

\* The log holds calls that have ended; an undo's attack is one of them.
LogInv ==
  /\ \A c \in log : phase[c] = "done" /\ (c \in Attacks => page[c] \in Participants)
  /\ \A u \in Undos : Running(u) => asked[u] \in Attacks \cap log /\ page[u] = page[asked[u]]
  /\ \A u \in Undos : phase[u] \in InTurn => Reversible(asked[u])

\* The notes of the pages and of what calls start from have been written.
Noted == landed \cup {None}

NotesInv ==
  /\ \A k \in Participants : disk[k].note \in Noted /\ runtime[k].note \in Noted
  /\ \A c \in Writers : base[c] # None => base[c].note \in Noted

\* What a call is going to write is what its kind makes of its base.
PlanOf(c) ==
  /\ base[c] = None <=> next[c] = None
  /\ phase[c] \in Prepared => base[c] # None
  /\ c \in Edits /\ base[c] # None => base[c].note # c /\ next[c].note = c
  /\ c \in Actions /\ base[c] # None => next[c].note = base[c].note
  /\ c \in Attacks /\ next[c] # base[c] => next[c].hp = base[c].hp - 1
  /\ c \in Attacks /\ phase[c] \in Prepared \ {"audit"} => next[c] # base[c]
  /\ c \in Undos /\ phase[c] \in Prepared =>
       base[c].hp = next[asked[c]].hp /\ next[c].hp = base[asked[c]].hp

PlanInv == \A c \in Calls : PlanOf(c)

\* What has landed, what a command that failed finds of it, and what is
\* reported and logged of it.
LandingOf(c) ==
  /\ c \in landed => phase[c] \in {"landed", "failed", "verifying", "audit", "done"}
  /\ phase[c] \in {"landed", "verifying"} => c \in landed
  /\ phase[c] = "audit" \/ c \in log => c \in landed \/ (c \in Attacks /\ next[c] = base[c])
  /\ c \in Attacks /\ phase[c] \in {"validated", "writing"} => since[c] = {}
  /\ c \in Attacks /\ since[c] # {} => c \notin landed
  /\ c \in Writers /\ phase[c] = "writing" => disk[page[c]] = base[c]
  /\ c \in Writers \cap landed /\ phase[c] = "failed" =>
       disk[page[c]].note # base[c].note \/ (c \in Actions /\ disk[page[c]] = next[c])
  /\ c \in Writers /\ result[c] = "unchanged" => c \notin landed

LandingInv == \A c \in Calls : LandingOf(c)

-----------------------------------------------------------------------------
\* combatAttackReversal.js reads the log again inside the target's line: the
\* log never holds two reversals of one attack, whoever clicked undo while
\* another undo, an attack or an edit of the page was on its way, and whatever
\* the program's restarts lost.
AtMostOneReversal ==
  \A a \in Attacks : \A u, v \in ReversalsOf(a) : u = v

\* Success history follows confirmed writes: the log holds an attack or undo
\* that changed health, or an event of the turn controls, only if its content
\* has been in the file.
LogTellsWhatHappened ==
  \A c \in log : (c \in Attacks /\ next[c] = base[c]) \/ c \in landed

\* A failed command asks the file before it reports: an attack or undo that
\* says it left everything unchanged has never been in the file.
UnchangedLeftNothing ==
  \A c \in Writers : result[c] = "unchanged" => c \notin landed

\* The map is looked at once more inside the write queue: an attack overtaken
\* by a turn control or a dropped token at any await before that, never
\* reaches its target, even if the turn and the tokens are back where the
\* attack saw them.
OvertakenAttackNeverLands == \A a \in Attacks : since[a] # {} => a \notin landed

\* Damage and its undo move the health that is in the file when they reach it,
\* by what their transaction says, and keep everything another command has put
\* on the page.
HealthMovesAsLogged ==
  [][\A c \in Actions \cap (landed' \ landed) :
       LET old == disk[page[c]]
           new == disk'[page[c]]
       IN  /\ new.note = old.note
           /\ c \in Attacks => new.hp = old.hp - 1
           /\ c \in Undos   => LET a == asked[c]
                               IN  old.hp = next[a].hp /\ new.hp = base[a].hp]_vars

\* The lines outlive rejections: an attack or undo, once begun, returns.
EveryActionReturns ==
  \A c \in Actions : phase[c] \notin {"idle", "done"} ~> phase[c] = "done"

CombatInv ==
  TypeOK /\ LinesInv /\ LogInv /\ AtMostOneReversal /\ NotesInv /\ PlanInv /\ LandingInv
=============================================================================
