--------------------------- MODULE EditorAutosave ---------------------------
(***************************************************************************)
(* The editor and its autosave: js/editor/autosave.js (the delayed save    *)
(* and the chain of saves), openPage of js/editor/editor.js with           *)
(* js/editor/editorOpenPage.js, the session base of                        *)
(* js/editor/editorSessionBase.js, the saves of special pages              *)
(* (editorSpecialSave.js) and the other writers of a page that is open:    *)
(* tree moves, sheet and inventory controls, the undo of a transaction.    *)
(*                                                                         *)
(* A page command is one step here, from its precondition to its result    *)
(* (PageCommand has what lies between).  A content is a body, which the    *)
(* editor writes, and the rest of the page record, which others write.     *)
(***************************************************************************)
EXTENDS Naturals

CONSTANTS
  Pages,
  Start,     \* the page that is open at first
  Special,   \* pages whose explicit save is saveCurrentSpecialPage
  Opens,     \* bound: the calls of openPage in one history
  Manual,    \* bound: explicit saves
  Writers,   \* bound: writes of others, within the program or outside it
  MaxTyped,  \* bound: how often the user types
  None

ASSUME EditorAssumption ==
  /\ Start \in Pages /\ Special \subseteq Pages
  /\ MaxTyped \in Nat
  /\ (Manual \cup Writers) \cap Nat = {} /\ Manual \cap Writers = {}
  /\ None \notin Pages \cup Opens \cup Manual \cup Writers \cup Nat

VARIABLES
  disk,      \* the durable content of a page
  runtime,   \* page.content
  current,   \* state.currentPage
  dom,       \* the body in the editor: a draft, or what was loaded
  base,      \* currentEditorPageBase
  typed,     \* the number of the last draft
  pending,   \* the page of pendingAutosave, or None
  inFlight,  \* the save of inFlightEditorSave, or None
  stage,     \* where a save or another write is
  result,    \* how it ended
  page,      \* requestedPage
  after,     \* the save whose promise it awaits
  content,   \* what it writes
  expected,  \* its expectedBase
  newest,    \* the holder of a page's newest write revision
  before,    \* page.content when its command began, for the rollback
  conflict,  \* activeConflict, or None: pageId is the page in conflict, page the
             \* one whose file is read when the user asks for what it has now
  reading,   \* what was read of that file and not used yet, or None
  newestOpen, \* openPageGeneration: its holder
  opening,   \* where a call of openPage is
  target,    \* the page it opens
  awaits,    \* the save it waits for
  home,      \* history: the page a draft was typed on
  flushed,   \* history: the draft that was in the editor when it was called
  answered,  \* history: drafts that were saved or reported as not saved
  unsaid,    \* history: drafts whose save ended as if their page had been left
  misloaded, \* history: pages that a reload has given another page's file
  apart      \* history: pages whose file has what a failed save wrote, or that a
             \* reload has given what is not, or no longer, in their file

files   == <<disk, runtime>>
session == <<current, dom, base>>
calls   == <<newestOpen, opening, target, awaits, flushed>>
saves   == <<stage, result, page, after, content, expected, newest, before>>
reload  == <<reading, misloaded>>
vars    == <<disk, runtime, current, dom, base, typed, pending, inFlight, stage, result, page,
             after, content, expected, newest, before, conflict, reading, newestOpen, opening,
             target, awaits, flushed, home, answered, unsaid, misloaded, apart>>

Drafts   == 1..MaxTyped
Saves    == Drafts \cup Manual  \* a delayed save has the number of its draft
Actors   == Saves \cup Writers
Bodies   == Drafts \cup Writers \cup {0}
Content  == [of : Pages, body : Bodies, rest : Writers \cup {0}]
Base     == [pageId : Pages, content : Content]
Conflict == [pageId : Pages, page : Pages]
Reading  == [pageId : Pages, page : Pages, content : Content]
Kinds    == {"move", "sheet", "undo", "special"}
Stages   == {"idle", "waiting", "persisting", "ended"} \cup Kinds
Results  == {"passed", "failed", "left"}  \* failed: conflict, block, stale result or error

ASSUME ContentAssumption == None \notin Content \cup Conflict \cup Reading

Original(p) == [of |-> p, body |-> 0, rest |-> 0]

Init ==
  /\ disk     = [p \in Pages |-> Original(p)]
  /\ runtime  = disk
  /\ current  = Start
  /\ dom      = 0
  /\ base     = [pageId |-> current, content |-> Original(current)]
  /\ typed    = 0
  /\ pending  = None
  /\ inFlight = None
  /\ stage    = [a \in Actors |-> "idle"]
  /\ result   = [a \in Actors |-> None]
  /\ page     = [a \in Actors |-> None]
  /\ after    = [a \in Actors |-> None]
  /\ content  = [a \in Actors |-> None]
  /\ expected = [a \in Actors |-> None]
  /\ newest   = [p \in Pages |-> None]
  /\ before   = [a \in Actors |-> None]
  /\ conflict = None /\ reading = None
  /\ newestOpen = None
  /\ opening  = [o \in Opens |-> "idle"]
  /\ target   = [o \in Opens |-> None]
  /\ awaits   = [o \in Opens |-> None]
  /\ flushed  = [o \in Opens |-> 0]
  /\ home     = [n \in Drafts |-> None]
  /\ answered = {} /\ unsaid = {} /\ misloaded = {} /\ apart = {}

-----------------------------------------------------------------------------
(***************************************************************************)
(* Saves of the editor.                                                    *)
(***************************************************************************)
\* getCurrentEditorPageBase: a base of another page is no base.
BaseOf(p) == IF base.pageId = p THEN base.content ELSE None

\* The record of page.content with the page's id and the body in the editor.
Candidate(p) == [runtime[p] EXCEPT !.of = p, !.body = dom]

\* Mutant: the end of any save clears it.
ClearedByAny(a) == None

\* A save clears inFlightEditorSave if it is still its own.
InFlightAfter(a) == IF inFlight = a THEN None ELSE inFlight

\* A call that is over leaves its result and nothing else.
End(a, r) ==
  /\ stage'    = [stage EXCEPT ![a] = "ended"]
  /\ result'   = [result EXCEPT ![a] = r]
  /\ inFlight' = InFlightAfter(a)
  /\ after'    = [after EXCEPT ![a] = None]
  /\ content'  = [content EXCEPT ![a] = None]
  /\ expected' = [expected EXCEPT ![a] = None]
  /\ before'   = [before EXCEPT ![a] = None]

\* persistCurrentEditorPage: content and base are those of this moment.
Persist(s, p) ==
  /\ stage'    = [stage EXCEPT ![s] = "persisting"]
  /\ content'  = [content EXCEPT ![s] = Candidate(p)]
  /\ expected' = [expected EXCEPT ![s] = BaseOf(p)]
  /\ newest'   = [newest EXCEPT ![p] = s]
  /\ before'   = [before EXCEPT ![s] = runtime[p]]

\* Mutant: saves do not wait for one another.
ChainedAfterNone(s) == None

\* The save that a new one waits for.
ChainedAfter(s) == inFlight

\* saveCurrentPage: the first of a chain goes on in the same turn.
Request(s) ==
  LET previous == ChainedAfter(s)
  IN /\ stage[s] = "idle"
     /\ page'  = [page EXCEPT ![s] = current]
     /\ after' = [after EXCEPT ![s] = previous]
     /\ inFlight' = s
     /\ IF previous = None THEN Persist(s, current)
        ELSE /\ stage' = [stage EXCEPT ![s] = "waiting"]
             /\ UNCHANGED <<content, expected, newest, before>>
     /\ UNCHANGED result

\* schedulePendingAutosave: one timer, that of the last input.
Type ==
  /\ typed < MaxTyped
  /\ typed' = typed + 1
  /\ home' = [home EXCEPT ![typed'] = current]
  /\ dom' = typed'
  /\ pending' = current
  /\ UNCHANGED <<current, base, inFlight, conflict, answered, unsaid, apart>>
  /\ UNCHANGED files /\ UNCHANGED calls /\ UNCHANGED saves /\ UNCHANGED reload

\* runPendingAutosave: a timer of a page that was left does nothing.
Timer ==
  /\ pending # None
  /\ pending' = None
  /\ IF pending = current THEN Request(typed)
     ELSE UNCHANGED inFlight /\ UNCHANGED saves
  /\ UNCHANGED <<typed, home, unsaid, conflict, answered, apart>>
  /\ UNCHANGED files /\ UNCHANGED session /\ UNCHANGED calls /\ UNCHANGED reload

\* An explicit save takes over what the timer was to save.
SaveNow(s) ==
  /\ current \notin Special
  /\ Request(s)
  /\ pending' = IF pending = current THEN None ELSE pending
  /\ UNCHANGED <<typed, home, unsaid, conflict, answered, apart>>
  /\ UNCHANGED files /\ UNCHANGED session /\ UNCHANGED calls /\ UNCHANGED reload

\* Mutant: whatever page the editor shows is taken for that of the save.
NeverLeft(s) == FALSE

HasLeft(s) == current # page[s]

\* The result of a save that gives up: that of the one before it, if it was none.
Inherited(s) == IF result[after[s]] = "passed" THEN "left" ELSE result[after[s]]

\* A save goes on when the one before it has ended.  An error, a conflict or an
\* uncertain result ends it too, and so does another page in the editor: then it
\* says nothing, and neither does a save of the page that is shown behind it.
GoOn(s) ==
  /\ stage[s] = "waiting" /\ stage[after[s]] = "ended"
  /\ IF result[after[s]] = "passed" /\ ~HasLeft(s)
     THEN Persist(s, page[s]) /\ UNCHANGED <<result, inFlight, after, unsaid>>
     ELSE /\ End(s, Inherited(s)) /\ UNCHANGED newest
          /\ unsaid' = IF Inherited(s) = "left" /\ ~HasLeft(s) THEN unsaid \cup {dom} ELSE unsaid
  /\ UNCHANGED <<typed, home, pending, page, conflict, answered, apart>>
  /\ UNCHANGED files /\ UNCHANGED session /\ UNCHANGED calls /\ UNCHANGED reload

\* A title that another page has ends a save before its command.
Skip(s) ==
  /\ stage[s] = "persisting"
  /\ End(s, "passed")
  /\ answered' = answered \cup {content[s].body}
  /\ UNCHANGED <<typed, home, unsaid, pending, page, newest, conflict, apart>>
  /\ UNCHANGED files /\ UNCHANGED session /\ UNCHANGED calls /\ UNCHANGED reload

\* The precondition of a page command.
IsConflict(a) == expected[a] # None /\ disk[page[a]] # expected[a]

\* The save status is one line for the editor, whatever page it shows: it says
\* of the text on the screen, too, that it was not saved.
Reported(s) == answered \cup {dom, content[s].body}

\* A command that is blocked or fails takes nothing over, whether or not its
\* write has landed: the base stays, and after an error page.content is again
\* what it was when the command began.
NotSaved(a, landed) ==
  /\ End(a, "failed")
  /\ landed => ~IsConflict(a)
  /\ disk' = IF landed THEN [disk EXCEPT ![page[a]] = content[a]] ELSE disk
  /\ runtime' \in {runtime, [runtime EXCEPT ![page[a]] = before[a]]}

\* handleEditorSaveConflictResult: a conflict takes the place of the last one.
\* An error before the check tells of none.
ConflictAfter(a, p) ==
  IF IsConflict(a) THEN {conflict, [pageId |-> page[a], page |-> p]} ELSE {conflict}

Refuse(s, landed) ==
  /\ stage[s] = "persisting"
  /\ NotSaved(s, landed)
  /\ conflict' \in ConflictAfter(s, page[s])
  /\ answered' = Reported(s)
  /\ apart' = IF landed THEN apart \cup {page[s]} ELSE apart
  /\ UNCHANGED <<typed, home, unsaid, pending, page, newest>>
  /\ UNCHANGED session /\ UNCHANGED calls /\ UNCHANGED reload

\* A write that a newer command supersedes under way: it is in the file, and the
\* result is stale.
Superseded(a) ==
  /\ newest[page[a]] # a /\ ~IsConflict(a)
  /\ End(a, "failed")
  /\ disk' = [disk EXCEPT ![page[a]] = content[a]]
  /\ UNCHANGED <<runtime, typed, home, unsaid, pending, page, newest, conflict, apart>>
  /\ UNCHANGED session /\ UNCHANGED calls /\ UNCHANGED reload

StaleSave(s) == stage[s] = "persisting" /\ Superseded(s) /\ answered' = Reported(s)

\* Mutant: a save that ends clears the timer that was set meanwhile.
PendingCleared(s) == IF pending = page[s] THEN None ELSE pending

\* The timer after a save: text typed meanwhile is still to be saved.
PendingAfter(s) == pending

\* Mutant: the base stays what it was when the page was opened.
BaseKept(s) == base

BaseAfterSave(s) ==
  IF current = page[s] THEN [pageId |-> page[s], content |-> content[s]] ELSE base

\* clearEditorSaveConflictState
ConflictCleared(p) == IF conflict # None /\ conflict.pageId = p THEN None ELSE conflict

Saved(s) ==
  LET p == page[s]
  IN /\ stage[s] = "persisting" /\ newest[p] = s /\ ~IsConflict(s)
     /\ End(s, "passed")
     /\ disk'     = [disk EXCEPT ![p] = content[s]]
     /\ runtime'  = [runtime EXCEPT ![p] = content[s]]
     /\ base'     = BaseAfterSave(s)
     /\ conflict' = IF current = p THEN ConflictCleared(p) ELSE conflict
     /\ answered' = answered \cup {content[s].body}
     /\ pending'  = PendingAfter(s)
     /\ apart'    = apart \ {p}
     /\ UNCHANGED <<current, dom, typed, home, unsaid, page, newest>>
     /\ UNCHANGED calls /\ UNCHANGED reload

-----------------------------------------------------------------------------
(***************************************************************************)
(* Opening a page.                                                         *)
(***************************************************************************)
\* openPageInEditor.
Show(o, p) ==
  /\ current' = p
  /\ base'    = [pageId |-> p, content |-> runtime[p]]
  /\ dom'     = runtime[p].body
  /\ opening' = [opening EXCEPT ![o] = "ended"]

Draft == IF dom \in Drafts THEN dom ELSE 0

Called(o) ==
  /\ opening[o] = "idle"
  /\ newestOpen' = o

WaitFor(o, p, s) ==
  /\ opening' = [opening EXCEPT ![o] = "waiting"]
  /\ target'  = [target EXCEPT ![o] = p]
  /\ awaits'  = [awaits EXCEPT ![o] = s]
  /\ flushed' = [flushed EXCEPT ![o] = Draft]
  /\ UNCHANGED session

\* Mutant: what the timer would save is left to the timer.
NothingToFlush == FALSE

\* flushPendingAutosave: the delayed save is made now.
Flushes == pending = current

\* openPage: without a save to wait for, the page is shown at once.
OpenPage(o, p) ==
  /\ Called(o)
  /\ IF Flushes THEN /\ Request(typed) /\ WaitFor(o, p, typed)
                     /\ pending' = None
     ELSE /\ pending' = None
          /\ UNCHANGED inFlight /\ UNCHANGED saves
          /\ IF pending = None /\ inFlight # None THEN WaitFor(o, p, inFlight)
             ELSE Show(o, p) /\ UNCHANGED <<target, awaits, flushed>>
  /\ UNCHANGED <<typed, home, unsaid, conflict, answered, apart>>
  /\ UNCHANGED files /\ UNCHANGED reload

\* The save has ended.  A refused or rejected one keeps the page in the editor;
\* an older call gives way to a newer one.
Opened(o) ==
  /\ opening[o] = "waiting" /\ stage[awaits[o]] = "ended"
  /\ IF result[awaits[o]] # "passed" \/ newestOpen # o
     THEN opening' = [opening EXCEPT ![o] = "ended"] /\ UNCHANGED session
     ELSE Show(o, target[o])
  /\ target'  = [target EXCEPT ![o] = None]
  /\ awaits'  = [awaits EXCEPT ![o] = None]
  /\ flushed' = [flushed EXCEPT ![o] = 0]
  /\ UNCHANGED <<typed, home, unsaid, pending, inFlight, conflict, newestOpen, answered, apart>>
  /\ UNCHANGED files /\ UNCHANGED saves /\ UNCHANGED reload

\* readCurrentDurableVersionForConflict, for the comparison or the reload.
ReadCurrent ==
  /\ conflict # None /\ reading = None
  /\ reading' = [pageId |-> conflict.pageId, page |-> conflict.page, content |-> disk[conflict.page]]
  /\ UNCHANGED <<typed, home, unsaid, pending, inFlight, conflict, answered, misloaded, apart>>
  /\ UNCHANGED files /\ UNCHANGED session /\ UNCHANGED calls /\ UNCHANGED saves

\* The user has the draft replaced by what was read (confirmReloadCurrentVersion,
\* discardPendingAutosave, openPage), whatever page the editor shows.
Reload(o) ==
  LET p == reading.pageId
  IN /\ reading # None
     /\ Called(o)
     /\ runtime'  = [runtime EXCEPT ![p] = reading.content]
     /\ conflict' = ConflictCleared(p)
     /\ reading'  = None /\ pending' = None
     /\ answered' = answered \cup {dom}
     /\ IF inFlight # None THEN WaitFor(o, p, inFlight)
        ELSE /\ current' = p
             /\ base'    = [pageId |-> p, content |-> reading.content]
             /\ dom'     = reading.content.body
             /\ opening' = [opening EXCEPT ![o] = "ended"]
             /\ UNCHANGED <<target, awaits, flushed>>
     /\ misloaded' = IF reading.page # p THEN misloaded \cup {p} ELSE misloaded
     /\ apart' = IF reading.content # disk[p] THEN apart \cup {p}
                 ELSE IF inFlight = None THEN apart \ {p} ELSE apart
     /\ UNCHANGED <<disk, typed, home, unsaid, inFlight>> /\ UNCHANGED saves

-----------------------------------------------------------------------------
(***************************************************************************)
(* Other writers.                                                          *)
(***************************************************************************)
BeginWrite(w, kind, p, c, e) ==
  /\ stage[w] = "idle"
  /\ stage'    = [stage EXCEPT ![w] = kind]
  /\ page'     = [page EXCEPT ![w] = p]
  /\ content'  = [content EXCEPT ![w] = c]
  /\ expected' = [expected EXCEPT ![w] = e]
  /\ newest'   = [newest EXCEPT ![p] = w]
  /\ before'   = [before EXCEPT ![w] = runtime[p]]
  /\ UNCHANGED <<typed, home, unsaid, pending, inFlight, result, after, conflict, answered, apart>>
  /\ UNCHANGED files /\ UNCHANGED session /\ UNCHANGED calls /\ UNCHANGED reload

\* executeScopedTreeChanges: parent and order of a page.
MovePage(w, p) == BeginWrite(w, "move", p, [runtime[p] EXCEPT !.rest = w], runtime[p])

\* undoTransaction of a property: it rewrites a value within the body.
UndoProperty(w, p) == BeginWrite(w, "undo", p, [runtime[p] EXCEPT !.body = w], runtime[p])

\* hasPendingAutosaveForPage
HasPendingAutosave(p) == pending = p \/ (inFlight # None /\ page[inFlight] = p)

\* Sheet, inventory and effects controls of the page in the editor.
ChangeSheet(w) ==
  /\ ~HasPendingAutosave(current) /\ BaseOf(current) # None
  /\ BeginWrite(w, "sheet", current, [runtime[current] EXCEPT !.rest = w], BaseOf(current))

\* persistCurrentPage of editorSpecialSave.js, which no chain serializes.
SaveSpecial(w) ==
  /\ current \in Special
  /\ BeginWrite(w, "special", current, Candidate(current), BaseOf(current))

\* The base that a writer leaves: a tree move sees to it that its page is the
\* one in the editor, a sheet does not, a special save takes the current page.
BaseAfter(w) ==
  CASE stage[w] = "move" /\ current = page[w] -> [pageId |-> page[w], content |-> content[w]]
    [] stage[w] = "sheet" -> [pageId |-> page[w], content |-> content[w]]
    [] stage[w] = "special" -> [pageId |-> current, content |-> content[w]]
    [] OTHER -> base

WriterSaved(w) ==
  /\ stage[w] \in Kinds /\ newest[page[w]] = w /\ ~IsConflict(w)
  /\ End(w, "passed")
  /\ disk'    = [disk EXCEPT ![page[w]] = content[w]]
  /\ runtime' = [runtime EXCEPT ![page[w]] = content[w]]
  /\ base'    = BaseAfter(w)
  /\ IF stage[w] = "special"
     THEN answered' = answered \cup {content[w].body} /\ conflict' = ConflictCleared(current)
     ELSE UNCHANGED <<answered, conflict>>
  /\ UNCHANGED <<current, dom, typed, home, unsaid, pending, page, newest, apart>>
  /\ UNCHANGED calls /\ UNCHANGED reload

\* What a writer that fails tells of the text on the screen.
AnsweredBy(w) == IF stage[w] = "special" THEN Reported(w) ELSE answered

StaleWriter(w) == stage[w] \in Kinds /\ Superseded(w) /\ answered' = AnsweredBy(w)

\* A special save that is in conflict tells of the page the editor shows by then.
WriterFails(w, landed) ==
  /\ stage[w] \in Kinds
  /\ NotSaved(w, landed)
  /\ conflict' \in IF stage[w] = "special" THEN ConflictAfter(w, current) ELSE {conflict}
  /\ answered' = AnsweredBy(w)
  /\ UNCHANGED <<typed, home, unsaid, pending, page, newest, apart>>
  /\ UNCHANGED session /\ UNCHANGED calls /\ UNCHANGED reload

OutsideEdit(w, p) ==
  /\ stage[w] = "idle"
  /\ stage' = [stage EXCEPT ![w] = "ended"]
  /\ page'  = [page EXCEPT ![w] = p]
  /\ disk'  = [disk EXCEPT ![p] = [of |-> p, body |-> w, rest |-> w]]
  /\ UNCHANGED <<runtime, typed, home, unsaid, pending, inFlight, result, after, content, expected,
                 newest, before, conflict, answered, apart>>
  /\ UNCHANGED session /\ UNCHANGED calls /\ UNCHANGED reload

SaveEnds(s) ==
  Saved(s) \/ StaleSave(s) \/ Skip(s) \/ \E landed \in BOOLEAN : Refuse(s, landed)

\* What awaits a promise runs before the next task of the event loop.
NothingAwaited ==
  /\ \A s \in Saves : ~(stage[s] = "waiting" /\ stage[after[s]] = "ended")
  /\ \A o \in Opens : ~(opening[o] = "waiting" /\ stage[awaits[o]] = "ended")

TimerFires  == NothingAwaited /\ Timer
CommandEnds(s) == NothingAwaited /\ SaveEnds(s)

Next ==
  \/ NothingAwaited /\ Type
  \/ TimerFires
  \/ \E s \in Manual : NothingAwaited /\ SaveNow(s)
  \/ NothingAwaited /\ ReadCurrent
  \/ \E s \in Saves : GoOn(s) \/ CommandEnds(s)
  \/ \E o \in Opens :
       \/ \E p \in Pages : NothingAwaited /\ OpenPage(o, p)
       \/ NothingAwaited /\ Reload(o)
       \/ Opened(o)
  \/ \E w \in Writers : NothingAwaited /\
       \/ \E p \in Pages : MovePage(w, p) \/ UndoProperty(w, p) \/ OutsideEdit(w, p)
       \/ ChangeSheet(w) \/ SaveSpecial(w)
       \/ WriterSaved(w) \/ StaleWriter(w)
       \/ \E landed \in BOOLEAN : WriterFails(w, landed)

Spec == Init /\ [][Next]_vars

\* The timer fires, commands settle, and what awaits them runs.
FairSpec ==
  /\ Spec
  /\ WF_vars(TimerFires)
  /\ \A s \in Saves : WF_vars(GoOn(s)) /\ WF_vars(CommandEnds(s))
  /\ \A o \in Opens : WF_vars(Opened(o))

-----------------------------------------------------------------------------
(***************************************************************************)
(* Properties.                                                             *)
(***************************************************************************)
Types ==
  /\ disk \in [Pages -> Content] /\ runtime \in [Pages -> Content]
  /\ current \in Pages /\ dom \in Bodies /\ base \in Base
  /\ typed \in 0..MaxTyped
  /\ pending \in Pages \cup {None}
  /\ inFlight \in Saves \cup {None}
  /\ stage \in [Actors -> Stages]
  /\ result \in [Actors -> Results \cup {None}]
  /\ page \in [Actors -> Pages \cup {None}]
  /\ after \in [Actors -> Saves \cup {None}]
  /\ content \in [Actors -> Content \cup {None}]
  /\ expected \in [Actors -> Content \cup {None}]
  /\ newest \in [Pages -> Actors \cup {None}]
  /\ before \in [Actors -> Content \cup {None}]
  /\ conflict \in Conflict \cup {None} /\ reading \in Reading \cup {None}
  /\ newestOpen \in Opens \cup {None}
  /\ opening \in [Opens -> {"idle", "waiting", "ended"}]
  /\ target \in [Opens -> Pages \cup {None}]
  /\ awaits \in [Opens -> Saves \cup {None}]
  /\ flushed \in [Opens -> Drafts \cup {0}]
  /\ answered \subseteq Bodies /\ unsaid \subseteq Bodies
  /\ home \in [Drafts -> Pages \cup {None}]
  /\ misloaded \subseteq Pages /\ apart \subseteq Pages

UnderWay(s) == stage[s] \in {"waiting", "persisting"}

\* Types, and inFlightEditorSave is empty exactly when no save is under way: a
\* save that ends never hides a later one from flushPendingAutosave.
TypeOK == Types /\ (inFlight = None <=> \A s \in Saves : ~UnderWay(s))

\* At most one save of the editor is at its command at any time: the next one
\* builds its candidate only after the one before has been confirmed.
OneSaveAtATime ==
  \A s, t \in Saves : stage[s] = "persisting" /\ stage[t] = "persisting" => s = t

\* A text is written to the page it was typed on and to no other, whatever page
\* the editor shows by the time its save goes on; but for pages that a reload,
\* after the conflict of a special save, has given another page's file.
BodiesStayHome ==
  \A n \in Drafts, p \in Pages \ misloaded :
    /\ n \in {disk[p].body, runtime[p].body} => home[n] = p
    /\ \A a \in Actors :
         page[a] = p /\ content[a] # None /\ content[a].body = n => home[n] = p

\* A draft that was in the editor when openPage was called is not taken from the
\* screen before it, or a later one, was saved or its failure shown to the user.
FlushedBeforeOpen ==
  [][\A o \in Opens : opening[o] # "ended" /\ opening'[o] = "ended" /\ dom' # dom =>
       LET owed == IF opening[o] = "waiting" THEN flushed[o] ELSE Draft
       IN owed = 0 \/ owed \in unsaid' \/ \E n \in answered' \cap Drafts : n >= owed]_vars

\* A save of the editor never conflicts with another save of the editor: when it
\* is refused for its base, another writer has been at the page, or the base was
\* taken from another page, or a save that was reported as not saved, or a
\* reload of what is not in the file, has come between.
ConflictHasACause ==
  \A s \in Saves : stage[s] = "persisting" /\ IsConflict(s) =>
    \/ expected[s].of # page[s]
    \/ page[s] \in apart
    \/ \E w \in Writers : page[w] = page[s]

-----------------------------------------------------------------------------
(***************************************************************************)
(* What every step keeps, for the proofs in EditorAutosaveProofs.          *)
(***************************************************************************)
\* What a call holds at each of its stages.
ProgressInv ==
  /\ \A s \in Saves :
       /\ stage[s] \in {"idle", "waiting", "persisting", "ended"}
       /\ stage[s] = "waiting" => after[s] \in Saves
       /\ stage[s] = "ended" => result[s] \in Results
  /\ \A w \in Writers : stage[w] \in {"idle", "ended"} \cup Kinds
  /\ \A a \in Actors :
       /\ IF stage[a] = "idle" THEN page[a] = None ELSE page[a] \in Pages
       /\ IF stage[a] \in {"persisting"} \cup Kinds
          THEN content[a] \in Content /\ before[a] \in Content
          ELSE content[a] = None /\ before[a] = None
       /\ stage[a] \in {"persisting", "special"} => content[a].of = page[a]
  /\ pending # None => typed \in Drafts
  /\ \A o \in Opens : opening[o] = "waiting" => target[o] \in Pages /\ awaits[o] \in Saves

\* The saves under way form one line q of n, each behind the one before it; only
\* the first is at its command or about to go on, and the last is in flight.
IsLine(n, q) ==
  /\ \A s \in Saves : UnderWay(s) <=> \E i \in 1..n : q[i] = s
  /\ \A i, j \in 1..n : q[i] = q[j] => i = j
  /\ \A i \in 2..n : stage[q[i]] = "waiting" /\ after[q[i]] = q[i - 1]
  /\ n # 0 /\ stage[q[1]] = "waiting" =>
       after[q[1]] \in Saves /\ stage[after[q[1]]] = "ended"
  /\ inFlight = IF n = 0 THEN None ELSE q[n]

ChainInv == \E n \in Nat : \E q \in [1..n -> Saves] : IsLine(n, q)

\* A body at page p, if it is a draft, was typed, and on p if p is not misloaded.
AtHome(body, p) == body \in Drafts => home[body] \in Pages /\ (p \notin misloaded => home[body] = p)

FilesAtHome  == \A p \in Pages : AtHome(disk[p].body, p) /\ AtHome(runtime[p].body, p)
CallsAtHome  == \A a \in Actors : page[a] \in Pages =>
                  /\ content[a] # None => AtHome(content[a].body, page[a])
                  /\ before[a] # None => AtHome(before[a].body, page[a])
ReadAtHome   == reading # None => AtHome(reading.content.body, reading.page)
ScreenAtHome == AtHome(dom, current) /\ \A n \in Drafts : n > typed => home[n] = None

\* A body of the editor is where it was typed, on the screen as in the files, in
\* what was read of them and in what a rollback brings back.
HomeInv == FilesAtHome /\ CallsAtHome /\ ReadAtHome /\ ScreenAtHome

\* Pages that no writer but the editor has been at.
Undisturbed(p) == \A w \in Writers : page[w] # p

\* On such a page every base of the editor is what is in the file, if that is
\* what the editor last took over.
CauseInv ==
  \A p \in Pages : Undisturbed(p) =>
    /\ base.pageId = p => current = p
    /\ \A s \in Saves : stage[s] = "persisting" /\ page[s] = p => newest[p] = s
    /\ p \notin apart =>
         /\ runtime[p] = disk[p]
         /\ base.pageId = p /\ base.content.of = p => base.content = disk[p]
         /\ \A s \in Saves : stage[s] = "persisting" /\ page[s] = p =>
              /\ before[s] = disk[p]
              /\ expected[s] # None /\ expected[s].of = p => expected[s] = disk[p]

Told(n) == n \in Drafts => n \in answered \cup unsaid

\* It was told of a draft, or of one that came after it.
Covered(n) == n = 0 \/ n \in unsaid \/ \E m \in answered \cap Drafts : m >= n

\* What is in the files, or is written back from them, was told of.
FilesTold   == \A p \in Pages : Told(disk[p].body) /\ Told(runtime[p].body)
WritersTold == \A w \in Writers : stage[w] \in Kinds \ {"special"} => Told(content[w].body)
BackTold    == \A a \in Actors : before[a] # None => Told(before[a].body)
ReadTold    == reading # None => Told(reading.content.body)

\* The text on the screen was, or the timer or the last save of the line has it.
ScreenKept ==
  \/ Told(dom) \/ pending = current
  \/ /\ pending = None /\ inFlight # None
     /\ \/ stage[inFlight] = "waiting" /\ page[inFlight] = current
        \/ stage[inFlight] = "persisting" /\ content[inFlight].body = dom

\* The save that the newest opening waits for has its draft, or a later one.
OpeningKept(o) ==
  opening[o] = "waiting" /\ newestOpen = o /\ ~Covered(flushed[o]) =>
    LET s == awaits[o]
    IN \/ stage[s] = "ended" /\ result[s] # "passed"
       \/ stage[s] = "persisting" /\ content[s].body \in Drafts /\ content[s].body >= flushed[o]
       \/ stage[s] = "waiting" /\ page[s] = current /\ dom \in Drafts /\ dom >= flushed[o]

\* A failure was told of before the save behind it inherits it.
FailureTold(s) ==
  stage[s] = "waiting" /\ stage[after[s]] = "ended" /\ result[after[s]] = "failed" => Told(dom)

FlushInv ==
  /\ FilesTold /\ WritersTold /\ BackTold /\ ReadTold /\ ScreenKept
  /\ \A o \in Opens : OpeningKept(o)
  /\ \A s \in Saves : FailureTold(s)

EditorInv == Types /\ ProgressInv /\ ChainInv /\ HomeInv /\ CauseInv /\ FlushInv

-----------------------------------------------------------------------------
\* Every draft is saved, reported as not saved, or replaced by another text.
EveryDraftIsAnswered ==
  \A n \in Drafts : dom = n ~> n \in answered \cup unsaid \/ dom # n
=============================================================================
