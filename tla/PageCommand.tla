---------------------------- MODULE PageCommand ----------------------------
(***************************************************************************)
(* Page content commands (js/storage/pageCommandService.js,                *)
(* pageWritePreconditions.js) over the write queue, in one workspace.      *)
(*                                                                         *)
(* A command takes a revision, remembers the content it is based on, reads *)
(* the durable page, and either queues its write, merges its field into    *)
(* what it read, or reports a conflict.  When the queue returns, the turn  *)
(* that receives the result also updates the runtime page, the editor's    *)
(* base and the undo stack, or rolls the runtime page back.                *)
(***************************************************************************)
EXTENDS WriteQueue, Sequences

CONSTANT MaxUndo   \* MAX_PAGE_UNDO_ENTRIES

ASSUME UndoAssumption == MaxUndo \in Nat \ {0}

VARIABLES
  step,      \* where a created command is: awaiting or holding a durable read
  seen,      \* the durable content its last read returned
  base,      \* expectedBase
  before,    \* rollbackData.beforeContent, and the undo entry's content
  edits,     \* what the command changes
  parts,     \* every content's body and structured field
  runtime,   \* page.content of the loaded page object
  session,   \* currentEditorPageBase: the content the open editor is based on
  undo       \* pageUndoEntries of renames

commandVars == <<step, seen, base, before, edits, parts>>
pageVars    == <<runtime, session, undo>>
allVars     == <<vars, commandVars, pageVars>>

(***************************************************************************)
(* "body" and "title" are the editor's saves of a whole page, the second   *)
(* one of type rename-page; "field" is a structuredMutation of one record  *)
(* field (tags, aliases or type); "undo" restores the content before a     *)
(* rename.                                                                 *)
(***************************************************************************)
Edits == {"body", "title", "field", "undo"}
Steps == {"none", "reading", "read", "remerging", "reread"}

\* A content as far as commands compare and merge it: which write last changed
\* its body and its field.  Page identities are digests of the whole content.
Parts == [body: Contents, field: Contents]
SameContent(x, y) == parts[x] = parts[y]

Durable(k) == disk[root][k]

\* The content a command writes, built from the runtime page when it starts.
NewParts(c, k, e) ==
  IF e = "field" THEN [parts[runtime[k]] EXCEPT !.field = c]
                 ELSE [parts[runtime[k]] EXCEPT !.body = c]

\* evaluatePageWritePrecondition and shouldBlockPageWriteForPrecondition
BaseMatches(c) == SameContent(base[c], seen[c])

\* createStructuredPageChangePreservation before its own read: a declared
\* field operation on a page without structured variables.
MayPreserve(c) == edits[c] = "field" /\ Page(c) \notin Structured

LastEntries(s) == SubSeq(s, IF Len(s) > MaxUndo THEN Len(s) - MaxUndo + 1 ELSE 1, Len(s))

-----------------------------------------------------------------------------
CommandInit ==
  /\ Init
  /\ step    = [c \in Calls |-> "none"]
  /\ seen    = [c \in Calls |-> None]
  /\ base    = [c \in Calls |-> None]
  /\ before  = [c \in Calls |-> None]
  /\ edits   = [c \in Calls |-> None]
  /\ parts   = [x \in Contents |-> [body |-> x, field |-> x]]
  /\ runtime = [k \in Pages |-> disk[root][k]]
  /\ session = [k \in Pages |-> disk[root][k]]
  /\ undo    = <<>>

\* persistPageContentCommand up to the precondition's read.  The callers that
\* own a field pass no pre-write callback.
BeginCommand(c, k, kind, e) ==
  /\ CreateRevision(c, k, kind)
  /\ e = "field" => k \in Structured \/ kind = "revised"
  /\ step'   = [step EXCEPT ![c] = "reading"]
  /\ base'   = [base EXCEPT ![c] = IF e = "field" THEN runtime[k] ELSE session[k]]
  /\ before' = [before EXCEPT ![c] = runtime[k]]
  /\ edits'  = [edits EXCEPT ![c] = e]
  /\ parts'  = [parts EXCEPT ![c] = NewParts(c, k, e)]
  /\ UNCHANGED seen /\ UNCHANGED pageVars

\* The adapter reads the file.  What it read reaches the command in a later
\* turn.
ReadDurable(c) ==
  /\ step[c] \in {"reading", "remerging"}
  /\ seen' = [seen EXCEPT ![c] = Durable(Page(c))]
  /\ step' = [step EXCEPT ![c] = IF @ = "reading" THEN "read" ELSE "reread"]
  /\ UNCHANGED <<base, before, edits, parts>>
  /\ UNCHANGED vars /\ UNCHANGED pageVars

LeaveStep(c) ==
  /\ step' = [step EXCEPT ![c] = "none"]
  /\ UNCHANGED <<seen, base, before, edits>>

\* The precondition's read returned.
CheckPrecondition(c) ==
  /\ step[c] = "read"
  /\ \/ /\ BaseMatches(c)
        /\ EnqueueRevised(c) /\ LeaveStep(c)
     \/ /\ ~BaseMatches(c) /\ MayPreserve(c)
        /\ step' = [step EXCEPT ![c] = "remerging"]
        /\ UNCHANGED vars /\ UNCHANGED <<seen, base, before, edits>>
     \/ /\ ~BaseMatches(c) /\ ~MayPreserve(c)
        /\ AbandonRevision(c, "conflict", "blocked") /\ LeaveStep(c)
  /\ UNCHANGED parts /\ UNCHANGED pageVars

\* The precondition's read failed.
PreconditionReadFails(c) ==
  /\ step[c] = "reading"
  /\ AbandonRevision(c, "precondition-blocked", "blocked") /\ LeaveStep(c)
  /\ UNCHANGED parts /\ UNCHANGED pageVars

\* The preservation's read returned: the owned field must still be the one the
\* command started from; everything else is taken from what was read.
MergeField(c) ==
  /\ step[c] = "reread"
  /\ IF parts[seen[c]].field = parts[before[c]].field
     THEN /\ parts' = [parts EXCEPT ![c] = [parts[seen[c]] EXCEPT !.field = c]]
          /\ EnqueueRevised(c)
     ELSE AbandonRevision(c, "conflict", "blocked") /\ UNCHANGED parts
  /\ LeaveStep(c)
  /\ UNCHANGED pageVars

\* The preservation's read failed: the command throws and rolls back.
MergeReadFails(c) ==
  /\ step[c] = "remerging"
  /\ AbandonRevision(c, "error", "error") /\ LeaveStep(c)
  /\ runtime' = [runtime EXCEPT ![Page(c)] = before[c]]
  /\ UNCHANGED <<parts, session, undo>>

\* Mutant: every result that is not an error is published.
NotFailed(c) == phase'[c] = "settled" /\ result'[c] # "error"

\* The queue reports the write as saved.
Confirmed(c) == phase'[c] = "settled" /\ result'[c] = "saved"

(***************************************************************************)
(* The turn in which the queue returns a result: updateIndexes and         *)
(* publishEvent after a saved write, rollback after a rejected one.        *)
(***************************************************************************)
Deliver(c) ==
  LET k == Page(c)
      saved == Confirmed(c)
      failed == /\ phase'[c] = "settled" /\ result'[c] = "error"
                /\ edits[c] # "undo"
  IN /\ runtime' = CASE saved  -> [runtime EXCEPT ![k] = c]
                     [] failed -> [runtime EXCEPT ![k] = before[c]]
                     [] OTHER  -> runtime
     /\ session' = IF saved /\ edits[c] \in {"body", "title"}
                   THEN [session EXCEPT ![k] = c] ELSE session
     /\ undo'    = IF saved /\ edits[c] = "title"
                   THEN LastEntries(Append(undo, [page |-> k, content |-> before[c]]))
                   ELSE undo

\* Mutant: the callbacks reuse what the command's first read returned.
BaseWasDurable(c) == SameContent(base[c], seen[c])

BaseIsDurable(c) == SameContent(base[c], Durable(Page(c)))

\* The queue's steps, with what the callbacks find in the file: both
\* preconditions compare it with the base, the readback with what was written.
\* A callback whose read fails blocks the write.
RunTask(c) ==
  /\ \/ StartTask(c)
     \/ \E blocked \in BOOLEAN : BeforeWrite(c, blocked) /\ (BaseIsDurable(c) \/ blocked)
     \/ \E o \in {"ok", "blocked", "error"} :
          Validate(c, o) /\ (BaseIsDurable(c) \/ o # "ok")
     \/ \E ok, landed \in BOOLEAN : AdapterSettles(c, ok, landed)
     \/ \E ok \in BOOLEAN : VerifyReadback(c, ok) /\ (Durable(Page(c)) = c \/ ~ok)
  /\ Deliver(c)
  /\ UNCHANGED commandVars

\* undoLastPageCommand for a rename: the entry leaves the stack before its
\* write is queued, and the write has no revision and no precondition.
UndoRename(c) ==
  /\ undo # <<>>
  /\ LET entry == undo[Len(undo)]
     IN /\ EnqueuePlain(c, entry.page)
        /\ edits' = [edits EXCEPT ![c] = "undo"]
        /\ parts' = [parts EXCEPT ![c] = parts[entry.content]]
  /\ undo' = SubSeq(undo, 1, Len(undo) - 1)
  /\ UNCHANGED <<step, seen, base, before, runtime, session>>

\* On a structured page the undo throws before it queues anything.
UndoRenameThrows ==
  /\ undo # <<>> /\ undo[Len(undo)].page \in Structured
  /\ undo' = SubSeq(undo, 1, Len(undo) - 1)
  /\ UNCHANGED <<runtime, session>>
  /\ UNCHANGED vars /\ UNCHANGED commandVars

\* openPage: the page's content becomes the editor's base.
OpenPage(k) ==
  /\ session[k] # runtime[k]
  /\ session' = [session EXCEPT ![k] = runtime[k]]
  /\ UNCHANGED <<runtime, undo>>
  /\ UNCHANGED vars /\ UNCHANGED commandVars

OutsideEdit(k, x) ==
  /\ ForeignWrite(root, k, x)
  /\ UNCHANGED commandVars /\ UNCHANGED pageVars

Command(c) ==
  \/ \E k \in Pages, kind \in Kinds, e \in {"body", "title", "field"} :
       BeginCommand(c, k, kind, e)
  \/ UndoRename(c)

Progress(c) ==
  \/ ReadDurable(c)
  \/ CheckPrecondition(c)
  \/ MergeField(c)
  \/ RunTask(c)

CommandNext ==
  \/ \E c \in Calls : Command(c) \/ Progress(c)
       \/ PreconditionReadFails(c) \/ MergeReadFails(c)
  \/ UndoRenameThrows
  \/ \E k \in Pages : OpenPage(k)
  \/ \E k \in Pages, x \in Foreign : OutsideEdit(k, x)

CommandSpec == CommandInit /\ [][CommandNext]_allVars

-----------------------------------------------------------------------------
CommandTypeOK ==
  /\ TypeOK
  /\ step \in [Calls -> Steps]
  /\ seen \in [Calls -> Contents \cup {None}]
  /\ base \in [Calls -> Contents \cup {None}]
  /\ before \in [Calls -> Contents \cup {None}]
  /\ edits \in [Calls -> Edits \cup {None}]
  /\ parts \in [Contents -> Parts]
  /\ runtime \in [Pages -> Contents]
  /\ session \in [Pages -> Contents]
  /\ undo \in Seq([page : Pages, content : Contents])
  /\ Len(undo) <= MaxUndo

-----------------------------------------------------------------------------
(***************************************************************************)
(* The inductive invariant, over the queue's.                              *)
(***************************************************************************)
\* A content that a command may be based on or restored to: foreign, or
\* reported saved.
IsPublished(x) == x \in Calls => phase[x] = "settled" /\ result[x] = "saved"

\* Where a command is agrees with what it holds.
ProgressInv ==
  \A c \in Calls :
    /\ step[c] # "none" => phase[c] = "created"
    /\ step[c] \in {"read", "reread"} => seen[c] \in Contents
    /\ phase[c] # "settled" => result[c] = None
    /\ phase[c] = "created" => IsRevised(c)
    /\ phase[c] # "idle" => (edits[c] = "undo" <=> ~IsRevised(c))
    /\ phase[c] # "idle" /\ IsRevised(c) => base[c] \in Contents /\ before[c] \in Contents

\* Loaded pages, editor bases and undo entries hold saved contents only, and
\* the files none of a command that was blocked or dropped.
PublishedInv ==
  /\ \A k \in Pages : IsPublished(runtime[k]) /\ IsPublished(session[k])
  /\ \A i \in 1..Len(undo) : IsPublished(undo[i].content)
  /\ \A c \in Calls : phase[c] # "idle" /\ IsRevised(c) =>
       IsPublished(base[c]) /\ IsPublished(before[c])
  /\ \A k \in Pages : Durable(k) \in Calls =>
       result[Durable(k)] \notin {"blocked", "stale"}

\* The file a guarded write is about to replace holds the content the command
\* is based on, or what another program wrote.
GuardInv ==
  \A c \in Calls : phase[c] = "writing" /\ IsGuarded(c) =>
    Durable(Page(c)) \in Foreign \/ BaseIsDurable(c)

CommandInv == WriteQueueInv /\ CommandTypeOK /\ ProgressInv /\ PublishedInv /\ GuardInv

(***************************************************************************)
(* Who will publish what is in a file: a second invariant, on top of the   *)
(* first one and of the queue's SettlementInv.                             *)
(***************************************************************************)
\* A command on the page threw, or its readback did not find what it wrote.
FailedOn(k) ==
  \E c \in Calls : result[c] \in {"error", "readback-uncertain"} /\ Page(c) = k

\* A pre-write callback turned down a write that was already accepted.
BlockedInQueue(k) ==
  \E c \in Calls : ticket[c] > 0 /\ Page(c) = k /\ result[c] = "blocked"

\* The request whose revision of the page was accepted last.
AcceptedLast(c, k) == IsRevised(c) /\ Page(c) = k /\ Revision(c) = accepted[k]

\* Commands stay in the workspace they were started in.
WorkspaceInv ==
  \A c \in Calls :
    /\ phase[c] # "idle" => request[c].root = root
    /\ phase[c] = "writing" => target[c] = root

\* A revision is accepted when its request is queued.
AcceptedInv ==
  \A k \in Pages : accepted[k] > 0 =>
    \E c \in Calls : ticket[c] > 0 /\ AcceptedLast(c, k)

\* What a file holds and the loaded page does not is still being verified, or a
\* request that will publish its own content is under way, unless one was lost.
Owed(k) ==
  \/ Durable(k) \in Foreign
  \/ SameContent(runtime[k], Durable(k))
  \/ phase[Durable(k)] = "verifying"
  \/ FailedOn(k) \/ BlockedInQueue(k)
  \/ \E c \in Calls : IsPending(c) /\ AcceptedLast(c, k)

OwedInv == \A k \in Pages : Owed(k)

PublicationInv ==
  CommandInv /\ SettlementInv /\ WorkspaceInv /\ AcceptedInv /\ OwedInv

-----------------------------------------------------------------------------
\* Whole-page preconditions repeated inside the queue: the write of a command
\* on a structured page replaces only content its command was based on, or what
\* another program wrote after the last check.
GuardedWriteExtendsBase ==
  [][\A k \in Pages :
       LET old == Durable(k)
           new == disk'[root][k]
       IN  old # new /\ new \in Calls /\ IsGuarded(new)
           => old \in Foreign \/ SameContent(base[new], old)]_allVars

\* Conflicts are decided before anything is changed: a command that was blocked
\* or dropped is in no file, in no loaded page, editor base or undo entry.
BlockedLeavesNoTrace ==
  \A c \in Calls : result[c] \in {"blocked", "stale"} =>
    /\ \A k \in Pages : c \notin {Durable(k), runtime[k], session[k]}
    /\ \A i \in 1..Len(undo) : undo[i].content # c

\* Every command has returned, and none of the page's failed.
Quiet(k) == ~FailedOn(k) /\ \A c \in Calls : phase[c] \in {"idle", "settled"}

\* Superseded results are not published because the newer write will be: once
\* every command of a page has returned without failing, and no accepted write
\* was turned down, the loaded page is what the file holds, however the reads,
\* writes, merges and undos of the page were interleaved.
QuietRuntimeMatchesDisk ==
  \A k \in Pages : Quiet(k) /\ ~BlockedInQueue(k) /\ Durable(k) \in Calls =>
    SameContent(runtime[k], Durable(k))
=============================================================================
