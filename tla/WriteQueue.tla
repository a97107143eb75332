---------------------------- MODULE WriteQueue ----------------------------
(***************************************************************************)
(* The per-page write queue of js/storage/writeQueue.js.                   *)
(*                                                                         *)
(* Every durable page write is a task appended to a chain of promises that *)
(* is kept per write key (the page).  A write may carry a revision: it is  *)
(* numbered when the caller creates it, accepted when it is queued, and    *)
(* compared with the newest accepted revision before and after the adapter *)
(* writes the file.                                                        *)
(*                                                                         *)
(* One action is one turn of the event loop: it starts where a promise of  *)
(* the storage adapter (or of a caller's callback) settles and ends at the *)
(* next await on one.  Turns of different writes interleave freely.        *)
(***************************************************************************)
EXTENDS Naturals, FiniteSets

CONSTANTS
  Calls,       \* the write requests of one run of the program
  Pages,       \* write keys: page ids
  Structured,  \* the pages whose durable content holds structured variables
  Roots,       \* workspace roots the storage adapter can be switched between
  Foreign,     \* contents no request of this queue wrote: initial, external
  None         \* absence: no predecessor, no content, no result

ASSUME QueueAssumption ==
  /\ Structured \subseteq Pages
  /\ Foreign # {}
  /\ Calls \cap Foreign = {}
  /\ None \notin Calls \cup Foreign

VARIABLES
  tail,      \* writeQueues: the last promise of a page's chain, or None
  current,   \* writeRevisions: the newest revision number of a page, 0 if none
  state,     \* the state field of that newest revision entry
  accepted,  \* acceptedWriteRevisions: newest queued revision, 0 if none
  phase,     \* where each request is
  request,   \* what it asks for: page, kind, revision, captured root
  prev,      \* the chain promise it waits for
  target,    \* the root its adapter write goes to
  result,    \* the state field of the write result it returned
  ticket,    \* history: its position in the page's chain, 0 if never queued
  issued,    \* history: the number of requests ever queued on a page
  root,      \* the adapter's current workspace root
  disk       \* durable content: the request that wrote it, or foreign content

revisionVars == <<current, state, accepted>>
chainVars    == <<tail, prev, ticket, issued>>
vars == <<tail, current, state, accepted, phase, request, prev, target,
          result, ticket, issued, root, disk>>

(***************************************************************************)
(* "plain" passes no options (tree moves, alias updates, undo of a         *)
(* rename); "revised" passes a revision (a command on a legacy page);      *)
(* "guarded" passes a revision, the captured workspace context, both       *)
(* pre-write callbacks and the readback (a command on a structured page,   *)
(* or a scoped tree change).                                               *)
(***************************************************************************)
Kinds   == {"plain", "revised", "guarded"}
Running == {"checking", "validating", "writing", "verifying"}
Pending == {"queued"} \cup Running
Phases  == {"idle", "created", "settled"} \cup Pending
Results == {"saved", "stale", "superseded-after-write", "workspace-changed",
            "blocked", "readback-uncertain", "error"}

ASSUME ResultAssumption == None \notin Results

RevisionStates == {"none", "changed", "saving", "saved", "conflict",
                   "precondition-blocked", "error"}

Requests == [page: Pages, kind: Kinds, revision: Nat, root: Roots]
Contents == Calls \cup Foreign

Page(c)     == request[c].page
Revision(c) == request[c].revision
IsRevised(c) == request[c].kind # "plain"
IsGuarded(c) == request[c].kind = "guarded"
IsPending(c) == c \in Calls /\ phase[c] \in Pending

\* writePageContent throws on a structured page unless every protection is
\* passed, so such a request never reaches the queue.
MayWrite(k, kind) == k \in Structured => kind = "guarded"

IsWriteRevisionCurrent(c) == current[Page(c)] = Revision(c)

\* Mutant: creating a newer revision is enough to supersede an older one.
AcceptedOnCreation(c) == IsWriteRevisionCurrent(c)

IsAcceptedWriteRevisionCurrent(c) ==
  IF accepted[Page(c)] = 0
  THEN IsWriteRevisionCurrent(c)
  ELSE accepted[Page(c)] = Revision(c)

\* Mutant: the task does not look at the revision again.
NeverStale(c) == FALSE

IsStale(c) == IsRevised(c) /\ ~IsAcceptedWriteRevisionCurrent(c)

\* Mutant: the context compares adapters, and the adapter stays the same.
SameAdapter(c) == FALSE

ContextChanged(c) == IsGuarded(c) /\ request[c].root # root

\* markWriteRevisionState: only the newest revision entry can be marked.
StateMarked(c, s) ==
  IF IsRevised(c) /\ IsWriteRevisionCurrent(c)
  THEN [state EXCEPT ![Page(c)] = s]
  ELSE state

\* Mutant: whatever is queued last is accepted.
LastQueuedAccepted(c) == [accepted EXCEPT ![Page(c)] = Revision(c)]

\* acceptWriteRevisionForQueue: a revision that is no longer the newest one
\* is queued without being accepted.
AcceptedAtEnqueue(c) ==
  IF IsWriteRevisionCurrent(c)
  THEN [accepted EXCEPT ![Page(c)] = Revision(c)]
  ELSE accepted

(***************************************************************************)
(* queueWrite.  A task runs once its predecessor's promise has settled,    *)
(* whatever its outcome; the chain entry is removed only by the task that  *)
(* is still the last one.                                                  *)
(***************************************************************************)
\* Mutant: the task does not wait for the promise before it.
Unchained(c, k) ==
  /\ tail'   = [tail EXCEPT ![k] = c]
  /\ issued' = [issued EXCEPT ![k] = @ + 1]
  /\ ticket' = [ticket EXCEPT ![c] = issued[k] + 1]
  /\ UNCHANGED prev

Chained(c, k) ==
  /\ prev'   = [prev EXCEPT ![c] = tail[k]]
  /\ tail'   = [tail EXCEPT ![k] = c]
  /\ issued' = [issued EXCEPT ![k] = @ + 1]
  /\ ticket' = [ticket EXCEPT ![c] = issued[k] + 1]

\* Mutant: the task that settles removes the chain entry of a later one.
TailAlwaysRemoved(c) == [tail EXCEPT ![Page(c)] = None]

TailAfter(c) ==
  IF tail[Page(c)] = c THEN [tail EXCEPT ![Page(c)] = None] ELSE tail

CanStart(c) == phase[c] = "queued" /\ ~IsPending(prev[c])

Settle(c, outcome) ==
  /\ phase'  = [phase EXCEPT ![c] = "settled"]
  /\ result' = [result EXCEPT ![c] = outcome]
  /\ tail'   = TailAfter(c)
  /\ UNCHANGED <<request, prev, ticket, issued, root>>

Advance(c, p) ==
  /\ phase' = [phase EXCEPT ![c] = p]
  /\ UNCHANGED <<result, request, root>>
  /\ UNCHANGED chainVars

\* storageAdapter.writeText is called: the adapter resolves the path under the
\* root it has at that moment.
BeginAdapterWrite(c) ==
  /\ Advance(c, "writing")
  /\ target' = [target EXCEPT ![c] = root]

\* finishWriteResult
FinishWriteResult(c) ==
  IF IsStale(c)
  THEN Settle(c, "superseded-after-write") /\ UNCHANGED revisionVars
  ELSE /\ Settle(c, "saved")
       /\ state' = StateMarked(c, "saved")
       /\ UNCHANGED <<current, accepted>>

\* The promise is rejected.  The command that awaits it rolls back in the same
\* turn and marks its revision, unless its workspace is gone.
Reject(c) ==
  /\ Settle(c, "error")
  /\ state' = IF ContextChanged(c) THEN state ELSE StateMarked(c, "error")
  /\ UNCHANGED <<current, accepted>>

-----------------------------------------------------------------------------
Init ==
  /\ tail     = [k \in Pages |-> None]
  /\ current  = [k \in Pages |-> 0]
  /\ state    = [k \in Pages |-> "none"]
  /\ accepted = [k \in Pages |-> 0]
  /\ phase    = [c \in Calls |-> "idle"]
  /\ request  = [c \in Calls |-> None]
  /\ prev     = [c \in Calls |-> None]
  /\ target   = [c \in Calls |-> None]
  /\ result   = [c \in Calls |-> None]
  /\ ticket   = [c \in Calls |-> 0]
  /\ issued   = [k \in Pages |-> 0]
  /\ root \in Roots
  /\ disk \in [Roots -> [Pages -> Foreign]]

\* createWriteRevision, called by a page command before anything is awaited.
CreateRevision(c, k, kind) ==
  /\ phase[c] = "idle"
  /\ kind \in {"revised", "guarded"} /\ MayWrite(k, kind)
  /\ current' = [current EXCEPT ![k] = @ + 1]
  /\ state'   = [state EXCEPT ![k] = "changed"]
  /\ request' = [request EXCEPT ![c] = [page |-> k, kind |-> kind,
                   revision |-> current[k] + 1, root |-> root]]
  /\ phase'   = [phase EXCEPT ![c] = "created"]
  /\ UNCHANGED <<accepted, target, result, root, disk>>
  /\ UNCHANGED chainVars

\* The command ends before the queue: its precondition failed (s is then the
\* revision state it leaves behind), it threw, or its workspace changed.
AbandonRevision(c, s, outcome) ==
  /\ phase[c] = "created"
  /\ outcome = "workspace-changed" => ContextChanged(c)
  /\ state'  = IF outcome # "blocked" /\ ContextChanged(c)
               THEN state ELSE StateMarked(c, s)
  /\ phase'  = [phase EXCEPT ![c] = "settled"]
  /\ result' = [result EXCEPT ![c] = outcome]
  /\ UNCHANGED <<current, accepted, request, target, root, disk>>
  /\ UNCHANGED chainVars

\* writePageContent of a revised or guarded request.
EnqueueRevised(c) ==
  /\ phase[c] = "created"
  /\ accepted' = AcceptedAtEnqueue(c)
  /\ Chained(c, Page(c))
  /\ phase' = [phase EXCEPT ![c] = "queued"]
  /\ UNCHANGED <<current, state, request, target, result, root, disk>>

\* writePageContent without options.
EnqueuePlain(c, k) ==
  /\ phase[c] = "idle" /\ MayWrite(k, "plain")
  /\ request' = [request EXCEPT ![c] = [page |-> k, kind |-> "plain",
                   revision |-> 0, root |-> root]]
  /\ Chained(c, k)
  /\ phase' = [phase EXCEPT ![c] = "queued"]
  /\ UNCHANGED <<target, result, root, disk>>
  /\ UNCHANGED revisionVars

\* The task's first turn, up to its first await.
StartTask(c) ==
  /\ CanStart(c)
  /\ \/ /\ IsStale(c)
        /\ Settle(c, "stale")
        /\ UNCHANGED <<target, disk>> /\ UNCHANGED revisionVars
     \/ /\ ~IsStale(c)
        /\ state' = StateMarked(c, "saving")
        /\ IF ContextChanged(c)
           THEN Settle(c, "workspace-changed") /\ UNCHANGED target
           ELSE IF IsGuarded(c)
                THEN Advance(c, "checking") /\ UNCHANGED target
                ELSE BeginAdapterWrite(c)
        /\ UNCHANGED <<current, accepted, disk>>

\* beforeWrite has settled: it blocked the write, or the revision and the
\* workspace are looked at again.
BeforeWrite(c, blocked) ==
  /\ phase[c] = "checking"
  /\ IF blocked THEN Settle(c, "blocked")
     ELSE IF IsStale(c) THEN Settle(c, "stale")
     ELSE IF ContextChanged(c) THEN Settle(c, "workspace-changed")
     ELSE Advance(c, "validating")
  /\ UNCHANGED <<target, disk>> /\ UNCHANGED revisionVars

\* validateBeforeWrite and the second beforeWrite have settled.
Validate(c, outcome) ==
  /\ phase[c] = "validating"
  /\ CASE outcome = "error"   -> Reject(c) /\ UNCHANGED target
       [] outcome = "blocked" -> Settle(c, "blocked")
                                   /\ UNCHANGED target /\ UNCHANGED revisionVars
       [] outcome = "ok" ->
            /\ IF IsStale(c) THEN Settle(c, "stale") /\ UNCHANGED target
               ELSE IF ContextChanged(c)
                    THEN Settle(c, "workspace-changed") /\ UNCHANGED target
                    ELSE BeginAdapterWrite(c)
            /\ UNCHANGED revisionVars
  /\ UNCHANGED disk

\* The adapter's promise settles.  A rejected write may have reached the file:
\* the desktop rename or the browser stream's close can succeed and the reply
\* still fail.
AdapterSettles(c, ok, landed) ==
  /\ phase[c] = "writing"
  /\ ok => landed
  /\ disk' = IF landed THEN [disk EXCEPT ![target[c]][Page(c)] = c] ELSE disk
  /\ IF ~ok THEN Reject(c)
     ELSE IF IsGuarded(c)
          THEN Advance(c, "verifying") /\ UNCHANGED revisionVars
          ELSE FinishWriteResult(c)
  /\ UNCHANGED target

\* verifyAfterWrite has settled.
VerifyReadback(c, ok) ==
  /\ phase[c] = "verifying"
  /\ IF ~ok
     THEN Settle(c, "readback-uncertain") /\ UNCHANGED revisionVars
     ELSE IF ContextChanged(c)
          THEN Settle(c, "superseded-after-write") /\ UNCHANGED revisionVars
          ELSE FinishWriteResult(c)
  /\ UNCHANGED <<target, disk>>

\* The user opens another workspace: the same adapter gets another root.
SwitchRoot(w) ==
  /\ root' = w
  /\ UNCHANGED <<tail, current, state, accepted, phase, request, prev, target,
                 result, ticket, issued, disk>>

\* Another program changes the file, unknown to the queue.
ForeignWrite(w, k, x) ==
  /\ disk' = [disk EXCEPT ![w][k] = x]
  /\ UNCHANGED <<tail, current, state, accepted, phase, request, prev, target,
                 result, ticket, issued, root>>

Caller(c) ==
  \/ \E k \in Pages, kind \in Kinds : CreateRevision(c, k, kind)
  \/ \E k \in Pages : EnqueuePlain(c, k)
  \/ EnqueueRevised(c)
  \/ \E s \in {"conflict", "precondition-blocked"} : AbandonRevision(c, s, "blocked")
  \/ AbandonRevision(c, "changed", "workspace-changed")
  \/ AbandonRevision(c, "error", "error")

Task(c) ==
  \/ StartTask(c)
  \/ \E b \in BOOLEAN : BeforeWrite(c, b)
  \/ \E o \in {"ok", "blocked", "error"} : Validate(c, o)
  \/ \E ok, landed \in BOOLEAN : AdapterSettles(c, ok, landed)
  \/ \E ok \in BOOLEAN : VerifyReadback(c, ok)

Environment ==
  \/ \E w \in Roots : SwitchRoot(w)
  \/ \E w \in Roots, k \in Pages, x \in Foreign : ForeignWrite(w, k, x)

Next ==
  \/ \E c \in Calls : Caller(c) \/ Task(c)
  \/ Environment

Spec == Init /\ [][Next]_vars

\* The event loop runs a task whose promise has settled, and the adapter's
\* promises settle; nothing makes a caller issue or queue a write.
Fairness == \A c \in Calls : WF_vars(Task(c))

FairSpec == Spec /\ Fairness

-----------------------------------------------------------------------------
(***************************************************************************)
(* The queue implements one line per page: the requests of a page in the   *)
(* order they were queued, of which the first so many have returned.       *)
(***************************************************************************)
Line == [k \in Pages |-> [i \in 1..issued[k] |->
          CHOOSE c \in Calls : ticket[c] = i /\ Page(c) = k]]

Returned(k) == {c \in Calls : ticket[c] > 0 /\ Page(c) = k /\ phase[c] = "settled"}

Served == [k \in Pages |-> Cardinality(Returned(k))]

Lines == INSTANCE PageWriteLine WITH line <- Line, served <- Served

TypeOK ==
  /\ tail \in [Pages -> Calls \cup {None}]
  /\ current \in [Pages -> Nat]
  /\ state \in [Pages -> RevisionStates]
  /\ accepted \in [Pages -> Nat]
  /\ phase \in [Calls -> Phases]
  /\ request \in [Calls -> Requests \cup {None}]
  /\ \A c \in Calls : phase[c] # "idle" => request[c] \in Requests
  /\ prev \in [Calls -> Calls \cup {None}]
  /\ target \in [Calls -> Roots \cup {None}]
  /\ \A c \in Calls : phase[c] = "writing" => target[c] \in Roots
  /\ result \in [Calls -> Results \cup {None}]
  /\ ticket \in [Calls -> Nat]
  /\ issued \in [Pages -> Nat]
  /\ root \in Roots
  /\ disk \in [Roots -> [Pages -> Contents]]

-----------------------------------------------------------------------------
(***************************************************************************)
(* The inductive invariant.                                                *)
(***************************************************************************)
\* The chain: a waiting request's predecessor is the one queued just before
\* it, a request that may run is the oldest one pending, and writeQueues has
\* an entry exactly while something is pending.
ChainInv ==
  /\ \A c \in Calls : prev[c] \in Calls => phase[prev[c]] \in Pending \cup {"settled"}
  /\ \A c \in Calls : IsPending(c) =>
       /\ ticket[c] \in 1..issued[Page(c)]
       /\ tail[Page(c)] # None
       /\ IsPending(prev[c]) =>
            Page(prev[c]) = Page(c) /\ ticket[prev[c]] + 1 = ticket[c]
       /\ ~IsPending(prev[c]) =>
            \A d \in Calls : IsPending(d) /\ Page(d) = Page(c) => ticket[c] <= ticket[d]
       /\ phase[c] # "queued" => ~IsPending(prev[c])
  /\ \A c, d \in Calls : IsPending(c) /\ IsPending(d) /\ Page(c) = Page(d)
       /\ ticket[c] = ticket[d] => c = d
  /\ \A k \in Pages : tail[k] # None =>
       IsPending(tail[k]) /\ Page(tail[k]) = k /\ ticket[tail[k]] = issued[k]

\* Revisions of a page are distinct, and a queued request that holds the
\* newest revision has been accepted.
RevisionInv ==
  /\ \A c \in Calls : phase[c] # "idle" /\ IsRevised(c) =>
       Revision(c) \in 1..current[Page(c)]
  /\ \A c, d \in Calls :
       /\ phase[c] # "idle" /\ IsRevised(c) /\ phase[d] # "idle" /\ IsRevised(d)
       /\ Page(c) = Page(d) /\ Revision(c) = Revision(d)
       => c = d
  /\ \A k \in Pages : accepted[k] <= current[k]
  /\ \A c \in Calls :
       IsPending(c) /\ IsRevised(c) /\ IsWriteRevisionCurrent(c) =>
         accepted[Page(c)] = Revision(c)

\* Every revision in a file has been accepted, and a request that is writing
\* is newer than what its page's files hold.
DiskInv ==
  /\ \A w \in Roots, k \in Pages : disk[w][k] \in Calls =>
       /\ phase[disk[w][k]] \in {"verifying", "settled"}
       /\ Page(disk[w][k]) = k
       /\ IsRevised(disk[w][k]) => Revision(disk[w][k]) <= accepted[k]
  /\ \A c \in Calls : phase[c] = "writing" /\ IsRevised(c) =>
       /\ Revision(c) <= accepted[Page(c)]
       /\ \A w \in Roots :
            disk[w][Page(c)] \in Calls /\ IsRevised(disk[w][Page(c)]) =>
              Revision(disk[w][Page(c)]) < Revision(c)

WriteQueueInv == TypeOK /\ ChainInv /\ RevisionInv /\ DiskInv

\* Tickets number the requests of a page without a gap, and those that have
\* returned are the first ones.
LineInv ==
  /\ \A c \in Calls : phase[c] \in {"idle", "created"} => ticket[c] = 0
  /\ \A c \in Calls : ticket[c] > 0 => ticket[c] <= issued[Page(c)]
  /\ \A c, d \in Calls :
       ticket[c] > 0 /\ ticket[c] = ticket[d] /\ Page(c) = Page(d) => c = d
  /\ \A k \in Pages : \A i \in 1..issued[k] :
       \E c \in Calls : ticket[c] = i /\ Page(c) = k
  /\ \A k \in Pages : IsFiniteSet(Returned(k)) /\ Served[k] \in 0..issued[k]
  /\ \A c \in Calls : ticket[c] > 0 =>
       (phase[c] = "settled" <=> ticket[c] <= Served[Page(c)])

\* The file still holds what c wrote, or what an unrevisioned write queued after
\* it or another program put there.
StillHolds(c) ==
  LET now == disk[target[c]][Page(c)]
  IN  \/ now = c
      \/ now \in Foreign
      \/ now \in Calls /\ ~IsRevised(now) /\ ticket[now] > ticket[c]

\* The request that was accepted last: a task of another revision that is under
\* way was queued before it, so nothing revised can land after it.
LatestInv ==
  /\ \A c \in Calls : phase[c] = "created" => IsRevised(c)
  /\ \A c \in Calls : result[c] = "saved" => phase[c] = "settled" /\ ticket[c] > 0
  /\ \A c \in Calls : phase[c] = "verifying" \/ result[c] = "saved" => target[c] \in Roots
  /\ \A c \in Calls : ticket[c] > 0 /\ IsRevised(c) /\ accepted[Page(c)] = Revision(c) =>
       /\ \A d \in Calls : phase[d] \in Running /\ IsRevised(d) /\ Page(d) = Page(c) =>
            d = c \/ ticket[d] < ticket[c]
       /\ phase[c] = "verifying" \/ result[c] = "saved" => StillHolds(c)

\* The adapter resolved the path of a guarded write in the turn that had looked
\* at its context.
ContextInv ==
  \A c \in Calls : phase[c] = "writing" /\ IsGuarded(c) => target[c] = request[c].root

\* writePageContent's context checks: a guarded write never goes to a
\* workspace other than the one its command was started in.
GuardedWriteKeepsWorkspace ==
  \A w \in Roots, k \in Pages :
    LET c == disk[w][k]
    IN  c \in Calls /\ IsGuarded(c) => w = request[c].root

SettlementInv == LineInv /\ LatestInv /\ ContextInv /\ GuardedWriteKeepsWorkspace

-----------------------------------------------------------------------------
\* queueWrite serialises the writes of a page: at most one task of a page is
\* past its start and not yet settled, although each task only knows the
\* promise that was last when it was queued.
OneWriterPerPage ==
  \A c, d \in Calls :
    phase[c] \in Running /\ phase[d] \in Running /\ Page(c) = Page(d) => c = d

\* The queue's settlement guarantee (REPOSITORY_MAINTAINABILITY_AUDIT RA-025):
\* while no newer revision of the page has been accepted, a write that was
\* reported saved is what the file holds, unless an unrevisioned write or
\* another program replaced it.
SettlementSafety ==
  \A c \in Calls :
    result[c] = "saved" /\ IsRevised(c) /\ accepted[Page(c)] = Revision(c) => StillHolds(c)

\* The stale checks and the chain together: the content of an older revision
\* never replaces the content of a newer one in a file.
NewerNeverOverwritten ==
  [][\A w \in Roots, k \in Pages :
       LET old == disk[w][k]
           new == disk'[w][k]
       IN  old # new /\ old \in Calls /\ new \in Calls
             /\ IsRevised(old) /\ IsRevised(new)
           => Revision(old) < Revision(new)]_vars

\* The refinement: each page's writes take effect one at a time in the order
\* they were queued, and every one of them returns.
ImplementsLines == Lines!Spec
=============================================================================
