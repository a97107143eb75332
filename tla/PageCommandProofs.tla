------------------------- MODULE PageCommandProofs -------------------------
(***************************************************************************)
(* Proofs about WriteQueue for every number of requests, pages and roots,  *)
(* and about the commands of PageCommand on top of it.                     *)
(***************************************************************************)
EXTENDS PageCommand, FiniteSetTheorems, SequenceTheorems, TLAPS

-----------------------------------------------------------------------------
(***************************************************************************)
(* The write queue.  These steps use nothing of PageCommand.               *)
(***************************************************************************)
USE QueueAssumption

\* Every action keeps the types.
LEMMA TypeStep == TypeOK /\ [Next]_vars => TypeOK'
<1> SUFFICES ASSUME TypeOK, [Next]_vars PROVE TypeOK'
  OBVIOUS
<1> USE DEF TypeOK, Phases, Pending, Running, Results, RevisionStates,
            Contents, Requests, Kinds, revisionVars, chainVars
<1>1. ASSUME NEW c \in Calls, Caller(c) PROVE TypeOK'
  <2>1. ASSUME NEW k \in Pages, NEW kind \in Kinds, CreateRevision(c, k, kind)
        PROVE TypeOK'
    BY <2>1 DEF CreateRevision
  <2>2. ASSUME NEW k \in Pages, EnqueuePlain(c, k) PROVE TypeOK'
    BY <2>2 DEF EnqueuePlain, Chained
  <2>3. ASSUME EnqueueRevised(c) PROVE TypeOK'
    BY <2>3 DEF EnqueueRevised, Chained, AcceptedAtEnqueue, Page, Revision
  <2>4. ASSUME NEW s \in RevisionStates, NEW o \in Results, AbandonRevision(c, s, o)
        PROVE TypeOK'
    BY <2>4 DEF AbandonRevision, StateMarked, Page
  <2>5. (\E k \in Pages, kind \in Kinds : CreateRevision(c, k, kind)) => TypeOK'
    BY <2>1
  <2>6. (\E k \in Pages : EnqueuePlain(c, k)) => TypeOK'
    BY <2>2
  <2>7. ASSUME NEW s \in RevisionStates, NEW o \in Results
        PROVE AbandonRevision(c, s, o) => TypeOK'
    <3> HIDE DEF TypeOK
    <3> QED BY <2>4
  <2>8. (\E s \in {"conflict", "precondition-blocked"} :
           AbandonRevision(c, s, "blocked")) => TypeOK'
    BY <2>7 DEF RevisionStates, Results
  <2>9. AbandonRevision(c, "changed", "workspace-changed")
          \/ AbandonRevision(c, "error", "error") => TypeOK'
    BY <2>7 DEF RevisionStates, Results
  <2> HIDE DEF TypeOK
  <2> QED BY <1>1, <2>3, <2>5, <2>6, <2>8, <2>9 DEF Caller
<1>2. ASSUME NEW c \in Calls, Task(c) PROVE TypeOK'
  <2> USE DEF Settle, Advance, TailAfter, BeginAdapterWrite, StateMarked, Page
  <2>0. ASSUME FinishWriteResult(c), target' = target,
               phase[c] # "idle", disk' \in [Roots -> [Pages -> Contents]]
        PROVE  TypeOK'
    <3>1. state' \in [Pages -> RevisionStates] /\ UNCHANGED <<current, accepted>>
      BY <2>0 DEF FinishWriteResult
    <3>2. Settle(c, "superseded-after-write") \/ Settle(c, "saved")
      BY <2>0 DEF FinishWriteResult
    <3>3. tail' \in [Pages -> Calls \cup {None}]
      BY <3>2
    <3>4. /\ phase' \in [Calls -> Phases] /\ result' \in [Calls -> Results \cup {None}]
          /\ \A d \in Calls : phase'[d] # "idle" => request'[d] \in Requests
      BY <2>0, <3>2
    <3>5. UNCHANGED <<request, prev, ticket, issued, root>>
      BY <3>2
    <3>6. \A d \in Calls : phase'[d] = "writing" => target'[d] \in Roots
      BY <2>0, <3>2
    <3> QED BY ONLY <2>0, <3>1, <3>3, <3>4, <3>5, <3>6, TypeOK DEF TypeOK
  <2>1. ASSUME StartTask(c) PROVE TypeOK'
    <3>1. CASE Settle(c, "stale") /\ UNCHANGED <<target, disk, current, state, accepted>>
      BY <2>1, <3>1 DEF StartTask, CanStart
    <3>2. CASE /\ state' = StateMarked(c, "saving")
               /\ Settle(c, "workspace-changed")
               /\ UNCHANGED <<target, disk, current, accepted>>
      BY <2>1, <3>2 DEF StartTask, CanStart
    <3>3. CASE /\ state' = StateMarked(c, "saving") /\ Advance(c, "checking")
               /\ UNCHANGED <<target, disk, current, accepted>>
      BY <2>1, <3>3 DEF StartTask, CanStart
    <3>4. CASE /\ state' = StateMarked(c, "saving") /\ BeginAdapterWrite(c)
               /\ UNCHANGED <<disk, current, accepted>>
      BY <2>1, <3>4 DEF StartTask, CanStart
    <3> QED BY <2>1, <3>1, <3>2, <3>3, <3>4 DEF StartTask
  <2>2. ASSUME NEW b \in BOOLEAN, BeforeWrite(c, b) PROVE TypeOK'
    BY <2>2 DEF BeforeWrite
  <2>3. ASSUME NEW o \in {"ok", "blocked", "error"}, Validate(c, o) PROVE TypeOK'
    <3>1. CASE Reject(c) /\ UNCHANGED <<target, disk>>
      BY <2>3, <3>1 DEF Validate, Reject
    <3>2. CASE \E r \in {"blocked", "stale", "workspace-changed"} :
                 Settle(c, r) /\ UNCHANGED <<target, disk, current, state, accepted>>
      BY <2>3, <3>2 DEF Validate
    <3>3. CASE BeginAdapterWrite(c) /\ UNCHANGED <<disk, current, state, accepted>>
      BY <2>3, <3>3 DEF Validate
    <3> QED BY <2>3, <3>1, <3>2, <3>3 DEF Validate
  <2>4. ASSUME NEW ok \in BOOLEAN, NEW landed \in BOOLEAN, AdapterSettles(c, ok, landed)
        PROVE TypeOK'
    <3>1. disk' \in [Roots -> [Pages -> Contents]] /\ target' = target
      BY <2>4 DEF AdapterSettles
    <3>2. CASE Reject(c)
      BY <2>4, <3>1, <3>2 DEF AdapterSettles, Reject
    <3>3. CASE Advance(c, "verifying") /\ UNCHANGED revisionVars
      BY <2>4, <3>1, <3>3 DEF AdapterSettles
    <3>4. CASE FinishWriteResult(c)
      BY <2>0, <2>4, <3>1, <3>4 DEF AdapterSettles
    <3> QED BY <2>4, <3>2, <3>3, <3>4 DEF AdapterSettles
  <2>5. ASSUME NEW ok \in BOOLEAN, VerifyReadback(c, ok) PROVE TypeOK'
    <3>1. CASE \E r \in {"readback-uncertain", "superseded-after-write"} :
                 Settle(c, r) /\ UNCHANGED <<target, disk, current, state, accepted>>
      BY <2>5, <3>1 DEF VerifyReadback
    <3>2. CASE FinishWriteResult(c) /\ UNCHANGED <<target, disk>>
      BY <2>0, <2>5, <3>2 DEF VerifyReadback
    <3> QED BY <2>5, <3>1, <3>2 DEF VerifyReadback
  <2> QED BY <1>2, <2>1, <2>2, <2>3, <2>4, <2>5 DEF Task
<1>3. CASE Environment
  <2>1. ASSUME NEW w \in Roots, SwitchRoot(w) PROVE TypeOK'
    BY <2>1 DEF SwitchRoot
  <2>2. ASSUME NEW w \in Roots, NEW k \in Pages, NEW x \in Foreign,
               ForeignWrite(w, k, x)
        PROVE TypeOK'
    <3>1. disk' \in [Roots -> [Pages -> Contents]]
      BY <2>2 DEF ForeignWrite
    <3> QED BY <2>2, <3>1 DEF ForeignWrite
  <2> QED BY <1>3, <2>1, <2>2 DEF Environment
<1>4. CASE UNCHANGED vars
  BY <1>4 DEF vars
<1> QED BY <1>1, <1>2, <1>3, <1>4 DEF Next

\* Every variable keeps its type: Spec never leaves TypeOK.
THEOREM TypeCorrect == Spec => []TypeOK
<1>1. Init => TypeOK
  BY DEF Init, TypeOK, Phases, Pending, Running, Results, RevisionStates, Contents
<1> QED BY <1>1, TypeStep, PTL DEF Spec

-----------------------------------------------------------------------------
(***************************************************************************)
(* The chain of promises.  Every action does one of four things to it: it  *)
(* queues a request, settles one, moves a running one on, or leaves all    *)
(* pending requests alone.                                                 *)
(***************************************************************************)
\* A request whose turn it is.
MayRun(c) == phase[c] \in Pending /\ (phase[c] = "queued" => ~IsPending(prev[c]))

\* Appending a request to its page's chain keeps the chain invariant.
LEMMA ChainEnqueue ==
  ASSUME TypeOK, ChainInv, NEW c \in Calls, NEW k \in Pages,
         phase[c] \in {"idle", "created"}, Chained(c, k),
         phase' = [phase EXCEPT ![c] = "queued"],
         request'[c].page = k,
         \A d \in Calls \ {c} : request'[d] = request[d]
  PROVE  ChainInv'
<1> USE DEF TypeOK, Chained, IsPending, Pending, Running, Page, Requests
<1>1. \A d \in Calls : IsPending(d)' <=> IsPending(d) \/ d = c
  OBVIOUS
<1>2. ~IsPending(c)
  OBVIOUS
<1>3. \A d \in Calls : IsPending(d) => Page(d) \in Pages /\ Page(d)' = Page(d)
  OBVIOUS
<1>4. ASSUME NEW d \in Calls, IsPending(d)'
      PROVE  /\ ticket'[d] \in 1..issued'[Page(d)']
             /\ tail'[Page(d)'] # None
             /\ phase'[d] # "queued" => ~IsPending(prev[d])'
  <2>1. CASE d = c
    BY <2>1, <1>1, <1>2 DEF ChainInv
  <2>2. CASE d # c
    <3>1. /\ ticket[d] \in 1..issued[Page(d)] /\ tail[Page(d)] # None
          /\ phase[d] # "queued" => ~IsPending(prev[d])
      BY <2>2, <1>1, <1>4 DEF ChainInv
    <3>2. IsPending(d) => prev[d] # c \/ phase[d] = "queued"
      BY <2>2, <1>2, <3>1, <1>4, <1>1 DEF ChainInv
    <3> QED BY <2>2, <3>1, <3>2, <1>1, <1>3, <1>4
  <2> QED BY <2>1, <2>2
<1>5. ASSUME NEW d \in Calls, IsPending(d)', IsPending(prev[d])'
      PROVE  Page(prev[d])' = Page(d)' /\ ticket'[prev'[d]] + 1 = ticket'[d]
  <2>1. CASE d = c
    BY <2>1, <1>1, <1>2, <1>3, <1>5 DEF ChainInv
  <2>2. CASE d # c
    BY <2>2, <1>1, <1>2, <1>3, <1>5 DEF ChainInv
  <2> QED BY <2>1, <2>2
<1>6. ASSUME NEW d \in Calls, IsPending(d)', ~IsPending(prev[d])',
             NEW e \in Calls, IsPending(e)', Page(e)' = Page(d)'
      PROVE  ticket'[d] <= ticket'[e]
  BY <1>1, <1>2, <1>3, <1>6 DEF ChainInv
<1>7. ASSUME NEW d \in Calls, IsPending(d)', NEW e \in Calls, IsPending(e)',
             Page(e)' = Page(d)', ticket'[d] = ticket'[e]
      PROVE  d = e
  BY <1>1, <1>2, <1>3, <1>7 DEF ChainInv
<1>9. \A d \in Calls : prev'[d] \in Calls => phase'[prev'[d]] \in Pending \cup {"settled"}
  BY <1>1 DEF ChainInv
<1>8. ASSUME NEW p \in Pages, tail'[p] # None
      PROVE  IsPending(tail[p])' /\ Page(tail[p])' = p /\ ticket'[tail'[p]] = issued'[p]
  BY <1>1, <1>2, <1>3, <1>8 DEF ChainInv
<1> HIDE DEF TypeOK, Chained, IsPending, Pending, Running, Page, Requests
<1> QED BY <1>4, <1>5, <1>6, <1>7, <1>8, <1>9 DEF ChainInv

\* So does the settling of a request that may run.
LEMMA ChainSettle ==
  ASSUME TypeOK, ChainInv, NEW c \in Calls, MayRun(c), NEW o, Settle(c, o)
  PROVE  ChainInv'
<1> USE DEF TypeOK, Settle, TailAfter, IsPending, Pending, Running, Page, Requests
<1>1. \A d \in Calls : IsPending(d)' <=> IsPending(d) /\ d # c
  OBVIOUS
<1>2. IsPending(c) /\ ~IsPending(prev[c])
  BY DEF MayRun, ChainInv
<1>3. \A d \in Calls : IsPending(d) => Page(d) \in Pages /\ Page(d)' = Page(d)
  OBVIOUS
<1>4. \A d \in Calls : IsPending(d) /\ Page(d) = Page(c) /\ d # c => ticket[c] < ticket[d]
  <2> SUFFICES ASSUME NEW d \in Calls, IsPending(d), Page(d) = Page(c), d # c
               PROVE  ticket[c] < ticket[d]
    OBVIOUS
  <2>1. ticket[c] <= ticket[d]
    BY <1>2 DEF ChainInv
  <2>2. ticket[c] # ticket[d]
    BY <1>2 DEF ChainInv
  <2>3. ticket[c] \in Nat /\ ticket[d] \in Nat
    OBVIOUS
  <2> HIDE DEF TypeOK, Settle, TailAfter
  <2> QED BY <2>1, <2>2, <2>3
<1>5. ASSUME NEW d \in Calls, IsPending(d)'
      PROVE  /\ ticket'[d] \in 1..issued'[Page(d)']
             /\ tail'[Page(d)'] # None
             /\ phase'[d] # "queued" => ~IsPending(prev[d])'
  <2>1. ticket[d] \in 1..issued[Page(d)] /\ tail[Page(d)] # None
        /\ (phase[d] # "queued" => ~IsPending(prev[d]))
    BY <1>1, <1>5 DEF ChainInv
  <2>2. Page(d) = Page(c) => tail[Page(d)] # c
    <3> SUFFICES ASSUME Page(d) = Page(c), tail[Page(d)] = c PROVE FALSE
      OBVIOUS
    <3>1. ticket[c] = issued[Page(d)]
      BY <1>1, <1>3, <1>5 DEF ChainInv
    <3>2. ticket[c] < ticket[d]
      BY <1>1, <1>4, <1>5
    <3> QED BY <3>1, <3>2, <2>1
  <2> QED BY <2>1, <2>2, <1>1, <1>2, <1>3, <1>5
<1>6. ASSUME NEW d \in Calls, IsPending(d)', IsPending(prev[d])'
      PROVE  Page(prev[d])' = Page(d)' /\ ticket'[prev'[d]] + 1 = ticket'[d]
  BY <1>1, <1>3, <1>6 DEF ChainInv
<1>7. ASSUME NEW d \in Calls, IsPending(d)', ~IsPending(prev[d])',
             NEW e \in Calls, IsPending(e)', Page(e)' = Page(d)'
      PROVE  ticket'[d] <= ticket'[e]
  <2>1. CASE IsPending(prev[d])
    <3>1. prev[d] = c /\ Page(c) = Page(d) /\ ticket[c] + 1 = ticket[d]
      BY <2>1, <1>1, <1>7 DEF ChainInv
    <3>2. ticket[c] < ticket[e]
      BY <3>1, <1>1, <1>3, <1>4, <1>7
    <3> QED BY <3>1, <3>2
  <2>2. CASE ~IsPending(prev[d])
    BY <2>2, <1>1, <1>3, <1>7 DEF ChainInv
  <2> QED BY <2>1, <2>2
<1>8. ASSUME NEW d \in Calls, IsPending(d)', NEW e \in Calls, IsPending(e)',
             Page(e)' = Page(d)', ticket'[d] = ticket'[e]
      PROVE  d = e
  BY <1>1, <1>3, <1>8 DEF ChainInv
<1>9. ASSUME NEW p \in Pages, tail'[p] # None
      PROVE  IsPending(tail[p])' /\ Page(tail[p])' = p /\ ticket'[tail'[p]] = issued'[p]
  <2>1. tail'[p] = tail[p] /\ tail[p] # c
    <3>1. CASE tail[p] = c
      <4>1. Page(c) = p
        BY <3>1 DEF ChainInv
      <4> QED BY <3>1, <4>1, <1>9
    <3>2. CASE tail[p] # c
      BY <3>2
    <3> QED BY <3>1, <3>2
  <2> QED BY <2>1, <1>1, <1>3, <1>9 DEF ChainInv
<1>10. \A d \in Calls : prev'[d] \in Calls => phase'[prev'[d]] \in Pending \cup {"settled"}
  BY DEF ChainInv
<1> HIDE DEF TypeOK, Settle, TailAfter, IsPending, Pending, Running, Page, Requests
<1> QED BY <1>5, <1>6, <1>7, <1>8, <1>9, <1>10 DEF ChainInv

\* The pending requests stay pending with their pages, and only one that may
\* run leaves "queued".
LEMMA ChainQuiet ==
  ASSUME TypeOK, ChainInv, UNCHANGED chainVars,
         \A d \in Calls : IsPending(d)' <=> IsPending(d),
         \A d \in Calls : IsPending(d) => request'[d] = request[d],
         \A d \in Calls : IsPending(d) /\ phase'[d] # phase[d] => MayRun(d),
         \A d \in Calls : phase[d] = "settled" => phase'[d] = "settled"
  PROVE  ChainInv'
<1> USE DEF TypeOK, chainVars
<1>1. \A d \in Calls : IsPending(d) => Page(d)' = Page(d)
  BY DEF Page
<1>2. \A d : IsPending(d)' <=> IsPending(d)
  BY DEF IsPending
<1>3. ASSUME NEW d \in Calls, IsPending(d)', phase'[d] # "queued"
      PROVE  ~IsPending(prev[d])
  BY <1>2, <1>3 DEF ChainInv, MayRun
<1>4. \A d \in Calls : prev[d] \in Calls => phase'[prev[d]] \in Pending \cup {"settled"}
  BY DEF ChainInv, IsPending
<1> QED BY <1>1, <1>2, <1>3, <1>4 DEF ChainInv, IsPending

\* A turn of a task either returns its result or moves the task on.
LEMMA TaskShape ==
  ASSUME ChainInv, NEW c \in Calls, Task(c)
  PROVE  /\ MayRun(c)
         /\ (\E o \in Results : Settle(c, o)) \/ (\E p \in Running : Advance(c, p))
<1> USE DEF MayRun, IsPending, Pending, Running, Results, FinishWriteResult,
            BeginAdapterWrite, Reject
<1>1. ASSUME phase[c] \in Running PROVE MayRun(c)
  BY <1>1 DEF ChainInv
<1>2. CASE StartTask(c)
  BY <1>2 DEF StartTask, CanStart
<1>3. ASSUME NEW b \in BOOLEAN, BeforeWrite(c, b)
      PROVE  MayRun(c) /\ ((\E o \in Results : Settle(c, o)) \/ (\E p \in Running : Advance(c, p)))
  BY <1>1, <1>3 DEF BeforeWrite
<1>4. ASSUME NEW o \in {"ok", "blocked", "error"}, Validate(c, o)
      PROVE  MayRun(c) /\ ((\E r \in Results : Settle(c, r)) \/ (\E p \in Running : Advance(c, p)))
  BY <1>1, <1>4 DEF Validate
<1>5. ASSUME NEW ok \in BOOLEAN, NEW landed \in BOOLEAN, AdapterSettles(c, ok, landed)
      PROVE  MayRun(c) /\ ((\E o \in Results : Settle(c, o)) \/ (\E p \in Running : Advance(c, p)))
  BY <1>1, <1>5 DEF AdapterSettles
<1>6. ASSUME NEW ok \in BOOLEAN, VerifyReadback(c, ok)
      PROVE  MayRun(c) /\ ((\E o \in Results : Settle(c, o)) \/ (\E p \in Running : Advance(c, p)))
  BY <1>1, <1>6 DEF VerifyReadback
<1> QED BY <1>2, <1>3, <1>4, <1>5, <1>6 DEF Task

\* Every step of the queue keeps the chain invariant.
LEMMA ChainStep == TypeOK /\ ChainInv /\ [Next]_vars => ChainInv'
<1> SUFFICES ASSUME TypeOK, ChainInv, [Next]_vars PROVE ChainInv'
  OBVIOUS
<1>1. ASSUME NEW c \in Calls, NEW k \in Pages, NEW kind \in Kinds, CreateRevision(c, k, kind)
      PROVE  ChainInv'
  BY <1>1, ChainQuiet DEF CreateRevision, TypeOK, IsPending, Pending, Running
<1>2. ASSUME NEW c \in Calls, NEW k \in Pages, EnqueuePlain(c, k) PROVE ChainInv'
  <2>1. request'[c].page = k /\ \A d \in Calls \ {c} : request'[d] = request[d]
    BY <1>2 DEF EnqueuePlain, TypeOK
  <2> QED BY <1>2, <2>1, ChainEnqueue DEF EnqueuePlain
<1>3. ASSUME NEW c \in Calls, EnqueueRevised(c) PROVE ChainInv'
  <2>1. Page(c) \in Pages
    BY <1>3 DEF EnqueueRevised, TypeOK, Page, Requests
  <2> QED BY <1>3, <2>1, ChainEnqueue DEF EnqueueRevised, Page
<1>4. ASSUME NEW c \in Calls, NEW s, NEW o, AbandonRevision(c, s, o) PROVE ChainInv'
  BY <1>4, ChainQuiet DEF AbandonRevision, TypeOK, IsPending, Pending, Running
<1>5. ASSUME NEW c \in Calls, Task(c) PROVE ChainInv'
  <2>1. MayRun(c)
    BY <1>5, TaskShape
  <2>2. ASSUME NEW o \in Results, Settle(c, o) PROVE ChainInv'
    BY <2>1, <2>2, ChainSettle
  <2>3. ASSUME NEW p \in Running, Advance(c, p) PROVE ChainInv'
    BY <2>1, <2>3, ChainQuiet DEF Advance, TypeOK, MayRun, IsPending, Pending, Running
  <2> QED BY <1>5, <2>2, <2>3, TaskShape
<1>6. CASE Environment
  BY <1>6, ChainQuiet DEF Environment, SwitchRoot, ForeignWrite, chainVars, IsPending
<1>7. CASE UNCHANGED vars
  BY <1>7, ChainQuiet DEF vars, chainVars, IsPending
<1> QED BY <1>1, <1>2, <1>3, <1>4, <1>5, <1>6, <1>7 DEF Next, Caller

\* The chain invariant holds throughout.
THEOREM ChainCorrect == Spec => []ChainInv
<1>1. Init => ChainInv
  BY DEF Init, ChainInv, IsPending, Pending, Running
<1> QED BY <1>1, ChainStep, TypeCorrect, PTL DEF Spec

\* Two running tasks of a page would both be its oldest pending request.
LEMMA ChainGivesOneWriter == TypeOK /\ ChainInv => OneWriterPerPage
<1> SUFFICES ASSUME TypeOK, ChainInv, NEW c \in Calls, NEW d \in Calls,
                    phase[c] \in Running, phase[d] \in Running, Page(c) = Page(d)
             PROVE  c = d
  BY DEF OneWriterPerPage
<1>1. IsPending(c) /\ IsPending(d) /\ phase[c] # "queued" /\ phase[d] # "queued"
  BY DEF IsPending, Pending, Running
<1>2. ticket[c] <= ticket[d] /\ ticket[d] <= ticket[c]
  BY <1>1 DEF ChainInv
<1>3. ticket[c] \in Nat /\ ticket[d] \in Nat
  BY DEF TypeOK
<1>4. ticket[c] = ticket[d]
  BY <1>2, <1>3
<1> QED BY <1>1, <1>4 DEF ChainInv

\* At most one task of a page is between its start and its result.
THEOREM OneWriter == Spec => []OneWriterPerPage
<1> QED BY ChainGivesOneWriter, ChainCorrect, TypeCorrect, PTL

-----------------------------------------------------------------------------
(***************************************************************************)
(* Revisions.                                                              *)
(***************************************************************************)
\* A revised task that passes a stale check holds the newest accepted revision.
LEMMA FreshIsAccepted ==
  ASSUME TypeOK, RevisionInv, NEW c \in Calls, IsPending(c), IsRevised(c), ~IsStale(c)
  PROVE  accepted[Page(c)] = Revision(c)
<1>1. phase[c] # "idle" /\ Page(c) \in Pages
  BY DEF TypeOK, IsPending, Pending, Running, Page, Requests
<1>2. Revision(c) \in 1..current[Page(c)]
  BY <1>1 DEF RevisionInv
<1> QED BY <1>1, <1>2 DEF RevisionInv, IsStale, IsAcceptedWriteRevisionCurrent,
                          IsWriteRevisionCurrent, TypeOK

\* What a turn of a task leaves alone, and what holds when it starts a write.
LEMMA TaskEffect ==
  ASSUME TypeOK, ChainInv, RevisionInv, NEW c \in Calls, Task(c)
  PROVE  /\ UNCHANGED <<current, accepted, request>>
         /\ phase'[c] = "writing" /\ IsRevised(c) => accepted[Page(c)] = Revision(c)
         /\ phase' = [phase EXCEPT ![c] = phase'[c]]
         /\ phase'[c] \in Running \cup {"settled"}
         /\ \/ phase[c] # "writing" /\ UNCHANGED disk
            \/ /\ phase[c] = "writing" /\ phase'[c] \in {"verifying", "settled"}
               /\ \/ UNCHANGED disk
                  \/ disk' = [disk EXCEPT ![target[c]][Page(c)] = c]
<1> USE DEF Settle, Advance, Running, FinishWriteResult, BeginAdapterWrite, Reject, revisionVars
<1>0. MayRun(c) /\ IsPending(c)
  BY TaskShape DEF MayRun, IsPending
<1>1. IsRevised(c) /\ ~IsStale(c) => accepted[Page(c)] = Revision(c)
  BY <1>0, FreshIsAccepted
<1>2. phase \in [Calls -> Phases]
  BY DEF TypeOK
<1>3. CASE StartTask(c)
  BY <1>1, <1>2, <1>3 DEF StartTask, CanStart
<1>4. CASE \E b \in BOOLEAN : BeforeWrite(c, b)
  BY <1>1, <1>2, <1>4 DEF BeforeWrite
<1>5. CASE \E o \in {"ok", "blocked", "error"} : Validate(c, o)
  BY <1>1, <1>2, <1>5 DEF Validate
<1>6. CASE \E ok, landed \in BOOLEAN : AdapterSettles(c, ok, landed)
  BY <1>2, <1>6 DEF AdapterSettles
<1>7. CASE \E ok \in BOOLEAN : VerifyReadback(c, ok)
  BY <1>2, <1>7 DEF VerifyReadback
<1> QED BY <1>3, <1>4, <1>5, <1>6, <1>7 DEF Task

\* Every step keeps the revision invariant.
LEMMA RevisionStep == TypeOK /\ ChainInv /\ RevisionInv /\ [Next]_vars => RevisionInv'
<1> SUFFICES ASSUME TypeOK, ChainInv, RevisionInv, [Next]_vars PROVE RevisionInv'
  OBVIOUS
<1> USE DEF TypeOK, Page, Revision, IsRevised, IsWriteRevisionCurrent, IsPending,
            Pending, Running, Requests, Kinds
<1>1. ASSUME NEW c \in Calls, NEW k \in Pages, NEW kind \in Kinds, CreateRevision(c, k, kind)
      PROVE  RevisionInv'
  <2>1. current'[k] = current[k] + 1 /\ \A p \in Pages \ {k} : current'[p] = current[p]
    BY <1>1 DEF CreateRevision
  <2>2. request'[c].page = k /\ request'[c].revision = current[k] + 1
    BY <1>1 DEF CreateRevision
  <2>3. \A d \in Calls \ {c} : request'[d] = request[d] /\ phase'[d] = phase[d]
    BY <1>1 DEF CreateRevision
  <2>4. phase[c] = "idle" /\ phase'[c] = "created" /\ accepted' = accepted
    BY <1>1 DEF CreateRevision
  <2>5. \A d \in Calls : phase[d] # "idle" => Page(d) \in Pages /\ Revision(d) \in Nat
    OBVIOUS
  <2>6. current \in [Pages -> Nat] /\ accepted \in [Pages -> Nat]
    OBVIOUS
  <2> HIDE DEF TypeOK
  <2>7. \A d \in Calls : phase'[d] # "idle" /\ IsRevised(d)' =>
          Revision(d)' \in 1..current'[Page(d)']
    BY <2>1, <2>2, <2>3, <2>4, <2>5, <2>6 DEF RevisionInv
  <2>8. \A d, e \in Calls :
          /\ phase'[d] # "idle" /\ IsRevised(d)' /\ phase'[e] # "idle" /\ IsRevised(e)'
          /\ Page(d)' = Page(e)' /\ Revision(d)' = Revision(e)'
          => d = e
    BY <2>1, <2>2, <2>3, <2>4, <2>5, <2>6 DEF RevisionInv
  <2>9. \A p \in Pages : accepted'[p] <= current'[p]
    BY <2>1, <2>4, <2>6 DEF RevisionInv
  <2>10. \A d \in Calls : IsPending(d)' /\ IsRevised(d)' /\ IsWriteRevisionCurrent(d)' =>
           accepted'[Page(d)'] = Revision(d)'
    BY <2>1, <2>2, <2>3, <2>4, <2>5, <2>6 DEF RevisionInv
  <2> QED BY <2>7, <2>8, <2>9, <2>10 DEF RevisionInv
<1>2. ASSUME NEW c \in Calls, NEW k \in Pages, EnqueuePlain(c, k) PROVE RevisionInv'
  <2>1. request'[c].kind = "plain"
    BY <1>2 DEF EnqueuePlain
  <2>2. \A d \in Calls \ {c} : request'[d] = request[d] /\ phase'[d] = phase[d]
    BY <1>2 DEF EnqueuePlain
  <2>3. UNCHANGED <<current, accepted>>
    BY <1>2 DEF EnqueuePlain, revisionVars
  <2>4. ~IsRevised(c)'
    BY <2>1
  <2>5. \A d \in Calls \ {c} :
          /\ IsRevised(d)' <=> IsRevised(d)
          /\ Page(d)' = Page(d) /\ Revision(d)' = Revision(d)
          /\ IsPending(d)' <=> IsPending(d)
          /\ IsWriteRevisionCurrent(d)' <=> IsWriteRevisionCurrent(d)
    BY <2>2, <2>3
  <2> HIDE DEF TypeOK, IsRevised, Page, Revision, IsPending, IsWriteRevisionCurrent
  <2> QED BY <2>2, <2>3, <2>4, <2>5 DEF RevisionInv
<1>3. ASSUME NEW c \in Calls, EnqueueRevised(c) PROVE RevisionInv'
  <2>1. UNCHANGED <<current, request>> /\ accepted' = AcceptedAtEnqueue(c)
    BY <1>3 DEF EnqueueRevised
  <2>2. \A d \in Calls \ {c} : phase'[d] = phase[d]
    BY <1>3 DEF EnqueueRevised
  <2>3. phase[c] = "created" /\ phase'[c] = "queued" /\ Page(c) \in Pages
    BY <1>3 DEF EnqueueRevised
  <2>4. \A p \in Pages : \/ accepted'[p] = accepted[p]
                         \/ /\ p = Page(c) /\ current[p] = Revision(c)
                            /\ accepted'[p] = current[p]
    <3>1. accepted \in [Pages -> Nat]
      OBVIOUS
    <3> HIDE DEF TypeOK, Page, Revision
    <3> QED BY <2>1, <2>3, <3>1 DEF AcceptedAtEnqueue
  <2>5. \A p \in Pages : accepted'[p] <= current'[p]
    BY <2>1, <2>4 DEF RevisionInv
  <2>6. \A d \in Calls : IsPending(d)' /\ IsRevised(d)' /\ IsWriteRevisionCurrent(d)' =>
          accepted'[Page(d)'] = Revision(d)'
    BY <2>1, <2>2, <2>3, <2>4 DEF RevisionInv, AcceptedAtEnqueue
  <2> QED BY <2>1, <2>2, <2>3, <2>5, <2>6 DEF RevisionInv
<1>4. ASSUME NEW c \in Calls, NEW s, NEW o, AbandonRevision(c, s, o) PROVE RevisionInv'
  <2>1. UNCHANGED <<current, accepted, request>>
    BY <1>4 DEF AbandonRevision
  <2>2. phase[c] = "created" /\ phase' = [phase EXCEPT ![c] = "settled"]
    BY <1>4 DEF AbandonRevision
  <2> QED BY <2>1, <2>2 DEF RevisionInv
<1>5. ASSUME NEW c \in Calls, Task(c) PROVE RevisionInv'
  <2>1. UNCHANGED <<current, accepted, request>> /\ phase' = [phase EXCEPT ![c] = phase'[c]]
    BY <1>5, TaskEffect
  <2>2. IsPending(c)
    BY <1>5, TaskShape DEF MayRun
  <2> QED BY <2>1, <2>2 DEF RevisionInv
<1>6. CASE Environment
  BY <1>6 DEF Environment, SwitchRoot, ForeignWrite, RevisionInv
<1>7. CASE UNCHANGED vars
  BY <1>7 DEF vars, RevisionInv
<1> QED BY <1>1, <1>2, <1>3, <1>4, <1>5, <1>6, <1>7 DEF Next, Caller

-----------------------------------------------------------------------------
(***************************************************************************)
(* Files.                                                                  *)
(***************************************************************************)
\* Files do not change, phases only leave "idle", "created" or "queued", and
\* accepted revisions only grow: DiskInv is kept.
LEMMA DiskQuiet ==
  ASSUME TypeOK, DiskInv, UNCHANGED disk,
         \A d \in Calls : phase[d] \notin {"idle", "created"} => request'[d] = request[d],
         \A d \in Calls : phase[d] \in {"verifying", "settled"} =>
                            phase'[d] \in {"verifying", "settled"},
         \A k \in Pages : accepted[k] <= accepted'[k] /\ accepted'[k] \in Nat,
         \A d \in Calls : phase'[d] = "writing" => phase[d] = "writing"
  PROVE  DiskInv'
<1> USE DEF Page, Revision, IsRevised
<1>1. \A d \in Calls : phase[d] \in {"writing", "verifying", "settled"} =>
        request'[d] = request[d]
  OBVIOUS
<1>2. ASSUME NEW w \in Roots, NEW k \in Pages, disk'[w][k] \in Calls
      PROVE  /\ phase'[disk'[w][k]] \in {"verifying", "settled"}
             /\ Page(disk[w][k])' = k
             /\ IsRevised(disk[w][k])' => Revision(disk[w][k])' <= accepted'[k]
  <2>1. /\ phase[disk[w][k]] \in {"verifying", "settled"}
        /\ Page(disk[w][k]) = k
        /\ IsRevised(disk[w][k]) => Revision(disk[w][k]) <= accepted[k]
    BY <1>2 DEF DiskInv
  <2>2. Revision(disk[w][k]) \in Nat /\ accepted[k] \in Nat
    BY <1>2, <2>1 DEF TypeOK, Requests
  <2> QED BY <1>1, <1>2, <2>1, <2>2
<1>3. ASSUME NEW c \in Calls, phase'[c] = "writing", IsRevised(c)'
      PROVE  /\ Revision(c)' <= accepted'[Page(c)']
             /\ \A w \in Roots :
                  disk'[w][Page(c)'] \in Calls /\ IsRevised(disk[w][Page(c)])' =>
                    Revision(disk[w][Page(c)])' < Revision(c)'
  <2>1. phase[c] = "writing" /\ request'[c] = request[c] /\ IsRevised(c)
    BY <1>1, <1>3
  <2>2. Page(c) \in Pages /\ Revision(c) \in Nat /\ accepted[Page(c)] \in Nat
    BY <2>1 DEF TypeOK, Requests
  <2>3. Revision(c) <= accepted[Page(c)]
    BY <2>1 DEF DiskInv
  <2>4. \A w \in Roots : disk[w][Page(c)] \in Calls =>
          request'[disk[w][Page(c)]] = request[disk[w][Page(c)]]
    BY <1>1, <2>2 DEF DiskInv
  <2>5. \A w \in Roots :
          disk[w][Page(c)] \in Calls /\ IsRevised(disk[w][Page(c)]) =>
            Revision(disk[w][Page(c)]) < Revision(c)
    BY <2>1 DEF DiskInv
  <2> QED BY <2>1, <2>2, <2>3, <2>4, <2>5
<1> QED BY <1>2, <1>3 DEF DiskInv

\* A task that starts its adapter write is newer than what the files hold.
LEMMA DiskTask ==
  ASSUME TypeOK, ChainInv, RevisionInv, DiskInv, NEW c \in Calls, Task(c)
  PROVE  DiskInv'
<1> USE DEF Page, Revision, IsRevised
<1>1. /\ UNCHANGED <<current, accepted, request>>
      /\ phase' = [phase EXCEPT ![c] = phase'[c]]
      /\ phase'[c] = "writing" /\ IsRevised(c) => accepted[Page(c)] = Revision(c)
      /\ phase'[c] \in Running \cup {"settled"}
  BY TaskEffect
<1>2. MayRun(c) /\ phase[c] \in Pending /\ phase[c] # "idle"
  BY TaskShape DEF MayRun, Pending, Running
<1>3. Page(c) \in Pages /\ Revision(c) \in Nat /\ accepted \in [Pages -> Nat]
  BY <1>2 DEF TypeOK, Requests
<1>4. \A d \in Calls \ {c} : phase'[d] = phase[d]
  BY <1>1 DEF TypeOK
<1>5. CASE phase[c] # "writing" /\ UNCHANGED disk
  <2>1. phase[c] = "settled" => FALSE
    BY <1>2 DEF Pending, Running
  <2>2. phase[c] = "verifying" => phase'[c] = "settled"
    BY DEF Task, StartTask, CanStart, BeforeWrite, Validate, AdapterSettles,
           VerifyReadback, FinishWriteResult, Settle, TypeOK
  <2>3. \A w \in Roots, k \in Pages : disk[w][k] \in Calls =>
          phase'[disk[w][k]] \in {"verifying", "settled"}
    BY <1>4, <2>1, <2>2 DEF DiskInv
  <2>4. ASSUME phase'[c] = "writing", IsRevised(c), NEW w \in Roots,
               disk[w][Page(c)] \in Calls, IsRevised(disk[w][Page(c)])
        PROVE  Revision(disk[w][Page(c)]) < Revision(c)
    <3> DEFINE d == disk[w][Page(c)]
    <3>1. /\ phase[d] \in {"verifying", "settled"} /\ Page(d) = Page(c)
          /\ Revision(d) <= accepted[Page(c)]
      BY <1>3, <2>4 DEF DiskInv
    <3>2. d # c
      BY <2>1, <2>2, <2>4, <3>1
    <3>3. Revision(d) # Revision(c)
      BY <1>2, <2>4, <3>1, <3>2 DEF RevisionInv
    <3>4. Revision(d) \in Nat
      BY <2>4, <3>1 DEF TypeOK, Requests
    <3> QED BY <1>1, <1>3, <2>4, <3>1, <3>3, <3>4
  <2>5. ASSUME NEW d \in Calls, phase'[d] = "writing", IsRevised(d)
        PROVE  /\ Revision(d) <= accepted[Page(d)]
               /\ \A w \in Roots :
                    disk[w][Page(d)] \in Calls /\ IsRevised(disk[w][Page(d)]) =>
                      Revision(disk[w][Page(d)]) < Revision(d)
    <3>1. CASE d = c
      BY <1>1, <1>3, <2>4, <2>5, <3>1
    <3>2. CASE d # c
      BY <1>4, <2>5, <3>2 DEF DiskInv
    <3> QED BY <3>1, <3>2
  <2> QED BY <1>1, <1>5, <2>3, <2>5 DEF DiskInv
<1>6. CASE phase[c] = "writing" /\ phase'[c] \in {"verifying", "settled"}
  <2>1. \A d \in Calls : phase'[d] = "writing" => d # c /\ phase[d] = "writing" /\ Page(d) # Page(c)
    <3> SUFFICES ASSUME NEW d \in Calls, phase'[d] = "writing"
                 PROVE  d # c /\ phase[d] = "writing" /\ Page(d) # Page(c)
      OBVIOUS
    <3>1. d # c /\ phase[d] = "writing"
      BY <1>4, <1>6
    <3>2. IsPending(c) /\ IsPending(d) /\ ~IsPending(prev[c]) /\ ~IsPending(prev[d])
      BY <1>6, <3>1 DEF ChainInv, IsPending, Pending, Running
    <3>3. Page(d) = Page(c) => ticket[c] <= ticket[d] /\ ticket[d] <= ticket[c]
      BY <3>2 DEF ChainInv
    <3>4. ticket[c] \in Nat /\ ticket[d] \in Nat
      BY DEF TypeOK
    <3>5. Page(d) = Page(c) => ticket[c] = ticket[d]
      BY <3>3, <3>4
    <3> QED BY <3>1, <3>2, <3>5 DEF ChainInv
  <2>2. CASE UNCHANGED disk
    <3>1. \A w \in Roots, k \in Pages : disk[w][k] \in Calls =>
            phase'[disk[w][k]] \in {"verifying", "settled"}
      BY <1>4, <1>6 DEF DiskInv
    <3> QED BY <1>1, <2>1, <2>2, <3>1 DEF DiskInv
  <2>3. CASE disk' = [disk EXCEPT ![target[c]][Page(c)] = c]
    <3>1. \A w \in Roots, k \in Pages :
            disk'[w][k] = IF w = target[c] /\ k = Page(c) THEN c ELSE disk[w][k]
      BY <2>3 DEF TypeOK
    <3>2. IsRevised(c) => Revision(c) <= accepted[Page(c)]
      BY <1>6 DEF DiskInv
    <3>3. ASSUME NEW w \in Roots, NEW k \in Pages, disk'[w][k] \in Calls
          PROVE  /\ phase'[disk'[w][k]] \in {"verifying", "settled"}
                 /\ Page(disk'[w][k]) = k
                 /\ IsRevised(disk'[w][k]) => Revision(disk'[w][k]) <= accepted[k]
      <4>1. CASE w = target[c] /\ k = Page(c)
        BY <1>6, <3>1, <3>2, <4>1
      <4>2. CASE ~(w = target[c] /\ k = Page(c))
        BY <1>4, <1>6, <3>1, <3>3, <4>2 DEF DiskInv
      <4> QED BY <4>1, <4>2
    <3>4. ASSUME NEW d \in Calls, phase'[d] = "writing", IsRevised(d)
          PROVE  /\ Revision(d) <= accepted[Page(d)]
                 /\ \A w \in Roots :
                      disk'[w][Page(d)] \in Calls /\ IsRevised(disk'[w][Page(d)]) =>
                        Revision(disk'[w][Page(d)]) < Revision(d)
      <4>1. phase[d] = "writing" /\ Page(d) # Page(c) /\ Page(d) \in Pages
        BY <2>1, <3>4 DEF TypeOK, Requests
      <4> QED BY <3>1, <3>4, <4>1 DEF DiskInv
    <3> QED BY <1>1, <3>3, <3>4 DEF DiskInv
  <2> QED BY <1>6, <2>2, <2>3, TaskEffect
<1> QED BY <1>5, <1>6, TaskEffect

\* Every step keeps the file invariant.
LEMMA DiskStep ==
  TypeOK /\ ChainInv /\ RevisionInv /\ DiskInv /\ [Next]_vars => DiskInv'
<1> SUFFICES ASSUME TypeOK, ChainInv, RevisionInv, DiskInv, [Next]_vars PROVE DiskInv'
  OBVIOUS
<1>0. /\ phase \in [Calls -> Phases] /\ request \in [Calls -> Requests \cup {None}]
      /\ accepted \in [Pages -> Nat] /\ current \in [Pages -> Nat]
  BY DEF TypeOK
<1>1. ASSUME NEW c \in Calls, NEW k \in Pages, NEW kind \in Kinds, CreateRevision(c, k, kind)
      PROVE  DiskInv'
  BY <1>0, <1>1, DiskQuiet DEF CreateRevision
<1>2. ASSUME NEW c \in Calls, NEW k \in Pages, EnqueuePlain(c, k) PROVE DiskInv'
  BY <1>0, <1>2, DiskQuiet DEF EnqueuePlain, revisionVars
<1>3. ASSUME NEW c \in Calls, EnqueueRevised(c) PROVE DiskInv'
  <2>1. Page(c) \in Pages
    BY <1>3 DEF EnqueueRevised, TypeOK, Page, Requests
  <2>2. \A k \in Pages : accepted[k] <= accepted'[k] /\ accepted'[k] \in Nat
    BY <1>0, <1>3, <2>1 DEF EnqueueRevised, AcceptedAtEnqueue, IsWriteRevisionCurrent, RevisionInv
  <2> QED BY <1>0, <1>3, <2>2, DiskQuiet DEF EnqueueRevised
<1>4. ASSUME NEW c \in Calls, NEW s, NEW o, AbandonRevision(c, s, o) PROVE DiskInv'
  BY <1>0, <1>4, DiskQuiet DEF AbandonRevision
<1>5. ASSUME NEW c \in Calls, Task(c) PROVE DiskInv'
  BY <1>5, DiskTask
<1>6. ASSUME NEW w \in Roots, SwitchRoot(w) PROVE DiskInv'
  BY <1>0, <1>6, DiskQuiet DEF SwitchRoot
<1>7. ASSUME NEW w \in Roots, NEW k \in Pages, NEW x \in Foreign, ForeignWrite(w, k, x)
      PROVE  DiskInv'
  <2>1. \A v \in Roots, p \in Pages :
          disk'[v][p] = IF v = w /\ p = k THEN x ELSE disk[v][p]
    BY <1>7 DEF ForeignWrite, TypeOK
  <2>2. UNCHANGED <<phase, request, accepted>> /\ x \notin Calls
    BY <1>7 DEF ForeignWrite
  <2>3. \A c \in Calls : phase[c] = "writing" => Page(c) \in Pages
    BY DEF TypeOK, Page, Requests
  <2> QED BY <2>1, <2>2, <2>3 DEF DiskInv, Page, Revision, IsRevised
<1>8. CASE UNCHANGED vars
  BY <1>0, <1>8, DiskQuiet DEF vars
<1> QED BY <1>1, <1>2, <1>3, <1>4, <1>5, <1>6, <1>7, <1>8 DEF Next, Caller, Environment

\* The initial states satisfy the inductive invariant.
LEMMA QueueInit == Init => WriteQueueInv
<1>1. Init => TypeOK
  BY DEF Init, TypeOK, Phases, Pending, Running, Results, RevisionStates, Contents
<1>2. Init => ChainInv /\ RevisionInv /\ DiskInv
  BY DEF Init, ChainInv, RevisionInv, DiskInv, IsPending, Pending, Running
<1> QED BY <1>1, <1>2 DEF WriteQueueInv

\* Every step keeps the inductive invariant.
LEMMA QueueStep == WriteQueueInv /\ [Next]_vars => WriteQueueInv'
  BY TypeStep, ChainStep, RevisionStep, DiskStep DEF WriteQueueInv

\* The inductive invariant of the queue: the chain, the revisions and the files.
THEOREM Invariance == Spec => []WriteQueueInv
  BY QueueInit, QueueStep, PTL DEF Spec

\* No step replaces the content of a newer revision by that of an older one.
THEOREM NewerWins == Spec => NewerNeverOverwritten
<1> DEFINE Kept == \A w \in Roots, k \in Pages :
       LET old == disk[w][k]
           new == disk'[w][k]
       IN  old # new /\ old \in Calls /\ new \in Calls
             /\ IsRevised(old) /\ IsRevised(new)
           => Revision(old) < Revision(new)
<1>1. WriteQueueInv /\ [Next]_vars => [Kept]_vars
  <2> SUFFICES ASSUME WriteQueueInv, [Next]_vars, NEW w \in Roots, NEW k \in Pages,
                      disk[w][k] # disk'[w][k],
                      disk[w][k] \in Calls, disk'[w][k] \in Calls,
                      IsRevised(disk[w][k]), IsRevised(disk'[w][k])
               PROVE  Revision(disk[w][k]) < Revision(disk'[w][k])
    BY DEF Kept
  <2> USE DEF WriteQueueInv
  <2>1. ASSUME NEW c \in Calls, Task(c)
        PROVE  Revision(disk[w][k]) < Revision(disk'[w][k])
    <3>1. phase[c] = "writing" /\ disk' = [disk EXCEPT ![target[c]][Page(c)] = c]
      BY <2>1, TaskEffect
    <3>2. disk'[w][k] = c /\ k = Page(c)
      BY <3>1 DEF TypeOK
    <3> QED BY <3>1, <3>2 DEF DiskInv
  <2>2. ASSUME NEW v \in Roots, NEW p \in Pages, NEW x \in Foreign, ForeignWrite(v, p, x)
        PROVE  FALSE
    BY <2>2 DEF ForeignWrite, TypeOK
  <2>3. CASE UNCHANGED disk
    BY <2>3
  <2> QED BY <2>1, <2>2, <2>3 DEF Next, Caller, Environment, CreateRevision, EnqueuePlain,
             EnqueueRevised, AbandonRevision, SwitchRoot, vars
<1> QED BY <1>1, Invariance, PTL DEF Spec, NewerNeverOverwritten, Kept

-----------------------------------------------------------------------------
(***************************************************************************)
(* The line of a page: tickets and who has returned.                       *)
(***************************************************************************)
\* What a request with a ticket has.
LEMMA TicketHolder ==
  ASSUME TypeOK, LineInv, NEW c \in Calls, ticket[c] > 0
  PROVE  /\ request[c] \in Requests /\ Page(c) \in Pages
         /\ phase[c] \in Pending \cup {"settled"}
         /\ ticket[c] \in 1..issued[Page(c)]
<1>1. phase[c] \notin {"idle", "created"}
  BY DEF LineInv
<1>2. request[c] \in Requests /\ Page(c) \in Pages
  BY <1>1 DEF TypeOK, Requests, Page
<1>3. ticket[c] <= issued[Page(c)] /\ issued[Page(c)] \in Nat /\ ticket[c] \in Nat
  BY <1>2 DEF LineInv, TypeOK
<1> QED BY <1>1, <1>2, <1>3 DEF TypeOK, Phases

\* Queueing a request puts it at the end of its page's line.
LEMMA LineEnqueue ==
  ASSUME TypeOK, LineInv, NEW c \in Calls, NEW k \in Pages,
         phase[c] \in {"idle", "created"}, Chained(c, k),
         phase' = [phase EXCEPT ![c] = "queued"],
         request'[c].page = k,
         \A d \in Calls \ {c} : request'[d] = request[d]
  PROVE  LineInv' /\ Served' = Served
<1> USE DEF Page
<1>1. /\ ticket[c] = 0 /\ ticket'[c] = issued[k] + 1
      /\ \A d \in Calls \ {c} : ticket'[d] = ticket[d] /\ phase'[d] = phase[d]
      /\ issued'[k] = issued[k] + 1 /\ \A p \in Pages \ {k} : issued'[p] = issued[p]
      /\ phase'[c] = "queued" /\ issued \in [Pages -> Nat]
  BY DEF TypeOK, LineInv, Chained
<1>2. \A d \in Calls \ {c} : Page(d)' = Page(d)
  OBVIOUS
<1>3. \A d \in Calls : ticket[d] \in Nat
  BY DEF TypeOK
<1>4. ASSUME NEW p \in Pages PROVE Returned(p)' = Returned(p)
  BY <1>1 DEF Returned
<1>5. Served' = Served
  BY <1>4 DEF Served
<1>6. \A p \in Pages : Served[p] \in 0..issued[p] /\ IsFiniteSet(Returned(p))
  BY DEF LineInv
<1>7. \A d \in Calls : ticket[d] > 0 => Page(d) \in Pages /\ ticket[d] <= issued[Page(d)]
  BY TicketHolder
<1>8. \A d \in Calls : phase'[d] \in {"idle", "created"} => ticket'[d] = 0
  BY <1>1 DEF LineInv
<1>9. \A d \in Calls : ticket'[d] > 0 => ticket'[d] <= issued'[Page(d)']
  BY <1>1, <1>2, <1>3, <1>7
<1>10. ASSUME NEW d \in Calls, NEW e \in Calls, ticket'[d] > 0, ticket'[d] = ticket'[e],
              Page(d)' = Page(e)'
       PROVE  d = e
  <2>1. CASE d # c /\ e # c
    BY <1>1, <1>2, <1>10, <2>1 DEF LineInv
  <2>2. CASE d = c /\ e # c
    BY <1>1, <1>2, <1>3, <1>7, <1>10, <2>2
  <2>3. CASE d # c /\ e = c
    BY <1>1, <1>2, <1>3, <1>7, <1>10, <2>3
  <2> QED BY <2>1, <2>2, <2>3
<1>11. ASSUME NEW p \in Pages, NEW i \in 1..issued'[p]
       PROVE  \E d \in Calls : ticket'[d] = i /\ Page(d)' = p
  <2>1. CASE i \in 1..issued[p]
    <3>1. PICK d \in Calls : ticket[d] = i /\ Page(d) = p
      BY <2>1 DEF LineInv
    <3> QED BY <1>1, <1>2, <2>1, <3>1
  <2>2. CASE i \notin 1..issued[p]
    <3>1. p = k /\ i = issued[k] + 1
      BY <1>1, <1>11, <2>2
    <3> QED BY <1>1, <3>1
  <2> QED BY <2>1, <2>2
<1>12. \A p \in Pages : IsFiniteSet(Returned(p))' /\ Served'[p] \in 0..issued'[p]
  BY <1>1, <1>4, <1>5, <1>6
<1>13. ASSUME NEW d \in Calls, ticket'[d] > 0
       PROVE  phase'[d] = "settled" <=> ticket'[d] <= Served'[Page(d)']
  <2>1. CASE d = c
    BY <1>1, <1>5, <1>6, <2>1
  <2>2. CASE d # c
    BY <1>1, <1>2, <1>5, <1>13, <2>2 DEF LineInv
  <2> QED BY <2>1, <2>2
<1> HIDE DEF Page
<1> QED BY <1>5, <1>8, <1>9, <1>10, <1>11, <1>12, <1>13 DEF LineInv

\* The request that settles is the first of its line that has not returned.
LEMMA FirstOfLine ==
  ASSUME TypeOK, ChainInv, LineInv, NEW c \in Calls, MayRun(c)
  PROVE  Page(c) \in Pages /\ ticket[c] = Served[Page(c)] + 1
<1>1. IsPending(c) /\ ~IsPending(prev[c])
  BY DEF MayRun, ChainInv, IsPending, Pending, Running
<1>2. ticket[c] > 0 /\ ticket[c] \in Nat
  BY <1>1 DEF ChainInv, TypeOK
<1>3. Page(c) \in Pages /\ ticket[c] \in 1..issued[Page(c)] /\ issued[Page(c)] \in Nat
  BY <1>2, TicketHolder DEF TypeOK
<1>4. Served[Page(c)] \in 0..issued[Page(c)] /\ ticket[c] > Served[Page(c)]
  BY <1>1, <1>2, <1>3 DEF LineInv, IsPending, Pending, Running
<1>5. PICK d \in Calls : ticket[d] = Served[Page(c)] + 1 /\ Page(d) = Page(c)
  BY <1>3, <1>4 DEF LineInv
<1>6. ticket[d] > 0 /\ ~(ticket[d] <= Served[Page(d)])
  BY <1>4, <1>5
<1>7. IsPending(d)
  BY <1>6, TicketHolder DEF LineInv, IsPending
<1>8. ticket[c] <= ticket[d]
  BY <1>1, <1>5, <1>7 DEF ChainInv
<1> QED BY <1>3, <1>4, <1>5, <1>8

\* A request that settles moves its page's line on by one.
LEMMA LineSettle ==
  ASSUME TypeOK, ChainInv, LineInv, NEW c \in Calls, MayRun(c), NEW o, Settle(c, o)
  PROVE  LineInv' /\ Served' = [Served EXCEPT ![Page(c)] = @ + 1]
<1> USE DEF Page
<1>1. /\ UNCHANGED <<ticket, issued, request>>
      /\ phase'[c] = "settled" /\ \A d \in Calls \ {c} : phase'[d] = phase[d]
  BY DEF Settle, TypeOK
<1>2. Page(c) \in Pages /\ ticket[c] = Served[Page(c)] + 1
  BY FirstOfLine
<1>0. PICK k \in Pages : k = Page(c)
  BY <1>2
<1>3. phase[c] \in Pending /\ phase[c] # "settled" /\ phase[c] \notin {"idle", "created"}
  BY DEF MayRun, Pending, Running
<1>4. \A p \in Pages : Served[p] \in 0..issued[p] /\ issued[p] \in Nat /\ IsFiniteSet(Returned(p))
  BY DEF LineInv, TypeOK
<1>5. ticket[c] > 0 /\ ticket[c] <= issued[Page(c)] /\ \A d \in Calls : ticket[d] \in Nat
  BY <1>2, <1>4, TicketHolder DEF TypeOK
<1>6. Returned(k)' = Returned(k) \cup {c} /\ c \notin Returned(k)
  BY <1>0, <1>1, <1>3, <1>5 DEF Returned
<1>7. \A p \in Pages \ {k} : Returned(p)' = Returned(p)
  BY <1>0, <1>1 DEF Returned
<1>8. IsFiniteSet(Returned(k))' /\ Cardinality(Returned(k))' = Cardinality(Returned(k)) + 1
  BY <1>4, <1>6, FS_AddElement
<1>9. Served' = [Served EXCEPT ![Page(c)] = @ + 1]
  <2>1. \A p \in Pages : Served'[p] = IF p = k THEN Served[p] + 1 ELSE Served[p]
    BY <1>7, <1>8 DEF Served
  <2>2. DOMAIN Served' = Pages /\ DOMAIN Served = Pages
    BY DEF Served
  <2>3. Served' = [p \in Pages |-> Served'[p]] /\ Served = [p \in Pages |-> Served[p]]
    BY DEF Served
  <2> QED BY <1>0, <2>1, <2>2, <2>3
<1>10. /\ Served'[Page(c)] = ticket[c]
       /\ \A p \in Pages \ {Page(c)} : Served'[p] = Served[p]
  BY <1>0, <1>2, <1>7, <1>8 DEF Served
<1>11. \A p \in Pages : IsFiniteSet(Returned(p))' /\ Served'[p] \in 0..issued'[p]
  BY <1>0, <1>1, <1>2, <1>4, <1>5, <1>7, <1>8, <1>10
<1>12. ASSUME NEW d \in Calls, ticket[d] > 0
       PROVE  phase'[d] = "settled" <=> ticket[d] <= Served'[Page(d)]
  <2>1. CASE d = c
    BY <1>1, <1>5, <1>10, <2>1
  <2>2. CASE d # c /\ Page(d) = Page(c)
    <3>1. phase[d] = "settled" <=> ticket[d] <= Served[Page(c)]
      BY <1>12, <2>2 DEF LineInv
    <3>2. ticket[d] # ticket[c]
      BY <1>12, <2>2 DEF LineInv
    <3> QED BY <1>1, <1>2, <1>4, <1>5, <1>10, <2>2, <3>1, <3>2
  <2>3. CASE Page(d) # Page(c)
    BY <1>1, <1>10, <1>12, <2>3, TicketHolder DEF LineInv
  <2> QED BY <2>1, <2>2, <2>3
<1>13. \A d \in Calls : phase'[d] \in {"idle", "created"} => ticket[d] = 0
  BY <1>1 DEF LineInv
<1> HIDE DEF Page
<1>14. \A d \in Calls : Page(d)' = Page(d)
  BY <1>1 DEF Page
<1> QED BY <1>1, <1>9, <1>11, <1>12, <1>13, <1>14 DEF LineInv

\* No request joins a line or returns.
LEMMA LineQuiet ==
  ASSUME TypeOK, LineInv, UNCHANGED <<ticket, issued>>,
         \A d \in Calls : ticket[d] > 0 =>
           request'[d] = request[d] /\ (phase'[d] = "settled" <=> phase[d] = "settled"),
         \A d \in Calls : phase'[d] \in {"idle", "created"} =>
           phase[d] \in {"idle", "created"}
  PROVE  LineInv' /\ Served' = Served
<1>1. \A d \in Calls : ticket[d] > 0 => Page(d)' = Page(d)
  BY DEF Page
<1>2. \A p \in Pages : Returned(p)' = Returned(p)
  BY <1>1 DEF Returned
<1>3. Served' = Served
  BY <1>2 DEF Served
<1>4. \A d \in Calls : phase'[d] \in {"idle", "created"} => ticket'[d] = 0
  BY DEF LineInv
<1>5. \A d \in Calls : ticket[d] \in Nat
  BY DEF TypeOK
<1>6. \A p \in Pages : \A i \in 1..issued'[p] : \E d \in Calls : ticket'[d] = i /\ Page(d)' = p
  <2> SUFFICES ASSUME NEW p \in Pages, NEW i \in 1..issued[p]
               PROVE  \E d \in Calls : ticket[d] = i /\ Page(d)' = p
    OBVIOUS
  <2>1. PICK d \in Calls : ticket[d] = i /\ Page(d) = p
    BY DEF LineInv
  <2> QED BY <1>1, <2>1
<1>7. \A d \in Calls : ticket[d] > 0 =>
        /\ ticket'[d] <= issued'[Page(d)']
        /\ phase'[d] = "settled" <=> ticket'[d] <= Served'[Page(d)']
  BY <1>1, <1>3 DEF LineInv
<1>8. \A d, e \in Calls :
        ticket'[d] > 0 /\ ticket'[d] = ticket'[e] /\ Page(d)' = Page(e)' => d = e
  BY <1>1 DEF LineInv
<1>9. \A p \in Pages : IsFiniteSet(Returned(p))' /\ Served'[p] \in 0..issued'[p]
  BY <1>2, <1>3 DEF LineInv
<1> QED BY <1>3, <1>4, <1>6, <1>7, <1>8, <1>9 DEF LineInv

\* Every step keeps the lines, and only a task moves one on.
LEMMA LineStep == TypeOK /\ ChainInv /\ LineInv /\ [Next]_vars => LineInv'
<1> SUFFICES ASSUME TypeOK, ChainInv, LineInv, [Next]_vars PROVE LineInv'
  OBVIOUS
<1>0. /\ phase \in [Calls -> Phases] /\ request \in [Calls -> Requests \cup {None}]
      /\ \A d \in Calls : ticket[d] > 0 => phase[d] \in Pending \cup {"settled"}
  BY TicketHolder DEF TypeOK
<1>1. ASSUME NEW c \in Calls, NEW k \in Pages, NEW kind \in Kinds, CreateRevision(c, k, kind)
      PROVE  LineInv'
  BY <1>0, <1>1, LineQuiet DEF CreateRevision, chainVars, Pending, Running
<1>2. ASSUME NEW c \in Calls, NEW k \in Pages, EnqueuePlain(c, k) PROVE LineInv'
  <2>1. request'[c].page = k /\ \A d \in Calls \ {c} : request'[d] = request[d]
    BY <1>0, <1>2 DEF EnqueuePlain
  <2> QED BY <1>2, <2>1, LineEnqueue DEF EnqueuePlain
<1>3. ASSUME NEW c \in Calls, EnqueueRevised(c) PROVE LineInv'
  <2>1. Page(c) \in Pages
    BY <1>3 DEF EnqueueRevised, TypeOK, Page, Requests
  <2> QED BY <1>3, <2>1, LineEnqueue DEF EnqueueRevised, Page
<1>4. ASSUME NEW c \in Calls, NEW s, NEW o, AbandonRevision(c, s, o) PROVE LineInv'
  BY <1>0, <1>4, LineQuiet DEF AbandonRevision, chainVars, Pending, Running
<1>5. ASSUME NEW c \in Calls, Task(c) PROVE LineInv'
  <2>1. MayRun(c)
    BY <1>5, TaskShape
  <2>2. ASSUME NEW o \in Results, Settle(c, o) PROVE LineInv'
    BY <2>1, <2>2, LineSettle
  <2>3. ASSUME NEW p \in Running, Advance(c, p) PROVE LineInv'
    BY <1>0, <2>1, <2>3, LineQuiet DEF Advance, chainVars, MayRun, Pending, Running
  <2> QED BY <1>5, <2>2, <2>3, TaskShape
<1>6. CASE Environment
  BY <1>6, LineQuiet DEF Environment, SwitchRoot, ForeignWrite
<1>7. CASE UNCHANGED vars
  BY <1>7, LineQuiet DEF vars
<1> QED BY <1>1, <1>2, <1>3, <1>4, <1>5, <1>6, <1>7 DEF Next, Caller

-----------------------------------------------------------------------------
(***************************************************************************)
(* The refinement of PageWriteLine.                                        *)
(***************************************************************************)
\* The line of a page holds each of its requests at its ticket.
EntriesOK ==
  /\ Line \in [Pages -> Seq(Calls)]
  /\ \A k \in Pages : Len(Line[k]) = issued[k]
  /\ \A c \in Calls : ticket[c] > 0 => Line[Page(c)][ticket[c]] = c
  /\ \A k \in Pages : \A i \in 1..issued[k] :
       ticket[Line[k][i]] = i /\ Page(Line[k][i]) = k

\* Without a gap in the tickets every place of a line is taken by one request.
LEMMA LineEntries == TypeOK /\ LineInv => EntriesOK
<1> SUFFICES ASSUME TypeOK, LineInv PROVE EntriesOK
  OBVIOUS
<1>1. ASSUME NEW k \in Pages
      PROVE  /\ Line[k] \in Seq(Calls) /\ Len(Line[k]) = issued[k]
             /\ \A i \in 1..issued[k] :
                  Line[k][i] \in Calls /\ ticket[Line[k][i]] = i /\ Page(Line[k][i]) = k
  <2>1. issued[k] \in Nat
    BY DEF TypeOK
  <2>2. Line[k] = [i \in 1..issued[k] |-> CHOOSE c \in Calls : ticket[c] = i /\ Page(c) = k]
    BY DEF Line
  <2>3. ASSUME NEW i \in 1..issued[k]
        PROVE  Line[k][i] \in Calls /\ ticket[Line[k][i]] = i /\ Page(Line[k][i]) = k
    <3>1. \E c \in Calls : ticket[c] = i /\ Page(c) = k
      BY DEF LineInv
    <3> QED BY <2>2, <3>1
  <2>4. Line[k] \in [1..issued[k] -> Calls]
    BY <2>2, <2>3
  <2> QED BY <2>1, <2>3, <2>4
<1>2. Line = [k \in Pages |-> Line[k]]
  BY DEF Line
<1>3. ASSUME NEW c \in Calls, ticket[c] > 0 PROVE Line[Page(c)][ticket[c]] = c
  <2>1. Page(c) \in Pages /\ ticket[c] \in 1..issued[Page(c)]
    BY <1>3, TicketHolder
  <2>2. LET d == Line[Page(c)][ticket[c]]
        IN  d \in Calls /\ ticket[d] = ticket[c] /\ Page(d) = Page(c)
    BY <1>1, <2>1
  <2> QED BY <1>3, <2>2 DEF LineInv
<1> QED BY <1>1, <1>2, <1>3 DEF EntriesOK

\* So it is after a step.
LEMMA LineEntriesAfter == TypeOK' /\ LineInv' => EntriesOK'
BY LineEntries, PTL

\* The lines stay what they are when tickets and the pages of their holders do.
LEMMA LineKept ==
  ASSUME TypeOK, LineInv, UNCHANGED <<ticket, issued>>,
         \A d \in Calls : ticket[d] > 0 => request'[d] = request[d]
  PROVE  Line' = Line
<1>1. ASSUME NEW k \in Pages, NEW i \in 1..issued[k]
      PROVE  (CHOOSE c \in Calls : ticket[c] = i /\ Page(c) = k)
               = (CHOOSE c \in Calls : ticket'[c] = i /\ Page(c)' = k)
  <2>1. \A c \in Calls : (ticket[c] = i /\ Page(c) = k) <=> (ticket'[c] = i /\ Page(c)' = k)
    BY DEF Page
  <2> QED BY <2>1
<1> QED BY <1>1 DEF Line

\* Queueing a request is the submission of the abstract line.
LEMMA EnqueueSubmits ==
  ASSUME TypeOK, LineInv, NEW c \in Calls, NEW k \in Pages,
         phase[c] \in {"idle", "created"}, Chained(c, k),
         phase' = [phase EXCEPT ![c] = "queued"],
         request'[c].page = k, UNCHANGED disk,
         \A d \in Calls \ {c} : request'[d] = request[d],
         TypeOK'
  PROVE  Lines!Submit(c, k)
<1> USE DEF Page
<1>1. LineInv' /\ Served' = Served
  BY LineEnqueue
<1>2. /\ ticket[c] = 0 /\ ticket'[c] = issued[k] + 1
      /\ \A d \in Calls \ {c} : ticket'[d] = ticket[d]
      /\ issued'[k] = issued[k] + 1 /\ \A p \in Pages \ {k} : issued'[p] = issued[p]
      /\ issued \in [Pages -> Nat]
  BY DEF TypeOK, LineInv, Chained
<1> HIDE DEF Page
<1>3. \A d \in Calls \ {c} : Page(d)' = Page(d)
  BY DEF Page
<1>4. Page(c)' = k
  BY DEF Page
<1>5. EntriesOK
  BY LineEntries
<1>6. EntriesOK'
  BY <1>1, LineEntriesAfter
<1>7. \A p \in Pages : \A i \in 1..issued[p] : Line[p][i] \in Calls /\ Line[p][i] # c
  BY <1>2, <1>5 DEF EntriesOK
<1>8. ASSUME NEW p \in Pages, NEW i \in 1..issued[p] PROVE Line'[p][i] = Line[p][i]
  <2>1. PICK d \in Calls \ {c} : d = Line[p][i]
    BY <1>7
  <2>2. ticket[d] = i /\ Page(d) = p
    BY <1>5, <2>1 DEF EntriesOK
  <2>3. ticket'[d] = i /\ Page(d)' = p
    BY <1>2, <1>3, <2>2
  <2>4. ticket'[d] > 0 => Line'[Page(d)'][ticket'[d]] = d
    BY <1>6 DEF EntriesOK
  <2> QED BY <2>1, <2>3, <2>4
<1>9. Line'[k][issued[k] + 1] = c
  BY <1>2, <1>4, <1>6 DEF EntriesOK
<1>10. Line'[k] = Append(Line[k], c)
  <2>1. Line'[k] \in Seq(Calls) /\ Line[k] \in Seq(Calls) /\ Len(Line'[k]) = Len(Line[k]) + 1
    BY <1>2, <1>5, <1>6 DEF EntriesOK
  <2>2. \A i \in 1..Len(Line'[k]) : Line'[k][i] = Append(Line[k], c)[i]
    BY <1>2, <1>5, <1>8, <1>9, <2>1 DEF EntriesOK
  <2>3. Append(Line[k], c) \in Seq(Calls) /\ Len(Append(Line[k], c)) = Len(Line[k]) + 1
    BY <2>1
  <2> QED BY <2>1, <2>2, <2>3, SeqEqual
<1>11. \A p \in Pages \ {k} : Line'[p] = Line[p]
  <2> SUFFICES ASSUME NEW p \in Pages \ {k} PROVE Line'[p] = Line[p]
    OBVIOUS
  <2>1. Line'[p] \in Seq(Calls) /\ Len(Line'[p]) = issued'[p]
    BY <1>6 DEF EntriesOK
  <2>3. Line[p] \in Seq(Calls) /\ Len(Line[p]) = issued[p]
    BY <1>5 DEF EntriesOK
  <2>4. Len(Line'[p]) = Len(Line[p])
    BY <1>2, <2>1, <2>3
  <2> QED BY <1>5, <1>8, <2>1, <2>3, <2>4, SeqEqual DEF EntriesOK
<1>12. Line' = [Line EXCEPT ![k] = Append(@, c)]
  BY <1>5, <1>6, <1>10, <1>11 DEF EntriesOK
<1> QED BY <1>1, <1>5, <1>7, <1>12 DEF Lines!Submit, EntriesOK

\* A turn of a task serves the request whose turn it is.
LEMMA TaskServes ==
  ASSUME TypeOK, ChainInv, RevisionInv, LineInv, NEW c \in Calls, Task(c)
  PROVE  Lines!Serve(Page(c))
<1>1. MayRun(c)
  BY TaskShape
<1>2. Page(c) \in Pages /\ ticket[c] = Served[Page(c)] + 1 /\ ticket[c] \in Nat
      /\ Served[Page(c)] \in Nat
  BY <1>1, FirstOfLine DEF LineInv, TypeOK
<1>3. ticket[c] \in 1..issued[Page(c)] /\ Line[Page(c)][ticket[c]] = c
      /\ Len(Line[Page(c)]) = issued[Page(c)] /\ issued[Page(c)] \in Nat
  BY <1>2, TicketHolder, LineEntries DEF TypeOK, EntriesOK
<1>4. UNCHANGED <<ticket, issued, request>>
  BY TaskShape DEF Settle, Advance, chainVars
<1>5. Line' = Line
  BY <1>4, LineKept
<1>6. Served' = [Served EXCEPT ![Page(c)] = @ + 1] \/ Served' = Served
  <2>1. ASSUME NEW o \in Results, Settle(c, o)
        PROVE  Served' = [Served EXCEPT ![Page(c)] = @ + 1]
    BY <1>1, <2>1, LineSettle
  <2>2. ASSUME NEW p \in Running, Advance(c, p) PROVE Served' = Served
    <3>1. \A d \in Calls : phase'[d] = "settled" <=> phase[d] = "settled"
      BY <1>1, <2>2 DEF Advance, TypeOK, MayRun, Pending, Running
    <3>2. \A d \in Calls : Page(d)' = Page(d)
      BY <1>4 DEF Page
    <3> QED BY <1>4, <3>1, <3>2 DEF Served, Returned
  <2> QED BY <2>1, <2>2, TaskShape
<1>7. \/ UNCHANGED disk
      \/ \E w \in Roots : disk' = [disk EXCEPT ![w][Page(c)] = c]
  <2>1. \/ UNCHANGED disk
        \/ phase[c] = "writing" /\ disk' = [disk EXCEPT ![target[c]][Page(c)] = c]
    BY TaskEffect
  <2> QED BY <2>1 DEF TypeOK
<1>8. Lines!First(Page(c)) = c
  BY <1>2, <1>3 DEF Lines!First
<1> QED BY <1>2, <1>3, <1>5, <1>6, <1>7, <1>8
        DEF Lines!Serve, Lines!Land, Lines!Return

\* Every step of the queue is a step of the abstract lines or leaves them alone.
LEMMA StepRefines ==
  TypeOK /\ TypeOK' /\ ChainInv /\ RevisionInv /\ LineInv /\ [Next]_vars
    => [Lines!Next]_(Lines!vars)
<1> SUFFICES ASSUME TypeOK, TypeOK', ChainInv, RevisionInv, LineInv, [Next]_vars
             PROVE  [Lines!Next]_(Lines!vars)
  OBVIOUS
<1>0. /\ phase \in [Calls -> Phases] /\ request \in [Calls -> Requests \cup {None}]
      /\ \A d \in Calls : ticket[d] > 0 => phase[d] \in Pending \cup {"settled"}
  BY TicketHolder DEF TypeOK
<1>1. ASSUME UNCHANGED <<ticket, issued>>,
             \A d \in Calls : ticket[d] > 0 =>
               request'[d] = request[d] /\ (phase'[d] = "settled" <=> phase[d] = "settled"),
             \A d \in Calls : phase'[d] \in {"idle", "created"} =>
               phase[d] \in {"idle", "created"}
      PROVE  Line' = Line /\ Served' = Served
  BY <1>1, LineKept, LineQuiet
<1>2. ASSUME NEW c \in Calls, NEW k \in Pages, NEW kind \in Kinds, CreateRevision(c, k, kind)
      PROVE  UNCHANGED Lines!vars
  BY <1>0, <1>1, <1>2 DEF CreateRevision, chainVars, Pending, Running, Lines!vars
<1>3. ASSUME NEW c \in Calls, NEW k \in Pages, EnqueuePlain(c, k) PROVE Lines!Next
  <2>1. request'[c].page = k /\ \A d \in Calls \ {c} : request'[d] = request[d]
    BY <1>0, <1>3 DEF EnqueuePlain
  <2>2. Lines!Submit(c, k)
    BY <1>3, <2>1, EnqueueSubmits DEF EnqueuePlain
  <2> QED BY <2>2 DEF Lines!Next
<1>4. ASSUME NEW c \in Calls, EnqueueRevised(c) PROVE Lines!Next
  <2>1. Page(c) \in Pages
    BY <1>4 DEF EnqueueRevised, TypeOK, Page, Requests
  <2>2. Lines!Submit(c, Page(c))
    BY <1>4, <2>1, EnqueueSubmits DEF EnqueueRevised, Page
  <2> QED BY <2>1, <2>2 DEF Lines!Next
<1>5. ASSUME NEW c \in Calls, NEW s, NEW o, AbandonRevision(c, s, o)
      PROVE  UNCHANGED Lines!vars
  BY <1>0, <1>1, <1>5 DEF AbandonRevision, chainVars, Pending, Running, Lines!vars
<1>6. ASSUME NEW c \in Calls, Task(c) PROVE Lines!Next
  <2>1. Page(c) \in Pages
    BY <1>6, TaskShape, FirstOfLine
  <2> QED BY <1>6, <2>1, TaskServes DEF Lines!Next
<1>7. ASSUME NEW w \in Roots, SwitchRoot(w) PROVE UNCHANGED Lines!vars
  BY <1>1, <1>7 DEF SwitchRoot, Lines!vars
<1>8. ASSUME NEW w \in Roots, NEW k \in Pages, NEW x \in Foreign, ForeignWrite(w, k, x)
      PROVE  Lines!Next
  BY <1>1, <1>8 DEF ForeignWrite, Lines!Next, Lines!Outside
<1>9. CASE UNCHANGED vars
  BY <1>1, <1>9 DEF vars, Lines!vars
<1> QED BY <1>2, <1>3, <1>4, <1>5, <1>6, <1>7, <1>8, <1>9 DEF Next, Caller, Environment

-----------------------------------------------------------------------------
(***************************************************************************)
(* Settlement.                                                             *)
(***************************************************************************)
\* What a turn of a task has to do with the results and the target: a revised
\* task starts with the accepted revision, a guarded write goes to the root of
\* its request, and what is confirmed has just landed or landed before.
LEMMA TaskOutcome ==
  ASSUME TypeOK, ChainInv, RevisionInv, NEW c \in Calls, result[c] # "saved", Task(c)
  PROVE  /\ UNCHANGED <<ticket, issued>>
         /\ \A d \in Calls \ {c} : result'[d] = result[d] /\ target'[d] = target[d]
         /\ phase'[c] \in Running /\ phase[c] \notin Running /\ IsRevised(c) =>
              accepted[Page(c)] = Revision(c)
         /\ phase'[c] = "writing" /\ IsGuarded(c) => target'[c] = request[c].root
         /\ result'[c] = "saved" => phase'[c] = "settled"
         /\ phase'[c] = "verifying" \/ result'[c] = "saved" =>
              /\ target' = target
              /\ \/ phase[c] = "writing" /\ disk' = [disk EXCEPT ![target[c]][Page(c)] = c]
                 \/ phase[c] = "verifying" /\ disk' = disk
<1> USE DEF Settle, Advance, Running, FinishWriteResult, BeginAdapterWrite, Reject,
            revisionVars, chainVars
<1>0. IsPending(c)
  BY TaskShape DEF MayRun, IsPending
<1>1. IsRevised(c) /\ ~IsStale(c) => accepted[Page(c)] = Revision(c)
  BY <1>0, FreshIsAccepted
<1>2. /\ phase \in [Calls -> Phases] /\ result \in [Calls -> Results \cup {None}]
      /\ target \in [Calls -> Roots \cup {None}]
  BY DEF TypeOK
<1>3. CASE StartTask(c)
  BY <1>1, <1>2, <1>3 DEF StartTask, CanStart
<1>4. CASE \E b \in BOOLEAN : BeforeWrite(c, b)
  BY <1>1, <1>2, <1>4 DEF BeforeWrite
<1>5. CASE \E o \in {"ok", "blocked", "error"} : Validate(c, o)
  BY <1>1, <1>2, <1>5 DEF Validate, ContextChanged
<1>6. CASE \E ok, landed \in BOOLEAN : AdapterSettles(c, ok, landed)
  BY <1>2, <1>6 DEF AdapterSettles
<1>7. CASE \E ok \in BOOLEAN : VerifyReadback(c, ok)
  BY <1>2, <1>7 DEF VerifyReadback
<1> QED BY <1>3, <1>4, <1>5, <1>6, <1>7 DEF Task

\* Steps that neither run a task nor change files or accept a revision.
LEMMA LatestQuiet ==
  ASSUME TypeOK, DiskInv, LineInv, LatestInv, UNCHANGED <<accepted, target, disk>>,
         NEW c \in Calls, phase[c] \in {"idle", "created"},
         result'[c] # "saved", phase'[c] \notin Running,
         ticket'[c] > 0 => ~IsRevised(c)', phase'[c] = "created" => IsRevised(c)',
         \A d \in Calls \ {c} :
           /\ request'[d] = request[d] /\ phase'[d] = phase[d]
           /\ result'[d] = result[d] /\ ticket'[d] = ticket[d]
  PROVE  LatestInv'
<1> USE DEF Page, Revision, IsRevised
<1>1. \A d \in Calls : result'[d] = "saved" => phase'[d] = "settled" /\ ticket'[d] > 0
  BY DEF LatestInv
<1>2. \A d \in Calls : phase'[d] = "verifying" \/ result'[d] = "saved" => target'[d] \in Roots
  BY DEF LatestInv, Running
<1>3. ASSUME NEW e \in Calls, ticket'[e] > 0, IsRevised(e)', accepted'[Page(e)'] = Revision(e)'
      PROVE  /\ \A d \in Calls : phase'[d] \in Running /\ IsRevised(d)' /\ Page(d)' = Page(e)' =>
                  d = e \/ ticket'[d] < ticket'[e]
             /\ phase'[e] = "verifying" \/ result'[e] = "saved" => StillHolds(e)'
  <2>1. e # c /\ ticket[e] > 0 /\ IsRevised(e) /\ accepted[Page(e)] = Revision(e)
    BY <1>3
  <2>2. Page(e) \in Pages
    BY <2>1, TicketHolder
  <2>3. ASSUME phase'[e] = "verifying" \/ result'[e] = "saved" PROVE StillHolds(e)'
    <3>1. StillHolds(e) /\ target[e] \in Roots
      BY <2>1, <2>3 DEF LatestInv
    <3>2. disk[target[e]][Page(e)] \in Calls => disk[target[e]][Page(e)] # c
      BY <2>2, <3>1 DEF DiskInv
    <3> QED BY <2>1, <3>1, <3>2 DEF StillHolds
  <2>4. \A d \in Calls : phase'[d] \in Running => d # c /\ phase[d] \in Running
    OBVIOUS
  <2> QED BY <2>1, <2>3, <2>4 DEF LatestInv
<1>4. \A d \in Calls : phase'[d] = "created" => IsRevised(d)'
  BY DEF LatestInv
<1> HIDE DEF Page, Revision, IsRevised
<1> QED BY <1>1, <1>2, <1>3, <1>4 DEF LatestInv

\* Accepting a revision: the request that is queued now is behind all others.
LEMMA LatestEnqueue ==
  ASSUME TypeOK, RevisionInv, DiskInv, LineInv, LatestInv, NEW c \in Calls, EnqueueRevised(c)
  PROVE  LatestInv'
<1> USE DEF Page, Revision, IsRevised
<1>1. /\ phase[c] = "created" /\ phase'[c] = "queued"
      /\ UNCHANGED <<request, target, result, disk>>
      /\ \A d \in Calls \ {c} : phase'[d] = phase[d] /\ ticket'[d] = ticket[d]
      /\ ticket[c] = 0 /\ ticket'[c] = issued[Page(c)] + 1 /\ Page(c) \in Pages
  BY DEF EnqueueRevised, Chained, TypeOK, Requests, LineInv
<1>2. \A k \in Pages : \/ accepted'[k] = accepted[k]
                       \/ k = Page(c) /\ accepted'[k] = Revision(c)
  BY <1>1 DEF EnqueueRevised, AcceptedAtEnqueue, TypeOK
<1>3. result[c] # "saved"
  BY <1>1 DEF LatestInv
<1>0. IsRevised(c) /\ \A d \in Calls : phase'[d] = "created" => IsRevised(d)'
  BY <1>1 DEF LatestInv
<1>4. \A d \in Calls : result'[d] = "saved" => phase'[d] = "settled" /\ ticket'[d] > 0
  BY <1>1, <1>3 DEF LatestInv
<1>5. \A d \in Calls : phase'[d] = "verifying" \/ result'[d] = "saved" => target'[d] \in Roots
  BY <1>1 DEF LatestInv
<1>6. ASSUME NEW e \in Calls, ticket'[e] > 0, IsRevised(e)', accepted'[Page(e)'] = Revision(e)'
      PROVE  /\ \A d \in Calls : phase'[d] \in Running /\ IsRevised(d)' /\ Page(d)' = Page(e)' =>
                  d = e \/ ticket'[d] < ticket'[e]
             /\ phase'[e] = "verifying" \/ result'[e] = "saved" => StillHolds(e)'
  <2>1. CASE e = c
    <3>1. ASSUME NEW d \in Calls, phase'[d] \in Running, Page(d) = Page(c)
          PROVE  ticket'[d] < ticket'[c]
      <4>1. d # c /\ phase[d] \in Running
        BY <1>1, <3>1 DEF Running
      <4>2. ticket[d] \in Nat /\ issued[Page(c)] \in Nat
        BY <1>1 DEF TypeOK
      <4>3. ticket[d] > 0 => ticket[d] <= issued[Page(c)]
        BY <3>1 DEF LineInv
      <4> QED BY <1>1, <4>1, <4>2, <4>3
    <3> QED BY <1>1, <1>3, <2>1, <3>1
  <2>2. CASE e # c
    <3>1. phase[e] # "idle" /\ ticket[e] > 0 /\ Page(e) \in Pages
      BY <1>1, <1>6, <2>2, TicketHolder DEF Pending, Running
    <3>2. accepted[Page(e)] = Revision(e)
      <4>1. ~(Page(e) = Page(c) /\ Revision(e) = Revision(c))
        BY <1>0, <1>1, <1>6, <2>2, <3>1 DEF RevisionInv
      <4> QED BY <1>1, <1>2, <1>6, <3>1, <4>1
    <3>3. ASSUME phase'[e] = "verifying" \/ result'[e] = "saved" PROVE StillHolds(e)'
      <4>1. StillHolds(e) /\ target[e] \in Roots
        BY <1>1, <1>6, <2>2, <3>1, <3>2, <3>3 DEF LatestInv
      <4>2. disk[target[e]][Page(e)] \in Calls => disk[target[e]][Page(e)] # c
        BY <1>1, <3>1, <4>1 DEF DiskInv
      <4> QED BY <1>1, <2>2, <4>1, <4>2 DEF StillHolds
    <3>4. \A d \in Calls : phase'[d] \in Running => d # c /\ phase[d] \in Running
      BY <1>1 DEF Running
    <3> QED BY <1>1, <1>6, <2>2, <3>1, <3>2, <3>3, <3>4 DEF LatestInv
  <2> QED BY <2>1, <2>2
<1> HIDE DEF Page, Revision, IsRevised
<1> QED BY <1>0, <1>4, <1>5, <1>6 DEF LatestInv

\* A task that writes over the last accepted revision is unrevisioned and was
\* queued after it.
LEMMA LatestTask ==
  ASSUME TypeOK, ChainInv, RevisionInv, LineInv, LatestInv, NEW c \in Calls, Task(c)
  PROVE  LatestInv'
<1> USE DEF Page, Revision, IsRevised
<1>1. /\ UNCHANGED <<accepted, request>>
      /\ phase' = [phase EXCEPT ![c] = phase'[c]]
      /\ phase'[c] \in Running \cup {"settled"}
      /\ \/ phase[c] # "writing" /\ UNCHANGED disk
         \/ /\ phase[c] = "writing"
            /\ UNCHANGED disk \/ disk' = [disk EXCEPT ![target[c]][Page(c)] = c]
  BY TaskEffect
<1>2. MayRun(c) /\ phase[c] \in Pending /\ phase[c] # "settled"
  BY TaskShape DEF MayRun, Pending, Running
<1>3. result[c] # "saved"
  BY <1>2 DEF LatestInv
<1>4. /\ UNCHANGED <<ticket, issued>>
      /\ \A d \in Calls \ {c} : result'[d] = result[d] /\ target'[d] = target[d]
      /\ phase'[c] \in Running /\ phase[c] \notin Running /\ IsRevised(c) =>
           accepted[Page(c)] = Revision(c)
      /\ result'[c] = "saved" => phase'[c] = "settled"
      /\ phase'[c] = "verifying" \/ result'[c] = "saved" =>
           /\ target' = target
           /\ \/ phase[c] = "writing" /\ disk' = [disk EXCEPT ![target[c]][Page(c)] = c]
              \/ phase[c] = "verifying" /\ disk' = disk
  BY <1>3, TaskOutcome
<1>5. Page(c) \in Pages /\ ticket[c] = Served[Page(c)] + 1 /\ Served[Page(c)] \in Nat
      /\ ticket \in [Calls -> Nat]
  BY <1>2, FirstOfLine DEF LineInv, TypeOK
<1>6. \A d \in Calls \ {c} : phase'[d] = phase[d]
  BY <1>1 DEF TypeOK
<1>7. \A d \in Calls : result'[d] = "saved" => phase'[d] = "settled" /\ ticket'[d] > 0
  BY <1>4, <1>5, <1>6 DEF LatestInv
<1>8. \A d \in Calls : phase'[d] = "verifying" \/ result'[d] = "saved" => target'[d] \in Roots
  BY <1>4, <1>6 DEF LatestInv, TypeOK
<1>9. ASSUME NEW e \in Calls, ticket[e] > 0, IsRevised(e), accepted[Page(e)] = Revision(e)
      PROVE  \A d \in Calls : phase'[d] \in Running /\ IsRevised(d) /\ Page(d) = Page(e) =>
               d = e \/ ticket[d] < ticket[e]
  <2> SUFFICES ASSUME NEW d \in Calls, phase'[d] \in Running, IsRevised(d), Page(d) = Page(e), d # e
               PROVE  ticket[d] < ticket[e]
    OBVIOUS
  <2>1. CASE phase[d] \in Running
    BY <1>9, <2>1 DEF LatestInv
  <2>2. CASE phase[d] \notin Running
    <3>1. d = c /\ accepted[Page(c)] = Revision(c)
      BY <1>4, <1>6, <2>2
    <3>2. phase[e] # "idle" /\ phase[c] # "idle"
      BY <1>2, <1>9, TicketHolder DEF Pending, Running
    <3> QED BY <1>9, <3>1, <3>2 DEF RevisionInv
  <2> QED BY <2>1, <2>2
<1>10. ASSUME NEW e \in Calls, ticket[e] > 0, IsRevised(e), accepted[Page(e)] = Revision(e),
              phase'[e] = "verifying" \/ result'[e] = "saved"
       PROVE  StillHolds(e)'
  <2>1. CASE e = c
    <3>1. CASE phase[c] = "writing"
      <4>1. target[c] \in Roots /\ disk' = [disk EXCEPT ![target[c]][Page(c)] = c]
            /\ target' = target
        BY <1>4, <1>10, <2>1, <3>1 DEF TypeOK
      <4> QED BY <1>1, <1>5, <2>1, <4>1 DEF StillHolds, TypeOK
    <3>2. CASE phase[c] = "verifying"
      <4>1. StillHolds(c) /\ target' = target /\ disk' = disk
        BY <1>4, <1>10, <2>1, <3>2 DEF LatestInv
      <4> QED BY <1>1, <1>4, <2>1, <4>1 DEF StillHolds
    <3> QED BY <1>4, <1>10, <2>1, <3>1, <3>2
  <2>2. CASE e # c
    <3>1. /\ phase[e] = "verifying" \/ result[e] = "saved"
          /\ StillHolds(e) /\ target[e] \in Roots /\ target'[e] = target[e]
      BY <1>4, <1>6, <1>10, <2>2 DEF LatestInv
    <3>2. CASE UNCHANGED disk
      BY <1>1, <1>4, <3>1, <3>2 DEF StillHolds
    <3>3. CASE phase[c] = "writing" /\ disk' = [disk EXCEPT ![target[c]][Page(c)] = c]
      <4>1. CASE target[e] = target[c] /\ Page(e) = Page(c)
        <5>1. phase[e] # "verifying"
          BY <2>2, <3>3, <4>1, ChainGivesOneWriter DEF OneWriterPerPage, Running
        <5>2. phase[e] = "settled"
          BY <3>1, <5>1 DEF LatestInv
        <5>3. ticket[e] <= Served[Page(c)]
          BY <1>10, <4>1, <5>2 DEF LineInv
        <5>4. ticket[e] < ticket[c]
          BY <1>5, <5>3
        <5>5. ~IsRevised(c)
          <6>1. IsRevised(c) => ticket[c] < ticket[e]
            BY <1>10, <2>2, <3>3, <4>1 DEF LatestInv, Running
          <6> QED BY <1>5, <5>4, <6>1
        <5>6. disk'[target[e]][Page(e)] = c
          BY <1>5, <3>1, <3>3, <4>1 DEF TypeOK
        <5> QED BY <1>1, <1>4, <3>1, <5>4, <5>5, <5>6 DEF StillHolds
      <4>2. CASE ~(target[e] = target[c] /\ Page(e) = Page(c))
        <5>1. Page(e) \in Pages
          BY <1>10, TicketHolder
        <5>2. disk'[target[e]][Page(e)] = disk[target[e]][Page(e)]
          BY <3>1, <3>3, <4>2, <5>1 DEF TypeOK
        <5> QED BY <1>1, <1>4, <3>1, <5>2 DEF StillHolds
      <4> QED BY <4>1, <4>2
    <3> QED BY <1>1, <3>2, <3>3
  <2> QED BY <2>1, <2>2
<1>12. \A d \in Calls : phase'[d] = "created" => phase[d] = "created"
  BY <1>1, <1>6 DEF Running
<1> HIDE DEF Page, Revision, IsRevised
<1>11. \A d \in Calls : /\ Page(d)' = Page(d) /\ Revision(d)' = Revision(d)
                        /\ IsRevised(d)' <=> IsRevised(d)
  BY <1>1 DEF Page, Revision, IsRevised
<1> QED BY <1>1, <1>4, <1>7, <1>8, <1>9, <1>10, <1>11, <1>12 DEF LatestInv

\* Every step keeps the invariant of the request that was accepted last.
LEMMA LatestStep ==
  WriteQueueInv /\ LineInv /\ LatestInv /\ [Next]_vars => LatestInv'
<1> SUFFICES ASSUME WriteQueueInv, LineInv, LatestInv, [Next]_vars PROVE LatestInv'
  OBVIOUS
<1> USE DEF WriteQueueInv
<1>0. /\ phase \in [Calls -> Phases] /\ request \in [Calls -> Requests \cup {None}]
      /\ result \in [Calls -> Results \cup {None}] /\ ticket \in [Calls -> Nat]
  BY DEF TypeOK
<1>1. ASSUME NEW c \in Calls, NEW k \in Pages, NEW kind \in Kinds, CreateRevision(c, k, kind)
      PROVE  LatestInv'
  <2>1. /\ phase[c] = "idle" /\ phase'[c] = "created" /\ IsRevised(c)'
        /\ ticket'[c] = 0 /\ result'[c] # "saved"
        /\ UNCHANGED <<accepted, target, disk, result, ticket>>
    BY <1>0, <1>1 DEF CreateRevision, chainVars, LineInv, LatestInv, IsRevised
  <2>2. \A d \in Calls \ {c} : request'[d] = request[d] /\ phase'[d] = phase[d]
    BY <1>0, <1>1 DEF CreateRevision
  <2> QED BY <2>1, <2>2, LatestQuiet DEF Running
<1>2. ASSUME NEW c \in Calls, NEW k \in Pages, EnqueuePlain(c, k) PROVE LatestInv'
  <2>1. /\ phase[c] = "idle" /\ phase'[c] = "queued" /\ ~IsRevised(c)'
        /\ result'[c] # "saved" /\ UNCHANGED <<accepted, target, disk, result>>
    BY <1>0, <1>2 DEF EnqueuePlain, revisionVars, LatestInv, IsRevised
  <2>2. \A d \in Calls \ {c} : /\ request'[d] = request[d] /\ phase'[d] = phase[d]
                               /\ ticket'[d] = ticket[d]
    BY <1>0, <1>2 DEF EnqueuePlain, Chained
  <2> QED BY <2>1, <2>2, LatestQuiet DEF Running
<1>3. ASSUME NEW c \in Calls, EnqueueRevised(c) PROVE LatestInv'
  BY <1>3, LatestEnqueue
<1>4. ASSUME NEW c \in Calls, NEW s, NEW o \in Results \ {"saved"}, AbandonRevision(c, s, o)
      PROVE  LatestInv'
  <2>1. /\ phase[c] = "created" /\ phase'[c] = "settled" /\ ticket'[c] = 0
        /\ result'[c] # "saved" /\ UNCHANGED <<accepted, target, disk, request, ticket>>
    BY <1>0, <1>4 DEF AbandonRevision, chainVars, LineInv
  <2>2. \A d \in Calls \ {c} : phase'[d] = phase[d] /\ result'[d] = result[d]
    BY <1>0, <1>4 DEF AbandonRevision
  <2> QED BY <2>1, <2>2, LatestQuiet DEF Running
<1>5. ASSUME NEW c \in Calls, Task(c) PROVE LatestInv'
  BY <1>5, LatestTask
<1>6. ASSUME NEW w \in Roots, SwitchRoot(w) PROVE LatestInv'
  BY <1>6 DEF SwitchRoot, LatestInv, StillHolds, Page, Revision, IsRevised
<1>7. ASSUME NEW w \in Roots, NEW k \in Pages, NEW x \in Foreign, ForeignWrite(w, k, x)
      PROVE  LatestInv'
  <2>1. /\ \A v \in Roots, p \in Pages : disk'[v][p] = IF v = w /\ p = k THEN x ELSE disk[v][p]
        /\ UNCHANGED <<phase, request, accepted, result, ticket, target>>
    BY <1>7 DEF ForeignWrite, TypeOK
  <2>2. ASSUME NEW e \in Calls, ticket[e] > 0, target[e] \in Roots, StillHolds(e)
        PROVE  StillHolds(e)'
    <3>1. Page(e) \in Pages
      BY <2>2, TicketHolder
    <3> QED BY <2>1, <2>2, <3>1 DEF StillHolds, Page, IsRevised
  <2> HIDE DEF WriteQueueInv
  <2>3. \A d \in Calls : /\ Page(d)' = Page(d) /\ Revision(d)' = Revision(d)
                         /\ IsRevised(d)' <=> IsRevised(d)
    BY <2>1 DEF Page, Revision, IsRevised
  <2> QED BY <2>1, <2>2, <2>3 DEF LatestInv
<1>8. CASE UNCHANGED vars
  BY <1>8 DEF vars, LatestInv, StillHolds, Page, Revision, IsRevised
<1>9. /\ "blocked" \in Results \ {"saved"} /\ "workspace-changed" \in Results \ {"saved"}
      /\ "error" \in Results \ {"saved"}
  BY DEF Results
<1>10. ASSUME NEW c \in Calls, Caller(c) PROVE LatestInv'
  BY <1>1, <1>2, <1>3, <1>4, <1>9, <1>10 DEF Caller
<1> QED BY <1>5, <1>6, <1>7, <1>8, <1>10 DEF Next, Environment

\* Every step keeps guarded writes in the workspace of their command.
LEMMA ContextStep ==
  WriteQueueInv /\ LatestInv /\ ContextInv /\ GuardedWriteKeepsWorkspace /\ [Next]_vars
    => ContextInv' /\ GuardedWriteKeepsWorkspace'
<1> SUFFICES ASSUME WriteQueueInv, LatestInv, ContextInv, GuardedWriteKeepsWorkspace, [Next]_vars
             PROVE  ContextInv' /\ GuardedWriteKeepsWorkspace'
  OBVIOUS
<1> USE DEF WriteQueueInv, IsGuarded
<1>0. /\ phase \in [Calls -> Phases] /\ request \in [Calls -> Requests \cup {None}]
      /\ disk \in [Roots -> [Pages -> Contents]]
  BY DEF TypeOK
\* A request that is in a file or writes keeps its workspace.
<1>1. ASSUME UNCHANGED <<disk, target>>,
             \A d \in Calls : phase[d] \in {"writing", "verifying", "settled"} =>
               request'[d] = request[d],
             \A d \in Calls : phase'[d] = "writing" => phase[d] = "writing"
      PROVE  ContextInv' /\ GuardedWriteKeepsWorkspace'
  BY <1>1 DEF ContextInv, GuardedWriteKeepsWorkspace, DiskInv
<1>2. ASSUME NEW c \in Calls, NEW k \in Pages, NEW kind \in Kinds, CreateRevision(c, k, kind)
      PROVE  ContextInv' /\ GuardedWriteKeepsWorkspace'
  BY <1>0, <1>1, <1>2 DEF CreateRevision
<1>3. ASSUME NEW c \in Calls, NEW k \in Pages, EnqueuePlain(c, k)
      PROVE  ContextInv' /\ GuardedWriteKeepsWorkspace'
  BY <1>0, <1>1, <1>3 DEF EnqueuePlain
<1>4. ASSUME NEW c \in Calls, EnqueueRevised(c)
      PROVE  ContextInv' /\ GuardedWriteKeepsWorkspace'
  BY <1>0, <1>1, <1>4 DEF EnqueueRevised
<1>5. ASSUME NEW c \in Calls, NEW s, NEW o, AbandonRevision(c, s, o)
      PROVE  ContextInv' /\ GuardedWriteKeepsWorkspace'
  BY <1>0, <1>1, <1>5 DEF AbandonRevision
<1>6. ASSUME NEW c \in Calls, Task(c) PROVE ContextInv' /\ GuardedWriteKeepsWorkspace'
  <2>1. /\ UNCHANGED request /\ phase' = [phase EXCEPT ![c] = phase'[c]]
        /\ \/ phase[c] # "writing" /\ UNCHANGED disk
           \/ /\ phase[c] = "writing" /\ phase'[c] # "writing"
              /\ UNCHANGED disk \/ disk' = [disk EXCEPT ![target[c]][Page(c)] = c]
    BY <1>6, TaskEffect
  <2>2. result[c] # "saved"
    BY <1>6, TaskShape DEF LatestInv, MayRun, Pending, Running
  <2>3. /\ \A d \in Calls \ {c} : target'[d] = target[d]
        /\ phase'[c] = "writing" /\ IsGuarded(c) => target'[c] = request[c].root
    BY <1>6, <2>2, TaskOutcome
  <2>4. ContextInv'
    BY <1>0, <2>1, <2>3 DEF ContextInv
  <2>5. ASSUME NEW w \in Roots, NEW k \in Pages, disk'[w][k] \in Calls, IsGuarded(disk'[w][k])
        PROVE  w = request[disk'[w][k]].root
    <3>1. CASE disk'[w][k] = disk[w][k]
      BY <2>5, <3>1 DEF GuardedWriteKeepsWorkspace
    <3>2. CASE disk'[w][k] # disk[w][k]
      <4>1. phase[c] = "writing" /\ w = target[c] /\ disk'[w][k] = c
        BY <1>0, <2>1, <3>2
      <4> QED BY <2>5, <4>1 DEF ContextInv
    <3> QED BY <3>1, <3>2
  <2>6. GuardedWriteKeepsWorkspace'
    BY <2>1, <2>5 DEF GuardedWriteKeepsWorkspace
  <2> QED BY <2>4, <2>6
<1>7. ASSUME NEW w \in Roots, SwitchRoot(w) PROVE ContextInv' /\ GuardedWriteKeepsWorkspace'
  BY <1>1, <1>7 DEF SwitchRoot
<1>8. ASSUME NEW w \in Roots, NEW k \in Pages, NEW x \in Foreign, ForeignWrite(w, k, x)
      PROVE  ContextInv' /\ GuardedWriteKeepsWorkspace'
  BY <1>0, <1>8 DEF ForeignWrite, ContextInv, GuardedWriteKeepsWorkspace
<1>9. CASE UNCHANGED vars
  BY <1>1, <1>9 DEF vars
<1> QED BY <1>2, <1>3, <1>4, <1>5, <1>6, <1>7, <1>8, <1>9 DEF Next, Caller, Environment

\* Saved results, lines and workspaces: what the chain, the revisions and the
\* files together give.
THEOREM SettlementInvariance == Spec => []SettlementInv
<1>1. Init => SettlementInv
  <2> SUFFICES ASSUME Init PROVE SettlementInv
    OBVIOUS
  <2> USE DEF Init
  <2>1. \A k \in Pages : Returned(k) = {}
    BY DEF Returned
  <2>2. \A k \in Pages : IsFiniteSet(Returned(k)) /\ Served[k] = 0
    BY <2>1, FS_EmptySet DEF Served
  <2>3. LineInv
    BY <2>2 DEF LineInv
  <2>4. LatestInv /\ ContextInv /\ GuardedWriteKeepsWorkspace
    BY ResultAssumption DEF LatestInv, ContextInv, GuardedWriteKeepsWorkspace, Results
  <2> QED BY <2>3, <2>4 DEF SettlementInv
<1>2. WriteQueueInv /\ SettlementInv /\ [Next]_vars => SettlementInv'
  BY LineStep, LatestStep, ContextStep DEF WriteQueueInv, SettlementInv
<1> QED BY <1>1, <1>2, Invariance, PTL DEF Spec

\* What the queue has reported saved is in the file while no newer revision of
\* the page was accepted, unless an unrevisioned write queued later, or another
\* program, replaced it.
THEOREM SavedIsSettled == Spec => []SettlementSafety
<1>1. SettlementInv => SettlementSafety
  BY DEF SettlementInv, LatestInv, SettlementSafety
<1> QED BY <1>1, SettlementInvariance, PTL

\* No guarded write reaches another workspace than that of its command.
THEOREM GuardedWritesKeepTheirWorkspace == Spec => []GuardedWriteKeepsWorkspace
<1>1. SettlementInv => GuardedWriteKeepsWorkspace
  BY DEF SettlementInv
<1> QED BY <1>1, SettlementInvariance, PTL

\* The chains of promises implement one line of requests per page: only the
\* first that has not returned may change the page's file.
THEOREM QueueImplementsLines == Spec => Lines!Safety
<1>1. Init => Lines!Init
  <2> SUFFICES ASSUME Init PROVE Lines!Init
    OBVIOUS
  <2>1. Line = [k \in Pages |-> <<>>]
    BY DEF Init, Line
  <2>2. \A k \in Pages : Returned(k) = {}
    BY DEF Init, Returned
  <2>3. Served = [k \in Pages |-> 0]
    BY <2>2, FS_EmptySet DEF Served
  <2>4. disk \in [Roots -> [Pages -> Foreign]]
    BY DEF Init
  <2> QED BY <2>1, <2>3, <2>4 DEF Lines!Init
<1>2. WriteQueueInv /\ WriteQueueInv' /\ SettlementInv /\ [Next]_vars
        => [Lines!Next]_(Lines!vars)
  BY StepRefines DEF WriteQueueInv, SettlementInv
<1> QED BY <1>1, <1>2, Invariance, SettlementInvariance, PTL DEF Spec, Lines!Safety

-----------------------------------------------------------------------------
(***************************************************************************)
(* Page commands.                                                          *)
(***************************************************************************)
HIDE QueueAssumption
USE UndoAssumption

Entries == [page : Pages, content : Contents]

\* The last MaxUndo entries of a stack are a stack of at most that many.
LEMMA LastEntriesType ==
  ASSUME NEW s \in Seq(Entries)
  PROVE  /\ LastEntries(s) \in Seq(Entries) /\ Len(LastEntries(s)) <= MaxUndo
         /\ \A i \in 1..Len(LastEntries(s)) :
              \E j \in 1..Len(s) : LastEntries(s)[i] = s[j]
<1> DEFINE m == IF Len(s) > MaxUndo THEN Len(s) - MaxUndo + 1 ELSE 1
<1>1. m \in Int /\ Len(s) \in Int /\ m >= 1 /\ Len(s) <= MaxUndo + m - 1
  OBVIOUS
<1>2. \A i \in m..Len(s) : s[i] \in Entries
  BY <1>1
<1>3. /\ SubSeq(s, m, Len(s)) \in Seq(Entries)
      /\ Len(SubSeq(s, m, Len(s))) = IF m <= Len(s) THEN Len(s) - m + 1 ELSE 0
      /\ \A i \in 1..Len(s) - m + 1 : SubSeq(s, m, Len(s))[i] = s[m + i - 1]
  BY <1>1, <1>2, SubSeqProperties
<1>4. LastEntries(s) = SubSeq(s, m, Len(s))
  BY DEF LastEntries
<1> HIDE DEF m
<1>5. \A i \in 1..Len(LastEntries(s)) : m + i - 1 \in 1..Len(s) /\ LastEntries(s)[i] = s[m + i - 1]
  BY <1>1, <1>3, <1>4
<1>6. Len(LastEntries(s)) <= MaxUndo
  BY <1>1, <1>3, <1>4
<1> QED BY <1>3, <1>4, <1>5, <1>6

\* Dropping the last entry leaves a stack of entries that were there before.
LEMMA DropLastType ==
  ASSUME NEW s \in Seq(Entries), s # <<>>, Len(s) <= MaxUndo
  PROVE  /\ SubSeq(s, 1, Len(s) - 1) \in Seq(Entries)
         /\ Len(SubSeq(s, 1, Len(s) - 1)) = Len(s) - 1
         /\ Len(SubSeq(s, 1, Len(s) - 1)) <= MaxUndo
         /\ \A i \in 1..Len(s) - 1 : SubSeq(s, 1, Len(s) - 1)[i] = s[i]
         /\ s[Len(s)] \in Entries
<1>1. Len(s) \in Nat \ {0}
  BY EmptySeq
<1>2. \A i \in 1..Len(s) - 1 : s[i] \in Entries
  BY <1>1
<1>3. /\ SubSeq(s, 1, Len(s) - 1) \in Seq(Entries)
      /\ Len(SubSeq(s, 1, Len(s) - 1)) = IF 1 <= Len(s) - 1 THEN Len(s) - 1 - 1 + 1 ELSE 0
      /\ \A i \in 1..Len(s) - 1 - 1 + 1 : SubSeq(s, 1, Len(s) - 1)[i] = s[1 + i - 1]
  BY <1>1, <1>2, SubSeqProperties
<1>4. \A i \in 1..Len(s) - 1 : i \in 1..Len(s) - 1 - 1 + 1 /\ 1 + i - 1 = i
  BY <1>1
<1>5. Len(SubSeq(s, 1, Len(s) - 1)) = Len(s) - 1 /\ Len(s) - 1 <= MaxUndo
  <2> DEFINE l == Len(s)
             t == Len(SubSeq(s, 1, Len(s) - 1))
  <2>1. l \in Nat \ {0} /\ l <= MaxUndo /\ t = IF 1 <= l - 1 THEN l - 1 - 1 + 1 ELSE 0
    BY <1>1, <1>3
  <2> HIDE DEF l, t
  <2>2. t = l - 1 /\ l - 1 <= MaxUndo
    BY <2>1
  <2> QED BY <2>2 DEF l, t
<1>6. \A i \in 1..Len(s) - 1 : SubSeq(s, 1, Len(s) - 1)[i] = s[i]
  BY <1>3, <1>4
<1>7. s[Len(s)] \in Entries
  BY <1>1
<1> QED BY <1>3, <1>5, <1>6, <1>7

\* What a command does to the queue's variables is a step of the queue.
LEMMA CommandStepIsQueueStep == CommandTypeOK /\ [CommandNext]_allVars => [Next]_vars
<1> SUFFICES ASSUME CommandTypeOK, [CommandNext]_allVars PROVE [Next]_vars
  OBVIOUS
<1>1. ASSUME NEW c \in Calls, Command(c) PROVE Caller(c)
  <2>1. CASE \E k \in Pages, kind \in Kinds, e \in {"body", "title", "field"} :
               BeginCommand(c, k, kind, e)
    BY <2>1 DEF BeginCommand, Caller
  <2>2. CASE UndoRename(c)
    <3>1. undo[Len(undo)].page \in Pages
      BY <2>2, DropLastType DEF UndoRename, CommandTypeOK, Entries
    <3> QED BY <2>2, <3>1 DEF UndoRename, Caller
  <2> QED BY <1>1, <2>1, <2>2 DEF Command
<1>2. ASSUME NEW c \in Calls, Progress(c) PROVE Caller(c) \/ Task(c) \/ UNCHANGED vars
  BY <1>2 DEF Progress, ReadDurable, CheckPrecondition, MergeField, RunTask, Caller, Task
<1>3. ASSUME NEW c \in Calls, PreconditionReadFails(c) \/ MergeReadFails(c) PROVE Caller(c)
  BY <1>3 DEF PreconditionReadFails, MergeReadFails, Caller
<1>4. ASSUME NEW k \in Pages, NEW x \in Foreign, OutsideEdit(k, x) PROVE Environment
  BY <1>4 DEF OutsideEdit, Environment, CommandTypeOK, TypeOK
<1>5. UndoRenameThrows \/ (\E k \in Pages : OpenPage(k)) \/ UNCHANGED allVars => UNCHANGED vars
  BY DEF UndoRenameThrows, OpenPage, allVars
<1> QED BY <1>1, <1>2, <1>3, <1>4, <1>5 DEF CommandNext, Next

\* A turn of a task changes the phase and the result of its own request only.
LEMMA RunTaskEffect ==
  ASSUME WriteQueueInv, NEW c \in Calls, RunTask(c)
  PROVE  /\ UNCHANGED <<request, root>> /\ phase[c] \in Pending
         /\ phase' = [phase EXCEPT ![c] = phase'[c]]
         /\ \/ phase'[c] \in Running /\ result' = result
            \/ /\ phase'[c] = "settled" /\ result'[c] \in Results
               /\ result' = [result EXCEPT ![c] = result'[c]]
<1> USE DEF WriteQueueInv, TypeOK
<1>1. Task(c)
  BY DEF RunTask, Task
<1>2. MayRun(c) /\ ((\E o \in Results : Settle(c, o)) \/ (\E p \in Running : Advance(c, p)))
  BY <1>1, TaskShape
<1> QED BY <1>2 DEF MayRun, Settle, Advance

\* What the caller of the queue does with its result.
LEMMA DeliverEffect ==
  ASSUME CommandTypeOK, WriteQueueInv, ProgressInv, NEW c \in Calls, RunTask(c)
  PROVE  /\ \/ UNCHANGED runtime
            \/ /\ phase'[c] = "settled" /\ result'[c] = "saved"
               /\ runtime' = [runtime EXCEPT ![Page(c)] = c]
            \/ /\ before[c] \in Contents /\ IsRevised(c)
               /\ runtime' = [runtime EXCEPT ![Page(c)] = before[c]]
         /\ \/ UNCHANGED session
            \/ /\ phase'[c] = "settled" /\ result'[c] = "saved"
               /\ session' = [session EXCEPT ![Page(c)] = c]
         /\ \/ UNCHANGED undo
            \/ /\ before[c] \in Contents /\ IsRevised(c)
               /\ undo' = LastEntries(Append(undo, [page |-> Page(c), content |-> before[c]]))
<1>1. phase[c] # "idle"
  BY RunTaskEffect DEF Pending, Running
<1>2. edits[c] # "undo" => before[c] \in Contents /\ IsRevised(c)
  BY <1>1 DEF ProgressInv
<1> QED BY <1>2 DEF RunTask, Deliver, Confirmed

\* Every step of a command keeps the types.
LEMMA CommandTypeStep ==
  WriteQueueInv /\ CommandTypeOK /\ ProgressInv /\ [CommandNext]_allVars => CommandTypeOK'
<1> SUFFICES ASSUME WriteQueueInv, CommandTypeOK, ProgressInv, [CommandNext]_allVars
             PROVE  CommandTypeOK'
  OBVIOUS
<1>0. TypeOK'
  BY CommandStepIsQueueStep, TypeStep DEF CommandTypeOK
<1> USE <1>0 DEF CommandTypeOK, pageVars, commandVars
<1>1. ASSUME NEW c \in Calls, phase[c] # "idle" PROVE Page(c) \in Pages
  BY <1>1 DEF TypeOK, Page, Requests
<1>2. ASSUME NEW c \in Calls, NEW k \in Pages, NEW kind \in Kinds,
             NEW e \in {"body", "title", "field"}, BeginCommand(c, k, kind, e)
      PROVE  CommandTypeOK'
  <2>1. parts' \in [Contents -> Parts]
    BY <1>2 DEF BeginCommand, NewParts, Parts, Contents
  <2> QED BY <1>2, <2>1 DEF BeginCommand, Steps, Edits
<1>3. ASSUME NEW c \in Calls, UndoRename(c) PROVE CommandTypeOK'
  <2>1. undo[Len(undo)] \in Entries /\ SubSeq(undo, 1, Len(undo) - 1) \in Seq(Entries)
          /\ Len(SubSeq(undo, 1, Len(undo) - 1)) <= MaxUndo
    BY <1>3, DropLastType DEF UndoRename, Entries
  <2>2. parts' \in [Contents -> Parts]
    BY <1>3, <2>1 DEF UndoRename, Entries, Contents
  <2> QED BY <1>3, <2>1, <2>2 DEF UndoRename, Edits, Entries
<1>4. ASSUME NEW c \in Calls, ReadDurable(c) PROVE CommandTypeOK'
  <2>1. Page(c) \in Pages
    BY <1>1, <1>4 DEF ReadDurable, ProgressInv
  <2>2. Durable(Page(c)) \in Contents
    BY <2>1 DEF TypeOK, Durable
  <2> QED BY <1>4, <2>2 DEF ReadDurable, Steps
<1>5. ASSUME NEW c \in Calls, CheckPrecondition(c) PROVE CommandTypeOK'
  BY <1>5 DEF CheckPrecondition, LeaveStep, Steps
<1>6. ASSUME NEW c \in Calls, MergeField(c) PROVE CommandTypeOK'
  <2>1. seen[c] \in Contents
    BY <1>6 DEF MergeField, ProgressInv
  <2>2. parts' \in [Contents -> Parts]
    BY <1>6, <2>1 DEF MergeField, Parts, Contents
  <2> QED BY <1>6, <2>2 DEF MergeField, LeaveStep, Steps
<1>7. ASSUME NEW c \in Calls, RunTask(c) PROVE CommandTypeOK'
  <2>1. Page(c) \in Pages
    BY <1>1, <1>7, RunTaskEffect DEF Pending, Running
  <2>2. runtime' \in [Pages -> Contents] /\ session' \in [Pages -> Contents]
    BY <1>7, <2>1, DeliverEffect DEF Contents
  <2>3. undo' \in Seq(Entries) /\ Len(undo') <= MaxUndo
    <3>1. ASSUME before[c] \in Contents
          PROVE  Append(undo, [page |-> Page(c), content |-> before[c]]) \in Seq(Entries)
      BY <2>1, <3>1 DEF Entries
    <3> QED BY <1>7, <3>1, DeliverEffect, LastEntriesType DEF Entries
  <2> QED BY <1>7, <2>2, <2>3 DEF RunTask, Entries
<1>8. ASSUME NEW c \in Calls, PreconditionReadFails(c) PROVE CommandTypeOK'
  BY <1>8 DEF PreconditionReadFails, LeaveStep, Steps
<1>9. ASSUME NEW c \in Calls, MergeReadFails(c) PROVE CommandTypeOK'
  BY <1>9 DEF MergeReadFails, LeaveStep, Steps, AbandonRevision, ProgressInv
<1>10. CASE UndoRenameThrows
  BY <1>10, DropLastType DEF UndoRenameThrows, Entries
<1>11. ASSUME NEW k \in Pages, OpenPage(k) \/ \E x \in Foreign : OutsideEdit(k, x)
       PROVE  CommandTypeOK'
  BY <1>11 DEF OpenPage, OutsideEdit
<1>12. CASE UNCHANGED allVars
  BY <1>12 DEF allVars
<1> HIDE DEF CommandTypeOK, pageVars, commandVars
<1> QED BY <1>2, <1>3, <1>4, <1>5, <1>6, <1>7, <1>8, <1>9, <1>10, <1>11, <1>12
        DEF CommandNext, Command, Progress

-----------------------------------------------------------------------------
\* A request that has settled keeps its result.
LEMMA SettledStays ==
  ASSUME WriteQueueInv, CommandTypeOK, [CommandNext]_allVars,
         NEW d \in Calls, phase[d] = "settled"
  PROVE  phase'[d] = "settled" /\ result'[d] = result[d]
<1> USE DEF CommandTypeOK, TypeOK
<1>1. ASSUME NEW c \in Calls, RunTask(c) PROVE phase'[d] = "settled" /\ result'[d] = result[d]
  BY <1>1, RunTaskEffect DEF Pending, Running
<1>2. ASSUME NEW c \in Calls, NEW s, NEW o, AbandonRevision(c, s, o)
      PROVE  phase'[d] = "settled" /\ result'[d] = result[d]
  BY <1>2 DEF AbandonRevision
<1>3. ASSUME NEW c \in Calls, NEW k, NEW kind, CreateRevision(c, k, kind) \/ EnqueuePlain(c, k)
      PROVE  phase'[d] = "settled" /\ result'[d] = result[d]
  BY <1>3 DEF CreateRevision, EnqueuePlain
<1>4. ASSUME NEW c \in Calls, EnqueueRevised(c)
      PROVE  phase'[d] = "settled" /\ result'[d] = result[d]
  BY <1>4 DEF EnqueueRevised
<1>5. CASE UNCHANGED <<phase, result>>
  BY <1>5
<1>6. ASSUME NEW c \in Calls, Progress(c)
      PROVE  phase'[d] = "settled" /\ result'[d] = result[d]
  BY <1>1, <1>2, <1>4, <1>5, <1>6
     DEF Progress, ReadDurable, CheckPrecondition, MergeField, vars
<1> QED BY <1>1, <1>2, <1>3, <1>5, <1>6
        DEF CommandNext, Command, BeginCommand, UndoRename, PreconditionReadFails,
            MergeReadFails, UndoRenameThrows, OpenPage, OutsideEdit, ForeignWrite, allVars, vars

\* A task that has reached the file does not end as blocked or dropped.
LEMMA LateResults ==
  ASSUME WriteQueueInv, NEW c \in Calls, RunTask(c), result[c] = None,
         phase[c] \in {"writing", "verifying"}
  PROVE  result'[c] \notin {"blocked", "stale"}
<1> USE DEF WriteQueueInv, TypeOK
<1>1. None \notin {"blocked", "stale"}
  BY ResultAssumption DEF Results
<1>2. CASE \E ok, landed \in BOOLEAN : AdapterSettles(c, ok, landed)
  BY <1>1, <1>2 DEF AdapterSettles, Reject, FinishWriteResult, Settle, Advance
<1>3. CASE \E ok \in BOOLEAN : VerifyReadback(c, ok)
  BY <1>3 DEF VerifyReadback, FinishWriteResult, Settle
<1> QED BY <1>2, <1>3 DEF RunTask, StartTask, CanStart, BeforeWrite, Validate

\* Every step of a command keeps what it holds in agreement with where it is.
LEMMA ProgressStep ==
  WriteQueueInv /\ CommandTypeOK /\ ProgressInv /\ [CommandNext]_allVars => ProgressInv'
<1> SUFFICES ASSUME WriteQueueInv, CommandTypeOK, ProgressInv, [CommandNext]_allVars
             PROVE  ProgressInv'
  OBVIOUS
<1> USE DEF ProgressInv, CommandTypeOK, IsRevised, LeaveStep, pageVars, commandVars
<1>1. phase \in [Calls -> Phases] /\ result \in [Calls -> Results \cup {None}]
        /\ request \in [Calls -> Requests \cup {None}]
  BY DEF TypeOK
<1>2. ASSUME NEW c \in Calls, NEW k \in Pages, NEW kind \in Kinds,
             NEW e \in {"body", "title", "field"}, BeginCommand(c, k, kind, e)
      PROVE  ProgressInv'
  BY <1>1, <1>2 DEF BeginCommand, CreateRevision
<1>3. ASSUME NEW c \in Calls, UndoRename(c) PROVE ProgressInv'
  BY <1>1, <1>3 DEF UndoRename, EnqueuePlain
<1>4. ASSUME NEW c \in Calls, ReadDurable(c) PROVE ProgressInv'
  <2>1. phase[c] = "created"
    BY <1>4 DEF ReadDurable
  <2>2. Page(c) \in Pages
    BY <2>1 DEF TypeOK, Page, Requests
  <2>3. Durable(Page(c)) \in Contents
    BY <2>2 DEF TypeOK, Durable
  <2> QED BY <1>4, <2>3 DEF ReadDurable, vars
<1>5. ASSUME NEW c \in Calls, EnqueueRevised(c) \/ (\E s, o : AbandonRevision(c, s, o)),
             LeaveStep(c)
      PROVE  ProgressInv'
  BY <1>1, <1>5 DEF EnqueueRevised, AbandonRevision
<1>6. ASSUME NEW c \in Calls, CheckPrecondition(c) PROVE ProgressInv'
  <2>1. CASE step' = [step EXCEPT ![c] = "remerging"] /\ UNCHANGED vars
               /\ UNCHANGED <<seen, base, before, edits>> /\ step[c] = "read"
    BY <2>1 DEF vars
  <2> QED BY <1>5, <1>6, <2>1 DEF CheckPrecondition
<1>7. ASSUME NEW c \in Calls, MergeField(c) \/ PreconditionReadFails(c) \/ MergeReadFails(c)
      PROVE  ProgressInv'
  <2>1. (EnqueueRevised(c) \/ (\E s, o : AbandonRevision(c, s, o))) /\ LeaveStep(c)
    BY <1>7 DEF MergeField, PreconditionReadFails, MergeReadFails
  <2> QED BY <1>5, <2>1
<1>8. ASSUME NEW c \in Calls, RunTask(c) PROVE ProgressInv'
  BY <1>1, <1>8, RunTaskEffect DEF RunTask, Pending, Running
<1>9. UNCHANGED <<step, seen, base, before, edits, phase, request, result>> => ProgressInv'
  OBVIOUS
<1> QED BY <1>2, <1>3, <1>4, <1>6, <1>7, <1>8, <1>9
        DEF CommandNext, Command, Progress, UndoRenameThrows, OpenPage, OutsideEdit,
            ForeignWrite, allVars, vars

\* The workspace stays, and a page's file keeps its content, is replaced by
\* another program, or receives the write of a running task of the page.
LEMMA DurableStep ==
  ASSUME WriteQueueInv, CommandTypeOK, ProgressInv, [CommandNext]_allVars, NEW k \in Pages
  PROVE  /\ root' = root
         /\ \/ Durable(k)' = Durable(k)
            \/ Durable(k)' \in Foreign
            \/ \E c \in Calls : /\ RunTask(c) /\ phase[c] = "writing"
                               /\ Page(c) = k /\ Durable(k)' = c
<1> USE DEF Durable
<1>1. ASSUME NEW c \in Calls, RunTask(c)
      PROVE  /\ root' = root
             /\ \/ Durable(k)' = Durable(k)
                \/ phase[c] = "writing" /\ Page(c) = k /\ Durable(k)' = c
  <2>1. root' = root
    BY <1>1, RunTaskEffect
  <2>2. Task(c)
    BY <1>1 DEF RunTask, Task
  <2>3. \/ UNCHANGED disk
        \/ phase[c] = "writing" /\ disk' = [disk EXCEPT ![target[c]][Page(c)] = c]
    BY <2>2, TaskEffect DEF WriteQueueInv
  <2>4. ASSUME phase[c] = "writing", disk' = [disk EXCEPT ![target[c]][Page(c)] = c]
        PROVE  disk'[root][k] = disk[root][k] \/ (Page(c) = k /\ disk'[root][k] = c)
    BY <2>4 DEF CommandTypeOK, TypeOK
  <2>5. disk'[root][k] = disk[root][k] \/ (phase[c] = "writing" /\ Page(c) = k /\ disk'[root][k] = c)
    BY <2>3, <2>4
  <2> QED BY <2>1, <2>5
<1>2. ASSUME NEW c \in Calls, Command(c) \/ PreconditionReadFails(c) \/ MergeReadFails(c)
                                \/ ReadDurable(c) \/ CheckPrecondition(c) \/ MergeField(c)
      PROVE  UNCHANGED <<root, disk>>
  BY <1>2 DEF Command, BeginCommand, UndoRename, CreateRevision, EnqueuePlain, EnqueueRevised,
              AbandonRevision, PreconditionReadFails, MergeReadFails, ReadDurable,
              CheckPrecondition, MergeField, vars
<1>3. ASSUME NEW p \in Pages, NEW x \in Foreign, OutsideEdit(p, x)
      PROVE  root' = root /\ (Durable(k)' = Durable(k) \/ Durable(k)' \in Foreign)
  BY <1>3 DEF OutsideEdit, ForeignWrite, CommandTypeOK, TypeOK
<1>4. CASE UNCHANGED vars
  BY <1>4 DEF vars
<1> QED BY <1>1, <1>2, <1>3, <1>4
        DEF CommandNext, Progress, UndoRenameThrows, OpenPage, allVars

\* A request that is past its creation keeps what it asks for, what it is based
\* on and what it writes; foreign contents stay what they are.
LEMMA ContentStays ==
  ASSUME WriteQueueInv, CommandTypeOK, ProgressInv, [CommandNext]_allVars
  PROVE  /\ \A d \in Calls : phase[d] # "idle" =>
              UNCHANGED <<request[d], base[d], before[d]>> /\ phase'[d] # "idle"
         /\ \A x \in Contents :
              (x \in Calls => phase[x] \notin {"idle", "created"}) => parts'[x] = parts[x]
<1> USE DEF CommandTypeOK, TypeOK
<1>1. ASSUME NEW c \in Calls, Command(c)
      PROVE  /\ phase[c] = "idle" /\ phase'[c] # "idle"
             /\ \A d \in Calls \ {c} : UNCHANGED <<request[d], base[d], before[d], phase[d]>>
             /\ \A x \in Contents \ {c} : parts'[x] = parts[x]
  BY <1>1 DEF Command, BeginCommand, UndoRename, CreateRevision, EnqueuePlain
<1>2. ASSUME NEW c \in Calls, RunTask(c)
      PROVE  /\ UNCHANGED <<request, base, before, parts>>
             /\ phase'[c] # "idle" /\ \A d \in Calls \ {c} : phase'[d] = phase[d]
  <2>1. UNCHANGED <<request, base, before, parts>>
    BY <1>2, RunTaskEffect DEF RunTask, commandVars
  <2>2. phase' = [phase EXCEPT ![c] = phase'[c]] /\ phase'[c] \in Running \cup {"settled"}
    BY <1>2, RunTaskEffect
  <2> QED BY <2>1, <2>2 DEF Running
<1>3. ASSUME NEW c \in Calls, EnqueueRevised(c) \/ \E s, o : AbandonRevision(c, s, o)
      PROVE  /\ UNCHANGED request /\ phase[c] = "created"
             /\ phase'[c] # "idle" /\ \A d \in Calls \ {c} : phase'[d] = phase[d]
  BY <1>3 DEF EnqueueRevised, AbandonRevision
<1>4. ASSUME NEW c \in Calls, CheckPrecondition(c) \/ PreconditionReadFails(c) \/ MergeReadFails(c)
      PROVE  /\ UNCHANGED <<request, base, before, parts>>
             /\ UNCHANGED phase \/ (phase'[c] # "idle" /\ \A d \in Calls \ {c} : phase'[d] = phase[d])
  BY <1>3, <1>4 DEF CheckPrecondition, PreconditionReadFails, MergeReadFails, LeaveStep, vars
<1>5. ASSUME NEW c \in Calls, MergeField(c)
      PROVE  /\ UNCHANGED <<request, base, before>> /\ phase[c] = "created"
             /\ phase'[c] # "idle" /\ \A d \in Calls \ {c} : phase'[d] = phase[d]
             /\ \A x \in Contents \ {c} : parts'[x] = parts[x]
  BY <1>3, <1>5 DEF MergeField, LeaveStep
<1>6. UNCHANGED <<request, base, before, parts, phase>> \/ ~(
        UndoRenameThrows \/ (\E k \in Pages : OpenPage(k)) \/ UNCHANGED allVars
        \/ (\E c \in Calls : ReadDurable(c))
        \/ (\E k \in Pages, x \in Foreign : OutsideEdit(k, x)))
  BY DEF UndoRenameThrows, OpenPage, OutsideEdit, ForeignWrite, ReadDurable, allVars,
         vars, commandVars
<1>7. CASE \E c \in Calls : Command(c)
  BY <1>1, <1>7
<1>8. CASE \E c \in Calls : RunTask(c) \/ CheckPrecondition(c) \/ PreconditionReadFails(c)
                             \/ MergeReadFails(c)
  BY <1>2, <1>4, <1>8
<1>9. CASE \E c \in Calls : MergeField(c)
  BY <1>5, <1>9
<1> QED BY <1>6, <1>7, <1>8, <1>9 DEF CommandNext, Progress

\* Every step keeps what is published: contents that were reported saved.
LEMMA PublishedStep ==
  WriteQueueInv /\ CommandTypeOK /\ ProgressInv /\ PublishedInv /\ [CommandNext]_allVars
  => PublishedInv'
<1> SUFFICES ASSUME WriteQueueInv, CommandTypeOK, ProgressInv, PublishedInv,
                    [CommandNext]_allVars
             PROVE  PublishedInv'
  OBVIOUS
<1>1. \A x : IsPublished(x) => IsPublished(x)'
  BY SettledStays DEF IsPublished
<1>2. ASSUME NEW d \in Calls, phase[d] \in {"writing", "verifying", "settled"},
             result[d] \notin {"blocked", "stale"}
      PROVE  result'[d] \notin {"blocked", "stale"}
  <2>1. CASE phase[d] = "settled"
    BY <1>2, <2>1, SettledStays
  <2>2. ASSUME NEW c \in Calls, RunTask(c) PROVE result'[d] \notin {"blocked", "stale"}
    <3>1. CASE c = d /\ phase[d] # "settled"
      BY <1>2, <2>2, <3>1, LateResults DEF ProgressInv
    <3>2. CASE c # d
      <4>1. result' = result \/ result' = [result EXCEPT ![c] = result'[c]]
        BY <2>2, RunTaskEffect
      <4>2. result'[d] = result[d]
        BY <3>2, <4>1 DEF CommandTypeOK, TypeOK
      <4> QED BY <1>2, <4>2
    <3> QED BY <2>1, <3>1, <3>2
  <2>3. ASSUME NEW c \in Calls, \E s, o : AbandonRevision(c, s, o)
        PROVE  result'[d] \notin {"blocked", "stale"}
    BY <1>2, <2>3 DEF AbandonRevision, CommandTypeOK, TypeOK
  <2>4. CASE UNCHANGED result
    BY <1>2, <2>4
  <2>5. ASSUME NEW c \in Calls, Progress(c) PROVE result'[d] \notin {"blocked", "stale"}
    BY <2>2, <2>3, <2>4, <2>5
       DEF Progress, ReadDurable, CheckPrecondition, MergeField, EnqueueRevised, vars
  <2> QED BY <2>3, <2>4, <2>5
          DEF CommandNext, Command, BeginCommand, UndoRename, CreateRevision, EnqueuePlain,
              PreconditionReadFails, MergeReadFails, UndoRenameThrows, OpenPage, OutsideEdit,
              ForeignWrite, allVars, vars
<1>3. ASSUME NEW k \in Pages, Durable(k)' \in Calls
      PROVE  result'[Durable(k)'] \notin {"blocked", "stale"}
  <2>1. CASE Durable(k)' = Durable(k)
    <3>1. phase[Durable(k)] \in {"verifying", "settled"}
      BY <1>3, <2>1 DEF WriteQueueInv, DiskInv, CommandTypeOK, TypeOK, Durable
    <3> QED BY <1>2, <1>3, <2>1, <3>1 DEF PublishedInv
  <2>2. ASSUME NEW c \in Calls, RunTask(c), phase[c] = "writing", Durable(k)' = c
        PROVE  result'[Durable(k)'] \notin {"blocked", "stale"}
    BY <2>2, LateResults DEF ProgressInv
  <2>3. Durable(k)' \notin Foreign
    BY <1>3, QueueAssumption
  <2> QED BY <2>1, <2>2, <2>3, DurableStep
<1>4. ASSUME NEW k \in Pages
      PROVE  IsPublished(runtime[k])' /\ IsPublished(session[k])'
  <2>1. IsPublished(runtime[k])' \/ ~UNCHANGED runtime
    BY <1>1 DEF PublishedInv
  <2>2. IsPublished(session[k])' \/ ~UNCHANGED session
    BY <1>1 DEF PublishedInv
  <2>3. ASSUME NEW c \in Calls, RunTask(c)
        PROVE  IsPublished(runtime[k])' /\ IsPublished(session[k])'
    <3>0. runtime \in [Pages -> Contents] /\ session \in [Pages -> Contents]
      BY DEF CommandTypeOK
    <3>1. phase'[c] = "settled" /\ result'[c] = "saved" => IsPublished(c)'
      BY DEF IsPublished
    <3>2. phase[c] # "idle"
      BY <2>3, RunTaskEffect DEF Pending, Running
    <3>3. IsRevised(c) => IsPublished(before[c])'
      BY <1>1, <3>2, <2>3 DEF PublishedInv, RunTask, commandVars
    <3>4. before'[c] = before[c]
      BY <2>3 DEF RunTask, commandVars
    <3>5. runtime'[k] = runtime[k] \/ (runtime'[k] = c /\ phase'[c] = "settled" /\ result'[c] = "saved")
            \/ (IsRevised(c) /\ runtime'[k] = before[c])
      BY <2>3, <3>0, DeliverEffect
    <3>6. session'[k] = session[k] \/ (session'[k] = c /\ phase'[c] = "settled" /\ result'[c] = "saved")
      BY <2>3, <3>0, DeliverEffect
    <3> QED BY <1>1, <3>1, <3>3, <3>4, <3>5, <3>6 DEF PublishedInv, IsPublished
  <2>4. ASSUME NEW c \in Calls, MergeReadFails(c) PROVE IsPublished(runtime[k])'
    <3>1. IsPublished(before[c])
      BY <2>4 DEF MergeReadFails, ProgressInv, PublishedInv
    <3>2. runtime'[k] \in {runtime[k], before[c]}
      BY <2>4 DEF MergeReadFails, CommandTypeOK
    <3> QED BY <1>1, <3>1, <3>2 DEF PublishedInv, IsPublished
  <2>5. ASSUME NEW p \in Pages, OpenPage(p) PROVE IsPublished(session[k])'
    <3>1. session'[k] \in {session[k], runtime[p]}
      BY <2>5 DEF OpenPage, CommandTypeOK
    <3> QED BY <1>1, <3>1 DEF PublishedInv, IsPublished
  <2> QED BY <2>1, <2>2, <2>3, <2>4, <2>5
          DEF CommandNext, Command, Progress, BeginCommand, UndoRename, ReadDurable,
              CheckPrecondition, MergeField, PreconditionReadFails, MergeReadFails,
              UndoRenameThrows, OpenPage, OutsideEdit, pageVars, allVars
<1>5. ASSUME NEW i \in 1..Len(undo')
      PROVE  IsPublished(undo[i].content)'
  <2>0. undo \in Seq(Entries) /\ Len(undo) <= MaxUndo
    BY DEF CommandTypeOK, Entries
  <2>1. UNCHANGED undo => IsPublished(undo[i].content)'
    BY <1>1, <1>5 DEF PublishedInv
  <2>2. ASSUME undo # <<>>, undo' = SubSeq(undo, 1, Len(undo) - 1)
        PROVE  IsPublished(undo[i].content)'
    <3>1. i \in 1..Len(undo) - 1 /\ undo'[i] = undo[i]
      BY <1>5, <2>0, <2>2, DropLastType
    <3>2. i \in 1..Len(undo)
      BY <2>0, <3>1
    <3> QED BY <1>1, <3>1, <3>2 DEF PublishedInv, IsPublished
  <2>3. ASSUME NEW c \in Calls, RunTask(c) PROVE IsPublished(undo[i].content)'
    <3> DEFINE e == [page |-> Page(c), content |-> before[c]]
    <3>1. SUFFICES ASSUME before[c] \in Contents, IsRevised(c), undo' = LastEntries(Append(undo, e))
                   PROVE  IsPublished(undo[i].content)'
      BY <2>1, <2>3, DeliverEffect
    <3>2. phase[c] # "idle" /\ Page(c) \in Pages
      BY <2>3, RunTaskEffect DEF CommandTypeOK, TypeOK, Page, Requests, Pending, Running
    <3>3. e \in Entries
      BY <3>1, <3>2 DEF Entries
    <3>4. Append(undo, e) \in Seq(Entries)
      BY <2>0, <3>3
    <3>5. PICK j \in 1..Len(Append(undo, e)) : undo'[i] = Append(undo, e)[j]
      BY <1>5, <3>1, <3>4, LastEntriesType
    <3>6. (j \in 1..Len(undo) /\ undo'[i] = undo[j]) \/ undo'[i] = e
      BY <2>0, <3>3, <3>5
    <3>7. IsPublished(undo'[i].content)
      BY <3>1, <3>2, <3>6 DEF PublishedInv
    <3> QED BY <1>1, <3>7 DEF IsPublished
  <2> QED BY <2>1, <2>2, <2>3
          DEF CommandNext, Command, Progress, BeginCommand, UndoRename, ReadDurable,
              CheckPrecondition, MergeField, PreconditionReadFails, MergeReadFails,
              UndoRenameThrows, OpenPage, OutsideEdit, pageVars, allVars
<1>6. ASSUME NEW c \in Calls, phase'[c] # "idle", IsRevised(c)'
      PROVE  IsPublished(base[c])' /\ IsPublished(before[c])'
  <2>1. CASE phase[c] # "idle"
    <3>1. UNCHANGED <<request[c], base[c], before[c]>>
      BY <2>1, ContentStays
    <3> QED BY <1>1, <1>6, <2>1, <3>1 DEF PublishedInv, IsPublished, IsRevised
  <2>2. ASSUME phase[c] = "idle", NEW k \in Pages, NEW kind \in Kinds, NEW e, BeginCommand(c, k, kind, e)
        PROVE  IsPublished(base[c])' /\ IsPublished(before[c])'
    <3>1. base'[c] \in {runtime[k], session[k]} /\ before'[c] = runtime[k]
      BY <2>2 DEF BeginCommand, CommandTypeOK
    <3> QED BY <1>1, <3>1 DEF PublishedInv, IsPublished
  <2>3. ASSUME phase[c] = "idle", NEW d \in Calls, NEW k \in Pages, NEW kind \in Kinds, NEW e,
               BeginCommand(d, k, kind, e), d # c
        PROVE  FALSE
    BY <1>6, <2>3 DEF BeginCommand, CreateRevision, CommandTypeOK, TypeOK
  <2>4. ASSUME phase[c] = "idle", NEW d \in Calls, UndoRename(d) PROVE FALSE
    BY <1>6, <2>4 DEF UndoRename, EnqueuePlain, IsRevised, CommandTypeOK, TypeOK
  <2>5. ASSUME phase[c] = "idle", NEW d \in Calls, RunTask(d) PROVE FALSE
    BY <1>6, <2>5, RunTaskEffect DEF Pending, Running, CommandTypeOK, TypeOK
  <2>6. ASSUME phase[c] = "idle", NEW d \in Calls, EnqueueRevised(d) \/ \E s, o : AbandonRevision(d, s, o)
        PROVE  FALSE
    BY <1>6, <2>6 DEF EnqueueRevised, AbandonRevision, CommandTypeOK, TypeOK
  <2>7. CASE UNCHANGED phase
    BY <1>6, <2>1, <2>7
  <2>8. ASSUME phase[c] = "idle", NEW d \in Calls, Progress(d) PROVE UNCHANGED phase
    BY <2>5, <2>6, <2>8 DEF Progress, ReadDurable, CheckPrecondition, MergeField, vars
  <2> QED BY <2>1, <2>2, <2>3, <2>4, <2>6, <2>7, <2>8
          DEF CommandNext, Command, PreconditionReadFails, MergeReadFails, UndoRenameThrows,
              OpenPage, OutsideEdit, ForeignWrite, allVars, vars
<1> QED BY <1>3, <1>4, <1>5, <1>6 DEF PublishedInv

\* Every step keeps the file a guarded write is about to replace.
LEMMA GuardStep == CommandInv /\ [CommandNext]_allVars => GuardInv'
<1> SUFFICES ASSUME CommandInv, [CommandNext]_allVars, NEW c \in Calls,
                    phase'[c] = "writing", IsGuarded(c)'
             PROVE  (Durable(Page(c)) \in Foreign \/ BaseIsDurable(c))'
  BY DEF GuardInv
<1> USE DEF CommandInv
<1>1. CASE phase[c] = "writing"
  <2>1. /\ UNCHANGED <<request[c], base[c]>> /\ IsGuarded(c) /\ IsRevised(c)
        /\ Page(c)' = Page(c) /\ Page(c) \in Pages
    BY <1>1, ContentStays DEF IsGuarded, IsRevised, CommandTypeOK, TypeOK, Page, Requests
  <2>2. base[c] \in Contents /\ parts'[base[c]] = parts[base[c]]
    BY <1>1, <2>1, ContentStays DEF ProgressInv, PublishedInv, IsPublished
  <2>3. Durable(Page(c)) \in Contents
    BY <2>1 DEF CommandTypeOK, TypeOK, Durable
  <2>4. Durable(Page(c)) \in Calls => phase[Durable(Page(c))] \in {"verifying", "settled"}
    BY <2>1 DEF WriteQueueInv, DiskInv, CommandTypeOK, TypeOK, Durable
  <2>5. parts'[Durable(Page(c))] = parts[Durable(Page(c))]
    BY <2>3, <2>4, ContentStays
  <2>6. ASSUME NEW d \in Calls, RunTask(d), phase[d] = "writing", Page(d) = Page(c) PROVE FALSE
    <3>1. OneWriterPerPage
      BY ChainGivesOneWriter DEF WriteQueueInv
    <3>2. d = c
      BY <1>1, <2>6, <3>1 DEF OneWriterPerPage, Running
    <3>3. Task(c) /\ phase'[c] \in {"verifying", "settled"}
      BY <1>1, <2>6, <3>2, TaskEffect DEF RunTask, Task, WriteQueueInv, Running
    <3> QED BY <3>3
  <2>7. Durable(Page(c))' = Durable(Page(c)) \/ Durable(Page(c))' \in Foreign
    <3>1. PICK k \in Pages : k = Page(c)
      BY <2>1
    <3>2. Durable(k)' = Durable(k) \/ Durable(k)' \in Foreign
      BY <2>6, <3>1, DurableStep
    <3> QED BY <2>1, <3>1, <3>2 DEF Durable
  <2> QED BY <1>1, <2>1, <2>2, <2>5, <2>7 DEF GuardInv, BaseIsDurable, SameContent
<1>2. CASE phase[c] # "writing"
  <2>1. ASSUME NEW d \in Calls, RunTask(d)
        PROVE  (Durable(Page(c)) \in Foreign \/ BaseIsDurable(c))'
    <3>1. d = c
      BY <1>2, <2>1, RunTaskEffect DEF CommandTypeOK, TypeOK
    <3>2. IsGuarded(c) /\ UNCHANGED <<request, root, base, parts>>
      BY <2>1, RunTaskEffect DEF IsGuarded, RunTask, commandVars
    <3>3. UNCHANGED disk
      BY <1>2, <2>1, <3>1, TaskEffect DEF RunTask, Task, WriteQueueInv
    <3>4. BaseIsDurable(c)
      BY <1>2, <2>1, <3>1, <3>2
         DEF RunTask, StartTask, BeforeWrite, Validate, AdapterSettles, VerifyReadback,
             Settle, Advance, FinishWriteResult, Reject, CommandTypeOK, TypeOK
    <3> QED BY <3>2, <3>3, <3>4 DEF BaseIsDurable, SameContent, Durable, Page
  <2>2. ASSUME NEW d \in Calls,
               EnqueueRevised(d) \/ (\E s, o : AbandonRevision(d, s, o))
                 \/ (\E k, kind : CreateRevision(d, k, kind)) \/ (\E k : EnqueuePlain(d, k))
        PROVE  FALSE
    BY <1>2, <2>2 DEF EnqueueRevised, AbandonRevision, CreateRevision, EnqueuePlain,
                      CommandTypeOK, TypeOK
  <2>3. CASE UNCHANGED phase
    BY <1>2, <2>3
  <2>4. ASSUME NEW d \in Calls, Progress(d)
        PROVE  (Durable(Page(c)) \in Foreign \/ BaseIsDurable(c))'
    BY <2>1, <2>2, <2>3, <2>4 DEF Progress, ReadDurable, CheckPrecondition, MergeField, vars
  <2> QED BY <2>2, <2>3, <2>4
          DEF CommandNext, Command, BeginCommand, UndoRename, PreconditionReadFails,
              MergeReadFails, UndoRenameThrows, OpenPage, OutsideEdit, ForeignWrite,
              allVars, vars
<1> QED BY <1>1, <1>2

\* The initial states satisfy the inductive invariant of commands.
LEMMA CommandInitInv == CommandInit => CommandInv
<1> SUFFICES ASSUME CommandInit PROVE CommandInv
  OBVIOUS
<1>1. WriteQueueInv
  BY QueueInit DEF CommandInit
<1>2. runtime \in [Pages -> Foreign] /\ session \in [Pages -> Foreign]
        /\ \A k \in Pages : Durable(k) \in Foreign
  BY DEF CommandInit, Init, Durable
<1>3. CommandTypeOK
  BY <1>1, <1>2, EmptySeq DEF CommandInit, CommandTypeOK, WriteQueueInv, Steps, Edits, Parts, Contents
<1>4. ProgressInv /\ GuardInv
  BY DEF CommandInit, Init, ProgressInv, GuardInv
<1>5. \A x \in Foreign : x \notin Calls
  BY QueueAssumption
<1>6. PublishedInv
  BY <1>2, <1>5, EmptySeq DEF CommandInit, Init, PublishedInv, IsPublished
<1> QED BY <1>1, <1>3, <1>4, <1>6 DEF CommandInv

\* Every step of a command keeps the inductive invariant.
LEMMA CommandInvStep == CommandInv /\ [CommandNext]_allVars => CommandInv'
<1>1. CommandTypeOK /\ WriteQueueInv /\ [CommandNext]_allVars => WriteQueueInv'
  BY CommandStepIsQueueStep, QueueStep
<1> QED BY <1>1, CommandTypeStep, ProgressStep, PublishedStep, GuardStep DEF CommandInv

\* The inductive invariant of commands, with every type in it.
THEOREM CommandInvariance == CommandSpec => []CommandInv
  BY CommandInitInv, CommandInvStep, PTL DEF CommandSpec

\* Commands use the queue as it is specified: every behaviour of the commands
\* is one of the write queue.
THEOREM CommandsUseTheQueue == CommandSpec => Spec
<1>1. CommandInit => Init
  BY DEF CommandInit
<1>2. CommandInv /\ [CommandNext]_allVars => [Next]_vars
  BY CommandStepIsQueueStep DEF CommandInv
<1> QED BY <1>1, <1>2, CommandInvariance, PTL DEF CommandSpec, Spec

\* A command that was blocked or dropped is in no file, loaded page, editor base
\* or undo entry.
THEOREM BlockedCommandsLeaveNoTrace == CommandSpec => []BlockedLeavesNoTrace
<1>1. CommandInv => BlockedLeavesNoTrace
  BY DEF CommandInv, PublishedInv, IsPublished, BlockedLeavesNoTrace
<1> QED BY <1>1, CommandInvariance, PTL

\* The write of a command on a structured page replaces only content the command
\* was based on, or what another program wrote.
THEOREM GuardedWritesExtendTheirBase == CommandSpec => GuardedWriteExtendsBase
<1> DEFINE Extends ==
      \A k \in Pages :
        LET old == Durable(k)
            new == disk'[root][k]
        IN  old # new /\ new \in Calls /\ IsGuarded(new)
            => old \in Foreign \/ SameContent(base[new], old)
<1>1. CommandInv /\ [CommandNext]_allVars => [Extends]_allVars
  <2> SUFFICES ASSUME CommandInv, [CommandNext]_allVars, NEW k \in Pages,
                      Durable(k) # disk'[root][k],
                      disk'[root][k] \in Calls, IsGuarded(disk'[root][k])
               PROVE  Durable(k) \in Foreign \/ SameContent(base[disk'[root][k]], Durable(k))
    BY DEF Extends
  <2>1. PICK c \in Calls : phase[c] = "writing" /\ Page(c) = k /\ disk'[root][k] = c
    BY DurableStep, QueueAssumption DEF CommandInv, Durable
  <2> QED BY <2>1 DEF CommandInv, GuardInv, BaseIsDurable
<1> QED BY <1>1, CommandInvariance, PTL DEF CommandSpec, GuardedWriteExtendsBase, Extends

-----------------------------------------------------------------------------
(***************************************************************************)
(* What is in a file will be published.                                    *)
(***************************************************************************)
\* A request with a ticket keeps it, with its page and revision, in every step
\* of the queue.
LEMMA TicketStays ==
  ASSUME WriteQueueInv, LineInv, LatestInv, [Next]_vars, NEW d \in Calls, ticket[d] > 0
  PROVE  ticket'[d] = ticket[d] /\ request'[d] = request[d]
<1> USE DEF WriteQueueInv
<1>0. phase[d] \in Pending \cup {"settled"} /\ phase[d] \notin {"idle", "created"}
  BY TicketHolder DEF Pending, Running
<1>1. ASSUME NEW c \in Calls, Caller(c) PROVE ticket'[d] = ticket[d] /\ request'[d] = request[d]
  <2>1. ticket \in [Calls -> Nat] /\ request \in [Calls -> Requests \cup {None}]
    BY DEF TypeOK
  <2> QED BY <1>0, <1>1, <2>1 DEF Caller, CreateRevision, EnqueuePlain, EnqueueRevised,
                                  AbandonRevision, Chained, chainVars
<1>2. ASSUME NEW c \in Calls, Task(c) PROVE ticket'[d] = ticket[d] /\ request'[d] = request[d]
  <2>1. phase[c] # "settled"
    BY <1>2, TaskShape DEF MayRun, Pending, Running
  <2>2. result[c] # "saved"
    BY <2>1 DEF LatestInv
  <2> QED BY <1>2, <2>2, TaskEffect, TaskOutcome
<1>3. CASE Environment \/ UNCHANGED vars
  BY <1>3 DEF Environment, SwitchRoot, ForeignWrite, vars
<1> QED BY <1>1, <1>2, <1>3 DEF Next

\* A page's accepted revision changes only to that of the request that is queued.
LEMMA AcceptedMoves ==
  ASSUME WriteQueueInv, LineInv, LatestInv, [Next]_vars, NEW k \in Pages,
         accepted'[k] # accepted[k]
  PROVE  \E c \in Calls : ticket'[c] > 0 /\ IsPending(c)' /\ AcceptedLast(c, k)'
<1> USE DEF WriteQueueInv
<1>1. PICK c \in Calls : EnqueueRevised(c)
  <2>1. ASSUME NEW c \in Calls, Caller(c), ~EnqueueRevised(c) PROVE UNCHANGED accepted
    BY <2>1 DEF Caller, CreateRevision, EnqueuePlain, AbandonRevision, revisionVars
  <2>2. ASSUME NEW c \in Calls, Task(c) PROVE UNCHANGED accepted
    BY <2>2, TaskEffect
  <2>3. CASE Environment \/ UNCHANGED vars
    BY <2>3 DEF Environment, SwitchRoot, ForeignWrite, vars
  <2> QED BY <2>1, <2>2, <2>3 DEF Next
<1>2. phase[c] = "created" /\ IsRevised(c) /\ Page(c) \in Pages /\ UNCHANGED request
  BY <1>1 DEF EnqueueRevised, LatestInv, TypeOK, Page, Requests
<1>3. accepted'[k] = Revision(c) /\ Page(c) = k
  BY <1>1, <1>2 DEF EnqueueRevised, AcceptedAtEnqueue, TypeOK
<1>4. ticket'[c] > 0 /\ phase'[c] = "queued"
  BY <1>1, <1>2 DEF EnqueueRevised, Chained, TypeOK
<1> QED BY <1>2, <1>3, <1>4 DEF AcceptedLast, IsPending, Pending, IsRevised, Page, Revision

\* Every accepted revision has its request.
LEMMA AcceptedStep ==
  WriteQueueInv /\ LineInv /\ LatestInv /\ AcceptedInv /\ [Next]_vars => AcceptedInv'
<1> SUFFICES ASSUME WriteQueueInv, LineInv, LatestInv, AcceptedInv, [Next]_vars,
                    NEW k \in Pages, accepted'[k] > 0
             PROVE  \E c \in Calls : ticket'[c] > 0 /\ AcceptedLast(c, k)'
  BY DEF AcceptedInv
<1>1. CASE accepted'[k] = accepted[k]
  <2>1. PICK c \in Calls : ticket[c] > 0 /\ AcceptedLast(c, k)
    BY <1>1 DEF AcceptedInv
  <2>2. ticket'[c] = ticket[c] /\ request'[c] = request[c]
    BY <2>1, TicketStays
  <2> QED BY <1>1, <2>1, <2>2 DEF AcceptedLast, IsRevised, Page, Revision
<1>2. CASE accepted'[k] # accepted[k]
  BY <1>2, AcceptedMoves
<1> QED BY <1>1, <1>2

\* Commands never leave the workspace.
LEMMA WorkspaceStep ==
  CommandInv /\ LatestInv /\ WorkspaceInv /\ [CommandNext]_allVars => WorkspaceInv'
<1> SUFFICES ASSUME CommandInv, LatestInv, WorkspaceInv, [CommandNext]_allVars,
                    NEW d \in Calls
             PROVE  /\ phase'[d] # "idle" => request'[d].root = root'
                    /\ phase'[d] = "writing" => target'[d] = root'
  BY DEF WorkspaceInv
<1> USE DEF CommandInv
<1>0. /\ phase \in [Calls -> Phases] /\ request \in [Calls -> Requests \cup {None}]
      /\ target \in [Calls -> Roots \cup {None}]
  BY DEF WriteQueueInv, TypeOK
<1>1. root' = root
  <2>1. ASSUME NEW c \in Calls, RunTask(c) PROVE root' = root
    BY <2>1, RunTaskEffect
  <2> QED BY <2>1 DEF CommandNext, Command, Progress, BeginCommand, UndoRename, CreateRevision,
       EnqueuePlain, EnqueueRevised, AbandonRevision, PreconditionReadFails, MergeReadFails,
       ReadDurable, CheckPrecondition, MergeField, UndoRenameThrows, OpenPage, OutsideEdit,
       ForeignWrite, vars, allVars
<1>2. ASSUME NEW c \in Calls, RunTask(c)
      PROVE  /\ phase'[d] # "idle" => request'[d].root = root'
             /\ phase'[d] = "writing" => target'[d] = root'
  <2>1. /\ UNCHANGED request /\ phase' = [phase EXCEPT ![c] = phase'[c]]
        /\ phase[c] \in Pending
    BY <1>2, RunTaskEffect
  <2>2. phase[c] # "settled" /\ phase[c] # "idle"
    BY <2>1 DEF Pending, Running
  <2>3. result[c] # "saved"
    BY <2>2 DEF LatestInv
  <2>4. Task(c)
    BY <1>2 DEF RunTask, Task
  <2>5. \A e \in Calls \ {c} : target'[e] = target[e] /\ phase'[e] = phase[e]
    BY <1>0, <2>1, <2>3, <2>4, TaskOutcome DEF WriteQueueInv
  <2>6. phase'[c] = "writing" => target'[c] = root
    BY <1>0, <2>4, TaskEffect
       DEF Task, StartTask, CanStart, BeforeWrite, Validate, AdapterSettles, VerifyReadback,
           FinishWriteResult, Reject, Settle, Advance, BeginAdapterWrite
  <2> QED BY <1>1, <2>1, <2>2, <2>5, <2>6 DEF WorkspaceInv
<1>3. ASSUME NEW c \in Calls, Command(c)
      PROVE  /\ phase'[d] # "idle" => request'[d].root = root'
             /\ phase'[d] = "writing" => target'[d] = root'
  BY <1>0, <1>3 DEF Command, BeginCommand, UndoRename, CreateRevision, EnqueuePlain, WorkspaceInv
<1>4. ASSUME NEW c \in Calls, EnqueueRevised(c) \/ \E s, o : AbandonRevision(c, s, o)
      PROVE  /\ phase'[d] # "idle" => request'[d].root = root'
             /\ phase'[d] = "writing" => target'[d] = root'
  BY <1>0, <1>4 DEF EnqueueRevised, AbandonRevision, WorkspaceInv
<1>5. CASE UNCHANGED <<phase, request, target>>
  BY <1>1, <1>5 DEF WorkspaceInv
<1> QED BY <1>2, <1>3, <1>4, <1>5
        DEF CommandNext, Progress, PreconditionReadFails, MergeReadFails, ReadDurable,
            CheckPrecondition, MergeField, UndoRenameThrows, OpenPage, OutsideEdit,
            ForeignWrite, vars, allVars

\* A running task whose content is in the file, or may get there in this turn.
HasLanded(c) ==
  phase[c] = "writing" \/ (phase[c] = "verifying" /\ Durable(Page(c)) = c)

\* How a turn of a task can end while the workspace stays the same, and what is
\* in the page's file then.
LEMMA TurnEnds ==
  ASSUME CommandInv, WorkspaceInv, NEW c \in Calls, RunTask(c)
  PROVE  \/ /\ phase'[c] \in Running \ {"verifying"} /\ phase[c] # "verifying"
            /\ UNCHANGED <<result, disk>>
         \/ phase'[c] = "verifying" /\ Durable(Page(c))' = c
         \/ phase'[c] = "settled" /\ result'[c] = "saved" /\ Durable(Page(c))' = c
         \/ /\ phase'[c] = "settled" /\ result'[c] = "superseded-after-write"
            /\ IsStale(c) /\ HasLanded(c)
         \/ /\ phase'[c] = "settled" /\ result'[c] = "stale"
            /\ IsStale(c) /\ phase[c] # "verifying" /\ UNCHANGED disk
         \/ /\ phase'[c] = "settled"
            /\ result'[c] \in {"error", "readback-uncertain", "blocked"}
<1> USE DEF CommandInv, WriteQueueInv, Durable, Running, HasLanded
<1>0. /\ phase \in [Calls -> Phases] /\ result \in [Calls -> Results \cup {None}]
      /\ disk \in [Roots -> [Pages -> Contents]] /\ root \in Roots /\ root' = root
  BY RunTaskEffect DEF TypeOK
<1>1. phase[c] # "idle" /\ Page(c) \in Pages /\ Page(c)' = Page(c)
  BY RunTaskEffect DEF TypeOK, Page, Requests, Pending, Running
<1>2. ~ContextChanged(c)
  BY <1>1 DEF WorkspaceInv, ContextChanged
<1>3. CASE StartTask(c)
  BY <1>0, <1>2, <1>3 DEF StartTask, CanStart, Settle, Advance, BeginAdapterWrite
<1>4. CASE \E b \in BOOLEAN : BeforeWrite(c, b)
  BY <1>0, <1>2, <1>4 DEF BeforeWrite, Settle, Advance
<1>5. CASE \E o \in {"ok", "blocked", "error"} : Validate(c, o)
  BY <1>0, <1>2, <1>5 DEF Validate, Settle, Advance, Reject, BeginAdapterWrite
<1>6. ASSUME NEW ok \in BOOLEAN, NEW landed \in BOOLEAN, AdapterSettles(c, ok, landed)
      PROVE  \/ phase'[c] = "verifying" /\ Durable(Page(c))' = c
             \/ phase'[c] = "settled" /\ result'[c] = "saved" /\ Durable(Page(c))' = c
             \/ /\ phase'[c] = "settled" /\ result'[c] = "superseded-after-write"
                /\ IsStale(c) /\ HasLanded(c)
             \/ phase'[c] = "settled" /\ result'[c] = "error"
  <2>1. target[c] = root
    BY <1>6 DEF AdapterSettles, WorkspaceInv
  <2>2. ok => Durable(Page(c))' = c
    BY <1>0, <1>1, <1>6, <2>1 DEF AdapterSettles
  <2> QED BY <1>0, <1>6, <2>2 DEF AdapterSettles, Settle, Advance, Reject, FinishWriteResult
<1>7. ASSUME NEW ok \in BOOLEAN, VerifyReadback(c, ok), Durable(Page(c)) = c \/ ~ok
      PROVE  \/ phase'[c] = "settled" /\ result'[c] = "saved" /\ Durable(Page(c))' = c
             \/ /\ phase'[c] = "settled" /\ result'[c] = "superseded-after-write"
                /\ IsStale(c) /\ HasLanded(c)
             \/ phase'[c] = "settled" /\ result'[c] = "readback-uncertain"
  BY <1>0, <1>1, <1>2, <1>7 DEF VerifyReadback, Settle, FinishWriteResult
<1> QED BY <1>3, <1>4, <1>5, <1>6, <1>7 DEF RunTask

\* Failures and writes that were turned down are remembered.
LEMMA LossesStay ==
  ASSUME CommandInv, LineInv, LatestInv, [CommandNext]_allVars, NEW k \in Pages
  PROVE  /\ FailedOn(k) => FailedOn(k)'
         /\ BlockedInQueue(k) => BlockedInQueue(k)'
<1> USE DEF CommandInv
<1>1. \A c \in Calls : result[c] \in {"error", "readback-uncertain", "blocked"} =>
        /\ phase[c] = "settled" /\ result'[c] = result[c] /\ request'[c] = request[c]
  <2> SUFFICES ASSUME NEW c \in Calls, result[c] \in {"error", "readback-uncertain", "blocked"}
               PROVE  /\ phase[c] = "settled" /\ result'[c] = result[c]
                      /\ request'[c] = request[c]
    OBVIOUS
  <2>1. phase[c] = "settled"
    BY ResultAssumption DEF ProgressInv, Results
  <2> QED BY <2>1, SettledStays, ContentStays
<1>2. [Next]_vars
  BY CommandStepIsQueueStep
<1>3. \A c \in Calls : ticket[c] > 0 => ticket'[c] = ticket[c]
  BY <1>2, TicketStays
<1> QED BY <1>1, <1>3 DEF FailedOn, BlockedInQueue, Page

\* The account of a page whose file, loaded page and pending requests stay.
LEMMA OwedKept ==
  ASSUME CommandInv, LineInv, LatestInv, OwedInv, [CommandNext]_allVars, NEW k \in Pages,
         Durable(k)' = Durable(k), runtime'[k] = runtime[k],
         Durable(k) \in Calls /\ phase[Durable(k)] = "verifying"
           => phase'[Durable(k)] = "verifying",
         \A c \in Calls : IsPending(c) /\ AcceptedLast(c, k) => IsPending(c)'
  PROVE  Owed(k)'
<1> USE DEF CommandInv
<1>1. Owed(k)
  BY DEF OwedInv
<1>2. CASE Durable(k) \in Foreign
  BY <1>2 DEF Owed
<1>3. CASE Durable(k) \in Calls /\ phase[Durable(k)] = "verifying"
  BY <1>3 DEF Owed
<1>4. CASE FailedOn(k) \/ BlockedInQueue(k)
  BY <1>4, LossesStay DEF Owed
<1>5. ASSUME NEW c \in Calls, IsPending(c), AcceptedLast(c, k) PROVE Owed(k)'
  <2>1. [Next]_vars
    BY CommandStepIsQueueStep
  <2>2. CASE accepted'[k] = accepted[k]
    <3>1. request'[c] = request[c]
      BY <1>5, ContentStays DEF IsPending, Pending, Running
    <3>2. AcceptedLast(c, k)'
      BY <1>5, <2>2, <3>1 DEF AcceptedLast, IsRevised, Page, Revision
    <3> QED BY <1>5, <3>2 DEF Owed
  <2>3. CASE accepted'[k] # accepted[k]
    BY <2>1, <2>3, AcceptedMoves DEF Owed
  <2> QED BY <2>2, <2>3
<1>6. CASE SameContent(runtime[k], Durable(k))
  <2>1. runtime[k] \in Contents /\ Durable(k) \in Contents
    BY DEF CommandTypeOK, TypeOK, Durable
  <2>2. Durable(k) \in Calls => phase[Durable(k)] \notin {"idle", "created"}
    BY DEF WriteQueueInv, DiskInv, CommandTypeOK, TypeOK, Durable
  <2>3. runtime[k] \in Calls => phase[runtime[k]] \notin {"idle", "created"}
    BY DEF PublishedInv, IsPublished
  <2>4. parts'[runtime[k]] = parts[runtime[k]] /\ parts'[Durable(k)] = parts[Durable(k)]
    BY <2>1, <2>2, <2>3, ContentStays
  <2> QED BY <1>6, <2>4 DEF Owed, SameContent
<1>7. Durable(k) \in Calls \cup Foreign
  BY DEF CommandTypeOK, TypeOK, Durable, Contents
<1> QED BY <1>1, <1>2, <1>3, <1>4, <1>5, <1>6, <1>7 DEF Owed

\* A task that finds its revision superseded after its write: the request whose
\* revision was accepted is behind it in the line.
LEMMA SuccessorIsPending ==
  ASSUME CommandInv, LineInv, LatestInv, AcceptedInv, NEW c \in Calls, RunTask(c),
         HasLanded(c), IsStale(c)
  PROVE  \E n \in Calls \ {c} : IsPending(n) /\ AcceptedLast(n, Page(c))
<1> USE DEF CommandInv, WriteQueueInv
<1>1. phase[c] # "idle" /\ phase[c] \in Running /\ IsRevised(c)
  BY DEF Running, IsStale, HasLanded
<1>2. Page(c) \in Pages /\ accepted[Page(c)] \in Nat /\ Revision(c) \in 1..current[Page(c)]
  BY <1>1 DEF TypeOK, RevisionInv, Page, Requests
<1>3. accepted[Page(c)] > 0 /\ accepted[Page(c)] # Revision(c)
  <2>1. Revision(c) <= accepted[Page(c)]
    BY <1>1, <1>2 DEF HasLanded, DiskInv, Durable, CommandTypeOK, TypeOK
  <2>2. accepted[Page(c)] > 0
    BY <1>2, <2>1 DEF TypeOK
  <2> QED BY <2>2 DEF IsStale, IsAcceptedWriteRevisionCurrent
<1>4. PICK n \in Calls : ticket[n] > 0 /\ AcceptedLast(n, Page(c))
  BY <1>2, <1>3 DEF AcceptedInv
<1>5. n # c
  BY <1>3, <1>4 DEF AcceptedLast
<1>6. ticket[c] < ticket[n]
  BY <1>1, <1>4, <1>5 DEF LatestInv, AcceptedLast
<1>7. ticket[c] = Served[Page(c)] + 1 /\ Served[Page(c)] \in Nat
  <2>1. MayRun(c)
    BY TaskShape DEF RunTask, Task
  <2> QED BY <1>2, <2>1, FirstOfLine DEF LineInv
<1>8. ~(ticket[n] <= Served[Page(n)])
  BY <1>4, <1>6, <1>7 DEF AcceptedLast, TypeOK
<1>9. IsPending(n)
  BY <1>4, <1>8, TicketHolder DEF LineInv, IsPending
<1> QED BY <1>4, <1>5, <1>9

\* Every turn of a task changes its phase.
LEMMA TurnMoves ==
  ASSUME CommandTypeOK, NEW c \in Calls, RunTask(c) PROVE phase'[c] # phase[c]
  BY DEF RunTask, StartTask, CanStart, BeforeWrite, Validate, AdapterSettles, VerifyReadback,
         FinishWriteResult, Reject, Settle, Advance, BeginAdapterWrite, CommandTypeOK, TypeOK

\* Every step keeps the account of every page.
LEMMA OwedStep ==
  /\ CommandInv /\ LineInv /\ LatestInv /\ WorkspaceInv /\ AcceptedInv /\ OwedInv
  /\ [CommandNext]_allVars
  => OwedInv'
<1> SUFFICES ASSUME CommandInv, LineInv, LatestInv, WorkspaceInv, AcceptedInv, OwedInv,
                    [CommandNext]_allVars, NEW k \in Pages
             PROVE  Owed(k)'
  BY DEF OwedInv
<1> USE DEF CommandInv
<1>0. /\ phase \in [Calls -> Phases] /\ runtime \in [Pages -> Contents]
      /\ result \in [Calls -> Results \cup {None}]
  BY DEF CommandTypeOK, TypeOK
<1>1. Durable(k) \in Calls => Page(Durable(k)) = k
  BY DEF WriteQueueInv, DiskInv, CommandTypeOK, TypeOK, Durable
<1>2. ASSUME NEW c \in Calls, RunTask(c) PROVE Owed(k)'
  <2>0. /\ UNCHANGED <<request, root>> /\ phase[c] \in Pending
        /\ phase' = [phase EXCEPT ![c] = phase'[c]]
        /\ \/ phase'[c] \in Running /\ result' = result
           \/ /\ phase'[c] = "settled" /\ result'[c] \in Results
              /\ result' = [result EXCEPT ![c] = result'[c]]
    BY <1>2, RunTaskEffect
  <2>1. \A d \in Calls \ {c} : phase'[d] = phase[d]
    BY <1>0, <2>0
  <2>2. Page(c) \in Pages /\ Page(c)' = Page(c)
    BY <2>0 DEF CommandTypeOK, TypeOK, Page, Requests, Pending, Running
  <2>3. ASSUME Page(c) # k PROVE Owed(k)'
    <3>1. Durable(k)' = Durable(k) \/ Durable(k)' \in Foreign
      <4>1. ASSUME NEW d \in Calls, RunTask(d), Page(d) = k PROVE FALSE
        <5>1. d # c /\ phase[d] \in Pending /\ phase' = [phase EXCEPT ![d] = phase'[d]]
          BY <2>3, <4>1, RunTaskEffect
        <5>2. Task(c) /\ Task(d)
          BY <1>2, <4>1 DEF RunTask, Task
        <5>3. UNCHANGED phase
          BY <1>0, <2>0, <5>1
        <5> QED BY <2>0, <5>3, TurnMoves, <1>2
      <4> QED BY <4>1, DurableStep
    <3>2. runtime'[k] = runtime[k]
      BY <1>0, <1>2, <2>3, DeliverEffect
    <3>3. Durable(k) \in Calls => Durable(k) # c
      BY <1>1, <2>3
    <3>4. \A n \in Calls : IsPending(n) /\ AcceptedLast(n, k) => IsPending(n)'
      BY <2>1, <2>3 DEF AcceptedLast, IsPending
    <3>5. CASE Durable(k)' = Durable(k)
      BY <2>1, <3>2, <3>3, <3>4, <3>5, OwedKept
    <3>6. CASE Durable(k)' \in Foreign
      BY <3>6 DEF Owed
    <3> QED BY <3>1, <3>5, <3>6
  <2>4. ASSUME Page(c) = k PROVE Owed(k)'
    <3>1. CASE /\ phase'[c] \in Running \ {"verifying"} /\ phase[c] # "verifying"
               /\ UNCHANGED <<result, disk>>
      <4>1. Durable(k)' = Durable(k)
        BY <2>0, <3>1 DEF Durable
      <4>2. runtime' = runtime
        BY <1>2, <3>1 DEF RunTask, Deliver, Confirmed, Running
      <4>3. Durable(k) \in Calls /\ phase[Durable(k)] = "verifying"
              => phase'[Durable(k)] = "verifying"
        BY <2>1, <3>1
      <4>4. \A n \in Calls : IsPending(n) /\ AcceptedLast(n, k) => IsPending(n)'
        BY <2>1, <3>1 DEF IsPending, Pending
      <4> QED BY <4>1, <4>2, <4>3, <4>4, OwedKept
    <3>2. CASE phase'[c] = "verifying" /\ Durable(Page(c))' = c
      <4>1. Durable(k)' = c
        BY <2>2, <2>4, <3>2 DEF Durable
      <4> QED BY <3>2, <4>1 DEF Owed
    <3>3. CASE phase'[c] = "settled" /\ result'[c] = "saved" /\ Durable(Page(c))' = c
      <4>1. Durable(k)' = c
        BY <2>2, <2>4, <3>3 DEF Durable
      <4>2. runtime'[k] = c
        BY <1>0, <1>2, <2>4, <3>3 DEF RunTask, Deliver, Confirmed
      <4> QED BY <4>1, <4>2 DEF Owed, SameContent
    <3>4. CASE /\ phase'[c] = "settled" /\ result'[c] = "superseded-after-write"
               /\ IsStale(c) /\ HasLanded(c)
      <4>1. PICK n \in Calls \ {c} : IsPending(n) /\ AcceptedLast(n, k)
        BY <1>2, <2>4, <3>4, SuccessorIsPending
      <4>2. accepted' = accepted
        BY <1>2, TaskEffect DEF RunTask, Task, WriteQueueInv
      <4>3. IsPending(n)' /\ AcceptedLast(n, k)'
        BY <2>0, <2>1, <4>1, <4>2 DEF IsPending, AcceptedLast, IsRevised, Page, Revision
      <4> QED BY <4>3 DEF Owed
    <3>5. CASE /\ phase'[c] = "settled" /\ result'[c] = "stale"
               /\ IsStale(c) /\ phase[c] # "verifying" /\ UNCHANGED disk
      <4>1. Durable(k)' = Durable(k)
        BY <2>0, <3>5 DEF Durable
      <4>2. runtime' = runtime
        BY <1>2, <3>5 DEF RunTask, Deliver, Confirmed
      <4>3. Durable(k) \in Calls /\ phase[Durable(k)] = "verifying"
              => phase'[Durable(k)] = "verifying"
        BY <2>1, <3>5
      <4>4. ~AcceptedLast(c, k)
        <5> SUFFICES ASSUME AcceptedLast(c, k) PROVE FALSE
          OBVIOUS
        <5>1. accepted[k] = Revision(c) /\ IsRevised(c) /\ phase[c] # "idle"
          BY <2>0 DEF AcceptedLast, Pending, Running
        <5>2. Revision(c) \in 1..current[Page(c)]
          BY <5>1 DEF WriteQueueInv, RevisionInv
        <5> QED BY <2>4, <3>5, <5>1, <5>2 DEF IsStale, IsAcceptedWriteRevisionCurrent
      <4>5. \A n \in Calls : IsPending(n) /\ AcceptedLast(n, k) => IsPending(n)'
        BY <2>1, <4>4 DEF IsPending
      <4> QED BY <4>1, <4>2, <4>3, <4>5, OwedKept
    <3>6. CASE /\ phase'[c] = "settled"
               /\ result'[c] \in {"error", "readback-uncertain", "blocked"}
      <4>1. ticket'[c] > 0
        <5>1. Task(c) /\ result[c] # "saved"
          BY <1>2, <2>0 DEF RunTask, Task, LatestInv, Pending, Running
        <5>2. ticket'[c] = ticket[c]
          BY <5>1, TaskOutcome DEF WriteQueueInv
        <5>3. ticket[c] \in 1..issued[Page(c)]
          BY <2>0 DEF WriteQueueInv, ChainInv, IsPending
        <5> QED BY <2>2, <5>2, <5>3 DEF CommandTypeOK, TypeOK
      <4>2. FailedOn(k)' \/ BlockedInQueue(k)'
        BY <2>2, <2>4, <3>6, <4>1 DEF FailedOn, BlockedInQueue
      <4> QED BY <4>2 DEF Owed
    <3> QED BY <1>2, <3>1, <3>2, <3>3, <3>4, <3>5, <3>6, TurnEnds
  <2> QED BY <2>3, <2>4
<1>3. ASSUME \A c \in Calls : ~RunTask(c) PROVE Owed(k)'
  <2>1. Durable(k)' = Durable(k) \/ Durable(k)' \in Foreign
    BY <1>3, DurableStep
  <2>2. CASE Durable(k)' \in Foreign
    BY <2>2 DEF Owed
  <2>3. \A d \in Calls : phase[d] \in Pending => phase'[d] = phase[d]
    BY <1>0, <1>3 DEF CommandNext, Command, Progress, BeginCommand, UndoRename,
       CreateRevision, EnqueuePlain, EnqueueRevised, AbandonRevision, PreconditionReadFails,
       MergeReadFails, ReadDurable, CheckPrecondition, MergeField, UndoRenameThrows, OpenPage,
       OutsideEdit, ForeignWrite, vars, allVars, Pending, Running
  <2>4. CASE Durable(k)' = Durable(k) /\ runtime'[k] = runtime[k]
    BY <2>3, <2>4, OwedKept DEF IsPending, Pending, Running
  <2>5. ASSUME NEW c \in Calls, MergeReadFails(c), runtime'[k] # runtime[k] PROVE Owed(k)'
    <3>1. Page(c) = k
      BY <1>0, <2>5 DEF MergeReadFails
    <3>2. result'[c] = "error" /\ request' = request
      BY <1>0, <2>5 DEF MergeReadFails, AbandonRevision
    <3> QED BY <3>1, <3>2 DEF Owed, FailedOn, Page
  <2>6. runtime'[k] = runtime[k] \/ \E c \in Calls : MergeReadFails(c)
    BY <1>3 DEF CommandNext, Command, Progress, BeginCommand, UndoRename, ReadDurable,
       CheckPrecondition, MergeField, PreconditionReadFails, UndoRenameThrows, OpenPage,
       OutsideEdit, pageVars, allVars
  <2> QED BY <2>1, <2>2, <2>4, <2>5, <2>6
<1> QED BY <1>2, <1>3

\* The second invariant: the queue's lines and revisions, and the account of
\* what will be published.
THEOREM PublicationInvariance == CommandSpec => []PublicationInv
<1>1. CommandInit => WorkspaceInv /\ AcceptedInv /\ OwedInv
  BY DEF CommandInit, Init, WorkspaceInv, AcceptedInv, OwedInv, Owed, Durable
<1>2. CommandInv /\ SettlementInv /\ WorkspaceInv /\ AcceptedInv /\ OwedInv
        /\ [CommandNext]_allVars => WorkspaceInv' /\ AcceptedInv' /\ OwedInv'
  <2>1. CommandInv /\ [CommandNext]_allVars => [Next]_vars
    BY CommandStepIsQueueStep DEF CommandInv
  <2> QED BY <2>1, WorkspaceStep, AcceptedStep, OwedStep DEF CommandInv, SettlementInv
<1>3. CommandSpec => []SettlementInv
  BY CommandsUseTheQueue, SettlementInvariance
<1> QED BY <1>1, <1>2, <1>3, CommandInvariance, PTL DEF CommandSpec, PublicationInv

\* Once the commands have returned, without a failure and without a queued write
\* turned down, the loaded page is what the file holds.
THEOREM QuietPagesAreCurrent == CommandSpec => []QuietRuntimeMatchesDisk
<1>1. PublicationInv => QuietRuntimeMatchesDisk
  <2> SUFFICES ASSUME PublicationInv, NEW k \in Pages, Quiet(k), ~BlockedInQueue(k),
                      Durable(k) \in Calls
               PROVE  SameContent(runtime[k], Durable(k))
    BY DEF QuietRuntimeMatchesDisk
  <2>1. Owed(k) /\ Durable(k) \notin Foreign
    BY QueueAssumption DEF PublicationInv, OwedInv
  <2> QED BY <2>1 DEF Owed, Quiet, IsPending, Pending, Running
<1> QED BY <1>1, PublicationInvariance, PTL
=============================================================================
