-------------------------- MODULE CheckpointQueue --------------------------
(***************************************************************************)
(* The background job queue of js/performance/backgroundCheckpointQueue.js *)
(* (validation checkpoints, order compaction): jobs are merged by type and *)
(* workspace, run one at a time in idle time, and run again when they were *)
(* asked for while running.  One action is one turn of the event loop.     *)
(* What a run found, its timing and the list of recent jobs are left out.  *)
(***************************************************************************)
EXTENDS Naturals, Sequences

CONSTANTS
  Keys,         \* createJobKey: a job type in a workspace
  MaxRequests,  \* bound: how often each key is asked for
  None

ASSUME CheckpointAssumption == MaxRequests \in Nat /\ None \notin Keys

VARIABLES
  jobs,       \* jobsByKey: the job of a key, or None
  queue,      \* the keys of the queued jobs
  active,     \* activeJob: the key of the running job, or None
  scheduled,  \* scheduledHandle: an idle callback or a timer is set
  flushing,   \* flushBackgroundCheckpoints is waiting for a job
  asked,      \* history: how often a key was asked for
  served,     \* history: the newest request that a started run has seen
  missed      \* history: the newest request merged into a run that is over

vars == <<jobs, queue, active, scheduled, flushing, asked, served, missed>>

\* upTo: the newest request merged into the job's payload and callback.
Job == [status : {"queued", "running", "settled"}, upTo : Nat, rerun : BOOLEAN]

ASSUME JobAssumption == None \notin Job

NewJob(n) == [status |-> "queued", upTo |-> n, rerun |-> FALSE]

\* Mutant: a request for a running job is only merged into it.
MergedWithoutRerun(job, n) == [job EXCEPT !.upTo = n]

\* A request for a key that has a job is merged into it; a running job is
\* asked to run again.  A run that has settled is not: until its finally block
\* removes the job, a request is merged into it for nothing.
Merged(job, n) ==
  [job EXCEPT !.upTo = n, !.rerun = @ \/ job.status = "running"]

Init ==
  /\ jobs = [k \in Keys |-> None]
  /\ queue = <<>>
  /\ active = None
  /\ scheduled = FALSE
  /\ flushing = FALSE
  /\ asked = [k \in Keys |-> 0]
  /\ served = [k \in Keys |-> 0]
  /\ missed = [k \in Keys |-> 0]

\* Mutant: a merged request is queued a second time.
QueuedAgain(k) ==
  /\ jobs' = [jobs EXCEPT ![k] = IF @ = None THEN NewJob(asked'[k]) ELSE Merged(@, asked'[k])]
  /\ queue' = Append(queue, k)
  /\ scheduled' = TRUE

\* enqueueBackgroundCheckpoint, for a request numbered asked'[k].
Add(k) ==
  IF jobs[k] = None
  THEN /\ jobs' = [jobs EXCEPT ![k] = NewJob(asked'[k])]
       /\ queue' = Append(queue, k)
       /\ scheduled' = TRUE
  ELSE /\ jobs' = [jobs EXCEPT ![k] = Merged(@, asked'[k])]
       /\ UNCHANGED <<queue, scheduled>>

IsOver(job) == job # None /\ job.status = "settled" /\ ~job.rerun

Enqueue(k) ==
  /\ asked[k] < MaxRequests
  /\ asked' = [asked EXCEPT ![k] = @ + 1]
  /\ Add(k)
  /\ missed' = IF IsOver(jobs[k]) THEN [missed EXCEPT ![k] = asked'[k]] ELSE missed
  /\ UNCHANGED <<active, flushing, served>>

\* runNextJob: its callback is called with the job's payload of that moment.
RunNextJob ==
  IF active # None \/ queue = <<>>
  THEN UNCHANGED <<jobs, queue, active, served>>
  ELSE LET k == Head(queue)
       IN /\ active' = k
          /\ queue' = Tail(queue)
          /\ jobs' = [jobs EXCEPT ![k].status = "running"]
          /\ served' = [served EXCEPT ![k] = jobs[k].upTo]

ScheduledRun ==
  /\ scheduled
  /\ scheduled' = FALSE
  /\ RunNextJob
  /\ UNCHANGED <<flushing, asked, missed>>

\* Mutant: only a rerun schedules the next run.
RescheduledForRerun(rerun) == scheduled' = (scheduled \/ rerun)

\* The end of a run: enqueueing the rerun, or finding more jobs, schedules.
Rescheduled(rerun) == scheduled' = (scheduled \/ rerun \/ queue # <<>>)

\* The run settles, successfully or not: then and catch set the status.
SettleRun ==
  /\ active # None /\ jobs[active].status = "running"
  /\ jobs' = [jobs EXCEPT ![active].status = "settled"]
  /\ UNCHANGED <<queue, active, scheduled, flushing, asked, served, missed>>

\* The finally block of a run that has settled.
FinishJob ==
  /\ active # None /\ jobs[active].status = "settled"
  /\ active' = None
  /\ LET job == jobs[active]
     IN /\ jobs' = [jobs EXCEPT ![active] = IF job.rerun THEN NewJob(job.upTo) ELSE None]
        /\ queue' = IF job.rerun THEN Append(queue, active) ELSE queue
        /\ Rescheduled(job.rerun)
  /\ UNCHANGED <<flushing, asked, served, missed>>

\* flushBackgroundCheckpoints: it cancels the scheduled run and runs the jobs
\* itself; each time a job has settled it goes on with the next one.
Flush ==
  /\ ~flushing
  /\ scheduled' = FALSE
  /\ flushing' = (active # None \/ queue # <<>>)
  /\ RunNextJob
  /\ UNCHANGED <<asked, missed>>

FlushNext ==
  /\ flushing /\ active = None
  /\ flushing' = (queue # <<>>)
  /\ RunNextJob
  /\ UNCHANGED <<scheduled, asked, missed>>

Next ==
  \/ \E k \in Keys : Enqueue(k)
  \/ ScheduledRun \/ SettleRun \/ FinishJob \/ Flush \/ FlushNext

Spec == Init /\ [][Next]_vars

\* Idle callbacks (with their timeout) and timers fire, and runs settle.
FairSpec ==
  /\ Spec
  /\ WF_vars(ScheduledRun) /\ WF_vars(SettleRun) /\ WF_vars(FinishJob)
  /\ WF_vars(FlushNext)

-----------------------------------------------------------------------------
TypeOK ==
  /\ jobs \in [Keys -> Job \cup {None}]
  /\ queue \in Seq(Keys)
  /\ active \in Keys \cup {None}
  /\ scheduled \in BOOLEAN
  /\ flushing \in BOOLEAN
  /\ asked \in [Keys -> Nat]
  /\ served \in [Keys -> Nat]
  /\ missed \in [Keys -> Nat]

\* "Only one active job of the same type per workspace": a key is queued at most
\* once, and not while it runs; jobsByKey knows exactly these jobs.
OneJobPerKey ==
  /\ \A i, j \in 1..Len(queue) : queue[i] = queue[j] => i = j
  /\ \A i \in 1..Len(queue) : queue[i] # active
  /\ \A k \in Keys :
       jobs[k] # None <=> k = active \/ \E i \in 1..Len(queue) : queue[i] = k

\* Jobs never wait in a queue that nothing will look at: the flush that cancels
\* the scheduled run, or the end of the running job, takes its place.
NeverStranded ==
  queue # <<>> => scheduled \/ flushing \/ active # None

\* A request is forgotten only if it came when a run of its key was over and
\* its finally block still to come: until a run has started with the newest
\* request of a key, a job that carries it waits, or the running one will rerun.
NothingForgotten ==
  \A k \in Keys :
    /\ served[k] <= asked[k]
    /\ served[k] < asked[k] =>
         missed[k] = asked[k] \/ (jobs[k] # None /\ (k = active => jobs[k].rerun))
    /\ jobs[k] # None =>
         jobs[k].upTo = asked[k] /\ (jobs[k].status = "queued" <=> k # active)

QueueInv == TypeOK /\ OneJobPerKey /\ NeverStranded /\ NothingForgotten

\* Every request that does not come in that window is followed by a run that
\* started with its payload.
EveryRequestRuns ==
  \A k \in Keys :
    served[k] < asked[k] ~> served[k] = asked[k] \/ missed[k] = asked[k]
=============================================================================
