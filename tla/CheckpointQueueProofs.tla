----------------------- MODULE CheckpointQueueProofs -----------------------
(***************************************************************************)
(* Proofs about CheckpointQueue for every set of keys.                     *)
(***************************************************************************)
EXTENDS CheckpointQueue, SequenceTheorems, TLAPS

\* A job is not None.
LEMMA JobIsNotNone == \A j \in Job : j # None
  BY JobAssumption

LEMMA KeyIsNotNone == \A k \in Keys : k # None
  BY CheckpointAssumption

\* A new job is a job.
LEMMA NewJobType ==
  ASSUME NEW n \in Nat
  PROVE  NewJob(n) \in Job /\ NewJob(n) # None /\ NewJob(n).upTo = n /\ NewJob(n).status = "queued"
<1>1. NewJob(n) \in Job
  BY DEF NewJob, Job
<1> QED BY <1>1, JobIsNotNone DEF NewJob

\* Taking the first job leaves a queue of the other ones.
LEMMA TakeFirst ==
  ASSUME TypeOK, OneJobPerKey, queue # <<>>
  PROVE  /\ Head(queue) \in Keys /\ Tail(queue) \in Seq(Keys)
         /\ Head(queue) = queue[1] /\ 1 \in 1..Len(queue)
         /\ Len(Tail(queue)) = Len(queue) - 1
         /\ \A i \in 1..Len(queue) - 1 : i + 1 \in 1..Len(queue) /\ Tail(queue)[i] = queue[i + 1]
         /\ \A i \in 1..Len(queue) : i = 1 \/ (i - 1 \in 1..Len(queue) - 1 /\ i - 1 + 1 = i)
<1>1. queue \in Seq(Keys) /\ Len(queue) \in Nat /\ Len(queue) # 0
  BY EmptySeq DEF TypeOK
<1>2. /\ Head(queue) \in Keys /\ Tail(queue) \in Seq(Keys)
      /\ Len(Tail(queue)) = Len(queue) - 1
      /\ \A i \in 1..Len(Tail(queue)) : Tail(queue)[i] = queue[i + 1]
  BY <1>1, HeadTailProperties
<1>3. Head(queue) = queue[1]
  BY <1>1
<1>4. \A i \in 1..Len(queue) - 1 : i + 1 \in 1..Len(queue)
  BY <1>1
<1> QED BY <1>1, <1>2, <1>3, <1>4

\* The next job, if there is one and none runs, becomes the active one.
LEMMA RunNextJobInv ==
  ASSUME QueueInv, RunNextJob, asked' = asked, missed' = missed,
         queue' = <<>> \/ scheduled' \/ flushing' \/ active' # None,
         scheduled' \in BOOLEAN, flushing' \in BOOLEAN
  PROVE  QueueInv'
<1> USE DEF QueueInv
<1>1. CASE UNCHANGED <<jobs, queue, active, served>>
  BY <1>1 DEF TypeOK, OneJobPerKey, NeverStranded, NothingForgotten
<1>2. CASE active = None /\ queue # <<>>
  <2> DEFINE k == Head(queue)
  <2>1. /\ k \in Keys /\ active' = k /\ queue' = Tail(queue)
        /\ jobs' = [jobs EXCEPT ![k].status = "running"]
        /\ served' = [served EXCEPT ![k] = jobs[k].upTo]
    BY <1>2, TakeFirst DEF RunNextJob
  <2>2. jobs[k] # None /\ jobs[k] \in Job /\ k # None
    <3>1. queue[1] = k /\ 1 \in 1..Len(queue)
      BY <1>2, TakeFirst
    <3>2. jobs[k] # None
      BY <2>1, <3>1 DEF OneJobPerKey
    <3> QED BY <2>1, <3>2, KeyIsNotNone DEF TypeOK
  <2>3. /\ jobs' \in [Keys -> Job \cup {None}] /\ jobs'[k] \in Job /\ jobs'[k] # None
        /\ jobs'[k].status = "running" /\ jobs'[k].upTo = jobs[k].upTo
        /\ \A l \in Keys \ {k} : jobs'[l] = jobs[l]
    <3> DEFINE new == [jobs[k] EXCEPT !.status = "running"]
    <3>1. new \in Job /\ new.status = "running" /\ new.upTo = jobs[k].upTo
      BY <2>2 DEF Job
    <3>2. jobs' = [jobs EXCEPT ![k] = new]
      BY <2>1
    <3> HIDE DEF new
    <3> QED BY <2>1, <3>1, <3>2, JobIsNotNone DEF TypeOK
  <2>4. TypeOK'
    <3>1. jobs[k].upTo \in Nat
      BY <2>2 DEF Job
    <3> QED BY <2>1, <2>3, <3>1, <1>2, TakeFirst DEF TypeOK
  <2>5. OneJobPerKey'
    <3>1. \A i \in 1..Len(queue') : i + 1 \in 1..Len(queue) /\ queue'[i] = queue[i + 1]
      BY <1>2, <2>1, TakeFirst
    <3>2. \A i, j \in 1..Len(queue') : queue'[i] = queue'[j] => i = j
      BY <3>1 DEF OneJobPerKey
    <3>3. \A i \in 1..Len(queue') : queue'[i] # active'
      <4> SUFFICES ASSUME NEW i \in 1..Len(queue') PROVE queue'[i] # k
        BY <2>1
      <4>1. i \in Nat /\ i + 1 \in 1..Len(queue) /\ queue'[i] = queue[i + 1] /\ i + 1 # 1
        BY <3>1
      <4>2. queue[1] = k /\ 1 \in 1..Len(queue)
        BY <1>2, TakeFirst
      <4> QED BY <4>1, <4>2 DEF OneJobPerKey
    <3>4. ASSUME NEW l \in Keys
          PROVE  jobs'[l] # None <=> l = active' \/ \E i \in 1..Len(queue') : queue'[i] = l
      <4>1. jobs'[l] # None <=> jobs[l] # None
        BY <2>2, <2>3
      <4>2. (\E i \in 1..Len(queue) : queue[i] = l)
              <=> l = k \/ \E i \in 1..Len(queue') : queue'[i] = l
        <5>1. \A i \in 1..Len(queue) : i = 1 \/ (i - 1 \in 1..Len(queue') /\ queue'[i - 1] = queue[i])
          BY <1>2, <2>1, TakeFirst
        <5>2. queue[1] = k /\ 1 \in 1..Len(queue)
          BY <1>2, TakeFirst
        <5> QED BY <3>1, <5>1, <5>2
      <4>3. l # active
        BY <1>2, KeyIsNotNone
      <4> QED BY <2>1, <4>1, <4>2, <4>3 DEF OneJobPerKey
    <3> QED BY <3>2, <3>3, <3>4 DEF OneJobPerKey
  <2>6. NothingForgotten'
    <3> SUFFICES ASSUME NEW l \in Keys
                 PROVE  /\ served'[l] <= asked'[l]
                        /\ served'[l] < asked'[l] =>
                             \/ missed'[l] = asked'[l]
                             \/ jobs'[l] # None /\ (l = active' => jobs'[l].rerun)
                        /\ jobs'[l] # None => /\ jobs'[l].upTo = asked'[l]
                                              /\ jobs'[l].status = "queued" <=> l # active'
      BY DEF NothingForgotten
    <3>1. served'[k] = asked[k] /\ \A m \in Keys \ {k} : served'[m] = served[m]
      BY <2>1, <2>2 DEF NothingForgotten, TypeOK
    <3>2. asked[l] \in Nat /\ l # active
      BY <1>2, KeyIsNotNone DEF TypeOK
    <3>3. CASE l = k
      BY <2>1, <2>2, <2>3, <3>1, <3>2, <3>3 DEF NothingForgotten
    <3>4. CASE l # k
      BY <2>1, <2>3, <3>1, <3>2, <3>4 DEF NothingForgotten
    <3> QED BY <3>3, <3>4
  <2> QED BY <2>4, <2>5, <2>6 DEF NeverStranded
<1> QED BY <1>1, <1>2 DEF RunNextJob

\* After runNextJob a job runs, unless none is left.
LEMMA SomethingRuns ==
  ASSUME QueueInv, RunNextJob
  PROVE  queue' = <<>> \/ active' # None
<1>1. CASE UNCHANGED <<jobs, queue, active, served>> /\ (active # None \/ queue = <<>>)
  BY <1>1
<1>2. CASE active = None /\ queue # <<>>
  <2>1. active' = Head(queue) /\ Head(queue) \in Keys
    BY <1>2, TakeFirst DEF RunNextJob, QueueInv
  <2> QED BY <2>1, KeyIsNotNone
<1> QED BY <1>1, <1>2 DEF RunNextJob

\* Asking for a key queues a job for it, or merges the request into its job.
LEMMA EnqueueInv ==
  ASSUME QueueInv, NEW k \in Keys, Enqueue(k)
  PROVE  QueueInv'
<1> USE DEF QueueInv
<1>1. asked' = [asked EXCEPT ![k] = asked[k] + 1] /\ asked'[k] \in Nat
        /\ UNCHANGED <<active, flushing, served>>
  BY DEF Enqueue, TypeOK
<1>m. /\ \A l \in Keys \ {k} : missed'[l] = missed[l]
      /\ missed' \in [Keys -> Nat]
      /\ jobs[k] # None /\ jobs[k].status = "settled" /\ ~jobs[k].rerun => missed'[k] = asked'[k]
  BY <1>1 DEF Enqueue, IsOver, TypeOK
<1>2. CASE jobs[k] = None
  <2>1. /\ jobs' = [jobs EXCEPT ![k] = NewJob(asked'[k])]
        /\ queue' = Append(queue, k) /\ scheduled' = TRUE
    BY <1>2 DEF Enqueue, Add
  <2>2. /\ Len(queue) \in Nat /\ Len(queue') = Len(queue) + 1
        /\ queue' \in Seq(Keys) /\ queue'[Len(queue) + 1] = k
        /\ \A i \in 1..Len(queue) : queue'[i] = queue[i]
    BY <2>1 DEF TypeOK
  <2>3. \A i \in 1..Len(queue') : i \in 1..Len(queue) \/ i = Len(queue) + 1
    BY <2>2
  <2>4. Len(queue) + 1 \in 1..Len(queue') /\ \A i \in 1..Len(queue) : i \in 1..Len(queue')
    BY <2>2
  <2>5. k # active /\ \A i \in 1..Len(queue) : queue[i] # k
    BY <1>2 DEF OneJobPerKey
  <2>6. NewJob(asked'[k]) \in Job /\ NewJob(asked'[k]) # None
    BY <1>1, NewJobType
  <2>7. jobs'[k] = NewJob(asked'[k]) /\ \A l \in Keys \ {k} : jobs'[l] = jobs[l]
    BY <2>1 DEF TypeOK
  <2>8. TypeOK'
    BY <1>1, <1>m, <2>1, <2>2, <2>6 DEF TypeOK
  <2>9. OneJobPerKey'
    <3>1. \A i, j \in 1..Len(queue') : queue'[i] = queue'[j] => i = j
      BY <2>2, <2>3, <2>5 DEF OneJobPerKey
    <3>2. \A i \in 1..Len(queue') : queue'[i] # active'
      BY <1>1, <2>2, <2>3, <2>5 DEF OneJobPerKey
    <3>3. ASSUME NEW l \in Keys
          PROVE  jobs'[l] # None <=> l = active' \/ \E i \in 1..Len(queue') : queue'[i] = l
      <4>1. (\E i \in 1..Len(queue') : queue'[i] = l)
              <=> l = k \/ \E i \in 1..Len(queue) : queue[i] = l
        BY <2>2, <2>3, <2>4
      <4> QED BY <1>1, <2>6, <2>7, <4>1 DEF OneJobPerKey
    <3> QED BY <3>1, <3>2, <3>3 DEF OneJobPerKey
  <2>10. NothingForgotten'
    <3>1. jobs'[k].upTo = asked'[k] /\ jobs'[k].status = "queued" /\ k # active'
      BY <1>1, <2>5, <2>7 DEF NewJob
    <3>2. asked'[k] = asked[k] + 1 /\ asked[k] \in Nat /\ served[k] \in Nat
            /\ \A l \in Keys \ {k} : asked'[l] = asked[l]
      BY <1>1 DEF TypeOK
    <3> QED BY <1>1, <1>m, <2>6, <2>7, <3>1, <3>2 DEF NothingForgotten
  <2> QED BY <2>1, <2>8, <2>9, <2>10 DEF NeverStranded
<1>3. CASE jobs[k] # None
  <2>1. jobs' = [jobs EXCEPT ![k] = Merged(jobs[k], asked'[k])] /\ UNCHANGED <<queue, scheduled>>
    BY <1>3 DEF Enqueue, Add
  <2>2. jobs[k] \in Job
    BY <1>3 DEF TypeOK
  <2>3. /\ jobs'[k] \in Job /\ jobs'[k].upTo = asked'[k] /\ jobs'[k].status = jobs[k].status
        /\ jobs'[k].rerun \/ jobs[k].status # "running"
        /\ jobs[k].rerun => jobs'[k].rerun
        /\ \A l \in Keys \ {k} : jobs'[l] = jobs[l]
    BY <1>1, <2>1, <2>2 DEF TypeOK, Job, Merged
  <2>4. TypeOK'
    BY <1>1, <1>m, <2>1, <2>3 DEF TypeOK
  <2>5. OneJobPerKey'
    <3>1. \A l \in Keys : jobs'[l] # None <=> jobs[l] # None
      BY <1>3, <2>3, JobIsNotNone
    <3> QED BY <1>1, <2>1, <3>1 DEF OneJobPerKey
  <2>6. NothingForgotten'
    <3>1. asked'[k] = asked[k] + 1 /\ asked[k] \in Nat /\ served[k] \in Nat
            /\ \A l \in Keys \ {k} : asked'[l] = asked[l]
      BY <1>1 DEF TypeOK
    <3>2. jobs'[k] # None
      BY <2>3, JobIsNotNone
    <3>3. k = active => jobs'[k].rerun \/ missed'[k] = asked'[k]
      BY <1>3, <1>m, <2>2, <2>3 DEF NothingForgotten, Job
    <3> QED BY <1>1, <1>3, <1>m, <2>3, <3>1, <3>2, <3>3 DEF NothingForgotten
  <2> QED BY <1>1, <2>1, <2>4, <2>5, <2>6 DEF NeverStranded
<1> QED BY <1>2, <1>3

\* A run that settles keeps its job and its key.
LEMMA SettleRunInv ==
  ASSUME QueueInv, SettleRun
  PROVE  QueueInv'
<1> USE DEF QueueInv
<1>1. /\ active \in Keys /\ jobs[active] \in Job
      /\ jobs' = [jobs EXCEPT ![active].status = "settled"]
      /\ UNCHANGED <<queue, active, scheduled, flushing, asked, served, missed>>
  BY DEF SettleRun, TypeOK, OneJobPerKey
<1> DEFINE new == [jobs[active] EXCEPT !.status = "settled"]
<1>2. /\ new \in Job /\ new # None /\ new.status = "settled"
      /\ new.upTo = jobs[active].upTo /\ new.rerun = jobs[active].rerun
  BY <1>1, JobIsNotNone DEF Job
<1>3. jobs' = [jobs EXCEPT ![active] = new]
  BY <1>1
<1> HIDE DEF new
<1>4. jobs'[active] = new /\ \A l \in Keys \ {active} : jobs'[l] = jobs[l]
  BY <1>1, <1>3 DEF TypeOK
<1>5. TypeOK'
  BY <1>1, <1>2, <1>3 DEF TypeOK
<1>6. OneJobPerKey'
  BY <1>1, <1>2, <1>4 DEF OneJobPerKey
<1>7. NothingForgotten'
  BY <1>1, <1>2, <1>4, JobIsNotNone DEF NothingForgotten
<1> QED BY <1>1, <1>5, <1>6, <1>7 DEF NeverStranded

\* The end of a run frees its key, or queues it again.
LEMMA FinishJobInv ==
  ASSUME QueueInv, FinishJob
  PROVE  QueueInv'
<1> USE DEF QueueInv
<1> DEFINE k == active
           job == jobs[active]
<1>1. /\ k \in Keys /\ active' = None /\ UNCHANGED <<flushing, asked, served, missed>>
      /\ job.status = "settled"
      /\ jobs' = [jobs EXCEPT ![k] = IF job.rerun THEN NewJob(job.upTo) ELSE None]
      /\ queue' = IF job.rerun THEN Append(queue, k) ELSE queue
      /\ scheduled' = (scheduled \/ job.rerun \/ queue # <<>>)
  BY DEF FinishJob, Rescheduled, TypeOK
<1>2. job \in Job /\ job.status = "settled" /\ \A i \in 1..Len(queue) : queue[i] # k
  BY <1>1 DEF OneJobPerKey, NothingForgotten, TypeOK
<1>3. CASE job.rerun
  <2>1. /\ Len(queue) \in Nat /\ Len(queue') = Len(queue) + 1
        /\ queue' \in Seq(Keys) /\ queue'[Len(queue) + 1] = k
        /\ \A i \in 1..Len(queue) : queue'[i] = queue[i]
    BY <1>1, <1>3 DEF TypeOK
  <2>2. \A i \in 1..Len(queue') : i \in 1..Len(queue) \/ i = Len(queue) + 1
    BY <2>1
  <2>3. Len(queue) + 1 \in 1..Len(queue') /\ \A i \in 1..Len(queue) : i \in 1..Len(queue')
    BY <2>1
  <2>4. NewJob(job.upTo) \in Job /\ NewJob(job.upTo) # None
    BY <1>2, NewJobType DEF Job
  <2>5. jobs'[k] = NewJob(job.upTo) /\ \A l \in Keys \ {k} : jobs'[l] = jobs[l]
    BY <1>1, <1>3 DEF TypeOK
  <2>6. TypeOK'
    BY <1>1, <1>3, <2>1, <2>4 DEF TypeOK
  <2>7. OneJobPerKey'
    <3>1. \A i, j \in 1..Len(queue') : queue'[i] = queue'[j] => i = j
      <4> SUFFICES ASSUME NEW i \in 1..Len(queue'), NEW j \in 1..Len(queue'),
                          queue'[i] = queue'[j]
                   PROVE  i = j
        OBVIOUS
      <4>1. CASE i \in 1..Len(queue) /\ j \in 1..Len(queue)
        BY <2>1, <4>1 DEF OneJobPerKey
      <4>2. CASE i = Len(queue) + 1 \/ j = Len(queue) + 1
        <5>1. \A l \in 1..Len(queue) : queue'[l] # k
          BY <1>2, <2>1
        <5> QED BY <2>1, <2>2, <4>2, <5>1
      <4> QED BY <2>2, <4>1, <4>2
    <3>2. \A i \in 1..Len(queue') : queue'[i] # active'
      <4> SUFFICES ASSUME NEW i \in 1..Len(queue') PROVE queue'[i] \in Keys
        BY <1>1, KeyIsNotNone
      <4> QED BY <1>1, <2>1, <2>2 DEF TypeOK
    <3>3. ASSUME NEW l \in Keys
          PROVE  jobs'[l] # None <=> l = active' \/ \E i \in 1..Len(queue') : queue'[i] = l
      <4>1. (\E i \in 1..Len(queue') : queue'[i] = l)
              <=> l = k \/ \E i \in 1..Len(queue) : queue[i] = l
        BY <2>1, <2>2, <2>3
      <4>2. l # active'
        BY <1>1, KeyIsNotNone
      <4> QED BY <1>1, <2>4, <2>5, <4>1, <4>2 DEF OneJobPerKey
    <3> QED BY <3>1, <3>2, <3>3 DEF OneJobPerKey
  <2>8. NothingForgotten'
    <3>1. \A l \in Keys : l # active'
      BY <1>1, KeyIsNotNone
    <3>2. jobs'[k] # None /\ jobs'[k].upTo = job.upTo /\ jobs'[k].status = "queued"
      BY <1>2, <2>5, NewJobType DEF Job
    <3>3. job # None
      BY <1>2, JobIsNotNone
    <3> HIDE DEF job
    <3> QED BY <1>1, <2>5, <3>1, <3>2, <3>3 DEF NothingForgotten, job
  <2> QED BY <1>1, <1>3, <2>6, <2>7, <2>8 DEF NeverStranded
<1>4. CASE ~job.rerun
  <2>1. jobs'[k] = None /\ (\A l \in Keys \ {k} : jobs'[l] = jobs[l]) /\ queue' = queue
    BY <1>1, <1>4 DEF TypeOK
  <2>2. TypeOK'
    BY <1>1, <1>4 DEF TypeOK
  <2>3. OneJobPerKey'
    <3>1. \A l \in Keys : l # active'
      BY <1>1, KeyIsNotNone
    <3>2. \A i \in 1..Len(queue') : queue'[i] # active'
      BY <1>1, <2>1, <3>1 DEF TypeOK
    <3> QED BY <1>2, <2>1, <3>1, <3>2 DEF OneJobPerKey
  <2>4. NothingForgotten'
    <3>1. \A l \in Keys : l # active'
      BY <1>1, KeyIsNotNone
    <3>2. served[k] = asked[k] \/ missed[k] = asked[k]
      BY <1>1, <1>4 DEF NothingForgotten, TypeOK
    <3> QED BY <1>1, <2>1, <3>1, <3>2 DEF NothingForgotten, TypeOK
  <2> QED BY <1>1, <2>1, <2>2, <2>3, <2>4 DEF NeverStranded
<1> QED BY <1>2, <1>3, <1>4 DEF Job

\* The inductive invariant of the queue: one job per key, none of them stranded,
\* and no request forgotten.
THEOREM CheckpointInvariance == Spec => []QueueInv
<1>1. Init => QueueInv
  <2> SUFFICES ASSUME Init PROVE QueueInv
    OBVIOUS
  <2>1. Len(queue) = 0 /\ queue \in Seq(Keys)
    BY EmptySeq DEF Init
  <2>2. TypeOK
    BY <2>1 DEF Init, TypeOK
  <2>3. OneJobPerKey
    BY <2>1, KeyIsNotNone DEF Init, OneJobPerKey
  <2>4. NothingForgotten
    <3>1. \A k \in Keys : jobs[k] = None /\ served[k] = 0 /\ asked[k] = 0
      BY DEF Init
    <3>2. ~(0 < 0) /\ 0 <= 0
      OBVIOUS
    <3>3. \A k \in Keys : served[k] <= asked[k] /\ ~(served[k] < asked[k])
      BY <3>1, <3>2
    <3> QED BY <3>1, <3>3, Zenon DEF NothingForgotten
  <2> QED BY <2>2, <2>3, <2>4 DEF Init, QueueInv, NeverStranded
<1>2. QueueInv /\ [Next]_vars => QueueInv'
  <2> SUFFICES ASSUME QueueInv, [Next]_vars PROVE QueueInv'
    OBVIOUS
  <2>1. CASE ScheduledRun
    <3>1. RunNextJob /\ asked' = asked /\ missed' = missed /\ scheduled' = FALSE /\ flushing' = flushing
      BY <2>1 DEF ScheduledRun
    <3>2. queue' = <<>> \/ active' # None
      BY <3>1, SomethingRuns
    <3> QED BY <3>1, <3>2, RunNextJobInv DEF QueueInv, TypeOK
  <2>2. CASE Flush
    <3>1. /\ RunNextJob /\ asked' = asked /\ missed' = missed /\ scheduled' = FALSE
          /\ flushing' = (active # None \/ queue # <<>>)
      BY <2>2 DEF Flush
    <3>2. queue' = <<>> \/ active' # None
      BY <3>1, SomethingRuns
    <3> QED BY <3>1, <3>2, RunNextJobInv
  <2>3. CASE FlushNext
    <3>1. /\ RunNextJob /\ asked' = asked /\ missed' = missed /\ scheduled' = scheduled
          /\ flushing' = (queue # <<>>)
      BY <2>3 DEF FlushNext
    <3>2. queue' = <<>> \/ active' # None
      BY <3>1, SomethingRuns
    <3> QED BY <3>1, <3>2, RunNextJobInv DEF QueueInv, TypeOK
  <2>4. CASE UNCHANGED vars
    BY <2>4 DEF vars, QueueInv, TypeOK, OneJobPerKey, NeverStranded, NothingForgotten
  <2> QED BY <2>1, <2>2, <2>3, <2>4, EnqueueInv, SettleRunInv, FinishJobInv DEF Next
<1> QED BY <1>1, <1>2, PTL DEF Spec

\* Jobs of a type and workspace are never doubled.
THEOREM NeverDoubled == Spec => []OneJobPerKey
  BY CheckpointInvariance, PTL DEF QueueInv

\* No queued job is left without something that will run it.
THEOREM AlwaysLookedAfter == Spec => []NeverStranded
  BY CheckpointInvariance, PTL DEF QueueInv

\* No request is forgotten, unless it comes between the end of a run and its
\* finally block.
THEOREM RequestsKept == Spec => []NothingForgotten
  BY CheckpointInvariance, PTL DEF QueueInv
=============================================================================
