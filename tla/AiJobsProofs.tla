---------------------------- MODULE AiJobsProofs ----------------------------
(* What AiJobs promises for any number of processes, users and jobs.       *)
(*                                                                         *)
(* The invariants hold because a job with a live task is PROCESSING and    *)
(* not stale, so no claim, recovery or retry touches it; that is where the *)
(* assumption enters that no run lasts longer than half an hour.  The two  *)
(* limits of the queue, how many runs a process works on and how many open *)
(* jobs a user's counter stands for, count sets: each step is shown to add *)
(* no more elements than it leaves room for.                               *)
EXTENDS AiJobs, TLAPS, FiniteSetTheorems

\* A live task has its job for itself.
LiveOwnsJob == \A t \in Live : job[t.job] = "PROCESSING" /\ ~stale[t.job]

LiveUnique == \A s, t \in Live : s.job = t.job => s = t

\* Requests in flight work on jobs no task can have.
RequestsOwnJobs ==
    /\ \A j \in accepting : job[j] = "ABSENT"
    /\ \A j \in retrying : job[j] = "FAILED"

IInv == TypeOK /\ LiveOwnsJob /\ LiveUnique /\ RequestsOwnJobs /\ OneQuestionSet

USE DEF JobStatus, Task

\* Before the first request there are no jobs, tasks or counters.
LEMMA InitIInv == Init => IInv
BY AiJobsAssumption
   DEF Init, IInv, TypeOK, LiveOwnsJob, LiveUnique, RequestsOwnJobs,
       OneQuestionSet, Live, InPhase

\* Students', teachers' and administrators' requests open only jobs no live
\* task works on.
LEMMA RequestIInv ==
    ASSUME IInv, NEW j \in Jobs, Request(j)
    PROVE  IInv'
<1> USE AiJobsAssumption
    DEF IInv, TypeOK, LiveOwnsJob, LiveUnique, RequestsOwnJobs,
        OneQuestionSet, Live, InPhase, queue, workers, quota, requests
<1>1. CASE AcceptJob(j)
    BY <1>1 DEF AcceptJob
<1>2. CASE CommitJob(j)
    BY <1>2 DEF CommitJob
<1>3. CASE RefuseJob(j)
    BY <1>3 DEF RefuseJob, Decr
<1>4. CASE LoseRequest(j)
    BY <1>4 DEF LoseRequest
<1>5. CASE RetryJob(j)
    BY <1>5 DEF RetryJob, MayRetry
<1>6. CASE CommitRetry(j)
    BY <1>6 DEF CommitRetry
<1>7. CASE FailRetry(j)
    BY <1>7 DEF FailRetry, Decr
<1>8. CASE \E status \in {"READY", "ARCHIVED"} : UpdateChallengeStatus(j, status)
    BY <1>8 DEF UpdateChallengeStatus
<1> QED
    BY <1>1, <1>2, <1>3, <1>4, <1>5, <1>6, <1>7, <1>8 DEF Request

\* A delivery touches one job, and what it stores is well typed.
LEMMA DeliverType ==
    ASSUME TypeOK, NEW j \in Jobs, Deliver(j)
    PROVE  /\ job' \in [Jobs -> JobStatus]
           /\ questions' \in [Jobs -> Nat]
           /\ challenge' \in [Jobs -> {"ABSENT", "PENDING", "READY",
                                      "FAILED", "ARCHIVED"}]
<1>1. job' \in [Jobs -> JobStatus]
    BY DEF TypeOK, Deliver
<1>2. questions' \in [Jobs -> Nat]
    BY DEF TypeOK, Deliver
<1>3. challenge' \in [Jobs -> {"ABSENT", "PENDING", "READY",
                               "FAILED", "ARCHIVED"}]
    BY DEF TypeOK, Deliver
<1> QED
    BY <1>1, <1>2, <1>3

\* A run step of t leaves the other live tasks alone.
LEMMA RunStepIInv ==
    ASSUME IInv, NEW t \in tasks, RunStep(t)
    PROVE  IInv'
<1> USE AiJobsAssumption
    DEF IInv, TypeOK, LiveOwnsJob, LiveUnique, RequestsOwnJobs,
        OneQuestionSet, Live, InPhase, queue, workers, quota, requests
<1>0. t \in Task /\ t \in tasks
    OBVIOUS
<1>a. \A phase \in {"provider", "release", "requeue"} :
          [t EXCEPT !.phase = phase] \in Task
    BY <1>0
<1>1. CASE Start(t)
    BY <1>0, <1>a, <1>1 DEF Start, Move, Open
<1>2. CASE Succeed(t)
    BY <1>0, <1>a, <1>2 DEF Succeed, Move, Deliver
<1>3. CASE Fail(t)
    BY <1>0, <1>a, <1>3 DEF Fail, Move
<1>4. CASE Break(t)
    BY <1>0, <1>4 DEF Break
<1>5. CASE Release(t)
  <2>1. Requester[t.job] \in Users
      BY <1>0
  <2>2. active' \in [Users -> Nat]
      BY <2>1, <1>5 DEF Release, Decr
  <2> QED
      BY <2>2, <1>5 DEF Release
<1>6. CASE Cancel(t)
    BY <1>0, <1>a, <1>6 DEF Cancel, Move
<1>7. CASE Requeue(t)
  <2>1. t \in Live /\ t.job \in Jobs /\ t.job \notin accepting \union retrying
      BY <1>0, <1>7 DEF Requeue
  <2>2. Live' = Live \ {t}
      BY <1>7 DEF Requeue
  <2>3. \A s \in Live' : s.job # t.job
      BY <2>1, <2>2
  <2>4. TypeOK'
      BY <2>1, <1>7 DEF Requeue
  <2>5. LiveOwnsJob' /\ LiveUnique'
    <3> HIDE DEF Live
    <3> QED
      BY <2>2, <2>3, <2>4, <1>7 DEF Requeue
  <2> QED
      BY <2>1, <2>4, <2>5, <1>7 DEF Requeue
<1>8. CASE CancelCommitted(t)
  <2>1. t \in Live /\ t.job \in Jobs /\ t.job \notin accepting \union retrying
      BY <1>0, <1>8 DEF CancelCommitted
  <2>2. TypeOK'
    <3>1. /\ job' \in [Jobs -> JobStatus] /\ questions' \in [Jobs -> Nat]
          /\ challenge' \in [Jobs -> {"ABSENT", "PENDING", "READY", "FAILED", "ARCHIVED"}]
        BY <2>1, <1>8, DeliverType DEF CancelCommitted
    <3> QED
        BY <3>1, <1>8 DEF CancelCommitted, Deliver
  <2>3. Live' = Live \ {t}
      BY <1>8 DEF CancelCommitted
  <2>4. LiveOwnsJob' /\ LiveUnique'
    <3> HIDE DEF Live
    <3> QED
      BY <2>1, <2>2, <2>3, <1>8 DEF CancelCommitted, Deliver
  <2>5. RequestsOwnJobs' /\ OneQuestionSet'
      BY <2>1, <1>8 DEF CancelCommitted, Deliver
  <2> QED
      BY <2>2, <2>4, <2>5
<1>9. CASE CancelRelease(t)
    BY <1>0, <1>9 DEF CancelRelease
<1> QED
    BY <1>1, <1>2, <1>3, <1>4, <1>5, <1>6, <1>7, <1>8, <1>9 DEF RunStep

\* Claims take pending jobs, which have no live task, once each.
LEMMA ClaimIInv ==
    ASSUME IInv, NEW p \in Procs, Claim(p)
    PROVE  IInv'
<1> DEFINE run(j) == [proc |-> p, job |-> j, round |-> retryCount[j],
                      phase |-> "scheduled"]
           new == {run(j) : j \in Claimed(p)}
<1>1. \A j \in Claimed(p) : j \in Jobs /\ job[j] = "PENDING"
    BY DEF Claimed, Claimable
<1> HIDE DEF Claimed
<1>2. \A j \in Claimed(p) : run(j) \in Task
    BY <1>1 DEF IInv, TypeOK
<1>3. /\ new \subseteq Task
      /\ \A t \in new : t.job \in Claimed(p) /\ t.phase = "scheduled"
    BY <1>2
<1>4. \A s, t \in new : s.job = t.job => s = t
    OBVIOUS
<1>5. tasks' = tasks \union new
    BY DEF Claim
<1> HIDE DEF new
<1>6. TypeOK'
    BY <1>1, <1>3, <1>5 DEF Claim, IInv, TypeOK, quota, requests
<1>7. \A t \in Live : t.job \notin Claimed(p)
    BY <1>1 DEF IInv, LiveOwnsJob
<1>8. Live' = Live \union new
    BY <1>3, <1>5 DEF Live, InPhase
<1>9. LiveOwnsJob'
  <2>1. \A t \in Live : t.job \in Jobs
      BY DEF Live, InPhase, IInv, TypeOK
  <2> QED
      BY <2>1, <1>1, <1>3, <1>6, <1>7, <1>8 DEF Claim, IInv, TypeOK, LiveOwnsJob
<1>10. LiveUnique'
    BY <1>3, <1>4, <1>7, <1>8 DEF IInv, LiveUnique
<1>11. RequestsOwnJobs' /\ OneQuestionSet'
    BY <1>1 DEF Claim, IInv, TypeOK, RequestsOwnJobs, OneQuestionSet, quota, requests
<1> QED
    BY <1>6, <1>9, <1>10, <1>11 DEF IInv

\* Recovery touches only jobs without a live task.
LEMMA ProcessIInv ==
    ASSUME IInv, NEW p \in Procs, Process(p)
    PROVE  IInv'
<1> USE AiJobsAssumption
    DEF IInv, TypeOK, LiveOwnsJob, LiveUnique, RequestsOwnJobs,
        OneQuestionSet, Live, InPhase, queue, workers, quota, requests
<1>1. CASE Recover(p)
    BY <1>1 DEF Recover, Abandoned
<1>2. CASE Claim(p)
    BY <1>2, ClaimIInv
<1>3. CASE Shutdown(p)
    BY <1>3 DEF Shutdown
<1>4. CASE Stopped(p)
    BY <1>4 DEF Stopped
<1>5. CASE Crash(p)
    BY <1>5 DEF Crash, TasksOf
<1>6. CASE Boot(p)
    BY <1>6 DEF Boot
<1> QED
    BY <1>1, <1>2, <1>3, <1>4, <1>5, <1>6 DEF Process

\* Time passes; a run that would age out while it works is what SlowRuns
\* admits.
LEMMA TimeIInv ==
    ASSUME IInv, ~SlowRuns,
           \/ \E j \in Jobs : AgeOut(j)
           \/ \E u \in Users : ExpireActive(u) \/ ExpireDaily(u)
    PROVE  IInv'
<1> USE AiJobsAssumption
    DEF IInv, TypeOK, LiveOwnsJob, LiveUnique, RequestsOwnJobs,
        OneQuestionSet, Live, InPhase, queue, workers, quota, requests
<1>1. CASE \E j \in Jobs : AgeOut(j)
    BY <1>1 DEF AgeOut
<1>2. CASE \E u \in Users : ExpireActive(u)
    BY <1>2 DEF ExpireActive
<1>3. CASE \E u \in Users : ExpireDaily(u)
    BY <1>3 DEF ExpireDaily
<1> QED
    BY <1>1, <1>2, <1>3

\* A stuttering step preserves the invariant.
LEMMA StutterIInv == IInv /\ UNCHANGED vars => IInv'
BY DEF IInv, TypeOK, LiveOwnsJob, LiveUnique, RequestsOwnJobs,
       OneQuestionSet, Live, InPhase, vars, queue, workers, quota, requests

\* Every step preserves the invariant unless runs outlast the cutoff.
LEMMA StepIInv ==
    ASSUME ~SlowRuns, IInv, [Next]_vars
    PROVE  IInv'
<1>1. CASE \E j \in Jobs : Request(j)
    BY <1>1, RequestIInv
<1>2. CASE \E t \in tasks : RunStep(t)
    BY <1>2, RunStepIInv
<1>3. CASE \E p \in Procs : Process(p)
    BY <1>3, ProcessIInv
<1>4. CASE \/ \E j \in Jobs : AgeOut(j)
           \/ \E u \in Users : ExpireActive(u) \/ ExpireDaily(u)
    BY <1>4, TimeIInv
<1>5. CASE UNCHANGED vars
    BY <1>5, StutterIInv
<1> QED
    BY <1>1, <1>2, <1>3, <1>4, <1>5 DEF Next

\* The inductive invariant holds in every reachable state, unless a run
\* outlasts the half hour after which _recover_abandoned_jobs takes its job
\* back.
THEOREM Invariance ==
    ASSUME ~SlowRuns
    PROVE  Spec => []IInv
<1>1. Init => IInv
    BY InitIInv
<1>2. IInv /\ [Next]_vars => IInv'
    BY StepIInv
<1> QED
    BY <1>1, <1>2, PTL DEF Spec

\* Every reachable state is well typed.
THEOREM TypeCorrect ==
    ASSUME ~SlowRuns
    PROVE  Spec => []TypeOK
<1>1. IInv => TypeOK
    BY DEF IInv
<1> QED
    BY <1>1, Invariance, PTL

\* No two tasks ever work on one job, however claims, recoveries, retries,
\* crashes and shutdowns interleave, as long as no run outlasts the cutoff
\* of the recovery.
THEOREM RunsAreExclusive ==
    ASSUME ~SlowRuns
    PROVE  Spec => []OneRunPerJob
<1>1. IInv => OneRunPerJob
    BY DEF IInv, LiveOwnsJob, LiveUnique, OneRunPerJob
<1> QED
    BY <1>1, Invariance, PTL

\* A challenge gets its questions exactly once.
THEOREM QuestionsAreUnique ==
    ASSUME ~SlowRuns
    PROVE  Spec => []OneQuestionSet
<1>1. IInv => OneQuestionSet
    BY DEF IInv
<1> QED
    BY <1>1, Invariance, PTL

-----------------------------------------------------------------------------
(* The queue implements the life cycle of JobLifecycle.                    *)

\* What an observer of JobLifecycle sees of the queue.
Seen == [j \in Jobs |-> IF job[j] \in Open THEN "OPEN" ELSE job[j]]

\* Steps that leave this unchanged are invisible.
LEMMA Invisible ==
    ASSUME IInv, Seen' = Seen, UNCHANGED questions
    PROVE  [Lifecycle!Next]_(Lifecycle!lifecycle)
BY DEF Seen, Lifecycle!lifecycle

\* A request opens the job it commits, or is invisible.
LEMMA RequestRefines ==
    ASSUME IInv, NEW j \in Jobs, Request(j)
    PROVE  [Lifecycle!Next]_(Lifecycle!lifecycle)
<1>1. CASE CommitJob(j)
  <2>1. job[j] = "ABSENT"
      BY <1>1 DEF CommitJob, IInv, RequestsOwnJobs
  <2>2. Lifecycle!Open(j)
      BY <1>1, <2>1 DEF CommitJob, Lifecycle!Open, Open, IInv, TypeOK
  <2> QED
      BY <2>2 DEF Lifecycle!Next
<1>2. CASE CommitRetry(j)
  <2>1. job[j] = "FAILED"
      BY <1>2 DEF CommitRetry, IInv, RequestsOwnJobs
  <2>2. Lifecycle!Open(j)
      BY <1>2, <2>1 DEF CommitRetry, Lifecycle!Open, Open, IInv, TypeOK
  <2> QED
      BY <2>2 DEF Lifecycle!Next
<1>3. CASE UNCHANGED <<job, questions>>
    BY <1>3, Invisible DEF Seen
<1> QED
    BY <1>1, <1>2, <1>3
       DEF Request, AcceptJob, RefuseJob, LoseRequest, RetryJob, FailRetry,
           UpdateChallengeStatus, queue

\* A run delivers its job, gives it up, or is invisible.
LEMMA RunStepRefines ==
    ASSUME IInv, NEW t \in tasks, RunStep(t)
    PROVE  [Lifecycle!Next]_(Lifecycle!lifecycle)
<1>0. t.job \in Jobs /\ (t \in Live => job[t.job] = "PROCESSING")
    BY DEF IInv, TypeOK, LiveOwnsJob
<1>1. CASE Deliver(t.job) /\ t \in Live
  <2>1. Lifecycle!Deliver(t.job)
      BY <1>0, <1>1 DEF Deliver, Lifecycle!Deliver, Open, IInv, TypeOK
  <2> QED
      BY <1>0, <2>1 DEF Lifecycle!Next
<1>2. CASE Fail(t)
  <2>1. Lifecycle!GiveUp(t.job)
      BY <1>0, <1>2
         DEF Fail, Lifecycle!GiveUp, Open, IInv, TypeOK, Live, InPhase
  <2> QED
      BY <1>0, <2>1 DEF Lifecycle!Next
<1>3. CASE Requeue(t)
  <2>1. job[t.job] = "PROCESSING"
      BY <1>0, <1>3 DEF Requeue, Live
  <2>2. Seen' = Seen
      BY <1>0, <1>3, <2>1 DEF Requeue, Seen, Open, IInv, TypeOK
  <2> QED
      BY <1>3, <2>2, Invisible DEF Requeue
<1>4. CASE UNCHANGED <<job, questions>>
    BY <1>4, Invisible DEF Seen
<1> QED
    BY <1>1, <1>2, <1>3, <1>4
       DEF RunStep, Start, Succeed, Break, Release, Cancel, CancelCommitted,
           CancelRelease, queue, Live

\* Claims, recoveries, shutdowns, crashes and boots are invisible.
LEMMA ProcessRefines ==
    ASSUME IInv, NEW p \in Procs, Process(p)
    PROVE  [Lifecycle!Next]_(Lifecycle!lifecycle)
<1>1. CASE Recover(p)
  <2>1. Seen' = Seen
      BY <1>1 DEF Recover, Abandoned, Seen, Open, IInv, TypeOK
  <2> QED
      BY <1>1, <2>1, Invisible DEF Recover
<1>2. CASE Claim(p)
  <2>1. \A j \in Claimed(p) : job[j] = "PENDING"
      BY DEF Claimed, Claimable
  <2> HIDE DEF Claimed
  <2>2. Seen' = Seen
      BY <1>2, <2>1 DEF Claim, Seen, Open, IInv, TypeOK
  <2> QED
      BY <1>2, <2>2, Invisible DEF Claim
<1>3. CASE UNCHANGED <<job, questions>>
    BY <1>3, Invisible DEF Seen
<1> QED
    BY <1>1, <1>2, <1>3
       DEF Process, Shutdown, Stopped, Crash, Boot, queue

\* Whatever workers, requests, crashes and clocks do, a job is opened,
\* delivered once or given up, and only a job given up is opened again.
THEOREM QueueImplementsLifecycle ==
    ASSUME ~SlowRuns
    PROVE  Spec => ImplementsLifecycle
<1>1. Init => Lifecycle!Init
    BY DEF Init, Lifecycle!Init, Open
<1>2. IInv /\ [Next]_vars => [Lifecycle!Next]_(Lifecycle!lifecycle)
  <2> SUFFICES ASSUME IInv, [Next]_vars
               PROVE  [Lifecycle!Next]_(Lifecycle!lifecycle)
      OBVIOUS
  <2>1. CASE \E j \in Jobs : Request(j)
      BY <2>1, RequestRefines
  <2>2. CASE \E t \in tasks : RunStep(t)
      BY <2>2, RunStepRefines
  <2>3. CASE \E p \in Procs : Process(p)
      BY <2>3, ProcessRefines
  <2>4. CASE UNCHANGED <<job, questions>>
      BY <2>4, Invisible DEF Seen
  <2> QED
      BY <2>1, <2>2, <2>3, <2>4
         DEF Next, AgeOut, ExpireActive, ExpireDaily, vars, queue
<1> QED
    BY <1>1, <1>2, Invariance, PTL
       DEF Spec, ImplementsLifecycle, Lifecycle!Spec

-----------------------------------------------------------------------------
(* Runs of a process.                                                      *)

\* The elements of a set of numbers with fewer than k below them are at most k:
\* no two have equally many.
LEMMA FirstFew ==
    ASSUME NEW S, S \subseteq Nat, IsFiniteSet(S), NEW k \in Nat
    PROVE  LET first == {j \in S : Cardinality({i \in S : i < j}) < k}
           IN  IsFiniteSet(first) /\ Cardinality(first) <= k
<1> DEFINE below(j) == {i \in S : i < j}
           first == {j \in S : Cardinality(below(j)) < k}
           rank == [j \in first |-> Cardinality(below(j))]
<1>1. \A j \in S : IsFiniteSet(below(j)) /\ Cardinality(below(j)) \in Nat
    BY FS_Subset, FS_CardinalityType
<1>2. ASSUME NEW i \in S, NEW j \in S, i < j
      PROVE  Cardinality(below(i)) # Cardinality(below(j))
  <2>1. i \in Nat /\ j \in Nat /\ S \subseteq Nat
      OBVIOUS
  <2>2. \A h \in S : h < i => h < j
    <3>1. \A h \in Nat : h < i => h < j
        BY <1>2, <2>1
    <3> QED
        BY <2>1, <3>1
  <2>3. below(i) \subseteq below(j)
      BY <2>2
  <2>4. i \in below(j) /\ i \notin below(i)
    <3>1. i < j /\ ~(i < i)
        BY <1>2, <2>1
    <3> QED
        BY <3>1
  <2> HIDE DEF below
  <2> QED
      BY <1>1, <2>3, <2>4, FS_Subset
<1> HIDE DEF below
<1>3. rank \in [first -> 0 .. k - 1]
  <2>1. \A j \in first : Cardinality(below(j)) \in 0 .. k - 1
      BY <1>1
  <2> QED
      BY <2>1
<1>4. rank \in Injection(first, 0 .. k - 1)
  <2>1. \A i, j \in first : rank[i] = rank[j] => i = j
    <3> SUFFICES ASSUME NEW i \in first, NEW j \in first, i # j
                 PROVE  Cardinality(below(i)) # Cardinality(below(j))
        OBVIOUS
    <3>1. i \in Nat /\ j \in Nat /\ (i < j \/ j < i)
        OBVIOUS
    <3> QED
        BY <3>1, <1>2
  <2> HIDE DEF rank, first
  <2> QED
      BY <1>3, <2>1 DEF Injection, IsInjective
<1>5. IsFiniteSet(0 .. k - 1) /\ Cardinality(0 .. k - 1) = k
    BY FS_Interval
<1>6. IsFiniteSet(first) /\ Cardinality(first) <= k
  <2> HIDE DEF first, rank
  <2> QED
      BY <1>4, <1>5, FS_Injection
<1> QED
    BY <1>6 DEF below

\* Every process has finitely many tasks, no more than it may have at once.
Bounded == IsFiniteSet(tasks) /\ ConcurrencyBounded

\* A step after which every task stands for a different earlier one adds none.
LEMMA NoMoreTasks ==
    ASSUME IInv, Bounded, tasks' \subseteq tasks
    PROVE  Bounded'
<1>1. IsFiniteSet(tasks')
    BY FS_Subset DEF Bounded
<1>2. ASSUME NEW p \in Procs
      PROVE  Cardinality(TasksOf(p)') <= MaxConcurrent
  <2>1. TasksOf(p)' \subseteq TasksOf(p) /\ TasksOf(p) \subseteq tasks
      BY DEF TasksOf
  <2>2. IsFiniteSet(TasksOf(p))
      BY <2>1, FS_Subset DEF Bounded
  <2>3. /\ Cardinality(TasksOf(p)') <= Cardinality(TasksOf(p))
        /\ Cardinality(TasksOf(p)) \in Nat /\ Cardinality(TasksOf(p)') \in Nat
      BY <2>1, <2>2, FS_Subset, FS_CardinalityType
  <2>4. Cardinality(TasksOf(p)) <= MaxConcurrent /\ MaxConcurrent \in Nat
      BY AiJobsAssumption DEF Bounded, ConcurrencyBounded
  <2> QED
      BY <2>3, <2>4
<1> QED
    BY <1>1, <1>2 DEF Bounded, ConcurrencyBounded

\* A task that moves on stays with its process.
LEMMA MoveBounded ==
    ASSUME IInv, Bounded, NEW t \in tasks,
           NEW phase \in {"provider", "release", "requeue"}, tasks' = Move(t, phase)
    PROVE  Bounded'
<1> DEFINE m == [t EXCEPT !.phase = phase]
<1>1. m.proc = t.proc
    BY DEF IInv, TypeOK
<1>2. tasks' = (tasks \ {t}) \union {m}
    BY DEF Move
<1> HIDE DEF m
<1>3. IsFiniteSet(tasks')
  <2>1. IsFiniteSet(tasks \ {t})
      BY FS_RemoveElement DEF Bounded
  <2> QED
      BY <1>2, <2>1, FS_AddElement
<1>4. ASSUME NEW p \in Procs
      PROVE  Cardinality(TasksOf(p)') <= MaxConcurrent
  <2> DEFINE mine == TasksOf(p)
  <2>1. IsFiniteSet(mine) /\ Cardinality(mine) \in Nat
      BY FS_Subset, FS_CardinalityType DEF TasksOf, Bounded
  <2>2. Cardinality(mine) <= MaxConcurrent /\ MaxConcurrent \in Nat
      BY AiJobsAssumption DEF Bounded, ConcurrencyBounded
  <2>3. CASE t.proc = p
    <3>1. mine' = (mine \ {t}) \union {m} /\ t \in mine
        BY <1>1, <1>2, <2>3 DEF TasksOf
    <3> HIDE DEF mine
    <3>2. IsFiniteSet(mine \ {t}) /\ Cardinality(mine \ {t}) = Cardinality(mine) - 1
        BY <2>1, <3>1, FS_RemoveElement
    <3> DEFINE rest == mine \ {t}
    <3>3. IsFiniteSet(rest) /\ Cardinality(rest) = Cardinality(mine) - 1
        BY <3>2
    <3> HIDE DEF rest
    <3>4. Cardinality(rest \union {m}) \in {Cardinality(rest), Cardinality(rest) + 1}
        BY <3>3, FS_AddElement
    <3>5. mine' = rest \union {m}
        BY <3>1 DEF rest
    <3>6. Cardinality(mine') <= MaxConcurrent
        BY <2>1, <2>2, <3>3, <3>4, <3>5
    <3> QED
        BY <3>6 DEF mine
  <2>4. CASE t.proc # p
    <3>1. mine' = mine
        BY <1>1, <1>2, <2>4 DEF TasksOf
    <3> QED
        BY <2>2, <3>1
  <2> QED
      BY <2>3, <2>4
<1> QED
    BY <1>3, <1>4 DEF Bounded, ConcurrencyBounded

\* A process claims no more jobs than it has room for.
LEMMA ClaimBounded ==
    ASSUME IInv, Bounded, NEW p \in Procs, Claim(p)
    PROVE  Bounded'
<1> DEFINE run(j) == [proc |-> p, job |-> j, round |-> retryCount[j],
                      phase |-> "scheduled"]
           new == {run(j) : j \in Claimed(p)}
           mine == TasksOf(p)
           room == MaxConcurrent - Cardinality(mine)
<1>1. IsFiniteSet(mine) /\ Cardinality(mine) \in Nat /\ room \in Nat
  <2>1. IsFiniteSet(mine) /\ Cardinality(mine) \in Nat
      BY FS_Subset, FS_CardinalityType DEF TasksOf, Bounded
  <2>2. Cardinality(mine) <= MaxConcurrent /\ MaxConcurrent \in Nat
      BY AiJobsAssumption DEF Bounded, ConcurrencyBounded
  <2> QED
      BY <2>1, <2>2
<1>2. IsFiniteSet(Claimed(p)) /\ Cardinality(Claimed(p)) <= room
  <2>1. Claimable \subseteq Nat /\ IsFiniteSet(Claimable)
      BY AiJobsAssumption, FS_Subset DEF Claimable
  <2>2. Claimed(p) = {j \in Claimable : Cardinality({i \in Claimable : i < j}) < room}
      BY DEF Claimed, Available
  <2> HIDE DEF room
  <2> QED
      BY <1>1, <2>1, <2>2, FirstFew, ZenonT(40)
<1>3. tasks' = tasks \union new
    BY DEF Claim
<1> HIDE DEF room
<1>4. IsFiniteSet(new) /\ Cardinality(new) <= Cardinality(Claimed(p))
  <2> DEFINE jobOf == [t \in new |-> t.job]
  <2>1. \A t \in new : t.job \in Claimed(p) /\ t = run(t.job)
      OBVIOUS
  <2>2. jobOf \in Injection(new, Claimed(p))
    <3>1. jobOf \in [new -> Claimed(p)]
        BY <2>1
    <3>2. \A s, t \in new : jobOf[s] = jobOf[t] => s = t
        BY <2>1
    <3> HIDE DEF new, jobOf
    <3> QED
        BY <3>1, <3>2 DEF Injection, IsInjective
  <2> HIDE DEF jobOf
  <2> QED
      BY <1>2, <2>2, FS_Injection
<1>5. \A t \in new : t.proc = p
    OBVIOUS
<1> HIDE DEF new
<1>6. IsFiniteSet(tasks')
    BY <1>3, <1>4, FS_Union DEF Bounded
<1>7. ASSUME NEW q \in Procs
      PROVE  Cardinality(TasksOf(q)') <= MaxConcurrent
  <2>1. CASE q = p
    <3>1. TasksOf(q)' = mine \union new
        BY <1>3, <1>5, <2>1 DEF TasksOf
    <3> HIDE DEF mine
    <3>2. /\ Cardinality(mine \union new) <= Cardinality(mine) + Cardinality(new)
          /\ Cardinality(mine \union new) \in Nat /\ Cardinality(new) \in Nat
      <4>1. IsFiniteSet(mine \union new) /\ IsFiniteSet(mine \cap new)
          BY <1>1, <1>4, FS_Union, FS_Subset
      <4>2. /\ Cardinality(mine \union new) \in Nat /\ Cardinality(new) \in Nat
            /\ Cardinality(mine \cap new) \in Nat
          BY <1>4, <4>1, FS_CardinalityType
      <4>3. Cardinality(mine \union new) =
                Cardinality(mine) + Cardinality(new) - Cardinality(mine \cap new)
          BY <1>1, <1>4, FS_Union
      <4> QED
          BY <1>1, <4>2, <4>3
    <3>3. Cardinality(Claimed(p)) \in Nat /\ MaxConcurrent \in Nat
        BY <1>2, FS_CardinalityType, AiJobsAssumption
    <3> QED
        BY <1>1, <1>2, <1>4, <3>1, <3>2, <3>3 DEF room
  <2>2. CASE q # p
    <3>1. TasksOf(q)' = TasksOf(q)
        BY <1>3, <1>5, <2>2 DEF TasksOf
    <3> QED
        BY <3>1 DEF Bounded, ConcurrencyBounded
  <2> QED
      BY <2>1, <2>2
<1> QED
    BY <1>6, <1>7 DEF Bounded, ConcurrencyBounded

\* Every other step adds no task.
LEMMA StepBounded ==
    ASSUME IInv, Bounded, [Next]_vars
    PROVE  Bounded'
<1>1. CASE tasks' \subseteq tasks
    BY <1>1, NoMoreTasks
<1>2. CASE \E p \in Procs : Claim(p)
    BY <1>2, ClaimBounded
<1>3. CASE \E t \in tasks, phase \in {"provider", "release", "requeue"} :
               tasks' = Move(t, phase)
    BY <1>3, MoveBounded
<1>4. \/ tasks' \subseteq tasks
      \/ \E p \in Procs : Claim(p)
      \/ \E t \in tasks, phase \in {"provider", "release", "requeue"} :
               tasks' = Move(t, phase)
  <2>1. CASE \E j \in Jobs : Request(j) \/ AgeOut(j)
      BY <2>1 DEF Request, AcceptJob, CommitJob, RefuseJob, LoseRequest, RetryJob,
                  CommitRetry, FailRetry, UpdateChallengeStatus, AgeOut, workers
  <2>2. CASE \E t \in tasks : RunStep(t)
      BY <2>2 DEF RunStep, Start, Succeed, Fail, Break, Release, Cancel, Requeue,
                  CancelCommitted, CancelRelease
  <2>3. CASE \E p \in Procs : Process(p)
      BY <2>3 DEF Process, Recover, Shutdown, Stopped, Crash, Boot
  <2>4. CASE \/ \E u \in Users : ExpireActive(u) \/ ExpireDaily(u)
             \/ UNCHANGED vars
      BY <2>4 DEF ExpireActive, ExpireDaily, vars, workers
  <2> QED
      BY <2>1, <2>2, <2>3, <2>4 DEF Next
<1> QED
    BY <1>1, <1>2, <1>3, <1>4

\* A process never works on more challenges at once than it may, however many
\* there are to claim (_claim_pending_jobs).
THEOREM ConcurrencyIsBounded ==
    ASSUME ~SlowRuns
    PROVE  Spec => []ConcurrencyBounded
<1>1. Init => Bounded
    BY FS_EmptySet, AiJobsAssumption DEF Init, Bounded, ConcurrencyBounded, TasksOf
<1>2. IInv /\ IInv' /\ Bounded /\ [Next]_vars => Bounded'
    BY StepBounded
<1>3. Bounded => ConcurrencyBounded
    BY DEF Bounded
<1> QED
    BY <1>1, <1>2, <1>3, Invariance, PTL DEF Spec

-----------------------------------------------------------------------------
(* Slots of a user.                                                        *)

\* A live run has the number of the attempt it makes; one that has ended has
\* that of an attempt that failed or delivered, and nobody else has it.
RoundsKnown ==
    /\ \A t \in Live : t.round = retryCount[t.job]
    /\ \A t \in InPhase("release") :
          /\ t.round <= retryCount[t.job]
          /\ t.round = retryCount[t.job] => job[t.job] = "COMPLETED"
    /\ \A s, t \in InPhase("release") : s.job = t.job /\ s.round = t.round => s = t

\* A job takes a slot.
Held(j) == job[j] \in Open \/ j \in accepting \union retrying

Covered(u) == lapsed[u] \/ Cardinality(Holders(u)) <= active[u]

\* Who holds a slot.
LEMMA WhoHolds ==
    ASSUME NEW u \in Users
    PROVE  \A h : h \in Holders(u) <=>
              \/ \E j \in Jobs : Requester[j] = u /\ Held(j) /\ h = <<"job", j>>
              \/ \E t \in InPhase("release") :
                    Requester[t.job] = u /\ h = <<"run", t.job, t.round>>
BY DEF Holders, Held

\* The same after a step.
LEMMA WhoWillHold ==
    ASSUME NEW u \in Users
    PROVE  \A h : h \in Holders(u)' <=>
              \/ \E j \in Jobs : Requester[j] = u /\ Held(j)' /\ h = <<"job", j>>
              \/ \E t \in InPhase("release")' :
                    Requester[t.job] = u /\ h = <<"run", t.job, t.round>>
BY DEF Holders, Held

\* There are finitely many holders, as there are jobs and tasks.
LEMMA HoldersFinite ==
    ASSUME IsFiniteSet(tasks), NEW u \in Users
    PROVE  IsFiniteSet(Holders(u)) /\ Cardinality(Holders(u)) \in Nat
<1> DEFINE mine == {j \in Jobs : Requester[j] = u /\ Held(j)}
           jobs == {<<"job", j>> : j \in mine}
           ended == {t \in InPhase("release") : Requester[t.job] = u}
           runs == {<<"run", t.job, t.round>> : t \in ended}
           nameJob == [j \in mine |-> <<"job", j>>]
           nameRun == [t \in ended |-> <<"run", t.job, t.round>>]
<1>1. IsFiniteSet(mine)
    BY AiJobsAssumption, FS_Subset
<1>2. IsFiniteSet(ended)
  <2>1. ended \subseteq tasks
      BY DEF InPhase
  <2> QED
      BY <2>1, FS_Subset
<1>3. nameJob \in Surjection(mine, jobs)
    BY DEF Surjection
<1>4. nameRun \in Surjection(ended, runs)
    BY DEF Surjection
<1>5. Holders(u) = jobs \union runs
    BY DEF Holders, Held
<1> HIDE DEF mine, jobs, ended, runs, nameJob, nameRun
<1>6. IsFiniteSet(jobs) /\ IsFiniteSet(runs)
    BY <1>1, <1>2, <1>3, <1>4, FS_Surjection
<1>7. IsFiniteSet(Holders(u))
    BY <1>5, <1>6, FS_Union
<1> QED
    BY <1>7, FS_CardinalityType

\* A step that takes no slot of the user.
LEMMA NoneTaken ==
    ASSUME Bounded, TypeOK, NEW u \in Users, Covered(u), Holders(u)' \subseteq Holders(u),
           active'[u] = active[u], lapsed'[u] = lapsed[u]
    PROVE  Covered(u)'
<1>1. /\ IsFiniteSet(Holders(u)) /\ Cardinality(Holders(u)) \in Nat
      /\ Cardinality(Holders(u)') <= Cardinality(Holders(u))
      /\ Cardinality(Holders(u)') \in Nat
    BY HoldersFinite, FS_Subset, FS_CardinalityType DEF Bounded
<1>2. active[u] \in Nat
    BY DEF TypeOK
<1> QED
    BY <1>1, <1>2 DEF Covered

\* One slot is taken, and counted.
LEMMA OneTaken ==
    ASSUME Bounded, TypeOK, NEW u \in Users, Covered(u),
           NEW h, Holders(u)' = Holders(u) \union {h},
           active'[u] = active[u] + 1, lapsed'[u] = lapsed[u]
    PROVE  Covered(u)'
<1>1. /\ IsFiniteSet(Holders(u)) /\ Cardinality(Holders(u)) \in Nat
      /\ Cardinality(Holders(u)') \in {Cardinality(Holders(u)), Cardinality(Holders(u)) + 1}
    BY HoldersFinite, FS_AddElement DEF Bounded
<1>2. active[u] \in Nat
    BY DEF TypeOK
<1> QED
    BY <1>1, <1>2 DEF Covered

\* One slot is given back, and counted off.
LEMMA OneGivenBack ==
    ASSUME Bounded, TypeOK, NEW u \in Users, Covered(u),
           NEW h \in Holders(u), Holders(u)' = Holders(u) \ {h},
           active'[u] = Decr(active[u]), lapsed'[u] = lapsed[u]
    PROVE  Covered(u)'
<1>1. /\ IsFiniteSet(Holders(u)) /\ Cardinality(Holders(u)) \in Nat
      /\ Cardinality(Holders(u)') = Cardinality(Holders(u)) - 1
    BY HoldersFinite, FS_RemoveElement DEF Bounded
<1>2. active[u] \in Nat
    BY DEF TypeOK
<1> QED
    BY <1>1, <1>2 DEF Covered, Decr

\* A slot changes hands.
LEMMA OnePassedOn ==
    ASSUME Bounded, TypeOK, NEW u \in Users, Covered(u),
           NEW h \in Holders(u), NEW g, Holders(u)' = (Holders(u) \ {h}) \union {g},
           active'[u] = active[u], lapsed'[u] = lapsed[u]
    PROVE  Covered(u)'
<1> DEFINE rest == Holders(u) \ {h}
<1>1. /\ IsFiniteSet(Holders(u)) /\ Cardinality(Holders(u)) \in Nat
      /\ IsFiniteSet(rest) /\ Cardinality(rest) = Cardinality(Holders(u)) - 1
    BY HoldersFinite, FS_RemoveElement DEF Bounded
<1> HIDE DEF rest
<1>2. Cardinality(rest \union {g}) \in {Cardinality(rest), Cardinality(rest) + 1}
    BY <1>1, FS_AddElement
<1>3. Holders(u)' = rest \union {g}
    BY DEF rest
<1>4. Cardinality(Holders(u)') <= Cardinality(Holders(u)) /\ Cardinality(Holders(u)') \in Nat
  <2>1. Cardinality(rest) \in Nat
      BY <1>1, FS_CardinalityType
  <2> DEFINE a == Cardinality(Holders(u))
             b == Cardinality(rest)
             c == Cardinality(rest \union {g})
  <2>2. a \in Nat /\ b \in Nat /\ b = a - 1 /\ c \in {b, b + 1}
      BY <1>1, <1>2, <2>1
  <2> HIDE DEF a, b, c
  <2>3. c <= a /\ c \in Nat
      BY <2>2
  <2> QED
      BY <1>3, <2>3 DEF a, c
<1>5. active[u] \in Nat
    BY DEF TypeOK
<1> QED
    BY <1>1, <1>4, <1>5 DEF Covered

\* A step that starts and ends no run.
LEMMA RoundsKept ==
    ASSUME IInv, RoundsKnown, tasks' \subseteq tasks, retryCount' = retryCount,
           \A j \in Jobs : job[j] = "COMPLETED" => job'[j] = "COMPLETED"
    PROVE  RoundsKnown'
<1>1. Live' \subseteq Live /\ InPhase("release")' \subseteq InPhase("release")
    BY DEF Live, InPhase
<1>2. \A t \in InPhase("release") : t.job \in Jobs
    BY DEF InPhase, IInv, TypeOK
<1> HIDE DEF Live, InPhase
<1> QED
    BY <1>1, <1>2 DEF RoundsKnown

\* What a task is after it moved on.
LEMMA MovedOn ==
    ASSUME IInv, NEW t \in tasks, NEW phase \in {"provider", "release", "requeue"},
           tasks' = Move(t, phase)
    PROVE  \E m \in Task :
              /\ m.job = t.job /\ m.round = t.round /\ m.phase = phase
              /\ tasks' = (tasks \ {t}) \union {m}
<1> DEFINE m == [t EXCEPT !.phase = phase]
<1>1. t \in Task
    BY DEF IInv, TypeOK
<1>2. m \in Task /\ m.job = t.job /\ m.round = t.round /\ m.phase = phase
    BY <1>1
<1>3. tasks' = (tasks \ {t}) \union {m}
    BY DEF Move
<1> HIDE DEF m
<1> QED
    BY <1>2, <1>3

\* A run gets to the provider, or is cancelled.
LEMMA RoundsMoveLive ==
    ASSUME IInv, RoundsKnown, NEW t \in Live, NEW phase \in {"provider", "requeue"},
           tasks' = Move(t, phase), UNCHANGED <<job, retryCount>>
    PROVE  RoundsKnown'
<1>1. t \in tasks /\ t.phase # "release"
    BY DEF Live, InPhase
<1>2. PICK m \in Task : /\ m.job = t.job /\ m.round = t.round /\ m.phase = phase
                        /\ tasks' = (tasks \ {t}) \union {m}
    BY <1>1, MovedOn
<1>3. Live' \subseteq Live \union {m} /\ InPhase("release")' \subseteq InPhase("release")
    BY <1>2 DEF Live, InPhase
<1>4. m.round = retryCount[m.job]
    BY <1>2 DEF RoundsKnown
<1> HIDE DEF Live, InPhase
<1> QED
    BY <1>3, <1>4 DEF RoundsKnown

\* A run delivers, or fails: nobody else has its number.
LEMMA RoundsEnd ==
    ASSUME IInv, RoundsKnown, NEW t \in tasks, Succeed(t) \/ Fail(t)
    PROVE  RoundsKnown'
<1>1. /\ t \in Live /\ t.job \in Jobs /\ tasks' = Move(t, "release")
      /\ job[t.job] = "PROCESSING" /\ t.round = retryCount[t.job]
  <2>1. t \in Live /\ t.job \in Jobs
      BY DEF Succeed, Fail, Live, InPhase, IInv, TypeOK
  <2>2. tasks' = Move(t, "release")
      BY DEF Succeed, Fail
  <2> QED
      BY <2>1, <2>2 DEF IInv, LiveOwnsJob, RoundsKnown
<1>2. PICK m \in Task : /\ m.job = t.job /\ m.round = t.round /\ m.phase = "release"
                        /\ tasks' = (tasks \ {t}) \union {m}
    BY <1>1, MovedOn
<1>3. /\ Live' \subseteq Live \ {t}
      /\ InPhase("release")' \subseteq InPhase("release") \union {m}
    BY <1>2 DEF Live, InPhase
<1>4. /\ \A s \in Live : s.job \in Jobs
      /\ \A s \in InPhase("release") : s.job \in Jobs /\ s.round \in Nat
      /\ retryCount \in [Jobs -> Nat] /\ job \in [Jobs -> JobStatus]
    BY DEF Live, InPhase, IInv, TypeOK
<1>5. \A s \in InPhase("release") : s.job = t.job => s.round < t.round
    BY <1>1, <1>4 DEF RoundsKnown
<1>6. \A s \in Live \ {t} : s.job # t.job
    BY <1>1 DEF IInv, LiveUnique
<1>7. /\ \A j \in Jobs \ {t.job} : job'[j] = job[j] /\ retryCount'[j] = retryCount[j]
      /\ \/ job'[t.job] = "COMPLETED" /\ retryCount'[t.job] = retryCount[t.job]
         \/ retryCount'[t.job] = retryCount[t.job] + 1
  <2>1. CASE Succeed(t)
      BY <1>1, <1>4, <2>1 DEF Succeed, Deliver
  <2>2. CASE Fail(t)
      BY <1>1, <1>4, <2>2 DEF Fail
  <2> QED
      BY <2>1, <2>2
<1> HIDE DEF Live, InPhase
<1>8. \A s \in Live' : s.round = retryCount'[s.job]
    BY <1>3, <1>4, <1>6, <1>7 DEF RoundsKnown
<1>9. \A s \in InPhase("release")' :
          /\ s.round <= retryCount'[s.job]
          /\ s.round = retryCount'[s.job] => job'[s.job] = "COMPLETED"
  <2>1. ASSUME NEW s \in InPhase("release")
        PROVE  /\ s.round <= retryCount'[s.job]
               /\ s.round = retryCount'[s.job] => job'[s.job] = "COMPLETED"
    <3>1. CASE s.job = t.job
        BY <1>1, <1>4, <1>5, <1>7, <2>1, <3>1
    <3>2. CASE s.job # t.job
        BY <1>4, <1>7, <2>1, <3>2 DEF RoundsKnown
    <3> QED
        BY <3>1, <3>2
  <2>2. /\ m.round <= retryCount'[m.job]
        /\ m.round = retryCount'[m.job] => job'[m.job] = "COMPLETED"
      BY <1>1, <1>2, <1>4, <1>7
  <2> QED
      BY <1>3, <2>1, <2>2
<1>10. \A s, q \in InPhase("release")' : s.job = q.job /\ s.round = q.round => s = q
  <2>1. \A s \in InPhase("release") : ~(s.job = m.job /\ s.round = m.round)
    <3>1. \A s \in InPhase("release") : s.job = t.job => s.round # t.round
        BY <1>1, <1>4, <1>5
    <3> QED
        BY <1>2, <3>1
  <2> QED
      BY <1>3, <2>1 DEF RoundsKnown
<1> QED
    BY <1>8, <1>9, <1>10 DEF RoundsKnown

\* A claimed job is attempted once more.
LEMMA RoundsClaim ==
    ASSUME IInv, RoundsKnown, NEW p \in Procs, Claim(p)
    PROVE  RoundsKnown'
<1> DEFINE run(j) == [proc |-> p, job |-> j, round |-> retryCount[j],
                      phase |-> "scheduled"]
           new == {run(j) : j \in Claimed(p)}
<1>1. \A j \in Claimed(p) : j \in Jobs /\ job[j] = "PENDING"
    BY DEF Claimed, Claimable
<1>2. /\ tasks' = tasks \union new /\ retryCount' = retryCount
      /\ job' = [j \in Jobs |-> IF j \in Claimed(p) THEN "PROCESSING" ELSE job[j]]
    BY DEF Claim
<1> HIDE DEF Claimed
<1>3. \A t \in new : t.phase = "scheduled" /\ t.round = retryCount[t.job]
    OBVIOUS
<1> HIDE DEF new
<1>4. Live' \subseteq Live \union new /\ InPhase("release")' \subseteq InPhase("release")
    BY <1>2, <1>3 DEF Live, InPhase
<1>5. \A t \in InPhase("release") : t.job \in Jobs
    BY DEF InPhase, IInv, TypeOK
<1>6. \A j \in Jobs : job[j] = "COMPLETED" => job'[j] = "COMPLETED"
    BY <1>1, <1>2
<1> HIDE DEF Live, InPhase
<1> QED
    BY <1>2, <1>3, <1>4, <1>5, <1>6 DEF RoundsKnown

\* A step that takes no slot and counts none.
LEMMA SlotsKept ==
    ASSUME IInv, Bounded, SlotsCovered, UNCHANGED <<active, lapsed>>,
           \A j \in Jobs : Held(j)' => Held(j),
           InPhase("release")' \subseteq InPhase("release")
    PROVE  SlotsCovered'
<1> SUFFICES ASSUME NEW u \in Users
             PROVE  Covered(u)'
    BY DEF SlotsCovered, Covered
<1>1. Holders(u)' \subseteq Holders(u)
    BY WhoHolds, WhoWillHold
<1> QED
    BY <1>1, NoneTaken DEF SlotsCovered, Covered, IInv

\* A request takes a slot for its job.
LEMMA SlotTaken ==
    ASSUME IInv, Bounded, SlotsCovered, NEW j \in Jobs,
           active' = [active EXCEPT ![Requester[j]] = @ + 1], lapsed' = lapsed,
           \A i \in Jobs : Held(i)' <=> Held(i) \/ i = j,
           InPhase("release")' = InPhase("release")
    PROVE  SlotsCovered'
<1> SUFFICES ASSUME NEW u \in Users
             PROVE  Covered(u)'
    BY DEF SlotsCovered, Covered
<1>1. Covered(u) /\ active \in [Users -> Nat] /\ TypeOK
    BY DEF SlotsCovered, Covered, IInv, TypeOK
<1>2. CASE u = Requester[j]
  <2>1. Holders(u)' = Holders(u) \union {<<"job", j>>}
      BY <1>2, WhoHolds, WhoWillHold
  <2>2. active'[u] = active[u] + 1
      BY <1>1, <1>2
  <2> QED
      BY <1>1, <2>1, <2>2, OneTaken
<1>3. CASE u # Requester[j]
  <2>1. Holders(u)' \subseteq Holders(u)
      BY <1>3, WhoHolds, WhoWillHold
  <2>2. active'[u] = active[u]
      BY <1>1, <1>3
  <2> QED
      BY <1>1, <2>1, <2>2, NoneTaken
<1> QED
    BY <1>2, <1>3

\* A request gives its slot back.
LEMMA SlotReturned ==
    ASSUME IInv, Bounded, SlotsCovered, NEW j \in Jobs, Held(j),
           active' = [active EXCEPT ![Requester[j]] = Decr(@)], lapsed' = lapsed,
           \A i \in Jobs : Held(i)' <=> Held(i) /\ i # j,
           InPhase("release")' = InPhase("release")
    PROVE  SlotsCovered'
<1> SUFFICES ASSUME NEW u \in Users
             PROVE  Covered(u)'
    BY DEF SlotsCovered, Covered
<1>1. Covered(u) /\ active \in [Users -> Nat] /\ TypeOK
    BY DEF SlotsCovered, Covered, IInv, TypeOK
<1>2. CASE u = Requester[j]
  <2>1. <<"job", j>> \in Holders(u)
      BY <1>2, WhoHolds
  <2>2. Holders(u)' = Holders(u) \ {<<"job", j>>}
      BY <1>2, WhoHolds, WhoWillHold
  <2>3. active'[u] = Decr(active[u])
      BY <1>1, <1>2
  <2> QED
      BY <1>1, <2>1, <2>2, <2>3, OneGivenBack
<1>3. CASE u # Requester[j]
  <2>1. Holders(u)' \subseteq Holders(u)
      BY <1>3, WhoHolds, WhoWillHold
  <2>2. active'[u] = active[u]
      BY <1>1, <1>3
  <2> QED
      BY <1>1, <2>1, <2>2, NoneTaken
<1> QED
    BY <1>2, <1>3

\* A run that has ended gives its slot back: nobody else holds it under its name.
LEMMA SlotReleased ==
    ASSUME IInv, Bounded, RoundsKnown, SlotsCovered, NEW t \in tasks, Release(t)
    PROVE  SlotsCovered'
<1> SUFFICES ASSUME NEW u \in Users
             PROVE  Covered(u)'
    BY DEF SlotsCovered, Covered
<1> DEFINE name == <<"run", t.job, t.round>>
<1>1. Covered(u) /\ active \in [Users -> Nat] /\ TypeOK
    BY DEF SlotsCovered, Covered, IInv, TypeOK
<1>2. t \in InPhase("release") /\ InPhase("release")' = InPhase("release") \ {t}
    BY DEF Release, InPhase
<1>3. \A s \in InPhase("release") : <<"run", s.job, s.round>> = name => s = t
    BY <1>2 DEF RoundsKnown
<1>4. \A j \in Jobs : Held(j)' <=> Held(j)
    BY DEF Release, Held, queue, requests
<1>5. lapsed' = lapsed /\ active' = [active EXCEPT ![Requester[t.job]] = Decr(@)]
    BY DEF Release
<1>6. CASE u = Requester[t.job]
  <2>1. name \in Holders(u)
      BY <1>2, <1>6, WhoHolds
  <2>2. Holders(u)' = Holders(u) \ {name}
      BY <1>2, <1>3, <1>4, <1>6, WhoHolds, WhoWillHold
  <2>3. active'[u] = Decr(active[u]) /\ lapsed'[u] = lapsed[u]
      BY <1>1, <1>5, <1>6
  <2> HIDE DEF name
  <2> QED
      BY <1>1, <2>1, <2>2, <2>3, OneGivenBack
<1>7. CASE u # Requester[t.job]
  <2>1. Holders(u)' \subseteq Holders(u)
      BY <1>2, <1>4, <1>7, WhoHolds, WhoWillHold
  <2>2. active'[u] = active[u] /\ lapsed'[u] = lapsed[u]
      BY <1>1, <1>5, <1>7
  <2> QED
      BY <1>1, <2>1, <2>2, NoneTaken
<1> QED
    BY <1>6, <1>7

\* The job of a run that ends leaves its slot to the run.
LEMMA SlotPassedOn ==
    ASSUME IInv, Bounded, SlotsCovered, NEW t \in tasks, Succeed(t) \/ Fail(t)
    PROVE  SlotsCovered'
<1> SUFFICES ASSUME NEW u \in Users
             PROVE  Covered(u)'
    BY DEF SlotsCovered, Covered
<1>1. Covered(u) /\ TypeOK /\ UNCHANGED <<active, lapsed>>
    BY DEF SlotsCovered, Covered, IInv, Succeed, Fail, quota
<1>2. /\ t \in Live /\ t.job \in Jobs /\ job[t.job] = "PROCESSING"
      /\ t.job \notin accepting \union retrying
      /\ tasks' = Move(t, "release") /\ t.phase = "provider"
  <2>1. t \in Live /\ t.job \in Jobs /\ tasks' = Move(t, "release") /\ t.phase = "provider"
      BY DEF Succeed, Fail, Live, InPhase, IInv, TypeOK
  <2> QED
      BY <2>1 DEF IInv, LiveOwnsJob, RequestsOwnJobs
<1>3. PICK m \in Task : /\ m.job = t.job /\ m.round = t.round /\ m.phase = "release"
                        /\ tasks' = (tasks \ {t}) \union {m}
    BY <1>2, MovedOn
<1>4. InPhase("release")' = InPhase("release") \union {m}
    BY <1>2, <1>3 DEF InPhase
<1>5. Held(t.job) /\ \A j \in Jobs : Held(j)' <=> Held(j) /\ j # t.job
  <2>1. /\ accepting' = accepting /\ retrying' = retrying
        /\ job' = [job EXCEPT ![t.job] = "COMPLETED"] \/ job' = [job EXCEPT ![t.job] = "FAILED"]
      BY DEF Succeed, Fail, Deliver, requests
  <2>2. job \in [Jobs -> JobStatus]
      BY DEF IInv, TypeOK
  <2> QED
      BY <1>2, <2>1, <2>2 DEF Held, Open
<1>6. CASE u = Requester[t.job]
  <2> DEFINE h == <<"job", t.job>>
             g == <<"run", m.job, m.round>>
  <2>1. h \in Holders(u)
      BY <1>2, <1>5, <1>6, WhoHolds
  <2>2. Holders(u)' = (Holders(u) \ {h}) \union {g}
    <3>1. h # g
        OBVIOUS
    <3>2. ASSUME NEW x \in Holders(u)'
          PROVE  x \in (Holders(u) \ {h}) \union {g}
        BY <1>2, <1>3, <1>4, <1>5, <1>6, <3>2, WhoHolds, WhoWillHold
    <3>3. ASSUME NEW x \in (Holders(u) \ {h}) \union {g}
          PROVE  x \in Holders(u)'
        BY <1>2, <1>3, <1>4, <1>5, <1>6, <3>3, WhoHolds, WhoWillHold
    <3> QED
        BY <3>2, <3>3
  <2> HIDE DEF h, g
  <2> QED
      BY <1>1, <2>1, <2>2, OnePassedOn
<1>7. CASE u # Requester[t.job]
  <2>1. Holders(u)' \subseteq Holders(u)
      BY <1>3, <1>4, <1>5, <1>7, WhoHolds, WhoWillHold
  <2> QED
      BY <1>1, <2>1, NoneTaken
<1> QED
    BY <1>6, <1>7

\* The key of a user's counter expires.
LEMMA SlotsExpire ==
    ASSUME IInv, Bounded, SlotsCovered, NEW v \in Users, ExpireActive(v)
    PROVE  SlotsCovered'
<1> SUFFICES ASSUME NEW u \in Users
             PROVE  Covered(u)'
    BY DEF SlotsCovered, Covered
<1>1. /\ Covered(u) /\ TypeOK
      /\ lapsed \in [Users -> BOOLEAN] /\ active \in [Users -> Nat]
    BY DEF SlotsCovered, Covered, IInv, TypeOK
<1>2. Holders(u)' = Holders(u)
  <2>1. /\ \A j \in Jobs : Held(j)' <=> Held(j)
        /\ InPhase("release")' = InPhase("release")
      BY DEF ExpireActive, Held, InPhase, queue, workers, requests
  <2> QED
      BY <2>1, WhoHolds, WhoWillHold
<1>3. /\ active' = [active EXCEPT ![v] = 0]
      /\ lapsed' = [lapsed EXCEPT ![v] = lapsed[v] \/ Holders(v) # {}]
    BY DEF ExpireActive
<1>4. CASE u = v /\ Holders(u) # {}
  <2>1. lapsed'[u]
      BY <1>1, <1>3, <1>4, Zenon
  <2> QED
      BY <2>1 DEF Covered
<1>5. CASE u = v /\ Holders(u) = {}
  <2>1. active'[u] = 0 /\ Cardinality(Holders(u)') = 0
      BY <1>1, <1>2, <1>3, <1>5, FS_EmptySet
  <2> QED
      BY <2>1 DEF Covered
<1>6. CASE u # v
  <2>1. active'[u] = active[u] /\ lapsed'[u] = lapsed[u]
      BY <1>1, <1>3, <1>6
  <2> QED
      BY <1>1, <1>2, <2>1, NoneTaken
<1> QED
    BY <1>4, <1>5, <1>6

CountsRight == Bounded /\ RoundsKnown /\ SlotsCovered

\* The requests of teachers and administrators.
LEMMA RequestCounts ==
    ASSUME IInv, CountsRight, NEW j \in Jobs, Request(j)
    PROVE  RoundsKnown' /\ SlotsCovered'
<1>0. /\ job \in [Jobs -> JobStatus]
      /\ \A i \in accepting : job[i] = "ABSENT"
      /\ \A i \in retrying : job[i] = "FAILED"
      /\ IInv /\ Bounded /\ RoundsKnown /\ SlotsCovered
    BY DEF IInv, TypeOK, RequestsOwnJobs, CountsRight
<1>1. tasks' = tasks /\ retryCount' = retryCount /\ lapsed' = lapsed
    BY DEF Request, AcceptJob, CommitJob, RefuseJob, LoseRequest, RetryJob, CommitRetry,
           FailRetry, UpdateChallengeStatus, workers, queue, quota
<1>2. \A i \in Jobs : job[i] = "COMPLETED" => job'[i] = "COMPLETED"
    BY <1>0 DEF Request, AcceptJob, CommitJob, RefuseJob, LoseRequest, RetryJob, CommitRetry,
           FailRetry, UpdateChallengeStatus, queue
<1>3. RoundsKnown'
    BY <1>0, <1>1, <1>2, RoundsKept
<1>4. InPhase("release")' = InPhase("release")
    BY <1>1 DEF InPhase
<1>5. CASE AcceptJob(j)
  <2>1. active' = [active EXCEPT ![Requester[j]] = @ + 1]
      BY <1>5 DEF AcceptJob
  <2>2. \A i \in Jobs : Held(i)' <=> Held(i) \/ i = j
      BY <1>5 DEF AcceptJob, Held, queue
  <2> QED
      BY <1>0, <1>1, <1>3, <1>4, <2>1, <2>2, SlotTaken
<1>6. CASE RetryJob(j)
  <2>1. active' = [active EXCEPT ![Requester[j]] = @ + 1]
      BY <1>6 DEF RetryJob
  <2>2. \A i \in Jobs : Held(i)' <=> Held(i) \/ i = j
      BY <1>6 DEF RetryJob, Held, queue
  <2> QED
      BY <1>0, <1>1, <1>3, <1>4, <2>1, <2>2, SlotTaken
<1>7. CASE RefuseJob(j)
  <2>1. active' = [active EXCEPT ![Requester[j]] = Decr(@)]
      BY <1>7 DEF RefuseJob
  <2>2. Held(j) /\ \A i \in Jobs : Held(i)' <=> Held(i) /\ i # j
      BY <1>0, <1>7 DEF RefuseJob, Held, Open, queue
  <2> QED
      BY <1>0, <1>1, <1>3, <1>4, <2>1, <2>2, SlotReturned
<1>8. CASE FailRetry(j)
  <2>1. active' = [active EXCEPT ![Requester[j]] = Decr(@)]
      BY <1>8 DEF FailRetry
  <2>2. Held(j) /\ \A i \in Jobs : Held(i)' <=> Held(i) /\ i # j
      BY <1>0, <1>8 DEF FailRetry, Held, Open, queue
  <2> QED
      BY <1>0, <1>1, <1>3, <1>4, <2>1, <2>2, SlotReturned
<1>9. CASE \/ CommitJob(j) \/ LoseRequest(j) \/ CommitRetry(j)
           \/ \E status \in {"READY", "ARCHIVED"} : UpdateChallengeStatus(j, status)
  <2>1. active' = active
      BY <1>9 DEF CommitJob, LoseRequest, CommitRetry, UpdateChallengeStatus, quota
  <2>2. \A i \in Jobs : Held(i)' => Held(i)
      BY <1>0, <1>9 DEF CommitJob, LoseRequest, CommitRetry, UpdateChallengeStatus, Held, Open,
                        queue, requests
  <2> QED
      BY <1>0, <1>1, <1>3, <1>4, <2>1, <2>2, SlotsKept
<1> QED
    BY <1>5, <1>6, <1>7, <1>8, <1>9 DEF Request

\* The steps of a run.
LEMMA RunStepCounts ==
    ASSUME IInv, CountsRight, NEW t \in tasks, RunStep(t)
    PROVE  RoundsKnown' /\ SlotsCovered'
<1>0. /\ IInv /\ Bounded /\ RoundsKnown /\ SlotsCovered
      /\ job \in [Jobs -> JobStatus] /\ t.job \in Jobs
      /\ t \in Live => job[t.job] = "PROCESSING" /\ t.job \notin accepting \union retrying
    BY DEF IInv, TypeOK, CountsRight, LiveOwnsJob, RequestsOwnJobs
<1>1. CASE Succeed(t) \/ Fail(t)
    BY <1>0, <1>1, RoundsEnd, SlotPassedOn
<1>2. CASE Release(t)
  <2>1. tasks' \subseteq tasks /\ retryCount' = retryCount /\ job' = job
      BY <1>2 DEF Release, queue
  <2> QED
      BY <1>0, <1>2, <2>1, RoundsKept, SlotReleased
<1>3. CASE \E phase \in {"provider", "requeue"} :
               t \in Live /\ tasks' = Move(t, phase) /\ UNCHANGED <<queue, quota, requests>>
  <2>1. PICK phase \in {"provider", "requeue"} :
            t \in Live /\ tasks' = Move(t, phase) /\ UNCHANGED <<queue, quota, requests>>
      BY <1>3
  <2>2. UNCHANGED <<job, retryCount, active, lapsed, accepting, retrying>>
      BY <2>1 DEF queue, quota, requests
  <2>3. RoundsKnown'
      BY <1>0, <2>1, <2>2, RoundsMoveLive
  <2>4. PICK m \in Task : m.phase = phase /\ tasks' = (tasks \ {t}) \union {m}
      BY <2>1, MovedOn
  <2>5. InPhase("release")' \subseteq InPhase("release")
      BY <2>4 DEF InPhase
  <2>6. \A i \in Jobs : Held(i)' => Held(i)
      BY <2>2 DEF Held
  <2> QED
      BY <1>0, <2>2, <2>3, <2>5, <2>6, SlotsKept
<1>4. CASE /\ tasks' = tasks \ {t} /\ UNCHANGED <<retryCount, quota, requests>>
           /\ \/ job' = job
              \/ t \in Live /\ job' = [job EXCEPT ![t.job] = "COMPLETED"]
              \/ t \in Live /\ job' = [job EXCEPT ![t.job] = "PENDING"]
  <2>1. /\ tasks' \subseteq tasks /\ retryCount' = retryCount
        /\ UNCHANGED <<active, lapsed, accepting, retrying>>
      BY <1>4 DEF quota, requests
  <2>2. \A i \in Jobs : job[i] = "COMPLETED" => job'[i] = "COMPLETED"
      BY <1>0, <1>4
  <2>3. \A i \in Jobs : Held(i)' => Held(i)
      BY <1>0, <1>4, <2>1 DEF Held, Open
  <2>4. InPhase("release")' \subseteq InPhase("release")
      BY <2>1 DEF InPhase
  <2> QED
      BY <1>0, <2>1, <2>2, <2>3, <2>4, RoundsKept, SlotsKept
<1>5. CASE Start(t)
  <2>1. t \in Live /\ tasks' = Move(t, "provider") /\ UNCHANGED <<queue, quota, requests>>
      BY <1>0, <1>5 DEF Start, Live, Open
  <2> QED
      BY <1>3, <2>1
<1>6. CASE Cancel(t)
  <2>1. t \in Live /\ tasks' = Move(t, "requeue") /\ UNCHANGED <<queue, quota, requests>>
      BY <1>0, <1>6 DEF Cancel, Live
  <2> QED
      BY <1>3, <2>1
<1>7. CASE Break(t) \/ Requeue(t) \/ CancelCommitted(t) \/ CancelRelease(t)
    BY <1>4, <1>7 DEF Break, Requeue, CancelCommitted, CancelRelease, Deliver, Live, InPhase, queue
<1> QED
    BY <1>1, <1>2, <1>5, <1>6, <1>7 DEF RunStep

\* The worker loops, processes and clocks.
LEMMA ProcessCounts ==
    ASSUME IInv, CountsRight,
           \/ \E p \in Procs : Process(p)
           \/ \E j \in Jobs : AgeOut(j)
           \/ \E u \in Users : ExpireActive(u) \/ ExpireDaily(u)
           \/ UNCHANGED vars
    PROVE  RoundsKnown' /\ SlotsCovered'
<1>0. /\ IInv /\ Bounded /\ RoundsKnown /\ SlotsCovered /\ job \in [Jobs -> JobStatus]
    BY DEF IInv, TypeOK, CountsRight
<1>1. CASE \E p \in Procs : Claim(p)
  <2>1. PICK p \in Procs : Claim(p)
      BY <1>1
  <2> DEFINE new == {[proc |-> p, job |-> j, round |-> retryCount[j],
                      phase |-> "scheduled"] : j \in Claimed(p)}
  <2>2. /\ tasks' = tasks \union new /\ UNCHANGED <<quota, requests>>
        /\ job' = [j \in Jobs |-> IF j \in Claimed(p) THEN "PROCESSING" ELSE job[j]]
        /\ \A j \in Claimed(p) : job[j] = "PENDING"
      BY <2>1 DEF Claim, Claimed, Claimable
  <2>3. \A t \in new : t.phase = "scheduled"
      OBVIOUS
  <2> HIDE DEF new, Claimed
  <2>4. InPhase("release")' \subseteq InPhase("release")
      BY <2>2, <2>3 DEF InPhase
  <2>5. \A i \in Jobs : Held(i)' => Held(i)
      BY <2>2 DEF Held, Open, requests
  <2>6. UNCHANGED <<active, lapsed>>
      BY <2>2 DEF quota
  <2> QED
      BY <1>0, <2>1, <2>4, <2>5, <2>6, RoundsClaim, SlotsKept
<1>2. CASE \E u \in Users : ExpireActive(u)
  <2>1. tasks' \subseteq tasks /\ retryCount' = retryCount /\ job' = job
      BY <1>2 DEF ExpireActive, queue, workers
  <2> QED
      BY <1>0, <1>2, <2>1, RoundsKept, SlotsExpire
<1>3. CASE /\ tasks' \subseteq tasks /\ UNCHANGED <<retryCount, active, lapsed, requests>>
           /\ \/ job' = job
              \/ job' = [j \in Jobs |-> IF j \in Abandoned THEN "PENDING" ELSE job[j]]
  <2>1. \A i \in Jobs : job[i] = "COMPLETED" => job'[i] = "COMPLETED"
      BY <1>0, <1>3 DEF Abandoned
  <2>2. \A i \in Jobs : Held(i)' => Held(i)
      BY <1>0, <1>3 DEF Held, Open, Abandoned, requests
  <2>3. InPhase("release")' \subseteq InPhase("release")
      BY <1>3 DEF InPhase
  <2> QED
      BY <1>0, <1>3, <2>1, <2>2, <2>3, RoundsKept, SlotsKept
<1>4. CASE \E p \in Procs : Recover(p)
    BY <1>3, <1>4 DEF Recover, quota, requests
<1>5. CASE \E p \in Procs : Shutdown(p) \/ Stopped(p) \/ Crash(p) \/ Boot(p)
    BY <1>3, <1>5 DEF Shutdown, Stopped, Crash, Boot, queue, quota, requests
<1>6. CASE (\E j \in Jobs : AgeOut(j)) \/ (\E u \in Users : ExpireDaily(u)) \/ UNCHANGED vars
    BY <1>3, <1>6 DEF AgeOut, ExpireDaily, vars, queue, workers, quota, requests
<1> QED
    BY <1>1, <1>2, <1>4, <1>5, <1>6 DEF Process

\* Unless its key expired, a user's counter covers every open job, every request
\* that will open one and every run that has not given its slot back: no crash,
\* retry, refund or shutdown lets a user have more open jobs than the limit
\* (acquire_generation_quota, _release_ai_slot).
THEOREM SlotsAreCovered ==
    ASSUME ~SlowRuns
    PROVE  Spec => []SlotsCovered
<1>1. Init => CountsRight
  <2> SUFFICES ASSUME Init
               PROVE  CountsRight
      OBVIOUS
  <2>1. Bounded
      BY FS_EmptySet, AiJobsAssumption DEF Init, Bounded, ConcurrencyBounded, TasksOf
  <2>2. RoundsKnown
      BY DEF Init, RoundsKnown, Live, InPhase
  <2>3. ASSUME NEW u \in Users
        PROVE  Cardinality(Holders(u)) <= active[u]
    <3>1. Holders(u) = {}
        BY WhoHolds DEF Init, Held, Open, InPhase
    <3> QED
        BY <3>1, FS_EmptySet DEF Init
  <2> QED
      BY <2>1, <2>2, <2>3 DEF CountsRight, SlotsCovered
<1>2. IInv /\ IInv' /\ CountsRight /\ [Next]_vars => CountsRight'
  <2> SUFFICES ASSUME IInv, CountsRight, [Next]_vars
               PROVE  CountsRight'
      OBVIOUS
  <2>1. Bounded'
      BY StepBounded DEF CountsRight
  <2>2. RoundsKnown' /\ SlotsCovered'
    <3>1. CASE \E j \in Jobs : Request(j)
        BY <3>1, RequestCounts
    <3>2. CASE \E t \in tasks : RunStep(t)
        BY <3>2, RunStepCounts
    <3>3. CASE \/ \E p \in Procs : Process(p)
               \/ \E j \in Jobs : AgeOut(j)
               \/ \E u \in Users : ExpireActive(u) \/ ExpireDaily(u)
               \/ UNCHANGED vars
        BY <3>3, ProcessCounts
    <3> QED
        BY <3>1, <3>2, <3>3 DEF Next
  <2> QED
      BY <2>1, <2>2 DEF CountsRight
<1>3. CountsRight => SlotsCovered
    BY DEF CountsRight
<1> QED
    BY <1>1, <1>2, <1>3, Invariance, PTL DEF Spec
=============================================================================
