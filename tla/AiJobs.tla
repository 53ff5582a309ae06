------------------------------- MODULE AiJobs -------------------------------
(* AI challenge generation: the durable queue of server/services/          *)
(* orchestrator.py, the requests that feed it (generate_challenge in       *)
(* server/api/routes/challenges.py, admin_retry_ai_job in                  *)
(* server/api/routes/admin.py), the teacher's PATCH of a challenge, and    *)
(* the per-user quota counters of server/core/cache.py.                    *)
(*                                                                         *)
(* Variables hold what is COMMITTED in PostgreSQL, the counters in Redis   *)
(* and the asyncio tasks of each server process.  A run that has flushed   *)
(* its first UPDATE holds the row locks of the job and of its challenge    *)
(* until it commits: during the whole call to the AI provider.             *)
EXTENDS Integers, FiniteSets

CONSTANTS
    Procs,          \* server processes
    Users,
    Jobs,           \* jobs, numbered in the order of created_at
    Requester,      \* requested_by_id of each job
    ActiveLimit,    \* redis_ai_generation_limit_per_user
    DailyLimit,     \* ai_generation_daily_limit_per_user
    MaxConcurrent,  \* max_concurrent_ai_jobs
    SlowRuns,       \* may a run last longer than half an hour?
    MaxRetries,     \* bound: failures of a job an administrator sends back
    MaxFaults       \* bound: crashes, shutdowns and broken runs

ASSUME AiJobsAssumption ==
    /\ Jobs \subseteq Nat /\ IsFiniteSet(Jobs)
    /\ Requester \in [Jobs -> Users]
    /\ {ActiveLimit, DailyLimit, MaxConcurrent} \subseteq Nat \ {0}
    /\ SlowRuns \in BOOLEAN
    /\ {MaxRetries, MaxFaults} \subseteq Nat

VARIABLES
    job,        \* ai_generation_jobs.status
    retryCount, \* ai_generation_jobs.retry_count
    stale,      \* started_at lies more than 30 minutes back
    challenge,  \* challenges.status of the job's challenge
    questions,  \* sets of questions stored for the challenge
    tasks,      \* AiOrchestrator._tasks of all processes
    poll,       \* what the worker loop of each process does next
    up,         \* life of each process
    active,     \* ai:active:{user}
    daily,      \* ai:daily:{user}
    lapsed,     \* ai:active:{user} expired while slots were held
    accepting,  \* jobs for which a request has a slot and has not committed
    retrying,   \* failed jobs an administrator's request has a slot for
    faults      \* faults so far

queue == <<job, retryCount, stale, challenge, questions>>
workers == <<tasks, poll, up>>
quota == <<active, daily, lapsed>>
requests == <<accepting, retrying>>
vars == <<queue, workers, quota, requests, faults>>

JobStatus == {"ABSENT", "PENDING", "PROCESSING", "COMPLETED", "FAILED"}
Open == {"PENDING", "PROCESSING"}

\* A run of _run_job, claimed in the given round: "scheduled" until its
\* first UPDATE, "provider" until it commits, then "release" until its slot
\* is given back; "requeue" once it was cancelled, until its job is sent
\* back.
Task == [proc : Procs, job : Jobs, round : Nat,
         phase : {"scheduled", "provider", "release", "requeue"}]

TasksOf(p) == {t \in tasks : t.proc = p}
InPhase(phase) == {t \in tasks : t.phase = phase}
Move(t, phase) == (tasks \ {t}) \union {[t EXCEPT !.phase = phase]}

\* The rows of job j and of its challenge are locked by a run, or the job's
\* row by an administrator's request.
RunLocks(j) == \E t \in InPhase("provider") : t.job = j
RowLocked(j) == RunLocks(j) \/ j \in retrying

-----------------------------------------------------------------------------
(* The counters: CacheBackend and MemoryCache.                             *)

\* Mutant: a plain DECR.
DecrBug(n) == n - 1

\* decr and the rollback of the quota stop at zero.
Decr(n) == IF n <= 1 THEN 0 ELSE n - 1

\* What holds a slot of user u: open jobs, requests that will make a job
\* open, and runs that ended but have not given the slot back.
Holders(u) ==
    {<<"job", j>> : j \in {j \in Jobs : /\ Requester[j] = u
                                        /\ \/ job[j] \in Open
                                           \/ j \in accepting \union retrying}}
        \union {<<"run", t.job, t.round>> :
                    t \in {t \in InPhase("release") : Requester[t.job] = u}}

\* Mutant: the key is created without a time to live.
ExpireActiveBug(u) == FALSE /\ UNCHANGED vars

\* The key is created with a time to live of an hour.
ExpireActive(u) ==
    /\ active[u] > 0
    /\ active' = [active EXCEPT ![u] = 0]
    /\ lapsed' = [lapsed EXCEPT ![u] = @ \/ Holders(u) # {}]
    /\ UNCHANGED <<queue, workers, daily, requests, faults>>

\* ... and that of the daily counter with one of a day.
ExpireDaily(u) ==
    /\ daily[u] > 0
    /\ daily' = [daily EXCEPT ![u] = 0]
    /\ UNCHANGED <<queue, workers, active, lapsed, requests, faults>>

-----------------------------------------------------------------------------
(* POST /topics/{id}/challenges/generate.                                  *)

\* acquire_generation_quota: both counters or none.
AcceptJob(j) ==
    LET u == Requester[j]
    IN  /\ \A i \in Jobs : i >= j => job[i] = "ABSENT" /\ i \notin accepting
        /\ active[u] < ActiveLimit /\ daily[u] < DailyLimit
        /\ active' = [active EXCEPT ![u] = @ + 1]
        /\ daily' = [daily EXCEPT ![u] = @ + 1]
        /\ accepting' = accepting \union {j}
        /\ UNCHANGED <<queue, workers, lapsed, retrying, faults>>

\* Jobs are numbered by created_at, which the flush before the commit sets.
CommitJob(j) ==
    /\ j \in accepting
    /\ job' = [job EXCEPT ![j] = "PENDING"]
    /\ challenge' = [challenge EXCEPT ![j] = "PENDING"]
    /\ accepting' = accepting \ {j}
    /\ UNCHANGED <<retryCount, stale, questions, workers, quota, retrying, faults>>

\* rollback_generation_quota.
RefuseJob(j) ==
    LET u == Requester[j]
    IN  /\ j \in accepting
        /\ active' = [active EXCEPT ![u] = Decr(@)]
        /\ daily' = [daily EXCEPT ![u] = Decr(@)]
        /\ accepting' = accepting \ {j}
        /\ UNCHANGED <<queue, workers, lapsed, retrying, faults>>

\* The request dies with the process or is cancelled: neither is an
\* Exception, and nothing is refunded.
LoseRequest(j) ==
    /\ faults < MaxFaults
    /\ faults' = faults + 1
    /\ j \in accepting \union retrying
    /\ accepting' = accepting \ {j}
    /\ retrying' = retrying \ {j}
    /\ UNCHANGED <<queue, workers, quota>>

-----------------------------------------------------------------------------
(* POST /ai-jobs/{id}/retry, with the job's row locked.                    *)

\* Mutant: any settled job can be retried.
MayRetryBug(j) == job[j] \in {"COMPLETED", "FAILED"} /\ ~RowLocked(j)

MayRetry(j) == job[j] = "FAILED" /\ ~RowLocked(j)

RetryJob(j) ==
    LET u == Requester[j]
    IN  /\ MayRetry(j)
        /\ retryCount[j] <= MaxRetries
        /\ active[u] < ActiveLimit
        /\ active' = [active EXCEPT ![u] = @ + 1]
        /\ retrying' = retrying \union {j}
        /\ UNCHANGED <<queue, workers, daily, lapsed, accepting, faults>>

\* The challenge keeps its status until the next run ends.
CommitRetry(j) ==
    /\ j \in retrying
    /\ job' = [job EXCEPT ![j] = "PENDING"]
    /\ stale' = [stale EXCEPT ![j] = FALSE]
    /\ retrying' = retrying \ {j}
    /\ UNCHANGED <<retryCount, challenge, questions, workers, quota, accepting, faults>>

FailRetry(j) ==
    /\ j \in retrying
    /\ active' = [active EXCEPT ![Requester[j]] = Decr(@)]
    /\ retrying' = retrying \ {j}
    /\ UNCHANGED <<queue, workers, daily, lapsed, accepting, faults>>

-----------------------------------------------------------------------------
(* PATCH /challenges/{id}/status, by a teacher or an administrator: READY  *)
(* or ARCHIVED, from any status.                                           *)

UpdateChallengeStatus(j, status) ==
    /\ challenge[j] # "ABSENT"
    /\ ~RunLocks(j)
    /\ challenge' = [challenge EXCEPT ![j] = status]
    /\ UNCHANGED <<job, retryCount, stale, questions, workers, quota, requests, faults>>

-----------------------------------------------------------------------------
(* The worker loop: recover, then claim, for ever.                         *)

\* Mutant: the cutoff on started_at is missing.
AbandonedEarlyBug == {j \in Jobs : job[j] = "PROCESSING"}

\* Mutant: the wrong status is looked for.
AbandonedNeverBug == {j \in Jobs : job[j] = "FAILED" /\ stale[j]}

Abandoned == {j \in Jobs : job[j] = "PROCESSING" /\ stale[j]}

\* One UPDATE for all abandoned jobs: it waits for those whose run is alive.
Recover(p) ==
    /\ up[p] = "up" /\ poll[p] = "recover"
    /\ \A j \in Abandoned : ~RowLocked(j)
    /\ job' = [j \in Jobs |-> IF j \in Abandoned THEN "PENDING" ELSE job[j]]
    /\ stale' = [j \in Jobs |-> stale[j] /\ j \notin Abandoned]
    /\ poll' = [poll EXCEPT ![p] = "claim"]
    /\ UNCHANGED <<retryCount, challenge, questions, tasks, up,
                   quota, requests, faults>>

\* Mutant: the tasks that still run are not counted.
AvailableBug(p) == MaxConcurrent

Available(p) == MaxConcurrent - Cardinality(TasksOf(p))

Claimable == {j \in Jobs : job[j] = "PENDING" /\ ~RowLocked(j)}

\* The oldest claimable jobs, as many as the process has room for.
Claimed(p) ==
    {j \in Claimable :
        Cardinality({i \in Claimable : i < j}) < Available(p)}

Claim(p) ==
    /\ up[p] = "up" /\ poll[p] = "claim"
    /\ job' = [j \in Jobs |-> IF j \in Claimed(p) THEN "PROCESSING" ELSE job[j]]
    /\ stale' = [j \in Jobs |-> stale[j] /\ j \notin Claimed(p)]
    /\ tasks' = tasks \union
           {[proc |-> p, job |-> j, round |-> retryCount[j],
             phase |-> "scheduled"] : j \in Claimed(p)}
    /\ poll' = [poll EXCEPT ![p] = "recover"]
    /\ UNCHANGED <<retryCount, challenge, questions, up, quota, requests, faults>>

\* Half an hour passes since started_at.  A scheduled task gets to its
\* first UPDATE sooner than that, and a cancelled one to its last: they wait
\* for no more than a database connection.  A run asks the provider at most
\* eight times, for two minutes each: if no response trickles in for longer,
\* it ends sooner too.
AgeOut(j) ==
    /\ job[j] = "PROCESSING" /\ ~stale[j]
    /\ \A t \in tasks :
           t.job = j => t.phase = "release" \/ (SlowRuns /\ t.phase = "provider")
    /\ stale' = [stale EXCEPT ![j] = TRUE]
    /\ UNCHANGED <<job, retryCount, challenge, questions, workers,
                   quota, requests, faults>>

-----------------------------------------------------------------------------
(* _run_job and _process_job.                                              *)

\* The semaphore admits the task, and its UPDATE of the job and of the
\* challenge (to PROCESSING, not committed) gets the row locks.  A job that
\* was settled meanwhile is left alone, and the slot released.
Start(t) ==
    /\ t \in InPhase("scheduled")
    /\ ~RowLocked(t.job)
    /\ Cardinality({s \in TasksOf(t.proc) : s.phase = "provider"}) < MaxConcurrent
    /\ tasks' = Move(t, IF job[t.job] \in Open THEN "provider" ELSE "release")
    /\ UNCHANGED <<queue, poll, up, quota, requests, faults>>

\* The provider answered: the questions, the READY challenge and the
\* COMPLETED job are committed together.
Deliver(j) ==
    /\ job' = [job EXCEPT ![j] = "COMPLETED"]
    /\ challenge' = [challenge EXCEPT ![j] = "READY"]
    /\ questions' = [questions EXCEPT ![j] = @ + 1]
    /\ UNCHANGED <<retryCount, stale>>

Succeed(t) ==
    /\ t \in InPhase("provider")
    /\ Deliver(t.job)
    /\ tasks' = Move(t, "release")
    /\ UNCHANGED <<poll, up, quota, requests, faults>>

\* Mutant: the questions flushed before the failure are committed with it.
FailBug(t) ==
    /\ t \in InPhase("provider")
    /\ job' = [job EXCEPT ![t.job] = "FAILED"]
    /\ challenge' = [challenge EXCEPT ![t.job] = "FAILED"]
    /\ questions' = [questions EXCEPT ![t.job] = @ + 1]
    /\ retryCount' = [retryCount EXCEPT ![t.job] = @ + 1]
    /\ tasks' = Move(t, "release")
    /\ UNCHANGED <<stale, poll, up, quota, requests, faults>>

Fail(t) ==
    /\ t \in InPhase("provider")
    /\ job' = [job EXCEPT ![t.job] = "FAILED"]
    /\ challenge' = [challenge EXCEPT ![t.job] = "FAILED"]
    /\ retryCount' = [retryCount EXCEPT ![t.job] = @ + 1]
    /\ tasks' = Move(t, "release")
    /\ UNCHANGED <<stale, questions, poll, up, quota, requests, faults>>

\* Mutant: the slot is released although the job stays open.
BreakBug(t) ==
    /\ faults < MaxFaults
    /\ faults' = faults + 1
    /\ t \in InPhase("scheduled") \union InPhase("provider")
    /\ active' = [active EXCEPT ![Requester[t.job]] = Decr(@)]
    /\ tasks' = tasks \ {t}
    /\ UNCHANGED <<queue, poll, up, daily, lapsed, requests>>

\* The database fails the run: it is rolled back, and the job stays
\* PROCESSING, with its slot, until it is recovered.
Break(t) ==
    /\ faults < MaxFaults
    /\ faults' = faults + 1
    /\ t \in InPhase("scheduled") \union InPhase("provider")
    /\ tasks' = tasks \ {t}
    /\ UNCHANGED <<queue, poll, up, quota, requests>>

Release(t) ==
    /\ t \in InPhase("release")
    /\ active' = [active EXCEPT ![Requester[t.job]] = Decr(@)]
    /\ tasks' = tasks \ {t}
    /\ UNCHANGED <<queue, poll, up, daily, lapsed, requests, faults>>

-----------------------------------------------------------------------------
(* A process ends by AiOrchestrator.close or by a crash, and boots again.  *)

Shutdown(p) ==
    /\ up[p] = "up" /\ faults < MaxFaults
    /\ faults' = faults + 1
    /\ up' = [up EXCEPT ![p] = "stopping"]
    /\ UNCHANGED <<queue, tasks, poll, quota, requests>>

\* A cancelled run is rolled back, and reads the job's status ...
Cancel(t) ==
    /\ up[t.proc] = "stopping"
    /\ t \in InPhase("scheduled") \union InPhase("provider")
    /\ tasks' = IF job[t.job] = "PROCESSING" THEN Move(t, "requeue")
                                             ELSE tasks \ {t}
    /\ UNCHANGED <<queue, poll, up, quota, requests, faults>>

\* ... and sends the job back, whatever its status is when the row can be
\* locked.
Requeue(t) ==
    /\ t \in InPhase("requeue")
    /\ ~RowLocked(t.job)
    /\ job' = [job EXCEPT ![t.job] = "PENDING"]
    /\ stale' = [stale EXCEPT ![t.job] = FALSE]
    /\ tasks' = tasks \ {t}
    /\ UNCHANGED <<retryCount, challenge, questions, poll, up,
                   quota, requests, faults>>

\* The cancellation arrives while the commit is awaited: the results are
\* there, but terminal_committed is not set and the slot is not released.
CancelCommitted(t) ==
    /\ up[t.proc] = "stopping"
    /\ t \in InPhase("provider")
    /\ Deliver(t.job)
    /\ tasks' = tasks \ {t}
    /\ UNCHANGED <<poll, up, quota, requests, faults>>

\* A run cancelled in its release may or may not have released.
CancelRelease(t) ==
    /\ up[t.proc] = "stopping"
    /\ t \in InPhase("release")
    /\ tasks' = tasks \ {t}
    /\ UNCHANGED <<queue, poll, up, quota, requests, faults>>

Stopped(p) ==
    /\ up[p] = "stopping" /\ TasksOf(p) = {}
    /\ up' = [up EXCEPT ![p] = "down"]
    /\ UNCHANGED <<queue, tasks, poll, quota, requests, faults>>

\* The tasks of the process are lost, and their transactions rolled back.
Crash(p) ==
    /\ up[p] # "down" /\ faults < MaxFaults
    /\ faults' = faults + 1
    /\ up' = [up EXCEPT ![p] = "down"]
    /\ tasks' = tasks \ TasksOf(p)
    /\ UNCHANGED <<queue, poll, quota, requests>>

Boot(p) ==
    /\ up[p] = "down"
    /\ up' = [up EXCEPT ![p] = "up"]
    /\ poll' = [poll EXCEPT ![p] = "recover"]
    /\ UNCHANGED <<queue, tasks, quota, requests, faults>>

-----------------------------------------------------------------------------
Init ==
    /\ job = [j \in Jobs |-> "ABSENT"]
    /\ retryCount = [j \in Jobs |-> 0]
    /\ stale = [j \in Jobs |-> FALSE]
    /\ challenge = [j \in Jobs |-> "ABSENT"]
    /\ questions = [j \in Jobs |-> 0]
    /\ tasks = {}
    /\ poll = [p \in Procs |-> "recover"]
    /\ up = [p \in Procs |-> "up"]
    /\ active = [u \in Users |-> 0]
    /\ daily = [u \in Users |-> 0]
    /\ lapsed = [u \in Users |-> FALSE]
    /\ accepting = {} /\ retrying = {}
    /\ faults = 0

Request(j) ==
    \/ AcceptJob(j) \/ CommitJob(j) \/ RefuseJob(j) \/ LoseRequest(j)
    \/ RetryJob(j) \/ CommitRetry(j) \/ FailRetry(j)
    \/ \E status \in {"READY", "ARCHIVED"} : UpdateChallengeStatus(j, status)

RunStep(t) ==
    \/ Start(t) \/ Succeed(t) \/ Fail(t) \/ Break(t) \/ Release(t)
    \/ Cancel(t) \/ Requeue(t) \/ CancelCommitted(t) \/ CancelRelease(t)

Process(p) ==
    \/ Recover(p) \/ Claim(p)
    \/ Shutdown(p) \/ Stopped(p) \/ Crash(p) \/ Boot(p)

Next ==
    \/ \E j \in Jobs : Request(j) \/ AgeOut(j)
    \/ \E t \in tasks : RunStep(t)
    \/ \E p \in Procs : Process(p)
    \/ \E u \in Users : ExpireActive(u) \/ ExpireDaily(u)

Spec == Init /\ [][Next]_vars

\* The scheduler runs every loop and task; Redis answers; the provider
\* answers or times out; time passes; a process that ended is restarted.
Fairness ==
    /\ \A p \in Procs : /\ SF_vars(Recover(p)) /\ WF_vars(Claim(p))
                        /\ WF_vars(Boot(p)) /\ WF_vars(Stopped(p))
    /\ \A j \in Jobs : /\ WF_vars(CommitJob(j) \/ RefuseJob(j))
                       /\ WF_vars(CommitRetry(j) \/ FailRetry(j))
                       /\ WF_vars(AgeOut(j))
    /\ \A p \in Procs, j \in Jobs :
           LET mine == {t \in TasksOf(p) : t.job = j}
           IN  /\ SF_vars(\E t \in mine : Start(t))
               /\ WF_vars(\E t \in mine : Succeed(t) \/ Fail(t))
               /\ WF_vars(\E t \in mine : Release(t))
               /\ WF_vars(\E t \in mine : Cancel(t) \/ CancelCommitted(t))
               /\ SF_vars(\E t \in mine : Requeue(t))
    /\ \A u \in Users : WF_vars(ExpireActive(u))

FairSpec == Spec /\ Fairness

-----------------------------------------------------------------------------
(* Properties.                                                             *)

TypeOK ==
    /\ job \in [Jobs -> JobStatus]
    /\ retryCount \in [Jobs -> Nat]
    /\ stale \in [Jobs -> BOOLEAN]
    /\ challenge \in [Jobs -> {"ABSENT", "PENDING", "READY", "FAILED", "ARCHIVED"}]
    /\ questions \in [Jobs -> Nat]
    /\ tasks \subseteq Task
    /\ poll \in [Procs -> {"recover", "claim"}]
    /\ up \in [Procs -> {"up", "stopping", "down"}]
    /\ active \in [Users -> Nat]
    /\ daily \in [Users -> Nat]
    /\ lapsed \in [Users -> BOOLEAN]
    /\ accepting \subseteq Jobs
    /\ retrying \subseteq Jobs
    /\ faults \in Nat

\* The runs that may still deliver.
Live == InPhase("scheduled") \union InPhase("provider") \union InPhase("requeue")

\* No two tasks, of whatever processes, work on one job, and while one does
\* the job is PROCESSING, so that nobody claims or retries it
\* (_claim_pending_jobs, _recover_abandoned_jobs, the CancelledError branch
\* of _run_job).
OneRunPerJob ==
    \A t \in Live : /\ job[t.job] = "PROCESSING"
                    /\ \A s \in Live : s.job = t.job => s = t

\* A challenge gets its questions exactly once: none before its job is
\* COMPLETED, and no second set from a run that was repeated after a crash,
\* a failure or a shutdown (_process_job).
OneQuestionSet ==
    \A j \in Jobs : questions[j] = IF job[j] = "COMPLETED" THEN 1 ELSE 0

\* A process never asks for more challenges at once than it may, however
\* claims, recoveries and slow releases interleave (_claim_pending_jobs).
ConcurrencyBounded ==
    \A p \in Procs : Cardinality(TasksOf(p)) <= MaxConcurrent

\* Unless its key expired, the active counter of a user covers every open
\* job, so no failure, retry, refund, shutdown or crash lets a user have
\* more open jobs than the limit (generate_challenge, admin_retry_ai_job,
\* _release_ai_slot).
SlotsCovered ==
    \A u \in Users : lapsed[u] \/ Cardinality(Holders(u)) <= active[u]

\* The limit itself: open jobs of a user.
ActiveJobsWithinLimit ==
    \A u \in Users : Cardinality({j \in Jobs : /\ Requester[j] = u
                                               /\ job[j] \in Open}) <= ActiveLimit

\* The questions of a READY challenge do not change: students may already
\* have attempts on it (_process_job against update_challenge_status).
ReadyQuestionsFrozen ==
    [][\A j \in Jobs : challenge[j] = "READY" => questions'[j] = questions[j]]_vars

\* Every accepted job is settled in the end, although processes crash, shut
\* down and lose their database (_worker_loop, _recover_abandoned_jobs).
JobsSettle == \A j \in Jobs : job[j] \in Open ~> job[j] \in {"COMPLETED", "FAILED"}

\* A slot that a crash or a cancelled release leaked comes back: a user all
\* of whose jobs are settled can generate again (the key's time to live).
SlotsReturn ==
    \A u \in Users : Holders(u) = {} ~> active[u] < ActiveLimit

\* Workers, claims and recovery are invisible from outside: the queue
\* implements the life cycle of JobLifecycle.
Lifecycle == INSTANCE JobLifecycle WITH
    state <- [j \in Jobs |-> IF job[j] \in Open THEN "OPEN" ELSE job[j]],
    delivered <- questions

ImplementsLifecycle == Lifecycle!Spec
=============================================================================
