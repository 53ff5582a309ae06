# TLA+ models of the Zehn AI learning platform

The repository is a school platform: students practise AI-generated challenges,
earn XP and play duels; teachers run classes; administrators supervise. The
server (`src/server`, FastAPI + SQLAlchemy + PostgreSQL + Redis) holds all the
state that matters; two React clients and an Android client use its API. This
directory holds TLA+ models of the server's concurrent core and of the pages of
the two browser clients on top of it, TLC runs that check them, and TLAPS proofs
of the most important results.

## 1. Inventory

| component | code (`src/server/server/`) | state | operations | what makes it correct |
|---|---|---|---|---|
| Scoring | `services/calculations.py` | none | score, accuracy, XP, bonus, winner, level, streak, mastery, ranks | the published formulas, rounding included |
| Attempts, duels, rewards | `api/routes/attempts.py`, `api/routes/duels.py`, `services/domain.py` (AttemptService, DuelService) | `attempts`, `attempt_answers`, `duels`, `xp_ledger`, `student_stats`, `topic_progress` | start, answer, finish, create / accept duel, bot duel | XP paid once and for the right result, totals agree with history, completed things stay, duels settled by the last finish |
| AI generation queue | `services/orchestrator.py`, `api/routes/challenges.py`, `api/routes/admin.py` | `ai_generation_jobs`, `challenges`, `questions`, asyncio tasks | generate, claim, run, recover, release, shut down, retry, publish | one run per job, one set of questions, bounded concurrency, every job settles |
| Quota counters and cache | `core/cache.py` | Redis keys with a time to live | get/set/incr/decr, acquire and roll back a quota | counters never below zero, cover what they count |
| Sessions | `services/domain.py` (AuthService), `api/v1/auth.py`; both clients' `lib/api.js` and `AuthContext.jsx` | `refresh_sessions`; tokens in `localStorage`, user in each tab | login, refresh (rotation), logout, expiry; restore, retry after 401, give up | one live token per family, reuse only with a cause, logout ends what it should |
| OTP | AuthService; `LoginPage.jsx`, `VerifyPage.jsx` | `otp_challenges`, cooldown and attempt keys | request, verify, resend | code used once, attempts limited |
| Membership | MembershipService, `api/v1/classes.py`; onboarding, join, class pickers | `class_memberships`, selected class | create class, join, remove | never without a teacher, guards end somewhere, the selected class is one's own |
| Curriculum | `api/v1/subjects.py`, `api/routes/challenges.py`; the staff's pages | `subjects`, `topics`, `challenges`, lists shown | create, edit, archive, write by hand, generate | what a list shows is stored; one correct option per question |
| Leaderboard | LeaderboardService; `LeaderboardPage.jsx` | cached ranking | read through cache, invalidate | not stale for longer than the time to live |
| Progress | `_update_stats`, `_update_topic_progress` | streak, level, mastery columns | on every finish and won duel | streak counts consecutive days |
| AI chat | `services/chat.py`; `AiChatPage.jsx` | conversations, messages, quota keys | send, history, microphone | one turn after the other, shown in order |
| Provider client | `ai/` | none | HTTP, retries, validation, fallback | valid question sets only |
| Reports | `api/routes/teacher.py`, `admin.py`; analytics pages | none | activity by cursor, lists of users and jobs | what is shown belongs to what is selected |
| Student client | `src/client` | tokens, page state, polls and timers | screens, saves, polls | shows what is stored; waits end |
| Staff portal | `src/admin` | the same | the same | the same |
| Android client | `src/apk` | tokens | screens | keeps the rotated token |

**Interaction.** Every request runs in one SQLAlchemy session and one PostgreSQL
transaction (`db/session.py`), committed when the handler returns and rolled
back when it raises. Requests coordinate only through PostgreSQL:
transaction-scoped advisory locks (`db/concurrency.py`), `SELECT ... FOR UPDATE`
and unique indexes. Redis holds counters and caches outside any transaction. The
queue's workers poll PostgreSQL from every server process. The browser clients
know of changes only what they ask for: they reload after a change, poll while
something is generated or played, and keep tokens in `localStorage`, which the
tabs of a browser share.

**What is hard.** Transactions that take several locks one after the other, in
an order that depends on the data; values read before a lock and used after it;
one commit spread over ledger, totals and duel; counters in another store than
the rows they count; processes that crash, shut down or stall with a job in
hand. In the browser: answers that overtake each other or arrive when another
thing is selected, closures that still see an earlier render, a poll that is
answered after another one has ended it, an optimistic choice whose save fails,
a page that is left or reloaded while a request is on its way. `PROJECT.json` lists the hazards, each at its line, and the property that
would catch it.

## 2. Plan

Done:

1. `Scoring`, `Rules`, `Rewards` (abstract), `Attempts` (detailed), `MCAttempts`,
   `AttemptsProofs`, `AttemptsTotalsProofs`
2. `JobLifecycle` (abstract), `AiJobs` (detailed), `MCAiJobs`, `AiJobsProofs`
3. `Sessions`, `MCSessions`, `SessionsProofs`: refresh rotation with the clients that keep or
   forget the rotated token
4. `AttemptScreen`, `OtpLogin`, `ChatScreen`, `Enrolment`, `QuizForms`, `Curriculum`,
   `TeacherLists`, `ClassPicker`, `Feeds`, `Reports`, composed by `MCForms`; `FormsProofs`,
   `ClassesProofs`, `ListsProofs`
5. `GenerationScreen`, `DuelScreens`, `GenerateDialogs`, `TopicDesk`, `Rankings`, composed
   by `MCPages`; `PagesProofs`

Every safety invariant and every action property the runs check is proved. Left are the
liveness properties, which stay with TLC, and the parts section 6 names.

## 3. Modules

| module | role |
|---|---|
| `Scoring` | `calculations.py` as operators; percentages in hundredths |
| `Rules` | constants, row types and the rules of the game shared by `Rewards` and `Attempts` |
| `Rewards` | abstract: completing, paying and settling are one step |
| `Attempts` | the transactions: one action per lock acquisition, commit or abort |
| `MCAttempts` | instances, symmetry, the crosswise start |
| `AttemptsProofs` | inductive invariant and theorems |
| `AttemptsTotalsProofs` | sums of ledger rows, running totals, refinement of `Rewards` |
| `JobLifecycle` | abstract: a job is open until it delivers or gives up |
| `AiJobs` | queue, processes, tasks, requests, counters |
| `MCAiJobs` | instances and symmetry |
| `AiJobsProofs` | inductive invariant, theorems, refinement, and the two limits by cardinalities |
| `Sessions` | refresh sessions and the tokens of both browser clients |
| `MCSessions` | one tab with losses, or two tabs |
| `SessionsProofs` | inductive invariants and theorems of the rows and of what the browsers keep |
| `AttemptScreen` | answering a challenge: `AttemptPage.jsx` and its three endpoints |
| `OtpLogin` | one-time codes: `LoginPage.jsx`, `VerifyPage.jsx`, `request_otp`, `verify_otp` |
| `ChatScreen` | `AiChatPage.jsx` and `AiChatService.send` |
| `Enrolment` | route guards, onboarding and joining a class; `join_class`, `remove_member` |
| `QuizForms` | a challenge written by hand, on three pages; `create_manual_challenge` |
| `Curriculum` | the portal's `ClassDetailPage`, `SubjectsPage`, `ChallengesPage` and their endpoints |
| `TeacherLists` | students, subjects and topics on a teacher's pages of the student client |
| `ClassPicker` | a teacher's classes and the selected one, in both clients |
| `Feeds` | the activity of a class, page by page, in both clients |
| `Reports` | dashboard, leaderboard, users and jobs of the portal |
| `MCForms` | the ten pages above as one run: a browser shows one of them |
| `FormsProofs` | inductive invariants of the four that are forms, and theorems |
| `ClassesProofs` | inductive invariants of `ClassPicker` and `Curriculum` |
| `ListsProofs` | inductive invariants of the other four, and theorems of all that show a list |
| `GenerationScreen` | asking for a challenge and waiting for it: `TopicDetailPage.jsx`, `ChallengeIntroPage.jsx` |
| `DuelScreens` | creating, watching and accepting a duel: `ResultPage.jsx`, `DuelDetailPage.jsx`, `DuelInvitePage.jsx` |
| `GenerateDialogs` | the generation dialogs of the portal's three pages |
| `TopicDesk` | the polling rows of `TeacherTopicPage.jsx` |
| `Rankings` | the cache in front of the leaderboard and the student's page |
| `MCPages` | the five pages above as one run, with their fairness |
| `PagesProofs` | an inductive invariant of each of them, and theorems |

### Attempts

The variables `attempts` (with the answers), `duels` (keyed by
`creator_attempt_id`, which is unique), `ledger`, `stats`, `progress` and
`ready` are the *committed* rows. `tx[r]` is the position of request `r` in its
handler with everything it has read or written and not committed, `held[r]` its
locks. An advisory lock and the row lock taken with it are one lock here, and the
advisory lock of the topic progress is always taken under the stats lock of the
same student, so it never decides anything and is left out.

| code | actions |
|---|---|
| `start_attempt` | `StartAttempt` |
| `submit_answer` | `SubmitLoad` (before the lock), `SubmitSave` or `SubmitReject` (under it), `SubmitReply` |
| `finish_attempt` | `FinishBegin`, `FinishAward` (ledger, `_update_stats`, `_update_topic_progress`) |
| `_maybe_complete_duel` | `FinishNoDuel`, `FinishLockDuel`, `FinishFirst`, `FinishSecond`; then `FinishCommit` |
| `create_duel`, `accept_duel` | `CreateDuel`, `AcceptDuel`: one lock, everything read under it |
| `create_bot_duel` | `BotBegin`, `BotInsert` or `BotConflict`, `BotWon` or `BotNotWon`, `BotCommit` |
| exceptions, lost connections, killed processes | `Abort`; `DeadlockVictim` for PostgreSQL's choice |
| `PATCH .../status` | `UpdateChallengeStatus` |

*Abstractions.* One challenge, one class whose members are all students; each
attempt identifier has its owner fixed in advance, which only names the rows the
database will create. Timestamps are a duration chosen when the finish begins and
an `expired` flag. Streak, mastery, level, average accuracy and the event log are
not in the state. `submit_answer` models what SQLAlchemy's identity map does: a
`FOR UPDATE` of a row that is already in the session locks it and does not refresh
it, and assigning the value the copy has emits no UPDATE. An expired duel keeps
its PENDING status because the EXPIRED one is rolled back by the error that
follows it. Requests that are refused before they write are left out, since they
change nothing. `SubmitSave` keeps its lock only for its own step: no other action
takes place between its lock and its flush that could tell the difference, because
it needs no second lock.

### AiJobs

`job`, `retryCount`, `stale`, `challenge`, `questions` are committed rows
(`stale` says that `started_at` is more than half an hour old); `tasks`, `poll`
and `up` are the processes' memory; `active`, `daily` are the Redis counters;
`accepting` and `retrying` are requests between taking a slot and committing.
A run that has flushed its first UPDATE holds the row locks of the job and of the
challenge until it commits, during the whole provider call; everybody else that
updates these rows waits (`RowLocked`), and the claim skips them
(`SKIP LOCKED`). The worker's actions are `Recover`, `Claim`, `Start`, `Succeed`,
`Fail`, `Break`, `Release`; `close()` is `Shutdown`, `Cancel`, `CancelCommitted`,
`CancelRelease`, `Requeue`, `Stopped`; the end of a process without `close()` is
`Crash`. `Start` reads the job's status and takes its row locks in one step; the
code does the read a few lines before. No other live run of the job exists when
`~SlowRuns`, so nothing can come between. With `SlowRuns` this makes the model
show fewer behaviours than the code has, never more. The branch for a job without
a challenge is left out: a foreign key excludes it. The uncommitted PROCESSING
status of a challenge is never visible to anyone and does not appear. Progress of
the provider call is one step, success or failure.

The constant `SlowRuns` says whether a run may last longer than the half hour after
which recovery takes its job back. The client asks the provider at most eight
times with a timeout of two minutes each, but that timeout is per read, so a
response that trickles in can take longer. The main results assume
`SlowRuns = FALSE`; the run `ai_jobs_slow` shows what happens otherwise.

### Sessions

`session` holds the `refresh_sessions` rows by token; a token's number is the order of
issue, and an access token is named by the refresh token issued with it, so that
`expired` (the newest access token that has run out) decides all of them. `store` is
`localStorage`, `tab` the React state, `call` and `ref` the requests in flight.

| code | actions |
|---|---|
| `login`, `verify_otp` | `Login`, with `StudentLogin` or `PortalLogin`; `LoginFails` |
| `refresh`, `_refresh_locked` | `RefreshRead` under the locks, then `RefreshCommit` (`Rotate` or `RevokeAll`) |
| `logout` | `ServeLogout`, which waits for the row of a refresh |
| `request`, `doRefresh` of the student client | `StudentAnswer`, `JoinRefresh`, `StartRefresh`, `StudentRefreshed`, `StudentRefused`: one `refreshPromise` for all |
| `request` of the portal | `PortalAnswer`, `PortalRefreshed`, `PortalRefused`, `PortalRetried`: each request refreshes for itself and keeps only the access token |
| the pages | `Read`, `SubmitLogin`, `SubmitLogout`, `Load` |
| the network | `LoseCall`, `LoseRefresh` |

Reads are served when they are answered, with every outcome they could have had since
they were sent. Devices, IP addresses and the expiry of refresh tokens after weeks are left
out. `PortalRefreshesOnce` states what the portal's code does and not what one would wish:
it signs its users out after two lifetimes of an access token.

### The pages

Every page module has the same three variables: `ui` the React state, `net` the requests in
flight with the answers the server has given them, `srv` the rows behind the endpoints. A
request is sent, served and answered in steps of its own, and may be refused, or lost
before or after it was served (the `...Fails` actions). Functions of the source that only run
together are one action; a callback that closes over an earlier render carries what it saw.
A row is a number, a text is whether there is one. Fields named *history* record why a page
may legitimately be wrong (`doubt`, `mixed`, `overtaken`, ...): the properties exclude those cases by
name, so that each exception is a documented behaviour of the code:

* `AttemptScreen`: a save the page does not wait for, because it gave up on it or was loaded
  while it was under way, may still be served. It can replace a newer choice, or make the server
  acknowledge that one without storing it (the first disagreement of section 4, of which
  `ReadAttempt` and `ServeSave` are the two steps). `MaxLate` bounds such requests.
* `ChatScreen`: the microphone's callback may send a second message and its answer removes
  the first one's placeholder. The counter of messages being answered may run out, since its
  key does not outlast the provider's retries.
* `OtpLogin`: requests that are past the check of the cooldown when the first code is delivered
  each send a code; no later one does, and none sends two. A wrong guess is not counted in the
  row, because the error rolls the increment back: the counter in the cache limits them.
* `Enrolment`: an administrator's redirects go round; two removals that overlap may leave a
  class without a teacher.
* `Curriculum`: loads are neither cancelled nor ordered. A list may be wrong when its last
  load failed in part, was overtaken, or belonged to another selection.
* `ClassPicker`: overlapping loads of the portal may leave classes with none selected. In the
  student client the load that follows a creation takes `CreateClassModal` off the page
  while it still works, so that its invitation code is never shown.
* `Feeds`: an answer that comes after the class was changed mixes two classes.
* `Reports`: `AiJobsPage` reloads with the filter of the time of the click; `DashboardPage`
  keeps an older chart when the second request fails.
* `GenerationScreen`: `ChallengeIntroPage.jsx` loads the challenge again only when a poll brings
  READY or FAILED. One that is archived during the wait, which `update_challenge_status` allows at
  any time, is polled and shown as being generated for ever.
* `GenerateDialogs`: a poll answered after another one had settled its job ends whatever the
  dialog waits for then. Only polls that fail count towards `maxAttempts`, so that a dialog whose
  challenge was archived waits without limit.
* `DuelScreens`: a duel that has run out is refused, and the EXPIRED written before the error is
  rolled back with it. It stays PENDING in the database, and its creator is shown a duel that
  waits for a friend for ever.

In `GenerationScreen`, `GenerateDialogs` and `TopicDesk` a challenge is PENDING, READY, FAILED or
ARCHIVED: PROCESSING is written inside the transaction that ends the run and never seen. `JobEnds`
is the end of a run whatever the status has become by then, `UpdateStatus` what staff do to it.

`Rankings` counts a ranking as the set of awards in it. An award deletes the keys `:all` and
`:week` before it commits, and never `:month`; a request may read before and fill after.

## 4. Runs

| run | question | bounds |
|---|---|---|
| `attempts_races` | are rewards right, totals exact, duels settled as they deserve, completed things left alone, and do transactions look like single steps? | 2 students, 3 attempts, 1 question, right or wrong, 2 requests in flight |
| `attempts_crosswise` | does every request return when two finishes decide two crossed duels? | 4 attempts, 1 question, right or wrong, started from two accepted duels |
| `ai_jobs_queue` | exclusive runs, single delivery, limits, life cycle | 2 processes, 2 jobs, 1 task each, 2 faults, 1 retry |
| `ai_jobs_progress` | does every job settle, does every slot come back? | 2 processes, 1 job, 2 faults |
| `attempts_saved_answer`, `attempts_losses` | two disagreements between code and documents | 1 or 2 attempts, 2 requests |
| `ai_jobs_publish`, `ai_jobs_limit`, `ai_jobs_slow` | three more | 1 or 2 jobs, 1 or 2 processes |
| `sessions` | do families fork, is a user signed out for nothing, does a logout end the login? | 3 tokens; 1 tab with 2 requests and 2 losses or reloads, or 2 tabs with 1 request each |
| `forms` | do the pages show what is stored? | 2 questions with 2 options, 1 reload, 1 late request; 2 pages and 2 codes, 2 guesses; 3 turns, 1 at a time; 2 teachers; 2 questions; 2 subjects, 2 requests; 3 entries, 3 requests; 2 classes, 2 loads; 3 events in 2 feeds, one per page; 2 selections, 2 changes, 2 requests |
| `pages` | do the pages that wait come to show the outcome, and only that? | 2 challenges; 2 loads; 2 jobs, 2 polls at once, giving up after 2 (30 in the code); 2 rows; 1 award, 2 requests |

**Why these bounds are enough.** A lost update, a double payment or a double settlement
takes two transactions; a third one adds no new pair of a read and a write.
Three attempts allow a duel of one student with each of two attempts of the other,
and a finish and a bot duel of the same student at once. One question is enough
for the three values an answer has. The order in which finishes lock two students'
stats needs two crossed duels, hence four attempts: the run starts in a state the
students reach without any race, so that the state space stays small. In the queue
two processes suffice for every race between claim, recovery and requeue, two
faults for a crash during the recovery from a crash, and a second job for the order
of claims, the limit and the quota. `MaxFaults` and `MaxRetries` bound the counters;
`DailyLimit` bounds the requests. The proofs have none of these bounds.
In `sessions` a family needs three tokens to be rotated, reused and rotated again, and two
requests at once to meet; the run with two tabs has every pair of their requests. On a page
the hazards are pairs: of loads, of polls, of a load and a change. Two of each suffice, three where
a third can fall between them (turns, entries, events). A page of one event makes every event
a border of a page. `PollLimit` only has to be more than one. In `forms` and `pages` the screens
share one run, so that a state is one page with its server.

**Fairness.** `Attempts`: strong fairness of each request's steps, since PostgreSQL
queues waiters for a lock and a request that can go on again and again is served;
weak fairness of `DeadlockVictim`, since PostgreSQL looks for deadlocks after
`deadlock_timeout`. No fairness for `Abort`, for clients, or for time. `AiJobs`: the
event loop runs every loop and task (weak fairness where nothing can block it,
strong fairness where row locks or the semaphore can); a provider call ends; a
request between slot and commit ends; time passes (`AgeOut`, `ExpireActive`); a
stopped process is started again, as the deployment's restart policy does.
`MCPages`: the server serves, workers end each job that is PENDING, timers fire, answers arrive
and keys expire (weak fairness). No worker need run a job twice, though it may. Strong fairness of `Asking`, `Polling` and `Answering` says that not every single
poll is lost, or cut off by a load, for ever; without it the pages themselves promise nothing. No
fairness of anything a user or an administrator does, nor of awards. `Sessions` and `MCForms`
state safety only.

**Deadlock** is checked in every run but the three of the clients: a page on which nothing is in
flight and whose bounded requests are used up may stop.

**Disagreements.** (1) A submitted answer can be acknowledged and not stored, when
another request changed it between the load and the lock. (2) A bot duel's loss is
counted without a lock and can be lost. (3) A challenge can be set READY before its
job has delivered, and then its questions change. (4) The counter of active jobs
expires after an hour whether or not the jobs it counts are settled. (5) A run
that outlives the recovery's cutoff can lead to two sets of questions. Each is a
run with a counterexample; `PROJECT.json` quotes the documents.

Behaviours of the clients that no document promises otherwise, met on the way and
modelled as they are: an answer to a refresh that arrives after the logout stores tokens
again; with several tabs a tab may show another user than the one whose tokens are stored;
and the exceptions listed under *The pages*.

## 5. Proofs

TLAPS checks every theorem to the last leaf.

`AttemptsProofs`, from `RulesAssumption` and `AttemptsAssumption` only, for any
finite set of students and questions, any attempts and requests:

* `TypeCorrect`, `RewardsAreRight`, `DuelsAreSettled`, `CompletedStays`.
* `RewardsFollowResults` is not inductive: nothing in it says that a finish that is
  about to commit will pay the right rows. `IInv` adds what each request knows
  (`RequestFacts`): a finish owns the lock of its attempt, which is still in progress
  and has the answers the row was computed from; one that settles a duel owns its
  lock and decided it on what is stored; a bot duel owns the row it inserted. Added
  to that are exclusive locks (`LocksExclusive`), what a duel's status says of its
  attempts (`DuelFacts`) and that an attempt accepts one challenge
  (`OpponentsDistinct`). The lemma `KeptFacts` says these facts survive a step of
  another request that respects the locks (`Keeps`); each action then has a lemma.

`AttemptsTotalsProofs`, from the same assumptions and on top of that invariant:

* `EarningsAreRight`, `TotalsAreRight`, `RewardsRefined`.
* `EarningsRight` says of each transaction that what it will write is the committed row of
  every student whose stats it has locked, plus exactly what it has earned for that student,
  and that nobody else holds that lock. Both results need it: a commit of a finish that
  settles a duel writes two students' rows at once, read several steps before.
* `TotalsMatchHistory` compares a student's totals with sums over the ledger and counts of
  attempts and duels. A sum over a set is a recursive function; that it grows by the amount of
  a row that is added is shown without induction, of a smallest set for which it would fail
  (`SmallestPart`, by `WFMin`).
* `RewardsRefined` is the whole refinement, initial states and steps: a commit maps to
  `Finish`, `FinishDuel`, `PlayBot` or another action of `Rewards` and everything else to a stutter.

`AiJobsProofs`, from `AiJobsAssumption` and `~SlowRuns`, for any processes, users,
jobs and limits:

* `TypeCorrect`, `RunsAreExclusive`, `QuestionsAreUnique`, `QueueImplementsLifecycle`.
* `OneRunPerJob` is inductive only together with: a live task's job is PROCESSING and
  not stale (`LiveOwnsJob`), so recovery, claim and retry leave it alone; requests hold
  jobs without a live task (`RequestsOwnJobs`). The refinement follows from the same
  invariant: `Succeed` needs that the job has not been delivered.

* `ConcurrencyIsBounded`, `SlotsAreCovered`, on top of that invariant. The first needs that a process has finitely many tasks, and that the claimed jobs,
  those with fewer than the free places below them, are no more than those places
  (`FirstFew`, by an injection into the ranks).
  The second counts what a slot stands for: open jobs, requests about to open one, runs
  that owe theirs. Each step keeps a slot, takes one, passes it on or returns it. What
  makes a release give back only its own is `RoundsKnown`: a live run is of its job's
  current round, an ended one of an earlier round or of a delivered job, and no two ended
  runs share job and round.

`SessionsProofs`, from `SessionsAssumption` only, for any tabs, requests in flight and
tokens:

* `TypeCorrect`, `FamiliesDoNotFork`.
* `OneLiveSessionPerFamily` is inductive only together with: a request that is about to
  rotate still reads its token as live, because it holds that token's lock
  (`ReadStaysLive`, `LocksExclude`); tokens are issued in order, so the next one is new
  (`IssuedInOrder`, `FamiliesKnown`); and whatever a browser keeps or presents has been
  issued (`TokensIssued`).

* On top of that invariant, `ReusesHaveACause`, `PortalExtendsOnce`, `SignedInKeepsTokens`, `WrongRolesLeave`,
  `LogoutsEndSessions`. The student client's properties hold together, in `CInv`, or not at all: a stored token is the
  one of its family that was not rotated unless an answer was lost (`OneUnrotated`,
  `StoredIsCurrent`), since a tab has one refresh in flight (`OneRefresh`) and, while it learns who is
  signed in, asks nothing else (`MeAsksAlone`). The portal presents only
  tokens that began a family, which are rotated once (`PortalPresentsHeads`).

`FormsProofs`, from `FormsAssumption` (the bounds of what is there are positive, numbers are
naturals other than 0, a class is made with a teacher, its first subject has the number 1), one
invariant for each of four pages with its server:

* `CodesOpenOneSession`, `CooldownsHold` from `LoginInv`: one
  verification at a time holds the lock, and the code it has read is not consumed (`OneLocked`);
  a code that is delivered and not committed is one page's own (`PendingIsOwn`); a code's count is
  one exactly when it is consumed (`CountedWhenConsumed`); a request that is past the check of the
  cooldown when a code is out was so when the first one was delivered, and has delivered none
  (`OneInWindow`).
* `RedirectsAreFew`, `ClassesKeepATeacher` from `EnrolInv`: the number of redirects still to come
  is a function of the page's address, role and profile that each redirect lowers, at most two for
  anybody but an administrator; as long as no removals have met, the one under way leaves a teacher.
* `ChoicesAreStored`, `FinishesAreComplete` from `AttemptInv`: of the page that is shown
  one save is in flight at a time, of the choice it shows (`OneCurrent`); of a question that is not
  in doubt no other save is yet to be served (`EarlierServed`), so that what a save has read before
  the lock is what is stored when it holds it (`ReadIsStored`) and a choice that is acknowledged is
  stored (`ShownAnswered`); a save never removes an answer, so that each question before the one
  that is shown is answered on the server, late saves or not (`EarlierAnswered`), and all are when a
  finish is sent (`FinishesAreWhole`).
* `QuestionsHaveOneAnswer` from `QuizInv`, with lemmas on what removing an option or a question
  does to the sequence and to the mark.

`ClassesProofs` and `ListsProofs`, from the same assumption, one invariant for each of the other
six pages, and the theorems of `MCForms` that follow:

* `TurnsAreInOrder` from `ChatInv`: what the page shows is stored, and whatever is earlier on the
  page is stored earlier (`InOrder`); until a spoken message overlaps another one, one turn of this
  load at most awaits its answer, and it comes after those on the page (`OneAwaited`).
* `ListsAreCurrent`. What a list shows is stored, unless something will still see to it or a
  history field says it may be wrong; each page has that in its own terms. Of `TeacherLists` the
  last load brings what is stored or a change is about to be answered (`LastIsCurrent`). Of
  `Reports` a load that was not overtaken is of what is selected and an answer that is not late is
  what is stored (`LoadsAreTrue`), and the page is right as soon as nothing is being loaded, unless
  a change's answer will load it again (`ReportIsTrue`). Of `Feeds` one request at most is in
  flight and it continues what is shown, so the list ends whole (`FeedSettled`), unless requests
  were mixed. Of `ClassPicker` the last load brings the classes as they are unless another will
  follow (`LastFits`), a request of the portal works with what is selected, and what was created is
  there, unless either was overtaken (`LoadFits`, `CreationFits`); it is shown when nothing more
  will be loaded (`PickerSettled`). Of `Curriculum` an answer under way brings what is stored, or
  is late, or a later load or the answer to a change comes for the same list (`FoundIsStored`), and
  what is shown of a list is stored unless one of them is to come (`ListFits`).
* `FormsTypes`, for all ten pages, from these invariants and those of `FormsProofs`.

`PagesProofs`, from `PagesAssumption` (the bounds are naturals, and the student's own request
counts among those of a ranking), one invariant for each of the five pages:

* `DuelsMoveOn`: of the loads in flight one is accepted, it saw nothing earlier than what is
  shown (`LatestIsAhead`), and nobody has seen more than what is stored (`NoneIsAhead`).
* `WaitsEndRightly` from `DialogInv`: as long as no late poll has disturbed the page, one
  job at most is polled or about to close the dialog, the one it asked for (`WaitsForItsJob`). This
  needs that a page knows nothing of a job it has not been told of (`NewIsUnknown`) and that a job
  that ticks has no closing timer (`TickingIsOpen`); `SlotsDiffer` and `TimersFit` keep polls and
  timers within the slots there are.
* `TypeCorrect`, for all five: `IntroInv` says that a page that shows, loads or polls a challenge
  has its number, `DeskInv` that a page that loads has no rows and a row that is gone no timer and
  no poll, `RankInv` that requests are finitely many and a period has one cached ranking.

TLC has checked each of these invariants on the instances of section 4 before it was proved.

*Only model-checked*: the liveness properties `RequestsReturn`, `JobsSettle`, `SlotsReturn`,
`GeneratingEnds`, `OutcomeIsShown`, `WaitingEnds` and `ListsSettle`, which are beyond this prover.

## 6. Not modelled

* Streak, level and mastery: arithmetic on days and thresholds, without a state of its own.
* The provider's HTTP client and the parsing of its output; the multi-agent planner (`agents/`) and
  the in-memory repositories with the older v1 routes, which the running application does not use;
  migrations, seeds and deployment; the Android client, a third client of the same API.
* Of the clients: pages that load once and show what came (`AnalyticsOverviewPage`, `StudentsAnalyticsPage`,
  `TopicsAnalyticsPage` and the two detail pages of the portal, whose unguarded load is that of the
  leaderboard in `Reports`; the student's dashboard, subjects, profile), search and filters over what is
  already loaded, dialogs that preview, copy or share, charts, layout and wording.
* A topic created while its subject is archived: neither request takes a lock, and the result is an
  active topic nobody sees.
* A commit whose acknowledgement is lost and a Redis command that fails: a commit either happens or
  raises. The memory fallback of the cache, which one process uses without Redis.
