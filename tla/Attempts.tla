------------------------------ MODULE Attempts ------------------------------
(* Attempts, duels and their rewards: server/api/routes/attempts.py,       *)
(* server/api/routes/duels.py, AttemptService and DuelService of           *)
(* server/services/domain.py.                                              *)
(*                                                                         *)
(* Variables hold what is COMMITTED in PostgreSQL.  A request whose        *)
(* transaction spans several lock acquisitions is a process: tx[r] is its  *)
(* position and what it has read or written but not committed, and held[r] *)
(* the transaction-scoped locks it owns (the advisory lock and the row     *)
(* lock taken with it are one lock here).  Handlers that take at most one  *)
(* lock and read nothing before it are one atomic action.                  *)
EXTENDS Rules

CONSTANTS
    Requests,      \* requests that may be in flight at once
    NoQuestion, NoStats

VARIABLES
    attempts,   \* attempts and attempt_answers
    duels,      \* duels, by creator_attempt_id, which is unique
    ledger,     \* xp_ledger
    stats,      \* student_stats
    progress,   \* topic_progress.attempts_count
    ready,      \* challenges.status = READY
    tx, held    \* the requests' transactions and their locks

vars == <<attempts, duels, ledger, stats, progress, ready, tx, held>>
database == <<attempts, duels, ledger, stats, progress, ready>>

Stats == [xp : Nat, attempts : Nat, won : Nat, lost : Nat, drawn : Nat]

ASSUME AttemptsAssumption ==
    /\ NoQuestion \notin Questions
    /\ NoStats \notin Stats

-----------------------------------------------------------------------------
(* Transactions.                                                           *)

Idle == [pc |-> "idle", attempt |-> NoAttempt, question |-> NoQuestion,
         choice |-> "none", seen |-> "none", duration |-> 0,
         duel |-> NoAttempt, result |-> "none", lost |-> 0,
         rows |-> {}, pending |-> [u \in Users |-> NoStats]]

Locks == ({"attempt", "duel"} \X AttemptIds) \union ({"stats"} \X Users)

\* Mutant: _update_stats without its advisory lock and FOR UPDATE.
FreeBug(r, k) ==
    k[1] = "stats" \/ \A s \in Requests \ {r} : k \notin held[s]

\* No other transaction holds lock k.
Free(r, k) == \A s \in Requests \ {r} : k \notin held[s]

Hold(r, k) == held' = [held EXCEPT ![r] = @ \union {k}]

\* Mutant: session locks, which the end of a transaction does not release.
EndBug(r) == /\ tx' = [tx EXCEPT ![r] = Idle]
             /\ UNCHANGED held

\* Requests end by committing or rolling back; either way every lock of the
\* transaction goes with it.
End(r) == /\ tx' = [tx EXCEPT ![r] = Idle]
          /\ held' = [held EXCEPT ![r] = {}]

\* Stats of u as transaction r sees them, its own pending write first.
StatsSeen(r, u) ==
    IF tx[r].pending[u] = NoStats THEN stats[u] ELSE tx[r].pending[u]

\* Mutant: rows the transaction has not touched are overwritten too.
StatsWrittenBug(r) == tx[r].pending

\* The stats rows transaction r writes when it commits.
StatsWritten(r) == [u \in Users |-> StatsSeen(r, u)]

-----------------------------------------------------------------------------
(* POST /challenges/{id}/attempts.  Every other check of the handler is    *)
(* about the topic, the subject and the membership.                        *)

StartAttempt(a) ==
    /\ attempts[a].status = "ABSENT"
    /\ ready
    /\ attempts' = [attempts EXCEPT ![a].status = "IN_PROGRESS"]
    /\ UNCHANGED <<duels, ledger, stats, progress, ready, tx, held>>

\* PATCH /challenges/{id}/status: READY or ARCHIVED, from any status.
UpdateChallengeStatus ==
    /\ ready' = ~ready
    /\ UNCHANGED <<attempts, duels, ledger, stats, progress, tx, held>>

-----------------------------------------------------------------------------
(* PUT /attempts/{id}/answers/{qid}.  The attempt and its answers are      *)
(* loaded into the session first, without a lock.  Under the lock only     *)
(* attempt.status is refreshed: the SELECT ... FOR UPDATE of the answer    *)
(* does not overwrite an answer the session already holds, so assigning    *)
(* the option the stale copy has is no change and writes nothing.          *)

SubmitLoad(r, a, q, choice) ==
    /\ tx[r] = Idle
    /\ attempts[a].status = "IN_PROGRESS"
    /\ tx' = [tx EXCEPT ![r].pc = "submit", ![r].attempt = a,
                        ![r].question = q, ![r].choice = choice,
                        ![r].seen = attempts[a].answers[q]]
    /\ UNCHANGED <<database, held>>

\* The answer the database holds after the flush.
AnswerWritten(r) ==
    IF tx[r].choice = tx[r].seen
    THEN attempts[tx[r].attempt].answers[tx[r].question]
    ELSE tx[r].choice

\* Mutant: the status loaded before the lock is trusted.
MayAnswerBug(r) == TRUE

\* The status is refreshed under the lock.
MayAnswer(r) == attempts[tx[r].attempt].status = "IN_PROGRESS"

SubmitSave(r) ==
    /\ tx[r].pc = "submit"
    /\ Free(r, <<"attempt", tx[r].attempt>>)
    /\ MayAnswer(r)
    /\ attempts' = [attempts EXCEPT
           ![tx[r].attempt].answers[tx[r].question] = AnswerWritten(r)]
    /\ tx' = [tx EXCEPT ![r].pc = "saved"]
    /\ UNCHANGED <<duels, ledger, stats, progress, ready, held>>

\* "Attempt already completed".
SubmitReject(r) ==
    /\ tx[r].pc = "submit"
    /\ Free(r, <<"attempt", tx[r].attempt>>)
    /\ ~MayAnswer(r)
    /\ End(r)
    /\ UNCHANGED database

\* {"saved": true} has reached the client.
SubmitReply(r) ==
    /\ tx[r].pc = "saved"
    /\ End(r)
    /\ UNCHANGED database

-----------------------------------------------------------------------------
(* POST /attempts/{id}/finish: AttemptService.finish_attempt,              *)
(* _update_stats, _update_topic_progress and _maybe_complete_duel.         *)

\* Mutant: "<=" for "<" when the answers are counted.
AllAnsweredBug(a) ==
    Cardinality({q \in Questions : attempts[a].answers[q] = "none"}) <= 1

AllAnswered(a) == \A q \in Questions : attempts[a].answers[q] # "none"

MayFinish(a) == attempts[a].status = "IN_PROGRESS" /\ AllAnswered(a)

\* Locks the attempt, then reads it and its answers.  A completed attempt
\* is returned as it is, one with an unanswered question is refused; both
\* change nothing.
FinishBegin(r, a, duration) ==
    /\ tx[r] = Idle
    /\ Free(r, <<"attempt", a>>)
    /\ MayFinish(a)
    /\ tx' = [tx EXCEPT ![r].pc = "own", ![r].attempt = a,
                        ![r].duration = duration]
    /\ Hold(r, <<"attempt", a>>)
    /\ UNCHANGED database

\* What _update_stats makes of a stats row for an attempt's own XP, and,
\* with skip_attempt_increment, for a won duel (duels_won included).
AddAttempt(s, xp) == [s EXCEPT !.xp = @ + xp, !.attempts = @ + 1]
AddWin(s, bonus) == [s EXCEPT !.xp = @ + bonus, !.won = @ + 1]

Paid(row) == \E paid \in ledger :
    paid.user = row.user /\ paid.type = row.type /\ paid.source = row.source

\* Nothing is awarded to an attempt the ledger has already paid.
FinishAward(r) ==
    LET a == tx[r].attempt
        u == Owner[a]
        row == AttemptRow(a, attempts[a].answers)
    IN  /\ tx[r].pc = "own"
        /\ IF Paid(row)
           THEN /\ tx' = [tx EXCEPT ![r].pc = "duel"]
                /\ UNCHANGED held
           ELSE /\ Free(r, <<"stats", u>>)
                /\ Hold(r, <<"stats", u>>)
                /\ tx' = [tx EXCEPT
                       ![r].pc = "duel",
                       ![r].rows = {row},
                       ![r].pending[u] = AddAttempt(stats[u], row.amount)]
        /\ UNCHANGED database

\* The duels attempt a takes part in.
DuelsOf(a) ==
    {d \in AttemptIds : /\ duels[d].status # "ABSENT"
                        /\ d = a \/ duels[d].opponent = a}

FinishNoDuel(r) ==
    /\ tx[r].pc = "duel"
    /\ DuelsOf(tx[r].attempt) = {}
    /\ tx' = [tx EXCEPT ![r].pc = "commit"]
    /\ UNCHANGED <<database, held>>

\* An attempt as the transaction sees it, its own duration included.
AttemptSeen(r, a) ==
    IF a = tx[r].attempt
    THEN [attempts[a] EXCEPT !.status = "COMPLETED", !.duration = tx[r].duration]
    ELSE attempts[a]

\* Mutant: the attempts' statuses are read from the database, where the one
\* being finished is not completed yet.
SettlesBug(r, d) ==
    LET o == duels[d].opponent
    IN  /\ duels[d].status \in {"PENDING", "ACCEPTED"}
        /\ o \in AttemptIds
        /\ {attempts[d].status, attempts[o].status} = {"COMPLETED"}

\* Under the duel's lock, with the row read again: still open, and both
\* attempts completed, the one being finished included.
Settles(r, d) ==
    LET o == duels[d].opponent
    IN  /\ duels[d].status \in {"PENDING", "ACCEPTED"}
        /\ o \in AttemptIds
        /\ AttemptSeen(r, d).status = "COMPLETED"
        /\ AttemptSeen(r, o).status = "COMPLETED"

FinishLockDuel(r, d) ==
    /\ tx[r].pc = "duel"
    /\ d \in DuelsOf(tx[r].attempt)
    /\ Free(r, <<"duel", d>>)
    /\ Hold(r, <<"duel", d>>)
    /\ IF Settles(r, d)
       THEN tx' = [tx EXCEPT
               ![r].pc = "first", ![r].duel = d,
               ![r].result = DuelResult(AttemptSeen(r, d),
                                        AttemptSeen(r, duels[d].opponent))]
       ELSE tx' = [tx EXCEPT ![r].pc = "commit"]
    /\ UNCHANGED database

\* The participants in the order their stats are locked: the winner, then
\* the loser; in a draw the creator, then the opponent.
First(r) == IF tx[r].result = "OPPONENT_WIN"
            THEN Owner[duels[tx[r].duel].opponent] ELSE Owner[tx[r].duel]
Second(r) == IF tx[r].result = "OPPONENT_WIN"
             THEN Owner[tx[r].duel] ELSE Owner[duels[tx[r].duel].opponent]

FinishFirst(r) ==
    LET u == First(r)
        row == BonusRow(u, tx[r].duel)
        due == IF tx[r].result = "DRAW" \/ Paid(row) THEN {} ELSE {row}
    IN  /\ tx[r].pc = "first"
        /\ Free(r, <<"stats", u>>)
        /\ Hold(r, <<"stats", u>>)
        /\ tx' = [tx EXCEPT
               ![r].pc = "second",
               ![r].rows = @ \union due,
               ![r].pending[u] =
                   IF tx[r].result = "DRAW"
                   THEN [StatsSeen(r, u) EXCEPT !.drawn = @ + 1]
                   ELSE AddWin(StatsSeen(r, u),
                               IF due = {} THEN 0 ELSE DuelBonus)]
        /\ UNCHANGED database

FinishSecond(r) ==
    LET u == Second(r)
    IN  /\ tx[r].pc = "second"
        /\ Free(r, <<"stats", u>>)
        /\ Hold(r, <<"stats", u>>)
        /\ tx' = [tx EXCEPT
               ![r].pc = "commit",
               ![r].pending[u] =
                   IF tx[r].result = "DRAW"
                   THEN [StatsSeen(r, u) EXCEPT !.drawn = @ + 1]
                   ELSE [StatsSeen(r, u) EXCEPT !.lost = @ + 1]]
        /\ UNCHANGED database

FinishCommit(r) ==
    LET a == tx[r].attempt
        d == tx[r].duel
    IN  /\ tx[r].pc = "commit"
        /\ attempts' = [attempts EXCEPT ![a].status = "COMPLETED",
                                        ![a].duration = tx[r].duration]
        /\ ledger' = ledger \union tx[r].rows
        /\ stats' = StatsWritten(r)
        /\ progress' = IF \E row \in tx[r].rows : row.type = "ATTEMPT"
                       THEN [progress EXCEPT ![Owner[a]] = @ + 1]
                       ELSE progress
        /\ duels' = IF d = NoAttempt THEN duels
                    ELSE [duels EXCEPT ![d].status = "COMPLETED",
                                       ![d].result = tx[r].result]
        /\ End(r)
        /\ UNCHANGED ready

-----------------------------------------------------------------------------
(* POST /attempts/{id}/duels and /duels/{code}/accept: one lock each, read *)
(* under it.                                                               *)

Unlocked(k) == \A s \in Requests : k \notin held[s]

CreateDuel(a) ==
    /\ attempts[a].status = "COMPLETED"
    /\ Unlocked(<<"duel", a>>)
    /\ duels[a] = NoDuel
    /\ duels' = [duels EXCEPT ![a].status = "PENDING"]
    /\ UNCHANGED <<attempts, ledger, stats, progress, ready, tx, held>>

\* expires_at passes.
Expire(d) ==
    /\ duels[d].status = "PENDING" /\ ~duels[d].expired
    /\ duels' = [duels EXCEPT ![d].expired = TRUE]
    /\ UNCHANGED <<attempts, ledger, stats, progress, ready, tx, held>>

\* An expired duel is refused: the EXPIRED status the handler flushes is
\* rolled back by the error it raises next.
MayAccept(d) == duels[d].status = "PENDING" /\ ~duels[d].expired

AcceptDuel(d, a) ==
    /\ MayAccept(d)
    /\ Unlocked(<<"duel", d>>)
    /\ Owner[a] # Owner[d]
    /\ ready
    /\ attempts[a].status = "ABSENT"
    /\ attempts' = [attempts EXCEPT ![a].status = "IN_PROGRESS"]
    /\ duels' = [duels EXCEPT ![d].status = "ACCEPTED", ![d].opponent = a]
    /\ UNCHANGED <<ledger, stats, progress, ready, tx, held>>

-----------------------------------------------------------------------------
(* POST /attempts/{id}/duels/bot: no lock is asked for.  The unique index  *)
(* on creator_attempt_id makes a second insert wait for the first one's    *)
(* transaction and then fails it; an UPDATE waits for the row's lock.      *)

BotBegin(r, a) ==
    /\ tx[r] = Idle
    /\ attempts[a].status = "COMPLETED"
    /\ duels[a] = NoDuel
    /\ tx' = [tx EXCEPT ![r].pc = "botInsert", ![r].attempt = a]
    /\ UNCHANGED <<database, held>>

\* The bot answers at random, in 20 to 90 seconds.
BotInsert(r, right, seconds) ==
    LET a == tx[r].attempt
    IN  /\ tx[r].pc = "botInsert"
        /\ Free(r, <<"duel", a>>)
        /\ duels[a] = NoDuel
        /\ Hold(r, <<"duel", a>>)
        /\ tx' = [tx EXCEPT
               ![r].pc = "botSettle",
               ![r].result = BotResult(attempts[a], right, seconds)]
        /\ UNCHANGED database

\* IntegrityError: another duel was created from the attempt meanwhile.
BotConflict(r) ==
    /\ tx[r].pc = "botInsert"
    /\ Free(r, <<"duel", tx[r].attempt>>)
    /\ duels[tx[r].attempt] # NoDuel
    /\ End(r)
    /\ UNCHANGED database

BotWon(r) ==
    LET a == tx[r].attempt
        u == Owner[a]
    IN  /\ tx[r].pc = "botSettle"
        /\ tx[r].result = "CHALLENGER_WIN"
        /\ Free(r, <<"stats", u>>)
        /\ Hold(r, <<"stats", u>>)
        /\ tx' = [tx EXCEPT ![r].pc = "botCommit",
                            ![r].rows = {BonusRow(u, a)},
                            ![r].pending[u] =
                                AddWin(StatsSeen(r, u), DuelBonus)]
        /\ UNCHANGED database

\* A loss reads duels_lost without a lock; a draw counts nowhere.
BotNotWon(r) ==
    /\ tx[r].pc = "botSettle"
    /\ tx[r].result # "CHALLENGER_WIN"
    /\ tx' = [tx EXCEPT ![r].pc = "botCommit",
                        ![r].lost = stats[Owner[tx[r].attempt]].lost]
    /\ UNCHANGED <<database, held>>

\* The loss is written as the number read plus one, in a column of its own.
BotCommit(r) ==
    LET a == tx[r].attempt
        u == Owner[a]
    IN  /\ tx[r].pc = "botCommit"
        /\ IF tx[r].result = "OPPONENT_WIN"
           THEN /\ Free(r, <<"stats", u>>)
                /\ stats' = [stats EXCEPT ![u].lost = tx[r].lost + 1]
           ELSE stats' = StatsWritten(r)
        /\ ledger' = ledger \union tx[r].rows
        /\ duels' = [duels EXCEPT ![a].status = "COMPLETED",
                                  ![a].opponent = BotAttempt,
                                  ![a].result = tx[r].result]
        /\ End(r)
        /\ UNCHANGED <<attempts, progress, ready>>

-----------------------------------------------------------------------------
(* A transaction that does not commit leaves nothing: an exception, a      *)
(* killed process, a lost connection, or PostgreSQL breaking a deadlock.   *)

Abort(r) ==
    /\ tx[r].pc \notin {"idle", "saved"}
    /\ End(r)
    /\ UNCHANGED database

\* The locks transaction r cannot go on without.
Wants(r) ==
    LET pc == tx[r].pc
        a == tx[r].attempt
    IN  CASE pc = "submit" -> {<<"attempt", a>>}
          [] pc = "own" -> {<<"stats", Owner[a]>>}
          [] pc = "duel" -> {<<"duel", d>> : d \in DuelsOf(a)}
          [] pc = "first" -> {<<"stats", First(r)>>}
          [] pc = "second" -> {<<"stats", Second(r)>>}
          [] pc = "botInsert" -> {<<"duel", a>>}
          [] pc = "botSettle" /\ tx[r].result = "CHALLENGER_WIN" ->
                 {<<"stats", Owner[a]>>}
          [] pc = "botCommit" /\ tx[r].result = "OPPONENT_WIN" ->
                 {<<"stats", Owner[a]>>}
          [] OTHER -> {}

\* r is one of a set of transactions each waiting for another of the set.
Deadlocked(r) ==
    \E S \in SUBSET Requests :
        /\ r \in S
        /\ \A s \in S : \E t \in S \ {s} : Wants(s) \intersect held[t] # {}

\* PostgreSQL's deadlock detection.
DeadlockVictim(r) == Deadlocked(r) /\ Abort(r)

-----------------------------------------------------------------------------
Init ==
    /\ attempts = [a \in AttemptIds |-> [status |-> "ABSENT",
                                         answers |-> NoAnswers, duration |-> 0]]
    /\ duels = [a \in AttemptIds |-> NoDuel]
    /\ ledger = {}
    /\ stats = [u \in Users |-> [xp |-> 0, attempts |-> 0,
                                 won |-> 0, lost |-> 0, drawn |-> 0]]
    /\ progress = [u \in Users |-> 0]
    /\ ready = TRUE
    /\ tx = [r \in Requests |-> Idle]
    /\ held = [r \in Requests |-> {}]

FinishStep(r) ==
    \/ FinishAward(r)
    \/ FinishNoDuel(r)
    \/ \E d \in AttemptIds : FinishLockDuel(r, d)
    \/ FinishFirst(r)
    \/ FinishSecond(r)
    \/ FinishCommit(r)

BotStep(r) ==
    \/ \E right \in SUBSET Questions, seconds \in Durations \ {0} :
           BotInsert(r, right, seconds)
    \/ BotConflict(r)
    \/ BotWon(r)
    \/ BotNotWon(r)
    \/ BotCommit(r)

SubmitStep(r) == SubmitSave(r) \/ SubmitReject(r) \/ SubmitReply(r)

Begin(r) ==
    \/ \E a \in AttemptIds, q \in Questions, choice \in Options :
           SubmitLoad(r, a, q, choice)
    \/ \E a \in AttemptIds, duration \in Durations : FinishBegin(r, a, duration)
    \/ \E a \in AttemptIds : BotBegin(r, a)

Next ==
    \/ \E a \in AttemptIds : StartAttempt(a) \/ CreateDuel(a) \/ Expire(a)
    \/ \E d, a \in AttemptIds : AcceptDuel(d, a)
    \/ UpdateChallengeStatus
    \/ \E r \in Requests : \/ Begin(r)
                           \/ FinishStep(r)
                           \/ BotStep(r)
                           \/ SubmitStep(r)
                           \/ Abort(r)

Spec == Init /\ [][Next]_vars

\* A lock queue serves every waiter in turn, so a request that can go on
\* again and again does; PostgreSQL ends every deadlock.
Fairness == \A r \in Requests : /\ SF_vars(FinishStep(r))
                                /\ SF_vars(BotStep(r))
                                /\ SF_vars(SubmitStep(r))
                                /\ WF_vars(DeadlockVictim(r))

FairSpec == Spec /\ Fairness

-----------------------------------------------------------------------------
(* Properties.                                                             *)

Transaction ==
    [pc : {"idle", "submit", "saved", "own", "duel", "first", "second",
           "commit", "botInsert", "botSettle", "botCommit"},
     attempt : AttemptIds \union {NoAttempt},
     question : Questions \union {NoQuestion},
     choice : Answer, seen : Answer, duration : Nat,
     duel : AttemptIds \union {NoAttempt},
     result : Outcome \union {"none"},
     lost : Nat, rows : SUBSET Row,
     pending : [Users -> Stats \union {NoStats}]]

\* The committed rows, the transactions and their locks are well formed.
TypeOK ==
    /\ attempts \in [AttemptIds -> Attempt]
    /\ duels \in [AttemptIds -> Duel]
    /\ ledger \subseteq Row
    /\ stats \in [Users -> Stats]
    /\ progress \in [Users -> Nat]
    /\ ready \in BOOLEAN
    /\ tx \in [Requests -> Transaction]
    /\ held \in [Requests -> SUBSET Locks]

Completed == {a \in AttemptIds : attempts[a].status = "COMPLETED"}
Settled == {d \in AttemptIds : duels[d].status = "COMPLETED"}

\* The duels a student won, and the student who won each.
Won(u) == {d \in Settled : \/ /\ duels[d].result = "CHALLENGER_WIN"
                              /\ Owner[d] = u
                           \/ /\ duels[d].result = "OPPONENT_WIN"
                              /\ duels[d].opponent \in AttemptIds
                              /\ Owner[duels[d].opponent] = u}

\* Every completed attempt is paid exactly once, for the answers it was
\* completed with, every duel's winner gets one bonus, and nothing else is
\* ever paid: however finish requests repeat, race with each other and with
\* answers, or fail half way (finish_attempt, _maybe_complete_duel,
\* create_bot_duel).
RewardsFollowResults ==
    ledger = {AttemptRow(a, attempts[a].answers) : a \in Completed}
                 \union UNION {{BonusRow(u, d) : d \in Won(u)} : u \in Users}

\* A student's running totals are what the ledger, the completed attempts
\* and the duels between students add up to: no update of student_stats
\* or topic_progress is lost between transactions (_update_stats,
\* _update_topic_progress, the two counters of _maybe_complete_duel).
TotalsMatchHistory ==
    \A u \in Users :
        LET drawn == {d \in Settled :
                          /\ duels[d].result = "DRAW"
                          /\ duels[d].opponent \in AttemptIds
                          /\ u \in {Owner[d], Owner[duels[d].opponent]}}
            own == {a \in Completed : Owner[a] = u}
            rows == {row \in ledger : row.user = u}
        IN  /\ stats[u].xp = MapThenSumSet(LAMBDA row : row.amount, rows)
            /\ stats[u].attempts = Cardinality(own)
            /\ progress[u] = Cardinality(own)
            /\ stats[u].won = Cardinality(Won(u))
            /\ stats[u].drawn = Cardinality(drawn)

\* A duel between students is settled as soon as both attempts are
\* completed, never before, and with the result those attempts deserve: the
\* transaction that completes the last one settles it (_maybe_complete_duel).
DuelsSettledRight ==
    \A d \in AttemptIds : duels[d].opponent \in AttemptIds =>
        LET o == duels[d].opponent
        IN  /\ duels[d].status = "COMPLETED" <=> {d, o} \subseteq Completed
            /\ duels[d].status = "COMPLETED" =>
                   duels[d].result = DuelResult(attempts[d], attempts[o])

\* A completed attempt and a completed duel never change again, whatever
\* answer, finish, accept or bot duel was under way (submit_answer reads the
\* attempt before it has the lock).
CompletedImmutable ==
    [][\A a \in AttemptIds :
           /\ attempts[a].status = "COMPLETED" => attempts'[a] = attempts[a]
           /\ duels[a].status = "COMPLETED" => duels'[a] = duels[a]]_vars

\* Every request returns: locks are always released, and two finishes that
\* wait for each other's stats rows do not wait for ever.
RequestsReturn ==
    \A r \in Requests : tx[r].pc # "idle" ~> tx[r].pc = "idle"

\* When the client is told its answer is saved, that answer is the one
\* stored (submit_answer).
SavedAnswerStored ==
    [][\A r \in Requests :
           tx[r].pc = "submit" /\ tx'[r].pc = "saved" =>
               attempts'[tx[r].attempt].answers[tx[r].question] = tx[r].choice]_vars

\* duels_lost counts the duels the student lost, to students and to the bot.
LossesMatchDuels ==
    \A u \in Users :
        stats[u].lost = Cardinality(
            {d \in Settled : \/ /\ duels[d].result = "OPPONENT_WIN"
                                /\ Owner[d] = u
                             \/ /\ duels[d].result = "CHALLENGER_WIN"
                                /\ duels[d].opponent \in AttemptIds
                                /\ Owner[duels[d].opponent] = u})

-----------------------------------------------------------------------------
(* The transactions implement the abstract specification: a finish, however *)
(* many locks it takes one after the other, looks like one step.            *)

Promise == INSTANCE Rewards WITH
    total <- [u \in Users |-> [xp |-> stats[u].xp, attempts |-> stats[u].attempts,
                               won |-> stats[u].won, drawn |-> stats[u].drawn]]

\* Completing an attempt, paying for it and settling its duel are one step,
\* taken at most once per attempt (finish_attempt, create_bot_duel).
ImplementsRewards == Promise!Spec
=============================================================================
