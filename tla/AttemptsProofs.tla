--------------------------- MODULE AttemptsProofs ---------------------------
(* What Attempts promises for any number of students, attempts and         *)
(* requests.                                                               *)
(*                                                                         *)
(* The invariants hold because a request reads what it relies on under a   *)
(* lock and keeps the lock until it commits: what a finish or a bot duel   *)
(* knows of its attempt and its duel is still true when it writes.         *)
EXTENDS Attempts, FiniteSetTheorems, TLAPS

Finishing(r) == tx[r].pc \in {"own", "duel", "first", "second", "commit"}

\* The request has found a duel to settle, or has none to settle.
Deciding(r) == /\ tx[r].pc \in {"first", "second", "commit"}
               /\ tx[r].duel # NoAttempt

BotPlaying(r) == tx[r].pc \in {"botSettle", "botCommit"}

\* The bonus that a decided duel pays.
Bonus(r) == IF tx[r].result = "DRAW" THEN {}
            ELSE {BonusRow(First(r), tx[r].duel)}

\* A submission knows what it writes; it holds no lock.
SubmitFacts(r) ==
    tx[r].pc \in {"submit", "saved"} =>
        /\ tx[r].attempt \in AttemptIds
        /\ tx[r].question \in Questions
        /\ tx[r].choice \in Options

\* A finish owns its attempt, which is still in progress, and will pay it.
FinishFacts(r) ==
    Finishing(r) =>
        LET a == tx[r].attempt
            row == AttemptRow(a, attempts[a].answers)
        IN  /\ a \in AttemptIds
            /\ <<"attempt", a>> \in held[r]
            /\ attempts[a].status = "IN_PROGRESS"
            /\ tx[r].pc \in {"own", "duel"} => tx[r].duel = NoAttempt
            /\ tx[r].pc \in {"first", "second"} => tx[r].duel # NoAttempt
            /\ tx[r].pc = "own" => tx[r].rows = {}
            /\ tx[r].pc \in {"duel", "first"} => tx[r].rows = {row}
            /\ tx[r].pc = "second" => tx[r].rows = {row} \union Bonus(r)
            /\ tx[r].pc = "commit" /\ tx[r].duel # NoAttempt =>
                   tx[r].rows = {row} \union Bonus(r)
            /\ tx[r].pc = "commit" /\ tx[r].duel = NoAttempt =>
                   /\ tx[r].rows = {row}
                   /\ \A d \in AttemptIds : duels[d].opponent # a

\* A finish that settles a duel owns it, and decides it on what is stored.
DecideFacts(r) ==
    Deciding(r) =>
        LET a == tx[r].attempt
            d == tx[r].duel
        IN  /\ d \in AttemptIds
            /\ <<"duel", d>> \in held[r]
            /\ duels[d].status = "ACCEPTED"
            /\ duels[d].opponent = a
            /\ attempts[d].status = "COMPLETED"
            /\ tx[r].result =
                   DuelResult(attempts[d],
                              [attempts[a] EXCEPT !.status = "COMPLETED",
                                                  !.duration = tx[r].duration])

\* A bot duel owns the duel it is about to insert.
BotFacts(r) ==
    /\ tx[r].pc = "botInsert" \/ BotPlaying(r) =>
           /\ tx[r].attempt \in AttemptIds
           /\ attempts[tx[r].attempt].status = "COMPLETED"
           /\ tx[r].pc \in {"botInsert", "botSettle"} => tx[r].rows = {}
    /\ BotPlaying(r) =>
           LET a == tx[r].attempt
           IN  /\ <<"duel", a>> \in held[r]
               /\ duels[a] = NoDuel
               /\ tx[r].result \in Outcome
               /\ tx[r].pc = "botCommit" =>
                      tx[r].rows = IF tx[r].result = "CHALLENGER_WIN"
                                   THEN {BonusRow(Owner[a], a)} ELSE {}

RequestFacts(r) ==
    SubmitFacts(r) /\ FinishFacts(r) /\ DecideFacts(r) /\ BotFacts(r)

LocksExclusive ==
    \A r, s \in Requests : r # s => held[r] \intersect held[s] = {}

\* What the status of a duel says of its attempts.
DuelFacts(d) ==
    /\ duels[d].status = "ABSENT" => duels[d] = NoDuel
    /\ duels[d].status # "ABSENT" => attempts[d].status = "COMPLETED"
    /\ duels[d].status = "PENDING" => duels[d].opponent = NoAttempt
    /\ duels[d].status = "ACCEPTED" => duels[d].opponent \in AttemptIds
    /\ duels[d].status = "COMPLETED" =>
           /\ duels[d].opponent # NoAttempt
           /\ duels[d].result \in Outcome
    /\ duels[d].opponent \in AttemptIds =>
           /\ attempts[duels[d].opponent].status # "ABSENT"
           /\ duels[d].opponent # d

\* An attempt accepts at most one challenge.
OpponentsDistinct ==
    \A d, e \in AttemptIds :
        duels[d].opponent = duels[e].opponent /\ duels[d].opponent \in AttemptIds
            => d = e

IInv ==
    /\ TypeOK
    /\ LocksExclusive
    /\ \A r \in Requests : RequestFacts(r)
    /\ \A d \in AttemptIds : DuelFacts(d)
    /\ OpponentsDistinct
    /\ DuelsSettledRight
    /\ RewardsFollowResults

-----------------------------------------------------------------------------
(* The values the rules compute.                                           *)

\* Python's round() of a non-negative quotient is a natural number.
LEMMA RoundDivNat ==
    ASSUME NEW n \in Nat, NEW d \in Nat \ {0}
    PROVE  RoundDiv(n, d) \in Nat
BY DEF RoundDiv

\* The XP of an attempt is a natural number, whatever the answers.
LEMMA XpNat ==
    ASSUME NEW answers \in [Questions -> Answer]
    PROVE  XpOf(answers) \in Nat
<1>1. Cardinality(Questions) \in Nat \ {0}
    BY RulesAssumption, FS_CardinalityType, FS_EmptySet
<1>2. Right(answers) \subseteq Questions
    BY DEF Right
<1>3. Cardinality(Right(answers)) \in Nat
    BY <1>2, RulesAssumption, FS_Subset, FS_CardinalityType
<1>4. Accuracy(Cardinality(Right(answers)), Cardinality(Questions)) \in Nat
    BY <1>1, <1>3, RoundDivNat DEF Accuracy
<1> HIDE DEF Accuracy
<1>5. ASSUME NEW a \in Nat PROVE AttemptXp(a) \in Nat
    BY RoundDivNat DEF AttemptXp
<1> QED
    BY <1>4, <1>5 DEF XpOf

\* The rows that pay attempts and duels are rows of the ledger.
LEMMA RowTypes ==
    /\ \A a \in AttemptIds, answers \in [Questions -> Answer] :
           AttemptRow(a, answers) \in Row
    /\ \A u \in Users, d \in AttemptIds : BonusRow(u, d) \in Row
BY RulesAssumption, XpNat DEF Row, AttemptRow, BonusRow, DuelBonus

\* resolve_duel_winner names one of three outcomes.
LEMMA WinnerType ==
    ASSUME NEW c, NEW o
    PROVE  ResolveWinner(c, o) \in Outcome
BY DEF ResolveWinner, Outcome

\* Duels between students and with the bot end in one of them.
LEMMA ResultTypes ==
    /\ \A c, o : DuelResult(c, o) \in Outcome
    /\ \A c, right, seconds : BotResult(c, right, seconds) \in Outcome
BY WinnerType DEF DuelResult, BotResult

\* The updates of a stats row keep it well typed.
LEMMA StatsTypes ==
    ASSUME NEW s \in Stats, NEW xp \in Nat
    PROVE  /\ AddAttempt(s, xp) \in Stats /\ AddWin(s, xp) \in Stats
           /\ [s EXCEPT !.drawn = @ + 1] \in Stats
           /\ [s EXCEPT !.lost = @ + 1] \in Stats
<1>1. ASSUME NEW n \in Nat
      PROVE  /\ [s EXCEPT !.xp = n] \in Stats /\ [s EXCEPT !.attempts = n] \in Stats
             /\ [s EXCEPT !.won = n] \in Stats /\ [s EXCEPT !.drawn = n] \in Stats
             /\ [s EXCEPT !.lost = n] \in Stats
    BY DEF Stats
<1>2. s.xp + xp \in Nat /\ s.attempts + 1 \in Nat /\ s.won + 1 \in Nat
      /\ s.drawn + 1 \in Nat /\ s.lost + 1 \in Nat
    BY DEF Stats
<1>3. AddAttempt(s, xp) \in Stats
  <2> DEFINE m == s.xp + xp
             n == s.attempts + 1
  <2>1. AddAttempt(s, xp) = [s EXCEPT !.xp = m, !.attempts = n]
      BY DEF AddAttempt
  <2>2. m \in Nat /\ n \in Nat
      BY <1>2
  <2> HIDE DEF m, n
  <2> QED
      BY <2>1, <2>2 DEF Stats
<1>4. AddWin(s, xp) \in Stats
  <2> DEFINE m == s.xp + xp
             n == s.won + 1
  <2>1. AddWin(s, xp) = [s EXCEPT !.xp = m, !.won = n]
      BY DEF AddWin
  <2>2. m \in Nat /\ n \in Nat
      BY <1>2
  <2> HIDE DEF m, n
  <2> QED
      BY <2>1, <2>2 DEF Stats
<1> QED
    BY <1>1, <1>2, <1>3, <1>4

\* A request at rest is well typed.
LEMMA IdleType == Idle \in Transaction
BY DEF Idle, Transaction, Answer

-----------------------------------------------------------------------------
(* What other requests do not disturb.                                     *)

\* A step that leaves request s, what it relies on and what is completed
\* alone.
Keeps(s) ==
    /\ tx'[s] = tx[s] /\ held'[s] = held[s]
    /\ \A a \in AttemptIds :
           attempts[a].status = "COMPLETED" => attempts'[a] = attempts[a]
    /\ Finishing(s) => attempts'[tx[s].attempt] = attempts[tx[s].attempt]
    /\ Deciding(s) => duels'[tx[s].duel] = duels[tx[s].duel]
    /\ BotPlaying(s) => duels'[tx[s].attempt] = duels[tx[s].attempt]
    /\ \A d, a \in AttemptIds :
           attempts[a].status # "ABSENT" /\ duels'[d].opponent = a
               => duels[d].opponent = a

\* What a request relies on survives a step that keeps it.
LEMMA KeptFacts ==
    ASSUME NEW s \in Requests, RequestFacts(s), Keeps(s)
    PROVE  RequestFacts(s)'
<1>1. SubmitFacts(s)'
    BY DEF RequestFacts, SubmitFacts, Keeps
<1>2. Deciding(s) => First(s)' = First(s)
    BY DEF RequestFacts, DecideFacts, Deciding, Keeps, First
<1>3. Deciding(s) => Bonus(s)' = Bonus(s)
    BY <1>2 DEF Bonus, Keeps
<1>4. FinishFacts(s)'
    BY <1>3 DEF RequestFacts, FinishFacts, Finishing, Deciding, Keeps
<1>5. DecideFacts(s)'
    BY DEF RequestFacts, FinishFacts, Finishing, DecideFacts, Deciding, Keeps
<1>6. BotFacts(s)'
    BY DEF RequestFacts, BotFacts, BotPlaying, Keeps
<1> QED
    BY <1>1, <1>4, <1>5, <1>6 DEF RequestFacts

\* Request r alone moves, on to transaction t with locks h.
Moves(r, t, h) ==
    /\ tx' = [tx EXCEPT ![r] = t] /\ t \in Transaction
    /\ held' = [held EXCEPT ![r] = h] /\ h \subseteq Locks
    /\ \A s \in Requests \ {r} : h \intersect held[s] = {}

\* A request that moves alone keeps the types and the locks exclusive.
LEMMA MoveTypes ==
    ASSUME IInv, NEW r \in Requests, NEW t, NEW h, Moves(r, t, h)
    PROVE  /\ tx' \in [Requests -> Transaction]
           /\ held' \in [Requests -> SUBSET Locks]
           /\ LocksExclusive'
           /\ tx'[r] = t /\ held'[r] = h
           /\ \A s \in Requests \ {r} : tx'[s] = tx[s] /\ held'[s] = held[s]
BY DEF Moves, IInv, TypeOK, LocksExclusive

\* A transaction is well typed.
LEMMA TxTypes ==
    ASSUME IInv, NEW r \in Requests
    PROVE  tx[r] \in Transaction
BY DEF IInv, TypeOK

\* A step that reads the database and only changes its own transaction.
LEMMA LocalStep ==
    ASSUME IInv, NEW r \in Requests, NEW t, NEW h, Moves(r, t, h),
           UNCHANGED database, RequestFacts(r)'
    PROVE  IInv'
<1>1. TypeOK' /\ LocksExclusive'
    BY MoveTypes DEF IInv, TypeOK, database
<1>2. \A s \in Requests : RequestFacts(s)'
  <2> SUFFICES ASSUME NEW s \in Requests \ {r} PROVE RequestFacts(s)'
      OBVIOUS
  <2>1. Keeps(s)
      BY MoveTypes DEF Keeps, database
  <2> QED
      BY <2>1, KeptFacts DEF IInv
<1>3. (\A d \in AttemptIds : DuelFacts(d))' /\ OpponentsDistinct'
    BY DEF IInv, DuelFacts, OpponentsDistinct, database
<1>4. DuelsSettledRight' /\ RewardsFollowResults'
    BY DEF IInv, DuelsSettledRight, RewardsFollowResults, Completed, Settled,
           Won, database
<1> QED
    BY <1>1, <1>2, <1>3, <1>4 DEF IInv

\* A request that ends knows and locks nothing.
LEMMA EndMoves ==
    ASSUME IInv, NEW r \in Requests, End(r)
    PROVE  Moves(r, Idle, {}) /\ RequestFacts(r)'
<1>1. Moves(r, Idle, {})
    BY IdleType DEF Moves, End
<1>2. tx'[r].pc = "idle"
    BY <1>1, MoveTypes DEF Idle
<1> QED
    BY <1>1, <1>2 DEF RequestFacts, SubmitFacts, FinishFacts, Finishing,
                      DecideFacts, Deciding, BotFacts, BotPlaying

\* A request that ends without a write preserves the invariant.
LEMMA EndStep ==
    ASSUME IInv, NEW r \in Requests, End(r), UNCHANGED database
    PROVE  IInv'
BY EndMoves, LocalStep

-----------------------------------------------------------------------------
(* Steps that only change the request's own transaction.                   *)

\* Loading an attempt before its lock preserves the invariant.
LEMMA SubmitLoadIInv ==
    ASSUME IInv, NEW r \in Requests, NEW a \in AttemptIds, NEW q \in Questions,
           NEW choice \in Options, SubmitLoad(r, a, q, choice)
    PROVE  IInv'
<1> DEFINE t == [tx[r] EXCEPT !.pc = "submit", !.attempt = a, !.question = q,
                              !.choice = choice, !.seen = attempts[a].answers[q]]
<1>1. choice \in Answer /\ attempts[a].answers[q] \in Answer
    BY RulesAssumption DEF IInv, TypeOK, Attempt, Answer
<1>2. t \in Transaction
    BY <1>1, ZenonT(40) DEF IInv, TypeOK, Transaction
<1>3. Moves(r, t, held[r])
    BY <1>2 DEF Moves, SubmitLoad, IInv, TypeOK, LocksExclusive
<1>4. /\ tx'[r].pc = "submit" /\ tx'[r].attempt = a
      /\ tx'[r].question = q /\ tx'[r].choice = choice
  <2>1. tx'[r] = t
      BY <1>3, MoveTypes
  <2> QED
      BY <2>1, TxTypes DEF Transaction
<1>5. RequestFacts(r)'
    BY <1>4 DEF RequestFacts, SubmitFacts, FinishFacts, Finishing,
                DecideFacts, Deciding, BotFacts, BotPlaying
<1> QED
    BY <1>3, <1>5, LocalStep DEF SubmitLoad

\* A finish that locks its attempt establishes what it relies on.
LEMMA FinishBeginIInv ==
    ASSUME IInv, NEW r \in Requests, NEW a \in AttemptIds,
           NEW duration \in Durations, FinishBegin(r, a, duration)
    PROVE  IInv'
<1> DEFINE t == [tx[r] EXCEPT !.pc = "own", !.attempt = a, !.duration = duration]
           h == held[r] \union {<<"attempt", a>>}
<1>1. t \in Transaction
    BY RulesAssumption, TxTypes DEF Transaction
<1>2. h \subseteq Locks
    BY DEF IInv, TypeOK, Locks
<1>3. Moves(r, t, h)
    BY <1>1, <1>2 DEF Moves, FinishBegin, Hold, Free, IInv, TypeOK, LocksExclusive
<1>4. /\ tx'[r].pc = "own" /\ tx'[r].attempt = a /\ tx'[r].rows = {}
      /\ tx'[r].duel = NoAttempt /\ <<"attempt", a>> \in held'[r]
      /\ attempts'[a].status = "IN_PROGRESS"
    BY <1>3, MoveTypes
       DEF FinishBegin, MayFinish, Idle, IInv, TypeOK, Transaction, database
<1>5. RequestFacts(r)'
    BY <1>4 DEF RequestFacts, SubmitFacts, FinishFacts, Finishing,
                DecideFacts, Deciding, BotFacts, BotPlaying
<1> QED
    BY <1>3, <1>5, LocalStep DEF FinishBegin

\* A bot duel that finds no duel yet may begin.
LEMMA BotBeginIInv ==
    ASSUME IInv, NEW r \in Requests, NEW a \in AttemptIds, BotBegin(r, a)
    PROVE  IInv'
<1> DEFINE t == [tx[r] EXCEPT !.pc = "botInsert", !.attempt = a]
<1>1. t \in Transaction
    BY ZenonT(40) DEF IInv, TypeOK, Transaction
<1>2. Moves(r, t, held[r])
    BY <1>1 DEF Moves, BotBegin, IInv, TypeOK, LocksExclusive
<1>3. /\ tx'[r].pc = "botInsert" /\ tx'[r].attempt = a /\ tx'[r].rows = {}
      /\ attempts'[a].status = "COMPLETED"
    BY <1>2, MoveTypes DEF BotBegin, Idle, IInv, TypeOK, Transaction, database
<1>4. RequestFacts(r)'
    BY <1>3 DEF RequestFacts, SubmitFacts, FinishFacts, Finishing,
                DecideFacts, Deciding, BotFacts, BotPlaying
<1> QED
    BY <1>2, <1>4, LocalStep DEF BotBegin

\* An attempt in progress has not been paid.
LEMMA NotPaid ==
    ASSUME IInv, NEW a \in AttemptIds, attempts[a].status = "IN_PROGRESS"
    PROVE  ~Paid(AttemptRow(a, attempts[a].answers))
BY DEF IInv, RewardsFollowResults, Paid, AttemptRow, BonusRow, Completed

\* A duel that is not completed has not been paid.
LEMMA NoBonusPaid ==
    ASSUME IInv, NEW d \in AttemptIds, duels[d].status # "COMPLETED", NEW u
    PROVE  ~Paid(BonusRow(u, d))
BY DEF IInv, RewardsFollowResults, Paid, AttemptRow, BonusRow, Won, Settled

\* A finish always finds its attempt unpaid, and adds the row it owes.
LEMMA FinishAwardIInv ==
    ASSUME IInv, NEW r \in Requests, FinishAward(r)
    PROVE  IInv'
<1> DEFINE a == tx[r].attempt
           u == Owner[a]
           row == AttemptRow(a, attempts[a].answers)
           stat == AddAttempt(stats[u], row.amount)
           t == [tx[r] EXCEPT !.pc = "duel", !.rows = {row}, !.pending[u] = stat]
           h == held[r] \union {<<"stats", u>>}
<1>1. /\ a \in AttemptIds /\ attempts[a].status = "IN_PROGRESS"
      /\ <<"attempt", a>> \in held[r] /\ tx[r].duel = NoAttempt
    BY DEF FinishAward, IInv, RequestFacts, FinishFacts, Finishing
<1>2. ~Paid(row)
    BY <1>1, NotPaid
<1>3. u \in Users /\ row \in Row
    BY <1>1, RulesAssumption, RowTypes DEF IInv, TypeOK, Attempt
<1>4. stat \in Stats
  <2>1. stats[u] \in Stats /\ row.amount \in Nat
      BY <1>3 DEF IInv, TypeOK, Row
  <2> HIDE DEF row
  <2> QED
      BY <2>1, StatsTypes
<1>5. t \in Transaction
  <2> HIDE DEF row, stat, u
  <2> QED
      BY <1>3, <1>4, TxTypes DEF Transaction
<1>6. h \subseteq Locks
    BY <1>3 DEF IInv, TypeOK, Locks
<1>7. Moves(r, t, h)
    BY <1>2, <1>5, <1>6, ZenonT(40)
       DEF Moves, FinishAward, Hold, Free, IInv, TypeOK, LocksExclusive
<1>8. /\ tx'[r].pc = "duel" /\ tx'[r].attempt = a /\ tx'[r].rows = {row}
      /\ tx'[r].duel = NoAttempt /\ held[r] \subseteq held'[r]
  <2>1. tx'[r] = t /\ held'[r] = h
      BY <1>7, MoveTypes
  <2> HIDE DEF row, stat, u
  <2> QED
      BY <1>1, <2>1, TxTypes DEF Transaction
<1>9. RequestFacts(r)'
    BY <1>1, <1>8 DEF FinishAward, database, RequestFacts, SubmitFacts,
       FinishFacts, Finishing, DecideFacts, Deciding, BotFacts, BotPlaying
<1> QED
    BY <1>7, <1>9, LocalStep DEF FinishAward

\* A finish without a duel goes on to its commit.
LEMMA FinishNoDuelIInv ==
    ASSUME IInv, NEW r \in Requests, FinishNoDuel(r)
    PROVE  IInv'
<1> DEFINE a == tx[r].attempt
           t == [tx[r] EXCEPT !.pc = "commit"]
<1>1. /\ a \in AttemptIds /\ attempts[a].status = "IN_PROGRESS"
      /\ <<"attempt", a>> \in held[r] /\ tx[r].duel = NoAttempt
      /\ tx[r].rows = {AttemptRow(a, attempts[a].answers)}
    BY DEF FinishNoDuel, IInv, RequestFacts, FinishFacts, Finishing
<1>2. \A d \in AttemptIds : duels[d].opponent # a
    BY <1>1, RulesAssumption
       DEF FinishNoDuel, DuelsOf, IInv, DuelFacts, NoDuel
<1>3. Moves(r, t, held[r])
    BY ZenonT(40) DEF Moves, FinishNoDuel, IInv, TypeOK, LocksExclusive, Transaction
<1>4. /\ tx'[r].pc = "commit" /\ tx'[r].attempt = a /\ tx'[r].rows = tx[r].rows
      /\ tx'[r].duel = NoAttempt /\ held[r] \subseteq held'[r]
  <2>1. tx'[r] = t /\ held'[r] = held[r]
      BY <1>3, MoveTypes
  <2> QED
      BY <1>1, <2>1, TxTypes DEF Transaction
<1>5. RequestFacts(r)'
    BY <1>1, <1>2, <1>4 DEF FinishNoDuel, database, RequestFacts, SubmitFacts,
       FinishFacts, Finishing, DecideFacts, Deciding, BotFacts, BotPlaying
<1> QED
    BY <1>3, <1>5, LocalStep DEF FinishNoDuel

\* The duel a finish finds is the one its attempt accepted, still open; the
\* finish settles it.
LEMMA FoundDuel ==
    ASSUME IInv, NEW r \in Requests, tx[r].pc = "duel",
           NEW d \in DuelsOf(tx[r].attempt)
    PROVE  /\ d \in AttemptIds /\ d # tx[r].attempt
           /\ duels[d].status = "ACCEPTED"
           /\ duels[d].opponent = tx[r].attempt
           /\ attempts[d].status = "COMPLETED"
           /\ Settles(r, d)
<1> DEFINE a == tx[r].attempt
<1>1. a \in AttemptIds /\ attempts[a].status = "IN_PROGRESS"
    BY DEF IInv, RequestFacts, FinishFacts, Finishing
<1>2. d \in AttemptIds /\ duels[d].status # "ABSENT" /\ (d = a \/ duels[d].opponent = a)
    BY DEF DuelsOf
<1>3. attempts[d].status = "COMPLETED" /\ d # a /\ duels[d].opponent = a
    BY <1>1, <1>2 DEF IInv, DuelFacts
<1>4. duels[d].status # "COMPLETED"
    BY <1>1, <1>2, <1>3 DEF IInv, DuelsSettledRight, Completed
<1>5. duels[d].status # "PENDING"
    BY <1>1, <1>2, <1>3, RulesAssumption DEF IInv, DuelFacts
<1>6. duels[d].status = "ACCEPTED"
    BY <1>2, <1>4, <1>5 DEF IInv, TypeOK, Duel
<1>7. attempts[a] \in Attempt
    BY <1>1 DEF IInv, TypeOK
<1>8. AttemptSeen(r, a).status = "COMPLETED" /\ AttemptSeen(r, d) = attempts[d]
    BY <1>3, <1>7 DEF AttemptSeen, Attempt
<1> QED
    BY <1>1, <1>2, <1>3, <1>6, <1>8 DEF Settles

\* Under the duel's lock a finish decides it on what is stored.
LEMMA FinishLockDuelIInv ==
    ASSUME IInv, NEW r \in Requests, NEW d \in AttemptIds, FinishLockDuel(r, d)
    PROVE  IInv'
<1> DEFINE a == tx[r].attempt
           res == DuelResult(AttemptSeen(r, d), AttemptSeen(r, duels[d].opponent))
           t == [tx[r] EXCEPT !.pc = "first", !.duel = d, !.result = res]
           h == held[r] \union {<<"duel", d>>}
<1>1. /\ a \in AttemptIds /\ attempts[a].status = "IN_PROGRESS"
      /\ <<"attempt", a>> \in held[r]
      /\ tx[r].rows = {AttemptRow(a, attempts[a].answers)}
    BY DEF FinishLockDuel, IInv, RequestFacts, FinishFacts, Finishing
<1>2. /\ d # a /\ duels[d].status = "ACCEPTED" /\ duels[d].opponent = a
      /\ attempts[d].status = "COMPLETED" /\ Settles(r, d)
    BY FoundDuel DEF FinishLockDuel
<1>3. res = DuelResult(attempts[d],
                       [attempts[a] EXCEPT !.status = "COMPLETED",
                                           !.duration = tx[r].duration])
    BY <1>2 DEF AttemptSeen
<1>4. res \in Outcome
    BY ResultTypes
<1>5. t \in Transaction
  <2> HIDE DEF res
  <2> QED
      BY <1>4, TxTypes DEF Transaction
<1>6. h \subseteq Locks
    BY DEF IInv, TypeOK, Locks
<1>7. Moves(r, t, h)
    BY <1>2, <1>5, <1>6
       DEF Moves, FinishLockDuel, Hold, Free, IInv, TypeOK, LocksExclusive
<1>8. /\ tx'[r].pc = "first" /\ tx'[r].attempt = a /\ tx'[r].rows = tx[r].rows
      /\ tx'[r].duel = d /\ tx'[r].result = res
      /\ tx'[r].duration = tx[r].duration
      /\ held[r] \union {<<"duel", d>>} \subseteq held'[r]
  <2>1. tx'[r] = t /\ held'[r] = h
      BY <1>7, MoveTypes
  <2> HIDE DEF res
  <2> QED
      BY <1>1, <2>1, TxTypes DEF Transaction
<1>9. UNCHANGED database
    BY DEF FinishLockDuel
<1> HIDE DEF res, t, h
<1>10. SubmitFacts(r)' /\ BotFacts(r)'
    BY <1>8 DEF SubmitFacts, BotFacts, BotPlaying
<1>11. FinishFacts(r)'
    BY <1>1, <1>8, <1>9, RulesAssumption DEF FinishFacts, database
<1>12. DecideFacts(r)'
    BY <1>1, <1>2, <1>3, <1>8, <1>9 DEF DecideFacts, database
<1> QED
    BY <1>7, <1>9, <1>10, <1>11, <1>12, LocalStep DEF RequestFacts

\* What a request knows that settles a duel.
LEMMA DecidedDuel ==
    ASSUME IInv, NEW r \in Requests, Finishing(r), Deciding(r)
    PROVE  LET a == tx[r].attempt
               d == tx[r].duel
           IN  /\ a \in AttemptIds /\ d \in AttemptIds /\ a # d
               /\ First(r) \in Users /\ Second(r) \in Users
               /\ tx[r].result \in Outcome
               /\ duels[d].status = "ACCEPTED" /\ duels[d].opponent = a
<1> DEFINE a == tx[r].attempt
           d == tx[r].duel
<1>1. a \in AttemptIds /\ attempts[a].status = "IN_PROGRESS"
    BY DEF IInv, RequestFacts, FinishFacts
<1>2. DecideFacts(r)
    BY DEF IInv, RequestFacts
<1>3. /\ d \in AttemptIds /\ attempts[d].status = "COMPLETED"
      /\ duels[d].status = "ACCEPTED" /\ duels[d].opponent = a
    BY <1>2 DEF DecideFacts
<1>4. tx[r].result \in Outcome
    BY <1>2, ResultTypes DEF DecideFacts
<1> QED
    BY <1>1, <1>3, <1>4, RulesAssumption DEF First, Second

\* The winner's bonus is always due, and is added once.
LEMMA FinishFirstIInv ==
    ASSUME IInv, NEW r \in Requests, FinishFirst(r)
    PROVE  IInv'
<1> DEFINE u == First(r)
           row == BonusRow(u, tx[r].duel)
           due == IF tx[r].result = "DRAW" \/ Paid(row) THEN {} ELSE {row}
           stat == IF tx[r].result = "DRAW"
                   THEN [StatsSeen(r, u) EXCEPT !.drawn = @ + 1]
                   ELSE AddWin(StatsSeen(r, u), IF due = {} THEN 0 ELSE DuelBonus)
           t == [tx[r] EXCEPT !.pc = "second", !.rows = @ \union due,
                              !.pending[u] = stat]
           h == held[r] \union {<<"stats", u>>}
<1>0. tx[r].pc = "first" /\ Finishing(r) /\ Deciding(r)
    BY DEF FinishFirst, Finishing, Deciding, IInv, RequestFacts, FinishFacts
<1>1. u \in Users /\ tx[r].duel \in AttemptIds
    BY <1>0, DecidedDuel
<1>2. ~Paid(row)
    BY <1>0, DecidedDuel, NoBonusPaid
<1>3. due = Bonus(r) /\ due \subseteq Row
    BY <1>1, <1>2, RowTypes DEF Bonus
<1>4. stat \in Stats
  <2>1. StatsSeen(r, u) \in Stats
      BY <1>1, TxTypes DEF StatsSeen, Transaction, IInv, TypeOK
  <2> HIDE DEF due, u
  <2> QED
      BY <2>1, StatsTypes DEF DuelBonus
<1>5. t \in Transaction
  <2> HIDE DEF due, u, stat
  <2> QED
      BY <1>1, <1>3, <1>4, TxTypes DEF Transaction
<1>6. h \subseteq Locks
    BY <1>1 DEF IInv, TypeOK, Locks
<1>7. Moves(r, t, h)
  <2>1. /\ tx' = [tx EXCEPT ![r] = t] /\ held' = [held EXCEPT ![r] = h]
        /\ Free(r, <<"stats", u>>)
      BY DEF FinishFirst, Hold
  <2> HIDE DEF t, u
  <2> QED
      BY <1>5, <1>6, <2>1 DEF Moves, Free, IInv, TypeOK, LocksExclusive
<1>8. /\ tx'[r].pc = "second" /\ tx'[r].attempt = tx[r].attempt
      /\ tx'[r].rows = tx[r].rows \union due
      /\ tx'[r].duel = tx[r].duel /\ tx'[r].result = tx[r].result
      /\ tx'[r].duration = tx[r].duration
      /\ held[r] \subseteq held'[r]
  <2>1. tx'[r] = t /\ held'[r] = h
      BY <1>7, MoveTypes
  <2> HIDE DEF due, u, stat
  <2> QED
      BY <1>1, <2>1, TxTypes DEF Transaction
<1>9. UNCHANGED database
    BY DEF FinishFirst
<1> HIDE DEF due, u, stat, t, h
<1>10. Bonus(r)' = Bonus(r)
    BY <1>8, <1>9 DEF Bonus, First, database
<1>11. SubmitFacts(r)' /\ BotFacts(r)'
    BY <1>8 DEF SubmitFacts, BotFacts, BotPlaying
<1>12. FinishFacts(r)'
    BY <1>0, <1>1, <1>3, <1>8, <1>9, <1>10, RulesAssumption
       DEF IInv, RequestFacts, FinishFacts, Finishing, database
<1>13. DecideFacts(r)'
    BY <1>0, <1>8, <1>9 DEF IInv, RequestFacts, DecideFacts, Deciding, database
<1> QED
    BY <1>7, <1>9, <1>11, <1>12, <1>13, LocalStep DEF RequestFacts

\* The second participant's stats do not touch the ledger.
LEMMA FinishSecondIInv ==
    ASSUME IInv, NEW r \in Requests, FinishSecond(r)
    PROVE  IInv'
<1> DEFINE u == Second(r)
           stat == IF tx[r].result = "DRAW"
                   THEN [StatsSeen(r, u) EXCEPT !.drawn = @ + 1]
                   ELSE [StatsSeen(r, u) EXCEPT !.lost = @ + 1]
           t == [tx[r] EXCEPT !.pc = "commit", !.pending[u] = stat]
           h == held[r] \union {<<"stats", u>>}
<1>0. tx[r].pc = "second" /\ Finishing(r) /\ Deciding(r)
    BY DEF FinishSecond, Finishing, Deciding, IInv, RequestFacts, FinishFacts
<1>1. u \in Users /\ tx[r].duel \in AttemptIds
    BY <1>0, DecidedDuel
<1>4. stat \in Stats
  <2>1. StatsSeen(r, u) \in Stats
      BY <1>1, TxTypes DEF StatsSeen, Transaction, IInv, TypeOK
  <2> HIDE DEF u
  <2> QED
      BY <2>1, StatsTypes
<1>5. t \in Transaction
  <2> HIDE DEF u, stat
  <2> QED
      BY <1>1, <1>4, TxTypes DEF Transaction
<1>6. h \subseteq Locks
    BY <1>1 DEF IInv, TypeOK, Locks
<1>7. Moves(r, t, h)
  <2>1. /\ tx' = [tx EXCEPT ![r] = t] /\ held' = [held EXCEPT ![r] = h]
        /\ Free(r, <<"stats", u>>)
      BY DEF FinishSecond, Hold
  <2> HIDE DEF t, u
  <2> QED
      BY <1>5, <1>6, <2>1 DEF Moves, Free, IInv, TypeOK, LocksExclusive
<1>8. /\ tx'[r].pc = "commit" /\ tx'[r].attempt = tx[r].attempt
      /\ tx'[r].rows = tx[r].rows
      /\ tx'[r].duel = tx[r].duel /\ tx'[r].result = tx[r].result
      /\ tx'[r].duration = tx[r].duration
      /\ held[r] \subseteq held'[r]
  <2>1. tx'[r] = t /\ held'[r] = h
      BY <1>7, MoveTypes
  <2> HIDE DEF u, stat
  <2> QED
      BY <1>1, <2>1, TxTypes DEF Transaction
<1>9. UNCHANGED database
    BY DEF FinishSecond
<1> HIDE DEF u, stat, t, h
<1>10. Bonus(r)' = Bonus(r)
    BY <1>8, <1>9 DEF Bonus, First, database
<1>11. SubmitFacts(r)' /\ BotFacts(r)'
    BY <1>8 DEF SubmitFacts, BotFacts, BotPlaying
<1>12. FinishFacts(r)'
    BY <1>0, <1>1, <1>8, <1>9, <1>10, RulesAssumption
       DEF IInv, RequestFacts, FinishFacts, Finishing, database
<1>13. DecideFacts(r)'
    BY <1>0, <1>8, <1>9 DEF IInv, RequestFacts, DecideFacts, Deciding, database
<1> QED
    BY <1>7, <1>9, <1>11, <1>12, <1>13, LocalStep DEF RequestFacts

\* The inserted row gives a bot duel the lock it relies on.
LEMMA BotInsertIInv ==
    ASSUME IInv, NEW r \in Requests, NEW right \in SUBSET Questions,
           NEW seconds \in Durations \ {0}, BotInsert(r, right, seconds)
    PROVE  IInv'
<1> DEFINE a == tx[r].attempt
           res == BotResult(attempts[a], right, seconds)
           t == [tx[r] EXCEPT !.pc = "botSettle", !.result = res]
           h == held[r] \union {<<"duel", a>>}
<1>1. /\ tx[r].pc = "botInsert" /\ a \in AttemptIds /\ tx[r].rows = {}
      /\ attempts[a].status = "COMPLETED" /\ duels[a] = NoDuel
    BY DEF BotInsert, IInv, RequestFacts, BotFacts
<1>2. res \in Outcome
    BY ResultTypes
<1>3. t \in Transaction
  <2> HIDE DEF res
  <2> QED
      BY <1>2, TxTypes DEF Transaction
<1>4. h \subseteq Locks
    BY <1>1 DEF IInv, TypeOK, Locks
<1>5. Moves(r, t, h)
    BY <1>3, <1>4
       DEF Moves, BotInsert, Hold, Free, IInv, TypeOK, LocksExclusive
<1>6. /\ tx'[r].pc = "botSettle" /\ tx'[r].attempt = a /\ tx'[r].rows = {}
      /\ tx'[r].result = res /\ <<"duel", a>> \in held'[r]
  <2>1. tx'[r] = t /\ held'[r] = h
      BY <1>5, MoveTypes
  <2> HIDE DEF res
  <2> QED
      BY <1>1, <2>1, TxTypes DEF Transaction
<1>7. UNCHANGED database
    BY DEF BotInsert
<1> HIDE DEF res, t, h
<1>8. RequestFacts(r)'
    BY <1>1, <1>2, <1>6, <1>7 DEF database, RequestFacts, SubmitFacts,
       FinishFacts, Finishing, DecideFacts, Deciding, BotFacts, BotPlaying
<1> QED
    BY <1>5, <1>7, <1>8, LocalStep

\* A won bot duel adds the bonus it owes.
LEMMA BotWonIInv ==
    ASSUME IInv, NEW r \in Requests, BotWon(r)
    PROVE  IInv'
<1> DEFINE a == tx[r].attempt
           u == Owner[a]
           row == BonusRow(u, a)
           stat == AddWin(StatsSeen(r, u), DuelBonus)
           t == [tx[r] EXCEPT !.pc = "botCommit", !.rows = {row},
                              !.pending[u] = stat]
           h == held[r] \union {<<"stats", u>>}
<1>1. /\ tx[r].pc = "botSettle" /\ a \in AttemptIds
      /\ attempts[a].status = "COMPLETED" /\ duels[a] = NoDuel
      /\ <<"duel", a>> \in held[r] /\ tx[r].result = "CHALLENGER_WIN"
    BY DEF BotWon, IInv, RequestFacts, BotFacts, BotPlaying
<1>2. u \in Users /\ row \in Row
    BY <1>1, RulesAssumption, RowTypes
<1>3. stat \in Stats
  <2>1. StatsSeen(r, u) \in Stats
      BY <1>2, TxTypes DEF StatsSeen, Transaction, IInv, TypeOK
  <2> QED
      BY <2>1, StatsTypes DEF DuelBonus
<1>4. t \in Transaction
  <2> HIDE DEF row, u, stat
  <2> QED
      BY <1>2, <1>3, TxTypes DEF Transaction
<1>5. h \subseteq Locks
    BY <1>2 DEF IInv, TypeOK, Locks
<1>6. Moves(r, t, h)
  <2>1. /\ tx' = [tx EXCEPT ![r] = t] /\ held' = [held EXCEPT ![r] = h]
        /\ Free(r, <<"stats", u>>)
      BY DEF BotWon, Hold
  <2> HIDE DEF t, u
  <2> QED
      BY <1>4, <1>5, <2>1 DEF Moves, Free, IInv, TypeOK, LocksExclusive
<1>7. /\ tx'[r].pc = "botCommit" /\ tx'[r].attempt = a /\ tx'[r].rows = {row}
      /\ tx'[r].result = "CHALLENGER_WIN" /\ <<"duel", a>> \in held'[r]
  <2>1. tx'[r] = t /\ held'[r] = h
      BY <1>6, MoveTypes
  <2> HIDE DEF row, u, stat
  <2> QED
      BY <1>1, <2>1, TxTypes DEF Transaction
<1>8. UNCHANGED database
    BY DEF BotWon
<1> HIDE DEF stat, t, h
<1>9. RequestFacts(r)'
    BY <1>1, <1>7, <1>8 DEF database, RequestFacts, SubmitFacts, FinishFacts,
       Finishing, DecideFacts, Deciding, BotFacts, BotPlaying, Outcome
<1> QED
    BY <1>6, <1>8, <1>9, LocalStep

\* A bot duel that is not won adds no row.
LEMMA BotNotWonIInv ==
    ASSUME IInv, NEW r \in Requests, BotNotWon(r)
    PROVE  IInv'
<1> DEFINE a == tx[r].attempt
           lost == stats[Owner[a]].lost
           t == [tx[r] EXCEPT !.pc = "botCommit", !.lost = lost]
<1>1. /\ tx[r].pc = "botSettle" /\ a \in AttemptIds /\ tx[r].rows = {}
      /\ attempts[a].status = "COMPLETED" /\ duels[a] = NoDuel
      /\ <<"duel", a>> \in held[r] /\ tx[r].result # "CHALLENGER_WIN"
      /\ tx[r].result \in Outcome
    BY DEF BotNotWon, IInv, RequestFacts, BotFacts, BotPlaying
<1>2. lost \in Nat
    BY <1>1, RulesAssumption DEF IInv, TypeOK, Stats
<1>3. t \in Transaction
  <2> HIDE DEF lost
  <2> QED
      BY <1>2, TxTypes DEF Transaction
<1>4. Moves(r, t, held[r])
    BY <1>3 DEF Moves, BotNotWon, IInv, TypeOK, LocksExclusive
<1>5. /\ tx'[r].pc = "botCommit" /\ tx'[r].attempt = a /\ tx'[r].rows = {}
      /\ tx'[r].result = tx[r].result /\ held'[r] = held[r]
  <2>1. tx'[r] = t /\ held'[r] = held[r]
      BY <1>4, MoveTypes
  <2> HIDE DEF lost
  <2> QED
      BY <1>1, <2>1, TxTypes DEF Transaction
<1>6. UNCHANGED database
    BY DEF BotNotWon
<1> HIDE DEF lost, t
<1>7. RequestFacts(r)'
    BY <1>1, <1>5, <1>6 DEF database, RequestFacts, SubmitFacts, FinishFacts,
       Finishing, DecideFacts, Deciding, BotFacts, BotPlaying
<1> QED
    BY <1>4, <1>6, <1>7, LocalStep

-----------------------------------------------------------------------------
(* Steps that change the database and no transaction.                      *)

\* Nothing is paid or settled by a step that completes neither an attempt
\* nor a duel.
LEMMA NothingSettled ==
    ASSUME IInv, UNCHANGED ledger, Completed' = Completed, Settled' = Settled,
           \A a \in Completed : attempts'[a] = attempts[a],
           \A d \in Settled : duels'[d] = duels[d]
    PROVE  RewardsFollowResults'
<1>1. \A u \in Users : Won(u)' = Won(u)
    BY DEF Won
<1> QED
    BY <1>1 DEF IInv, RewardsFollowResults

\* A new attempt takes part in no duel.
LEMMA StartAttemptIInv ==
    ASSUME IInv, NEW a \in AttemptIds, StartAttempt(a)
    PROVE  IInv'
<1>1. /\ attempts' \in [AttemptIds -> Attempt]
      /\ \A b \in AttemptIds \ {a} : attempts'[b] = attempts[b]
      /\ attempts[a].status = "ABSENT" /\ attempts'[a].status = "IN_PROGRESS"
    BY DEF StartAttempt, IInv, TypeOK, Attempt
<1>2. UNCHANGED <<duels, ledger, stats, progress, tx, held, ready>>
    BY DEF StartAttempt
<1>3. TypeOK' /\ LocksExclusive'
    BY <1>1, <1>2 DEF IInv, TypeOK, LocksExclusive
<1>4. \A s \in Requests : RequestFacts(s)'
  <2> SUFFICES ASSUME NEW s \in Requests PROVE RequestFacts(s)'
      OBVIOUS
  <2>1. Keeps(s)
      BY <1>1, <1>2 DEF Keeps, IInv, RequestFacts, FinishFacts
  <2> QED
      BY <2>1, KeptFacts DEF IInv
<1>5. (\A d \in AttemptIds : DuelFacts(d))' /\ OpponentsDistinct'
    BY <1>1, <1>2 DEF IInv, DuelFacts, OpponentsDistinct
<1>6. Completed' = Completed
    BY <1>1 DEF Completed
<1>7. DuelsSettledRight'
    BY <1>1, <1>2, <1>6 DEF IInv, DuelsSettledRight, Completed
<1>8. RewardsFollowResults'
    BY <1>1, <1>2, <1>6, NothingSettled DEF Completed, Settled
<1> QED
    BY <1>3, <1>4, <1>5, <1>7, <1>8 DEF IInv

\* Publishing and archiving disturb no attempt and no duel.
LEMMA UpdateChallengeStatusIInv ==
    ASSUME IInv, UpdateChallengeStatus
    PROVE  IInv'
<1>1. UNCHANGED <<attempts, duels, ledger, stats, progress, tx, held>>
      /\ ready' \in BOOLEAN
    BY DEF UpdateChallengeStatus, IInv, TypeOK
<1>2. TypeOK' /\ LocksExclusive'
    BY <1>1 DEF IInv, TypeOK, LocksExclusive
<1>3. \A s \in Requests : RequestFacts(s)'
  <2> SUFFICES ASSUME NEW s \in Requests PROVE RequestFacts(s)'
      OBVIOUS
  <2>1. Keeps(s)
      BY <1>1 DEF Keeps
  <2> QED
      BY <2>1, KeptFacts DEF IInv
<1>4. (\A d \in AttemptIds : DuelFacts(d))' /\ OpponentsDistinct'
    BY <1>1 DEF IInv, DuelFacts, OpponentsDistinct
<1>5. DuelsSettledRight' /\ RewardsFollowResults'
    BY <1>1 DEF IInv, DuelsSettledRight, RewardsFollowResults, Completed, Settled, Won
<1> QED
    BY <1>2, <1>3, <1>4, <1>5 DEF IInv

\* A new duel of an attempt disturbs no finish and no bot duel.
LEMMA CreateDuelIInv ==
    ASSUME IInv, NEW a \in AttemptIds, CreateDuel(a)
    PROVE  IInv'
<1>1. /\ duels' \in [AttemptIds -> Duel]
      /\ \A b \in AttemptIds \ {a} : duels'[b] = duels[b]
      /\ duels[a] = NoDuel /\ duels'[a] = [NoDuel EXCEPT !.status = "PENDING"]
      /\ attempts[a].status = "COMPLETED"
      /\ Unlocked(<<"duel", a>>)
    BY DEF CreateDuel, IInv, TypeOK, Duel
<1>2. UNCHANGED <<attempts, ledger, stats, progress, tx, held, ready>>
    BY DEF CreateDuel
<1>3. /\ duels'[a].status = "PENDING" /\ duels'[a].opponent = NoAttempt
      /\ duels[a].status = "ABSENT" /\ duels[a].opponent = NoAttempt
      /\ \A b \in AttemptIds \ {a} : duels'[b] = duels[b]
      /\ NoAttempt \notin AttemptIds
    BY <1>1, RulesAssumption DEF NoDuel
<1>4. TypeOK' /\ LocksExclusive'
    BY <1>1, <1>2 DEF IInv, TypeOK, LocksExclusive
<1>5. \A s \in Requests : RequestFacts(s)'
  <2> SUFFICES ASSUME NEW s \in Requests PROVE RequestFacts(s)'
      OBVIOUS
  <2>1. Keeps(s)
    <3>1. RequestFacts(s)
        BY DEF IInv
    <3>2. Deciding(s) => duels'[tx[s].duel] = duels[tx[s].duel]
        BY <1>1, <1>3, <3>1 DEF RequestFacts, DecideFacts
    <3>3. BotPlaying(s) => duels'[tx[s].attempt] = duels[tx[s].attempt]
        BY <1>1, <3>1 DEF RequestFacts, BotFacts, Unlocked
    <3> QED
        BY <1>2, <1>3, <3>2, <3>3 DEF Keeps
  <2> QED
      BY <2>1, KeptFacts DEF IInv
<1>a. \A d \in AttemptIds : DuelFacts(d)'
  <2> SUFFICES ASSUME NEW d \in AttemptIds PROVE DuelFacts(d)'
      OBVIOUS
  <2>1. CASE d = a
      BY <2>1, <1>1, <1>2, <1>3 DEF DuelFacts
  <2>2. CASE d # a
      BY <2>2, <1>2, <1>3 DEF IInv, DuelFacts
  <2> QED
      BY <2>1, <2>2
<1>6. OpponentsDistinct'
    BY <1>3 DEF IInv, OpponentsDistinct
<1>7. Settled' = Settled
    BY <1>1, <1>3 DEF Settled
<1>8. DuelsSettledRight'
    BY <1>2, <1>3 DEF IInv, DuelsSettledRight, Completed
<1>9. RewardsFollowResults'
    BY <1>2, <1>3, <1>7, NothingSettled DEF Completed, Settled
<1> QED
    BY <1>4, <1>5, <1>a, <1>6, <1>8, <1>9 DEF IInv

\* A duel that expires stays as settled as it was.
LEMMA ExpireIInv ==
    ASSUME IInv, NEW d \in AttemptIds, Expire(d)
    PROVE  IInv'
<1>1. /\ duels' \in [AttemptIds -> Duel]
      /\ \A b \in AttemptIds \ {d} : duels'[b] = duels[b]
      /\ duels[d].status = "PENDING" /\ duels'[d].status = "PENDING"
      /\ duels'[d].opponent = duels[d].opponent
    BY DEF Expire, IInv, TypeOK, Duel
<1>2. UNCHANGED <<attempts, ledger, stats, progress, tx, held, ready>>
    BY DEF Expire
<1>3. TypeOK' /\ LocksExclusive'
    BY <1>1, <1>2 DEF IInv, TypeOK, LocksExclusive
<1>4. \A s \in Requests : RequestFacts(s)'
  <2> SUFFICES ASSUME NEW s \in Requests PROVE RequestFacts(s)'
      OBVIOUS
  <2>1. Keeps(s)
    <3>1. RequestFacts(s)
        BY DEF IInv
    <3>2. Deciding(s) => duels'[tx[s].duel] = duels[tx[s].duel]
        BY <1>1, <3>1 DEF RequestFacts, DecideFacts
    <3>3. BotPlaying(s) => duels'[tx[s].attempt] = duels[tx[s].attempt]
        BY <1>1, <3>1 DEF RequestFacts, BotFacts, NoDuel
    <3> QED
        BY <1>1, <1>2, <3>2, <3>3 DEF Keeps
  <2> QED
      BY <2>1, KeptFacts DEF IInv
<1>5. (\A e \in AttemptIds : DuelFacts(e))' /\ OpponentsDistinct'
    BY <1>1, <1>2, RulesAssumption DEF IInv, DuelFacts, OpponentsDistinct
<1>6. Settled' = Settled
    BY <1>1 DEF Settled
<1>7. DuelsSettledRight'
    BY <1>1, <1>2, RulesAssumption DEF IInv, DuelFacts, DuelsSettledRight, Completed
<1>8. RewardsFollowResults'
    BY <1>1, <1>2, <1>6, NothingSettled DEF Completed, Settled
<1> QED
    BY <1>3, <1>4, <1>5, <1>7, <1>8 DEF IInv

\* The attempt of an accepted duel is new, so no finish relies on it yet.
LEMMA AcceptDuelIInv ==
    ASSUME IInv, NEW d \in AttemptIds, NEW a \in AttemptIds, AcceptDuel(d, a)
    PROVE  IInv'
<1>1. /\ duels' \in [AttemptIds -> Duel]
      /\ \A b \in AttemptIds \ {d} : duels'[b] = duels[b]
      /\ duels[d].status = "PENDING" /\ duels'[d].status = "ACCEPTED"
      /\ duels'[d].opponent = a
    BY DEF AcceptDuel, MayAccept, IInv, TypeOK, Duel
<1>2. /\ attempts' \in [AttemptIds -> Attempt]
      /\ \A b \in AttemptIds \ {a} : attempts'[b] = attempts[b]
      /\ attempts[a].status = "ABSENT" /\ attempts'[a].status = "IN_PROGRESS"
    BY DEF AcceptDuel, IInv, TypeOK, Attempt
<1>3. UNCHANGED <<ledger, stats, progress, tx, held, ready>>
    BY DEF AcceptDuel
<1>4. attempts[d].status = "COMPLETED" /\ d # a /\ duels[d].opponent = NoAttempt
    BY <1>1, <1>2 DEF IInv, DuelFacts
<1>5. \A e \in AttemptIds : duels[e].opponent # a
    BY <1>2 DEF IInv, DuelFacts
<1>6. TypeOK' /\ LocksExclusive'
    BY <1>1, <1>2, <1>3 DEF IInv, TypeOK, LocksExclusive
<1>7. \A s \in Requests : RequestFacts(s)'
  <2> SUFFICES ASSUME NEW s \in Requests PROVE RequestFacts(s)'
      OBVIOUS
  <2>1. Keeps(s)
    <3>1. RequestFacts(s)
        BY DEF IInv
    <3>2. Deciding(s) => duels'[tx[s].duel] = duels[tx[s].duel]
        BY <1>1, <3>1 DEF RequestFacts, DecideFacts
    <3>3. BotPlaying(s) => duels'[tx[s].attempt] = duels[tx[s].attempt]
        BY <1>1, <3>1 DEF RequestFacts, BotFacts, NoDuel
    <3>4. Finishing(s) => attempts'[tx[s].attempt] = attempts[tx[s].attempt]
        BY <1>2, <3>1 DEF RequestFacts, FinishFacts
    <3> QED
        BY <1>1, <1>2, <1>3, <1>4, <3>2, <3>3, <3>4 DEF Keeps
  <2> QED
      BY <2>1, KeptFacts DEF IInv
<1>8. (\A e \in AttemptIds : DuelFacts(e))'
    BY <1>1, <1>2, <1>4 DEF IInv, DuelFacts
<1>9. OpponentsDistinct'
    BY <1>1, <1>5 DEF IInv, OpponentsDistinct
<1>10. Settled' = Settled /\ Completed' = Completed
    BY <1>1, <1>2 DEF Settled, Completed
<1>11. DuelsSettledRight'
    BY <1>1, <1>2, <1>4, <1>10 DEF IInv, DuelsSettledRight, Completed
<1>12. RewardsFollowResults'
    BY <1>1, <1>2, <1>3, <1>10, NothingSettled DEF Completed, Settled
<1> QED
    BY <1>6, <1>7, <1>8, <1>9, <1>11, <1>12 DEF IInv

-----------------------------------------------------------------------------
(* Steps that commit.                                                      *)

\* An answer is written only to an attempt that no finish owns.
LEMMA SubmitSaveIInv ==
    ASSUME IInv, NEW r \in Requests, SubmitSave(r)
    PROVE  IInv'
<1> DEFINE a == tx[r].attempt
           q == tx[r].question
           t == [tx[r] EXCEPT !.pc = "saved"]
<1>1. /\ tx[r].pc = "submit" /\ attempts[a].status = "IN_PROGRESS"
      /\ Free(r, <<"attempt", a>>)
    BY DEF SubmitSave, MayAnswer
<1>2. a \in AttemptIds /\ q \in Questions /\ tx[r].choice \in Options
    BY <1>1 DEF IInv, RequestFacts, SubmitFacts
<1>4. attempts[a] \in Attempt
    BY <1>2 DEF IInv, TypeOK
<1>3. AnswerWritten(r) \in Answer
  <2>1. attempts[a].answers[q] \in Answer
      BY <1>2, <1>4 DEF Attempt
  <2>2. tx[r].choice \in Answer
      BY <1>2, RulesAssumption DEF Answer
  <2> QED
      BY <2>1, <2>2 DEF AnswerWritten
<1>5. /\ attempts' \in [AttemptIds -> Attempt]
      /\ \A b \in AttemptIds \ {a} : attempts'[b] = attempts[b]
      /\ attempts'[a].status = "IN_PROGRESS"
  <2>1. attempts' = [attempts EXCEPT
            ![a] = [attempts[a] EXCEPT !.answers[q] = AnswerWritten(r)]]
      BY DEF SubmitSave
  <2>2. [attempts[a] EXCEPT !.answers[q] = AnswerWritten(r)] \in Attempt
      BY <1>2, <1>3, <1>4 DEF Attempt
  <2>3. [attempts[a] EXCEPT !.answers[q] = AnswerWritten(r)].status = "IN_PROGRESS"
      BY <1>1, <1>4 DEF Attempt
  <2> QED
      BY <1>2, <2>1, <2>2, <2>3 DEF IInv, TypeOK
<1>6. UNCHANGED <<duels, ledger, stats, progress, ready, held>>
    BY DEF SubmitSave
<1>7. Moves(r, t, held[r])
  <2>1. t \in Transaction
      BY TxTypes DEF Transaction
  <2> QED
      BY <2>1 DEF Moves, SubmitSave, IInv, TypeOK, LocksExclusive
<1>8. TypeOK' /\ LocksExclusive'
    BY <1>5, <1>6, <1>7, MoveTypes DEF IInv, TypeOK
<1>9. RequestFacts(r)'
  <2>1. /\ tx'[r].pc = "saved" /\ tx'[r].attempt = a
        /\ tx'[r].question = q /\ tx'[r].choice = tx[r].choice
    <3>1. tx'[r] = t
        BY <1>7, MoveTypes
    <3> QED
        BY <3>1, TxTypes DEF Transaction
  <2> QED
      BY <1>2, <2>1 DEF RequestFacts, SubmitFacts, FinishFacts, Finishing,
                        DecideFacts, Deciding, BotFacts, BotPlaying
<1>10. \A s \in Requests : RequestFacts(s)'
  <2> SUFFICES ASSUME NEW s \in Requests \ {r} PROVE RequestFacts(s)'
      BY <1>9
  <2>1. tx'[s] = tx[s] /\ held'[s] = held[s]
      BY <1>7, MoveTypes
  <2>2. Finishing(s) => attempts'[tx[s].attempt] = attempts[tx[s].attempt]
      BY <1>1, <1>5 DEF IInv, RequestFacts, FinishFacts, Free
  <2>3. Keeps(s)
      BY <1>1, <1>5, <1>6, <2>1, <2>2 DEF Keeps
  <2> QED
      BY <2>3, KeptFacts DEF IInv
<1>11. (\A d \in AttemptIds : DuelFacts(d))'
    BY <1>1, <1>5, <1>6 DEF IInv, DuelFacts
<1>12. OpponentsDistinct'
    BY <1>6 DEF IInv, OpponentsDistinct
<1>13. Completed' = Completed
    BY <1>1, <1>5 DEF Completed
<1>14. DuelsSettledRight'
    BY <1>1, <1>5, <1>6, <1>13 DEF IInv, DuelsSettledRight, Completed
<1>15. RewardsFollowResults'
    BY <1>1, <1>5, <1>6, <1>13, NothingSettled DEF Completed, Settled
<1> QED
    BY <1>8, <1>10, <1>11, <1>12, <1>14, <1>15 DEF IInv

\* What the ledger holds.
AttemptRows == {AttemptRow(a, attempts[a].answers) : a \in Completed}
BonusRows == UNION {{BonusRow(u, d) : d \in Won(u)} : u \in Users}

\* Committing one attempt pays one row.
LEMMA OneMoreAttempt ==
    ASSUME NEW a \in AttemptIds,
           Completed' = Completed \union {a},
           \A b \in Completed \union {a} : attempts'[b].answers = attempts[b].answers
    PROVE  AttemptRows' = AttemptRows \union {AttemptRow(a, attempts[a].answers)}
BY DEF AttemptRows

\* Committing one duel pays its winner.
LEMMA OneMoreDuel ==
    ASSUME NEW d \in AttemptIds, NEW rows,
           duels[d].status # "COMPLETED", duels'[d].status = "COMPLETED",
           \A e \in AttemptIds \ {d} : duels'[e] = duels[e],
           \/ /\ duels'[d].result = "CHALLENGER_WIN"
              /\ rows = {BonusRow(Owner[d], d)}
           \/ /\ duels'[d].result = "OPPONENT_WIN"
              /\ duels'[d].opponent \in AttemptIds
              /\ rows = {BonusRow(Owner[duels'[d].opponent], d)}
           \/ /\ duels'[d].result = "OPPONENT_WIN"
              /\ duels'[d].opponent \notin AttemptIds
              /\ rows = {}
           \/ /\ duels'[d].result = "DRAW"
              /\ rows = {}
    PROVE  BonusRows' = BonusRows \union rows
<1>1. d \notin Settled /\ Settled' = Settled \union {d}
    BY DEF Settled
<1>2. \A u \in Users, e \in AttemptIds \ {d} : e \in Won(u)' <=> e \in Won(u)
    BY <1>1 DEF Won, Settled
<1>3. \A u \in Users : d \notin Won(u)
    BY <1>1 DEF Won
<1>4. \A u \in Users : Won(u) \subseteq AttemptIds /\ Won(u)' \subseteq AttemptIds
    BY DEF Won, Settled
<1>5. \A row : row \in rows <=> \E u \in Users : d \in Won(u)' /\ row = BonusRow(u, d)
    BY <1>1, RulesAssumption DEF Won
<1>6. \A row : row \in BonusRows <=>
                   \E u \in Users : \E e \in Won(u) : row = BonusRow(u, e)
    BY DEF BonusRows
<1>7. \A row : row \in BonusRows' <=>
                   \E u \in Users : \E e \in Won(u)' : row = BonusRow(u, e)
    BY DEF BonusRows
<1>8. \A row : row \in BonusRows' <=> row \in BonusRows \union rows
    BY <1>2, <1>3, <1>4, <1>5, <1>6, <1>7
<1> QED
    BY <1>8

\* The commit of a finish completes its attempt, pays it and settles its
\* duel together.
LEMMA FinishCommitIInv ==
    ASSUME IInv, NEW r \in Requests, FinishCommit(r)
    PROVE  IInv'
<1> DEFINE a == tx[r].attempt
           d == tx[r].duel
           row == AttemptRow(a, attempts[a].answers)
           done == [attempts[a] EXCEPT !.status = "COMPLETED",
                                       !.duration = tx[r].duration]
<1>1. /\ tx[r].pc = "commit" /\ Finishing(r)
      /\ a \in AttemptIds /\ attempts[a].status = "IN_PROGRESS"
      /\ <<"attempt", a>> \in held[r]
    BY DEF FinishCommit, Finishing, IInv, RequestFacts, FinishFacts
<1>2. attempts[a] \in Attempt /\ tx[r] \in Transaction
    BY <1>1 DEF IInv, TypeOK
<1>3. /\ attempts' \in [AttemptIds -> Attempt]
      /\ \A b \in AttemptIds \ {a} : attempts'[b] = attempts[b]
      /\ attempts'[a] = done /\ attempts'[a].status = "COMPLETED"
      /\ attempts'[a].answers = attempts[a].answers
  <2>1. attempts' = [attempts EXCEPT ![a] = done]
      BY DEF FinishCommit
  <2>2. done \in Attempt /\ done.status = "COMPLETED"
        /\ done.answers = attempts[a].answers
      BY <1>2 DEF Attempt, Transaction
  <2> HIDE DEF done
  <2> QED
      BY <1>1, <2>1, <2>2 DEF IInv, TypeOK
<1>4. Completed' = Completed \union {a} /\ a \notin Completed
    BY <1>1, <1>3 DEF Completed
<1>5. Moves(r, Idle, {}) /\ RequestFacts(r)'
    BY EndMoves DEF FinishCommit
<1>6. ASSUME d # NoAttempt
      PROVE  /\ d \in AttemptIds /\ <<"duel", d>> \in held[r]
             /\ duels[d].status = "ACCEPTED" /\ duels[d].opponent = a
             /\ attempts[d].status = "COMPLETED" /\ d # a
             /\ tx[r].result = DuelResult(attempts[d], done)
             /\ tx[r].result \in Outcome
             /\ tx[r].rows = {row} \union Bonus(r)
  <2>1. DecideFacts(r) /\ FinishFacts(r) /\ Deciding(r)
      BY <1>1, <1>6 DEF IInv, RequestFacts, Deciding
  <2>2. /\ d \in AttemptIds /\ <<"duel", d>> \in held[r]
        /\ duels[d].status = "ACCEPTED" /\ duels[d].opponent = a
        /\ attempts[d].status = "COMPLETED"
        /\ tx[r].result = DuelResult(attempts[d], done)
      BY <2>1 DEF DecideFacts
  <2>3. tx[r].rows = {row} \union Bonus(r)
      BY <1>1, <1>6, <2>1 DEF FinishFacts
  <2>4. tx[r].result \in Outcome
      BY <1>1, <2>1, DecidedDuel
  <2> QED
      BY <1>1, <2>2, <2>3, <2>4
<1>7. ASSUME d = NoAttempt
      PROVE  /\ duels' = duels /\ tx[r].rows = {row}
             /\ \A e \in AttemptIds : duels[e].opponent # a
    BY <1>1, <1>7 DEF FinishCommit, IInv, RequestFacts, FinishFacts
<1>8. ASSUME d # NoAttempt
      PROVE  /\ duels' \in [AttemptIds -> Duel]
             /\ \A e \in AttemptIds \ {d} : duels'[e] = duels[e]
             /\ duels'[d].status = "COMPLETED" /\ duels'[d].opponent = a
             /\ duels'[d].result = tx[r].result
  <2> DEFINE e == [duels[d] EXCEPT !.status = "COMPLETED",
                                   !.result = tx[r].result]
  <2>1. duels' = [duels EXCEPT ![d] = e]
      BY <1>8 DEF FinishCommit
  <2>2. duels[d] \in Duel
      BY <1>6, <1>8 DEF IInv, TypeOK
  <2>3. /\ e \in Duel /\ e.status = "COMPLETED" /\ e.opponent = a
        /\ e.result = tx[r].result
      BY <1>6, <1>8, <2>2 DEF Duel
  <2> HIDE DEF e
  <2> QED
      BY <1>6, <1>8, <2>1, <2>3 DEF IInv, TypeOK
<1> HIDE DEF done
<1>9. /\ ledger' = ledger \union tx[r].rows
      /\ ready' = ready /\ stats' = StatsWritten(r)
      /\ progress' = [progress EXCEPT ![Owner[a]] = @ + 1] \/ progress' = progress
    BY DEF FinishCommit
<1>10. TypeOK'
  <2>1. duels' \in [AttemptIds -> Duel]
      BY <1>7, <1>8 DEF IInv, TypeOK
  <2>2. ledger' \subseteq Row
      BY <1>2, <1>9 DEF Transaction, IInv, TypeOK
  <2>3. stats' \in [Users -> Stats]
      BY <1>2, <1>9 DEF StatsWritten, StatsSeen, Transaction, IInv, TypeOK
  <2>4. progress' \in [Users -> Nat]
      BY <1>1, <1>9, RulesAssumption DEF IInv, TypeOK
  <2> QED
      BY <1>3, <1>5, <1>9, <2>1, <2>2, <2>3, <2>4, MoveTypes DEF IInv, TypeOK
<1>11. LocksExclusive'
    BY <1>5, MoveTypes
<1>12. \A s \in Requests : RequestFacts(s)'
  <2> SUFFICES ASSUME NEW s \in Requests \ {r} PROVE RequestFacts(s)'
      BY <1>5
  <2>1. tx'[s] = tx[s] /\ held'[s] = held[s]
      BY <1>5, MoveTypes
  <2>2. RequestFacts(s) /\ held[r] \intersect held[s] = {}
      BY DEF IInv, LocksExclusive
  <2>3. Finishing(s) => attempts'[tx[s].attempt] = attempts[tx[s].attempt]
      BY <1>1, <1>3, <2>2 DEF RequestFacts, FinishFacts
  <2>4. Deciding(s) => duels'[tx[s].duel] = duels[tx[s].duel]
      BY <1>6, <1>7, <1>8, <2>2 DEF RequestFacts, DecideFacts
  <2>5. BotPlaying(s) => duels'[tx[s].attempt] = duels[tx[s].attempt]
      BY <1>6, <1>7, <1>8, <2>2 DEF RequestFacts, BotFacts
  <2>6. \A e \in AttemptIds : duels'[e].opponent = duels[e].opponent
      BY <1>6, <1>7, <1>8
  <2>7. Keeps(s)
      BY <1>1, <1>3, <2>1, <2>3, <2>4, <2>5, <2>6 DEF Keeps
  <2> QED
      BY <2>2, <2>7, KeptFacts
<1>13. \A e \in AttemptIds : DuelFacts(e)'
  <2> SUFFICES ASSUME NEW e \in AttemptIds PROVE DuelFacts(e)'
      OBVIOUS
  <2>1. DuelFacts(e)
      BY DEF IInv
  <2>2. CASE d # NoAttempt /\ e = d
      BY <2>2, <1>1, <1>3, <1>6, <1>8, RulesAssumption DEF DuelFacts
  <2>3. CASE ~(d # NoAttempt /\ e = d)
    <3>1. duels'[e] = duels[e]
        BY <2>3, <1>7, <1>8
    <3>2. \A b \in AttemptIds : attempts[b].status # "ABSENT" =>
                                    attempts'[b].status # "ABSENT"
        BY <1>3
    <3>3. attempts[e].status = "COMPLETED" => attempts'[e].status = "COMPLETED"
        BY <1>3
    <3> QED
        BY <2>1, <3>1, <3>2, <3>3 DEF DuelFacts
  <2> QED
      BY <2>2, <2>3
<1>14. OpponentsDistinct'
  <2>1. \A e \in AttemptIds : duels'[e].opponent = duels[e].opponent
      BY <1>6, <1>7, <1>8
  <2> QED
      BY <2>1 DEF IInv, OpponentsDistinct
<1>15. DuelsSettledRight'
  <2> SUFFICES ASSUME NEW e \in AttemptIds, duels'[e].opponent \in AttemptIds
               PROVE  LET o == duels'[e].opponent
                      IN  /\ duels'[e].status = "COMPLETED" <=> {e, o} \subseteq Completed'
                          /\ duels'[e].status = "COMPLETED" =>
                                 duels'[e].result = DuelResult(attempts'[e], attempts'[o])
      BY DEF DuelsSettledRight
  <2> DEFINE o == duels'[e].opponent
  <2>1. CASE d # NoAttempt /\ e = d
    <3>1. o = a /\ {e, o} \subseteq Completed' /\ duels'[e].status = "COMPLETED"
        BY <2>1, <1>4, <1>6, <1>8 DEF Completed
    <3>2. attempts'[e] = attempts[e] /\ attempts'[o] = done
        BY <2>1, <3>1, <1>3, <1>6
    <3> QED
        BY <2>1, <3>1, <3>2, <1>6, <1>8
  <2>2. CASE ~(d # NoAttempt /\ e = d)
    <3>1. duels'[e] = duels[e]
        BY <2>2, <1>7, <1>8
    <3>2. o # a
        BY <2>2, <3>1, <1>6, <1>7 DEF IInv, OpponentsDistinct
    <3>3. duels[e].status # "ABSENT"
        BY <3>1, RulesAssumption DEF IInv, DuelFacts, NoDuel
    <3>4. e # a
        BY <3>3, <1>1 DEF IInv, DuelFacts
    <3> QED
        BY <3>1, <3>2, <3>4, <1>3, <1>4 DEF IInv, DuelsSettledRight
  <2> QED
      BY <2>1, <2>2
<1>16. RewardsFollowResults'
  <2>1. ledger = AttemptRows \union BonusRows
      BY DEF IInv, RewardsFollowResults, AttemptRows, BonusRows
  <2>2. AttemptRows' = AttemptRows \union {row}
    <3>1. \A b \in Completed \union {a} : attempts'[b].answers = attempts[b].answers
        BY <1>3 DEF Completed
    <3> QED
        BY <3>1, <1>1, <1>4, OneMoreAttempt
  <2>3. CASE d = NoAttempt
    <3>1. BonusRows' = BonusRows
        BY <2>3, <1>7 DEF BonusRows, Won, Settled
    <3>2. ledger' = AttemptRows' \union BonusRows'
        BY <2>1, <2>2, <2>3, <3>1, <1>7, <1>9
    <3> QED
        BY <3>2 DEF RewardsFollowResults, AttemptRows, BonusRows
  <2>4. CASE d # NoAttempt
    <3>1. \/ tx[r].result = "CHALLENGER_WIN" /\ Bonus(r) = {BonusRow(Owner[d], d)}
          \/ tx[r].result = "OPPONENT_WIN" /\ Bonus(r) = {BonusRow(Owner[a], d)}
          \/ tx[r].result = "DRAW" /\ Bonus(r) = {}
        BY <2>4, <1>6 DEF Bonus, First, Outcome
    <3>2. BonusRows' = BonusRows \union Bonus(r)
        BY <2>4, <3>1, <1>1, <1>6, <1>8, OneMoreDuel
    <3>3. ledger' = AttemptRows' \union BonusRows'
        BY <2>1, <2>2, <2>4, <3>2, <1>6, <1>9
    <3> QED
        BY <3>3 DEF RewardsFollowResults, AttemptRows, BonusRows
  <2> QED
      BY <2>3, <2>4
<1> QED
    BY <1>10, <1>11, <1>12, <1>13, <1>14, <1>15, <1>16 DEF IInv

\* The commit of a bot duel settles it and pays its winner together.
LEMMA BotCommitIInv ==
    ASSUME IInv, NEW r \in Requests, BotCommit(r)
    PROVE  IInv'
<1> DEFINE a == tx[r].attempt
           u == Owner[a]
           e == [duels[a] EXCEPT !.status = "COMPLETED",
                                 !.opponent = BotAttempt,
                                 !.result = tx[r].result]
<1>1. /\ tx[r].pc = "botCommit" /\ a \in AttemptIds
      /\ attempts[a].status = "COMPLETED"
      /\ <<"duel", a>> \in held[r] /\ duels[a] = NoDuel
      /\ tx[r].result \in Outcome
      /\ tx[r].rows = IF tx[r].result = "CHALLENGER_WIN"
                      THEN {BonusRow(u, a)} ELSE {}
    BY DEF BotCommit, BotPlaying, IInv, RequestFacts, BotFacts
<1>2. /\ duels[a] \in Duel /\ tx[r] \in Transaction
      /\ duels[a].status = "ABSENT" /\ duels[a].opponent = NoAttempt
      /\ NoAttempt \notin AttemptIds /\ BotAttempt \notin AttemptIds
      /\ NoAttempt # BotAttempt
    BY <1>1, RulesAssumption DEF IInv, TypeOK, NoDuel
<1>3. /\ duels' \in [AttemptIds -> Duel]
      /\ \A d \in AttemptIds \ {a} : duels'[d] = duels[d]
      /\ duels'[a].status = "COMPLETED" /\ duels'[a].opponent = BotAttempt
      /\ duels'[a].result = tx[r].result
  <2>1. duels' = [duels EXCEPT ![a] = e]
      BY DEF BotCommit
  <2>2. /\ e \in Duel /\ e.status = "COMPLETED" /\ e.opponent = BotAttempt
        /\ e.result = tx[r].result
      BY <1>1, <1>2 DEF Duel
  <2> HIDE DEF e
  <2> QED
      BY <1>1, <2>1, <2>2 DEF IInv, TypeOK
<1> HIDE DEF e
<1>4. /\ ledger' = ledger \union tx[r].rows
      /\ UNCHANGED <<attempts, progress, ready>>
      /\ stats' = StatsWritten(r) \/ stats' = [stats EXCEPT ![u].lost = tx[r].lost + 1]
    BY DEF BotCommit
<1>5. Moves(r, Idle, {}) /\ RequestFacts(r)'
    BY EndMoves DEF BotCommit
<1>6. TypeOK'
  <2>1. ledger' \subseteq Row
      BY <1>2, <1>4 DEF Transaction, IInv, TypeOK
  <2>2. StatsWritten(r) \in [Users -> Stats]
      BY <1>2 DEF StatsWritten, StatsSeen, Transaction, IInv, TypeOK
  <2>3. [stats EXCEPT ![u].lost = tx[r].lost + 1] \in [Users -> Stats]
    <3> DEFINE n == tx[r].lost + 1
    <3>1. n \in Nat
        BY <1>2 DEF Transaction
    <3> HIDE DEF n
    <3>2. [stats EXCEPT ![u].lost = n] \in [Users -> Stats]
        BY <1>1, <3>1, RulesAssumption DEF IInv, TypeOK, Stats
    <3> QED
        BY <3>2 DEF n
  <2>4. stats' \in [Users -> Stats]
      BY <1>4, <2>2, <2>3
  <2> QED
      BY <1>3, <1>4, <1>5, <2>1, <2>4, MoveTypes DEF IInv, TypeOK
<1>7. LocksExclusive'
    BY <1>5, MoveTypes
<1>8. \A s \in Requests : RequestFacts(s)'
  <2> SUFFICES ASSUME NEW s \in Requests \ {r} PROVE RequestFacts(s)'
      BY <1>5
  <2>1. tx'[s] = tx[s] /\ held'[s] = held[s]
      BY <1>5, MoveTypes
  <2>2. RequestFacts(s) /\ held[r] \intersect held[s] = {}
      BY DEF IInv, LocksExclusive
  <2>3. Deciding(s) => duels'[tx[s].duel] = duels[tx[s].duel]
      BY <1>1, <1>3, <2>2 DEF RequestFacts, DecideFacts
  <2>4. BotPlaying(s) => duels'[tx[s].attempt] = duels[tx[s].attempt]
      BY <1>1, <1>3, <2>2 DEF RequestFacts, BotFacts
  <2>5. \A d, b \in AttemptIds : duels'[d].opponent = b => duels[d].opponent = b
      BY <1>2, <1>3
  <2>6. Keeps(s)
      BY <1>4, <2>1, <2>3, <2>4, <2>5 DEF Keeps
  <2> QED
      BY <2>2, <2>6, KeptFacts
<1>9. \A d \in AttemptIds : DuelFacts(d)'
  <2> SUFFICES ASSUME NEW d \in AttemptIds PROVE DuelFacts(d)'
      OBVIOUS
  <2>1. CASE d = a
      BY <2>1, <1>1, <1>2, <1>3, <1>4 DEF DuelFacts
  <2>2. CASE d # a
      BY <2>2, <1>3, <1>4 DEF IInv, DuelFacts
  <2> QED
      BY <2>1, <2>2
<1>10. OpponentsDistinct'
    BY <1>2, <1>3 DEF IInv, OpponentsDistinct
<1>11. DuelsSettledRight'
    BY <1>2, <1>3, <1>4 DEF IInv, DuelsSettledRight, Completed
<1>12. RewardsFollowResults'
  <2>1. ledger = AttemptRows \union BonusRows
      BY DEF IInv, RewardsFollowResults, AttemptRows, BonusRows
  <2>2. AttemptRows' = AttemptRows
      BY <1>4 DEF AttemptRows, Completed
  <2>3. \/ tx[r].result = "CHALLENGER_WIN" /\ tx[r].rows = {BonusRow(u, a)}
        \/ tx[r].result = "OPPONENT_WIN" /\ tx[r].rows = {}
        \/ tx[r].result = "DRAW" /\ tx[r].rows = {}
      BY <1>1 DEF Outcome
  <2>4. BonusRows' = BonusRows \union tx[r].rows
      BY <1>1, <1>2, <1>3, <2>3, OneMoreDuel
  <2>5. ledger' = AttemptRows' \union BonusRows'
      BY <1>4, <2>1, <2>2, <2>4
  <2> QED
      BY <2>5 DEF RewardsFollowResults, AttemptRows, BonusRows
<1> QED
    BY <1>6, <1>7, <1>8, <1>9, <1>10, <1>11, <1>12 DEF IInv

-----------------------------------------------------------------------------
(* The invariant.                                                          *)

\* Before the first attempt nothing is paid and nothing is settled.
LEMMA InitIInv == Init => IInv
<1> SUFFICES ASSUME Init PROVE IInv
    OBVIOUS
<1>1. TypeOK
  <2>1. attempts \in [AttemptIds -> Attempt]
      BY DEF Init, Attempt, NoAnswers, Answer
  <2>2. duels \in [AttemptIds -> Duel]
      BY DEF Init, NoDuel, Duel
  <2>3. stats \in [Users -> Stats] /\ progress \in [Users -> Nat]
      BY DEF Init, Stats
  <2>4. tx \in [Requests -> Transaction] /\ held \in [Requests -> SUBSET Locks]
      BY IdleType DEF Init
  <2> QED
      BY <2>1, <2>2, <2>3, <2>4 DEF Init, TypeOK
<1>2. LocksExclusive
    BY DEF Init, LocksExclusive
<1>3. \A r \in Requests : tx[r].pc = "idle"
    BY DEF Init, Idle
<1>4. \A r \in Requests : RequestFacts(r)
    BY <1>3 DEF RequestFacts, SubmitFacts, FinishFacts, Finishing,
                DecideFacts, Deciding, BotFacts, BotPlaying
<1>5. \A d \in AttemptIds : duels[d] = NoDuel /\ NoDuel.status = "ABSENT"
                            /\ duels[d].opponent \notin AttemptIds
    BY RulesAssumption DEF Init, NoDuel
<1>6. (\A d \in AttemptIds : DuelFacts(d)) /\ OpponentsDistinct /\ DuelsSettledRight
    BY <1>5 DEF DuelFacts, OpponentsDistinct, DuelsSettledRight
<1>7. Completed = {} /\ Settled = {}
    BY <1>5 DEF Init, Completed, Settled
<1>8. RewardsFollowResults
    BY <1>7 DEF Init, RewardsFollowResults, Won
<1> QED
    BY <1>1, <1>2, <1>4, <1>6, <1>8 DEF IInv

\* A stuttering step preserves the invariant.
LEMMA StutterIInv == IInv /\ UNCHANGED vars => IInv'
<1> SUFFICES ASSUME IInv, UNCHANGED vars PROVE IInv'
    OBVIOUS
<1>1. UNCHANGED <<attempts, duels, ledger, stats, progress, ready, tx, held>>
    BY DEF vars
<1>2. TypeOK' /\ LocksExclusive'
    BY <1>1 DEF IInv, TypeOK, LocksExclusive
<1>3. \A s \in Requests : RequestFacts(s)'
    BY <1>1, KeptFacts DEF IInv, Keeps
<1>4. (\A d \in AttemptIds : DuelFacts(d))' /\ OpponentsDistinct'
    BY <1>1 DEF IInv, DuelFacts, OpponentsDistinct
<1>5. DuelsSettledRight' /\ RewardsFollowResults'
    BY <1>1 DEF IInv, DuelsSettledRight, RewardsFollowResults, Completed, Settled, Won
<1> QED
    BY <1>2, <1>3, <1>4, <1>5 DEF IInv

\* Every step of a request preserves the invariant.
LEMMA RequestIInv ==
    ASSUME IInv, NEW r \in Requests,
           Begin(r) \/ FinishStep(r) \/ BotStep(r) \/ SubmitStep(r) \/ Abort(r)
    PROVE  IInv'
<1>1. CASE Begin(r)
    BY <1>1, SubmitLoadIInv, FinishBeginIInv, BotBeginIInv DEF Begin
<1>2. CASE FinishStep(r)
    BY <1>2, FinishAwardIInv, FinishNoDuelIInv, FinishLockDuelIInv,
       FinishFirstIInv, FinishSecondIInv, FinishCommitIInv DEF FinishStep
<1>3. CASE BotStep(r)
    BY <1>3, BotInsertIInv, BotWonIInv, BotNotWonIInv, BotCommitIInv, EndStep
       DEF BotStep, BotConflict
<1>4. CASE SubmitStep(r)
    BY <1>4, SubmitSaveIInv, EndStep DEF SubmitStep, SubmitReject, SubmitReply
<1>5. CASE Abort(r)
    BY <1>5, EndStep DEF Abort
<1> QED
    BY <1>1, <1>2, <1>3, <1>4, <1>5

\* Every step preserves the invariant.
LEMMA StepIInv == IInv /\ [Next]_vars => IInv'
<1> SUFFICES ASSUME IInv, [Next]_vars PROVE IInv'
    OBVIOUS
<1>1. CASE \E a \in AttemptIds : StartAttempt(a) \/ CreateDuel(a) \/ Expire(a)
    BY <1>1, StartAttemptIInv, CreateDuelIInv, ExpireIInv
<1>2. CASE \E d, a \in AttemptIds : AcceptDuel(d, a)
    BY <1>2, AcceptDuelIInv
<1>3. CASE UpdateChallengeStatus
    BY <1>3, UpdateChallengeStatusIInv
<1>4. CASE \E r \in Requests : Begin(r) \/ FinishStep(r) \/ BotStep(r)
                               \/ SubmitStep(r) \/ Abort(r)
    BY <1>4, RequestIInv
<1>5. CASE UNCHANGED vars
    BY <1>5, StutterIInv
<1> QED
    BY <1>1, <1>2, <1>3, <1>4, <1>5 DEF Next

\* The inductive invariant holds in every reachable state: what finish_attempt,
\* submit_answer and create_bot_duel read under their locks stays true until
\* they commit.
THEOREM Invariance == Spec => []IInv
<1>1. Init => IInv
    BY InitIInv
<1>2. IInv /\ [Next]_vars => IInv'
    BY StepIInv
<1> QED
    BY <1>1, <1>2, PTL DEF Spec

\* Every reachable state is well typed.
THEOREM TypeCorrect == Spec => []TypeOK
<1>1. IInv => TypeOK
    BY DEF IInv
<1> QED
    BY <1>1, Invariance, PTL

\* Every completed attempt and every won duel is paid exactly once, for the
\* answers that are stored, whatever finishes, answers, bot duels and
\* failures interleave.
THEOREM RewardsAreRight == Spec => []RewardsFollowResults
<1>1. IInv => RewardsFollowResults
    BY DEF IInv
<1> QED
    BY <1>1, Invariance, PTL

\* A duel between students is settled by the transaction that completes its
\* second attempt, with the result the two attempts deserve.
THEOREM DuelsAreSettled == Spec => []DuelsSettledRight
<1>1. IInv => DuelsSettledRight
    BY DEF IInv
<1> QED
    BY <1>1, Invariance, PTL

-----------------------------------------------------------------------------
(* What is completed stays as it is.                                       *)

KeepsCompleted ==
    \A a \in AttemptIds :
        /\ attempts[a].status = "COMPLETED" => attempts'[a] = attempts[a]
        /\ duels[a].status = "COMPLETED" => duels'[a] = duels[a]

\* A commit completes an attempt and a duel that were not completed.
LEMMA FinishKeepsCompleted ==
    ASSUME IInv, NEW r \in Requests, FinishCommit(r)
    PROVE  KeepsCompleted
<1> DEFINE a == tx[r].attempt
           d == tx[r].duel
<1>1. FinishFacts(r) /\ DecideFacts(r)
    BY DEF IInv, RequestFacts
<1>2. a \in AttemptIds /\ attempts[a].status = "IN_PROGRESS"
    BY <1>1 DEF FinishCommit, FinishFacts, Finishing
<1>3. d # NoAttempt => d \in AttemptIds /\ duels[d].status = "ACCEPTED"
    BY <1>1 DEF FinishCommit, DecideFacts, Deciding
<1>4. \A b \in AttemptIds \ {a} : attempts'[b] = attempts[b]
    BY DEF FinishCommit, IInv, TypeOK
<1>5. \A e \in AttemptIds \ {d} : duels'[e] = duels[e]
    BY DEF FinishCommit, IInv, TypeOK
<1> QED
    BY <1>2, <1>3, <1>4, <1>5, RulesAssumption DEF KeepsCompleted

\* A bot duel is settled where there was none.
LEMMA BotKeepsCompleted ==
    ASSUME IInv, NEW r \in Requests, BotCommit(r)
    PROVE  KeepsCompleted
<1> DEFINE a == tx[r].attempt
<1>1. a \in AttemptIds /\ duels[a] = NoDuel
    BY DEF BotCommit, BotPlaying, IInv, RequestFacts, BotFacts
<1>2. \A e \in AttemptIds \ {a} : duels'[e] = duels[e]
    BY DEF BotCommit, IInv, TypeOK
<1>3. attempts' = attempts /\ duels[a].status # "COMPLETED"
    BY <1>1 DEF BotCommit, NoDuel
<1> QED
    BY <1>2, <1>3 DEF KeepsCompleted

\* No step changes what is completed.
LEMMA StepKeepsCompleted == IInv /\ [Next]_vars => KeepsCompleted
<1> SUFFICES ASSUME IInv, [Next]_vars PROVE KeepsCompleted
    OBVIOUS
<1>1. CASE \E a \in AttemptIds : StartAttempt(a)
    BY <1>1 DEF StartAttempt, KeepsCompleted, IInv, TypeOK
<1>2. CASE \E a \in AttemptIds : CreateDuel(a)
    BY <1>2 DEF CreateDuel, NoDuel, KeepsCompleted, IInv, TypeOK
<1>3. CASE \E a \in AttemptIds : Expire(a)
    BY <1>3 DEF Expire, KeepsCompleted, IInv, TypeOK
<1>4. CASE \E d, a \in AttemptIds : AcceptDuel(d, a)
    BY <1>4 DEF AcceptDuel, MayAccept, KeepsCompleted, IInv, TypeOK
<1>5. CASE \E r \in Requests : SubmitSave(r)
  <2> PICK r \in Requests : SubmitSave(r)
      BY <1>5
  <2>1. \A b \in AttemptIds \ {tx[r].attempt} : attempts'[b] = attempts[b]
      BY DEF SubmitSave, IInv, TypeOK
  <2> QED
      BY <2>1 DEF SubmitSave, MayAnswer, KeepsCompleted
<1>6. CASE \E r \in Requests : FinishCommit(r)
    BY <1>6, FinishKeepsCompleted
<1>7. CASE \E r \in Requests : BotCommit(r)
    BY <1>7, BotKeepsCompleted
<1>8. CASE UNCHANGED <<attempts, duels>>
    BY <1>8 DEF KeepsCompleted
<1>9. ASSUME NEW r \in Requests, Begin(r)
      PROVE  UNCHANGED <<attempts, duels>>
    BY <1>9 DEF Begin, SubmitLoad, FinishBegin, BotBegin, database
<1>10. ASSUME NEW r \in Requests, FinishStep(r), ~FinishCommit(r)
       PROVE  UNCHANGED <<attempts, duels>>
    BY <1>10 DEF FinishStep, FinishAward, FinishNoDuel, FinishLockDuel,
                 FinishFirst, FinishSecond, database
<1>11. ASSUME NEW r \in Requests, BotStep(r), ~BotCommit(r)
       PROVE  UNCHANGED <<attempts, duels>>
    BY <1>11 DEF BotStep, BotInsert, BotConflict, BotWon, BotNotWon, database
<1>12. ASSUME NEW r \in Requests, SubmitStep(r), ~SubmitSave(r)
       PROVE  UNCHANGED <<attempts, duels>>
    BY <1>12 DEF SubmitStep, SubmitReject, SubmitReply, database
<1>13. ASSUME UpdateChallengeStatus \/ UNCHANGED vars \/ \E r \in Requests : Abort(r)
       PROVE  UNCHANGED <<attempts, duels>>
    BY <1>13 DEF UpdateChallengeStatus, Abort, database, vars
<1> QED
    BY <1>1, <1>2, <1>3, <1>4, <1>5, <1>6, <1>7, <1>8, <1>9, <1>10, <1>11,
       <1>12, <1>13 DEF Next

\* No request that was under way when an attempt or a duel was completed can
\* change it afterwards.
THEOREM CompletedStays == Spec => CompletedImmutable
<1>1. IInv /\ [Next]_vars =>
          [\A a \in AttemptIds :
              /\ attempts[a].status = "COMPLETED" => attempts'[a] = attempts[a]
              /\ duels[a].status = "COMPLETED" => duels'[a] = duels[a]]_vars
    BY StepKeepsCompleted DEF KeepsCompleted
<1> QED
    BY <1>1, Invariance, PTL DEF Spec, CompletedImmutable
=============================================================================
