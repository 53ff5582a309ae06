------------------------------ MODULE Rewards ------------------------------
(* What AttemptService and DuelService promise, without transactions or    *)
(* locks: completing an attempt, paying for it and settling the duel it    *)
(* decides are one indivisible step, taken at most once per attempt.       *)
(*                                                                         *)
(* total[u] are the running totals of a student.  The number of lost duels *)
(* is not among them: the code does not keep it exactly.                   *)
EXTENDS Rules

VARIABLES attempts, duels, ledger, total

abstract == <<attempts, duels, ledger, total>>

Init ==
    /\ attempts = [a \in AttemptIds |-> [status |-> "ABSENT",
                                         answers |-> NoAnswers, duration |-> 0]]
    /\ duels = [d \in AttemptIds |-> NoDuel]
    /\ ledger = {}
    /\ total = [u \in Users |-> [xp |-> 0, attempts |-> 0,
                                 won |-> 0, drawn |-> 0]]

Start(a) ==
    /\ attempts[a].status = "ABSENT"
    /\ attempts' = [attempts EXCEPT ![a].status = "IN_PROGRESS"]
    /\ UNCHANGED <<duels, ledger, total>>

Select(a, q, choice) ==
    /\ attempts[a].status = "IN_PROGRESS"
    /\ attempts' = [attempts EXCEPT ![a].answers[q] = choice]
    /\ UNCHANGED <<duels, ledger, total>>

Create(a) ==
    /\ attempts[a].status = "COMPLETED"
    /\ duels[a] = NoDuel
    /\ duels' = [duels EXCEPT ![a].status = "PENDING"]
    /\ UNCHANGED <<attempts, ledger, total>>

Expire(d) ==
    /\ duels[d].status = "PENDING"
    /\ duels' = [duels EXCEPT ![d].expired = TRUE]
    /\ UNCHANGED <<attempts, ledger, total>>

Accept(d, a) ==
    /\ duels[d].status = "PENDING" /\ ~duels[d].expired
    /\ attempts[a].status = "ABSENT"
    /\ Owner[a] # Owner[d]
    /\ attempts' = [attempts EXCEPT ![a].status = "IN_PROGRESS"]
    /\ duels' = [duels EXCEPT ![d].status = "ACCEPTED", ![d].opponent = a]
    /\ UNCHANGED <<ledger, total>>

-----------------------------------------------------------------------------
(* What a result is worth to student u.                                    *)

WinnerOf(d, opponent, result) ==
    CASE result = "CHALLENGER_WIN" -> {Owner[d]}
      [] result = "OPPONENT_WIN" /\ opponent \in AttemptIds -> {Owner[opponent]}
      [] OTHER -> {}

DrawersOf(d, opponent, result) ==
    IF result = "DRAW" /\ opponent \in AttemptIds
    THEN {Owner[d], Owner[opponent]} ELSE {}

Gain(t, xp, finished, won, drawn) ==
    [xp |-> t.xp + xp + (IF won THEN DuelBonus ELSE 0),
     attempts |-> t.attempts + (IF finished THEN 1 ELSE 0),
     won |-> t.won + (IF won THEN 1 ELSE 0),
     drawn |-> t.drawn + (IF drawn THEN 1 ELSE 0)]

\* Attempt a is completed; no duel was waiting for it.
Finish(a, duration) ==
    LET row == AttemptRow(a, attempts[a].answers)
    IN  /\ attempts[a].status = "IN_PROGRESS"
        /\ \A q \in Questions : attempts[a].answers[q] # "none"
        /\ \A d \in AttemptIds : duels[d].opponent # a
        /\ attempts' = [attempts EXCEPT ![a].status = "COMPLETED",
                                        ![a].duration = duration]
        /\ ledger' = ledger \union {row}
        /\ total' = [total EXCEPT
               ![Owner[a]] = Gain(@, row.amount, TRUE, FALSE, FALSE)]
        /\ UNCHANGED duels

\* Attempt a is completed and decides duel d.
FinishDuel(a, duration, d) ==
    LET row == AttemptRow(a, attempts[a].answers)
        result == DuelResult(attempts[d], [attempts[a] EXCEPT !.duration = duration])
        winner == WinnerOf(d, a, result)
    IN  /\ attempts[a].status = "IN_PROGRESS"
        /\ \A q \in Questions : attempts[a].answers[q] # "none"
        /\ duels[d].status = "ACCEPTED" /\ duels[d].opponent = a
        /\ attempts' = [attempts EXCEPT ![a].status = "COMPLETED",
                                        ![a].duration = duration]
        /\ duels' = [duels EXCEPT ![d].status = "COMPLETED", ![d].result = result]
        /\ ledger' = ledger \union {row} \union {BonusRow(u, d) : u \in winner}
        /\ total' = [u \in Users |->
               Gain(total[u], IF u = Owner[a] THEN row.amount ELSE 0,
                    u = Owner[a], u \in winner,
                    u \in DrawersOf(d, a, result))]

\* A duel with the bot is created and settled.
PlayBot(a, right, seconds) ==
    LET result == BotResult(attempts[a], right, seconds)
        winner == WinnerOf(a, BotAttempt, result)
    IN  /\ attempts[a].status = "COMPLETED"
        /\ duels[a] = NoDuel
        /\ duels' = [duels EXCEPT ![a].status = "COMPLETED",
                                  ![a].opponent = BotAttempt,
                                  ![a].result = result]
        /\ ledger' = ledger \union {BonusRow(u, a) : u \in winner}
        /\ total' = [u \in Users |->
               Gain(total[u], 0, FALSE, u \in winner, FALSE)]
        /\ UNCHANGED attempts

Next ==
    \E a \in AttemptIds :
        \/ Start(a) \/ Create(a) \/ Expire(a)
        \/ \E d \in AttemptIds : Accept(d, a)
        \/ \E q \in Questions, choice \in Options : Select(a, q, choice)
        \/ \E duration \in Durations :
               \/ Finish(a, duration)
               \/ \E d \in AttemptIds : FinishDuel(a, duration, d)
        \/ \E right \in SUBSET Questions, seconds \in Durations \ {0} :
               PlayBot(a, right, seconds)

Spec == Init /\ [][Next]_abstract
=============================================================================
