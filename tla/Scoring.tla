------------------------------ MODULE Scoring ------------------------------
(* The pure calculations of server/services/calculations.py.               *)
(*                                                                         *)
(* Percentages are kept in hundredths (100.00 % is 10000), the precision   *)
(* the code rounds them to.  Python's round() resolves ties to the even    *)
(* neighbour.  A challenge has at most 50 questions (api/schemas.py), and  *)
(* every tie such counts can produce is exact in binary, so rounding the   *)
(* exact quotient gives the code's result.                                 *)
EXTENDS Integers

\* Python round() of n / d for n >= 0, d > 0: half to even.
RoundDiv(n, d) ==
    LET q == n \div d
        r == n % d
    IN  IF 2 * r > d \/ (2 * r = d /\ q % 2 = 1) THEN q + 1 ELSE q

AttemptScore(earned, total) ==
    IF total <= 0 THEN 0 ELSE RoundDiv(earned * 1000, total)

Accuracy(correct, questions) ==
    IF questions <= 0 THEN 0 ELSE RoundDiv(correct * 10000, questions)

\* 20 for finishing, 0.6 per percent, 20 more for a perfect attempt.
AttemptXp(accuracy) ==
    LET xp == 20 + RoundDiv(accuracy * 6, 1000)
                 + (IF accuracy >= 10000 THEN 20 ELSE 0)
    IN  IF xp > 100 THEN 100 ELSE xp

DuelBonus == 30

-----------------------------------------------------------------------------
(* A participant's result is [score, correct, duration].  The higher score *)
(* wins, then the higher number of correct answers, then the shorter time. *)

ResolveWinner(creator, opponent) ==
    CASE creator.score # opponent.score ->
             IF creator.score > opponent.score THEN "CHALLENGER_WIN"
                                               ELSE "OPPONENT_WIN"
      [] creator.score = opponent.score /\ creator.correct # opponent.correct ->
             IF creator.correct > opponent.correct THEN "CHALLENGER_WIN"
                                                   ELSE "OPPONENT_WIN"
      [] OTHER ->
             IF creator.duration = opponent.duration THEN "DRAW"
             ELSE IF creator.duration < opponent.duration THEN "CHALLENGER_WIN"
                                                          ELSE "OPPONENT_WIN"
=============================================================================
