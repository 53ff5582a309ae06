------------------------------- MODULE Rules -------------------------------
(* What the rules of the game say of one attempt and one duel: shared by   *)
(* the abstract specification Rewards and the detailed one Attempts.       *)
(*                                                                         *)
(* One challenge of one class, whose members are all of Users; the bot's   *)
(* account exists.                                                         *)
EXTENDS Integers, FiniteSets, FiniteSetsExt, Functions, Scoring

CONSTANTS
    Users,         \* students of the class
    AttemptIds,    \* identifiers new attempts may take
    Owner,         \* whose attempt an identifier would be
    Questions,     \* the challenge's questions
    Points,        \* points of each question
    Options,       \* options a student may select
    Durations,     \* seconds an attempt may take
    NoAttempt, BotAttempt

ASSUME RulesAssumption ==
    /\ IsFiniteSet(Users)
    /\ Owner \in [AttemptIds -> Users]
    /\ IsFiniteSet(Questions) /\ Questions # {}
    /\ Points \in [Questions -> Nat]
    /\ Options \subseteq {"wrong", "right"}
    /\ Durations \subseteq Nat
    /\ NoAttempt \notin AttemptIds /\ BotAttempt \notin AttemptIds
    /\ NoAttempt # BotAttempt

Answer == {"none", "wrong", "right"}
NoAnswers == [q \in Questions |-> "none"]

Attempt == [status : {"ABSENT", "IN_PROGRESS", "COMPLETED"},
            answers : [Questions -> Answer],
            duration : Nat]

Outcome == {"CHALLENGER_WIN", "OPPONENT_WIN", "DRAW"}

\* opponent is the opponent's attempt; expired says expires_at has passed.
Duel == [status : {"ABSENT", "PENDING", "ACCEPTED", "COMPLETED"},
         opponent : AttemptIds \union {NoAttempt, BotAttempt},
         expired : BOOLEAN,
         result : Outcome \union {"none"}]

NoDuel == [status |-> "ABSENT", opponent |-> NoAttempt, expired |-> FALSE,
           result |-> "none"]

Row == [user : Users, type : {"ATTEMPT", "DUEL_WIN"},
        source : AttemptIds, amount : Nat]

-----------------------------------------------------------------------------

Right(answers) == {q \in Questions : answers[q] = "right"}

XpOf(answers) ==
    AttemptXp(Accuracy(Cardinality(Right(answers)), Cardinality(Questions)))

ScoreOf(right) ==
    AttemptScore(FoldFunctionOnSet(+, 0, Points, right),
                 FoldFunctionOnSet(+, 0, Points, Questions))

Result(right, duration) ==
    [score |-> ScoreOf(right), correct |-> Cardinality(right),
     duration |-> duration]

\* The duel between two attempts, and the duel of an attempt with the bot,
\* for which a duration of zero counts as none ("duration_seconds or
\* 999999").
DuelResult(creator, opponent) ==
    ResolveWinner(Result(Right(creator.answers), creator.duration),
                  Result(Right(opponent.answers), opponent.duration))

OrSlowest(seconds) == IF seconds = 0 THEN 999999 ELSE seconds

BotResult(creator, right, seconds) ==
    ResolveWinner(Result(Right(creator.answers), OrSlowest(creator.duration)),
                  Result(right, seconds))

\* The ledger row that pays attempt a, and the one that pays the winner of
\* duel d.
AttemptRow(a, answers) ==
    [user |-> Owner[a], type |-> "ATTEMPT", source |-> a,
     amount |-> XpOf(answers)]

BonusRow(u, d) ==
    [user |-> u, type |-> "DUEL_WIN", source |-> d, amount |-> DuelBonus]
=============================================================================
