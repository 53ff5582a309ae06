------------------------ MODULE AttemptsTotalsProofs ------------------------
(* What the running totals of Attempts come to, for any number of students,*)
(* attempts and requests, and that a finish, however many locks it takes,  *)
(* is one step of Rewards.                                                 *)
EXTENDS AttemptsProofs

-----------------------------------------------------------------------------
(* The sum of the amounts of a finite set of ledger rows.  The sum is a    *)
(* recursive function on sets: what holds of it is shown of a smallest set *)
(* for which it might fail.                                                *)

AmountSum(rows) == MapThenSumSet(LAMBDA row : row.amount, rows)

Pick(rows) == CHOOSE row \in rows : TRUE

\* The function sums up the subsets of a set of rows.
Sums(g, rows) ==
    g = [part \in SUBSET rows |->
            IF part = {} THEN 0
            ELSE Pick(part).amount + g[part \ {Pick(part)}]]

\* A sum is the value of such a function, wherever there is one.
LEMMA AmountSumDef ==
    ASSUME NEW rows
    PROVE  AmountSum(rows) = (CHOOSE g : Sums(g, rows))[rows]
BY DEF AmountSum, MapThenSumSet, MapThenFoldSet, Sums, Pick

\* Sets of finite sets have a smallest member.
LEMMA SmallestPart ==
    ASSUME NEW rows, IsFiniteSet(rows), NEW bad, bad \subseteq SUBSET rows, bad # {}
    PROVE  \E part \in bad : \A other \in bad :
               other \subseteq part => other = part
<1>1. IsWellFoundedOn(StrictSubsetOrdering(rows), SUBSET rows)
    BY FS_StrictSubsetOrderingWellFounded, FS_FiniteSubsetsOfFinite
<1>2. PICK part \in bad :
          \A other \in bad : <<other, part>> \notin StrictSubsetOrdering(rows)
    BY <1>1, WFMin
<1> QED
    BY <1>2 DEF StrictSubsetOrdering

LEMMA PickIn == \A rows : rows # {} => Pick(rows) \in rows
BY DEF Pick

\* Two functions that sum up parts of sets agree on the sets both know.
LEMMA SumsAgree ==
    ASSUME NEW rows, IsFiniteSet(rows), NEW R, NEW S, rows \subseteq R, rows \subseteq S,
           NEW g, NEW h, Sums(g, R), Sums(h, S)
    PROVE  g[rows] = h[rows]
<1> DEFINE bad == {part \in SUBSET rows : g[part] # h[part]}
<1> SUFFICES ASSUME bad # {} PROVE FALSE
    OBVIOUS
<1>0. bad \subseteq SUBSET rows
    OBVIOUS
<1>1. PICK part \in bad : \A other \in bad : other \subseteq part => other = part
  <2> HIDE DEF bad
  <2> QED
      BY <1>0, SmallestPart
<1>2. part \in SUBSET R /\ part \in SUBSET S
    OBVIOUS
<1>3. /\ g[part] = IF part = {} THEN 0 ELSE Pick(part).amount + g[part \ {Pick(part)}]
      /\ h[part] = IF part = {} THEN 0 ELSE Pick(part).amount + h[part \ {Pick(part)}]
    BY <1>2 DEF Sums
<1>4. part # {}
    BY <1>3
<1>5. g[part \ {Pick(part)}] = h[part \ {Pick(part)}]
    BY <1>1, <1>4, PickIn
<1> QED
    BY <1>3, <1>5

\* Every finite set of rows has a function that sums up its parts.
LEMMA SumsExist ==
    ASSUME NEW rows, IsFiniteSet(rows)
    PROVE  \E g : Sums(g, rows)
<1> DEFINE bad == {part \in SUBSET rows : ~ \E g : Sums(g, part)}
<1> SUFFICES ASSUME bad # {} PROVE FALSE
    OBVIOUS
<1>0. bad \subseteq SUBSET rows
    OBVIOUS
<1>1. PICK whole \in bad : \A other \in bad : other \subseteq whole => other = whole
  <2> HIDE DEF bad
  <2> QED
      BY <1>0, SmallestPart
<1> DEFINE of(part) == CHOOSE g : Sums(g, part)
           rest(part) == part \ {Pick(part)}
           value(part) == of(part)[part]
           g == [part \in SUBSET whole |->
                    IF part = {} THEN 0
                    ELSE IF part = whole THEN Pick(part).amount + value(rest(part))
                    ELSE value(part)]
<1>2. \A part \in SUBSET whole : part # whole => Sums(of(part), part)
    BY <1>1
<1>3. \A part \in SUBSET whole : part # {} =>
          rest(part) \in SUBSET whole /\ rest(part) # whole /\ rest(part) \subseteq part
    BY PickIn
<1>4. ASSUME NEW part \in SUBSET whole, part # whole, part # {}
      PROVE  value(part) = Pick(part).amount + value(rest(part))
  <2>1. Sums(of(part), part) /\ Sums(of(rest(part)), rest(part))
      BY <1>2, <1>3, <1>4
  <2>2. of(part)[part] = Pick(part).amount + of(part)[rest(part)]
      BY <2>1, <1>4 DEF Sums
  <2>3. IsFiniteSet(rest(part))
      BY <1>3, <1>4, FS_Subset
  <2>4. of(part)[rest(part)] = of(rest(part))[rest(part)]
    <3> HIDE DEF of, rest
    <3> QED
        BY <1>3, <1>4, <2>1, <2>3, SumsAgree
  <2> QED
      BY <2>2, <2>4
<1>5. value({}) = 0 \/ whole = {}
    BY <1>2 DEF Sums
<1> HIDE DEF value, of
<1>6. ASSUME NEW part \in SUBSET whole
      PROVE  g[part] = IF part = {} THEN 0 ELSE Pick(part).amount + g[rest(part)]
  <2>1. CASE part = {}
      BY <2>1
  <2>2. CASE part # {}
    <3>1. g[part] = Pick(part).amount + value(rest(part))
        BY <2>2, <1>4
    <3>2. g[rest(part)] = value(rest(part))
      <4> HIDE DEF rest
      <4> QED
        BY <2>2, <1>3, <1>5
    <3> QED
        BY <2>2, <3>1, <3>2
  <2> QED
      BY <2>1, <2>2
<1>7. Sums(g, whole)
  <2>1. g = [part \in SUBSET whole |-> g[part]]
      OBVIOUS
  <2> HIDE DEF g
  <2> QED
      BY <2>1, <1>6 DEF Sums
<1> QED
    BY <1>7

\* A sum adds the amount of the row that is picked to the sum of the others.
LEMMA AmountSumStep ==
    /\ AmountSum({}) = 0
    /\ \A rows : IsFiniteSet(rows) /\ rows # {} =>
           AmountSum(rows) = Pick(rows).amount + AmountSum(rows \ {Pick(rows)})
<1> DEFINE of(part) == CHOOSE g : Sums(g, part)
<1>1. AmountSum({}) = 0
  <2>1. Sums(of({}), {})
      BY SumsExist, FS_EmptySet
  <2> QED
      BY <2>1, AmountSumDef DEF Sums
<1>2. ASSUME NEW rows, IsFiniteSet(rows), rows # {}
      PROVE  AmountSum(rows) = Pick(rows).amount + AmountSum(rows \ {Pick(rows)})
  <2> DEFINE rest == rows \ {Pick(rows)}
  <2>1. IsFiniteSet(rest) /\ rest \subseteq rows
      BY <1>2, FS_Subset
  <2>2. Sums(of(rows), rows) /\ Sums(of(rest), rest)
      BY <1>2, <2>1, SumsExist
  <2>3. of(rows)[rows] = Pick(rows).amount + of(rows)[rest]
      BY <1>2, <2>2 DEF Sums
  <2> HIDE DEF of, rest
  <2>4. of(rows)[rest] = of(rest)[rest]
      BY <2>1, <2>2, SumsAgree
  <2> QED
      BY <2>3, <2>4, AmountSumDef DEF of, rest
<1> QED
    BY <1>1, <1>2

\* Sums of natural numbers are natural numbers.
LEMMA AmountSumNat ==
    ASSUME NEW rows, IsFiniteSet(rows), \A row \in rows : row.amount \in Nat
    PROVE  AmountSum(rows) \in Nat
<1> DEFINE bad == {part \in SUBSET rows : AmountSum(part) \notin Nat}
<1> SUFFICES ASSUME bad # {} PROVE FALSE
    OBVIOUS
<1>0. bad \subseteq SUBSET rows
    OBVIOUS
<1>1. PICK part \in bad : \A other \in bad : other \subseteq part => other = part
  <2> HIDE DEF bad
  <2> QED
      BY <1>0, SmallestPart
<1>2. part # {}
  <2>1. AmountSum(part) \notin Nat
      OBVIOUS
  <2>2. ASSUME part = {} PROVE AmountSum(part) = 0
      BY <2>2, AmountSumStep
  <2> QED
      BY <2>1, <2>2
<1>3. IsFiniteSet(part) /\ Pick(part).amount \in Nat
    BY <1>2, PickIn, FS_Subset
<1>4. AmountSum(part \ {Pick(part)}) \in Nat
    BY <1>1, <1>2, PickIn
<1> QED
    BY <1>2, <1>3, <1>4, AmountSumStep

\* Whichever row is taken first, the sum is the same.
LEMMA AmountSumRemove ==
    ASSUME NEW rows, IsFiniteSet(rows), \A row \in rows : row.amount \in Nat,
           NEW row \in rows
    PROVE  AmountSum(rows) = row.amount + AmountSum(rows \ {row})
<1> DEFINE bad == {part \in SUBSET rows : \E x \in part :
                       AmountSum(part) # x.amount + AmountSum(part \ {x})}
<1> SUFFICES ASSUME bad # {} PROVE FALSE
    OBVIOUS
<1>0. bad \subseteq SUBSET rows
    OBVIOUS
<1>1. PICK part \in bad : \A other \in bad : other \subseteq part => other = part
  <2> HIDE DEF bad
  <2> QED
      BY <1>0, SmallestPart
<1>2. PICK x \in part : AmountSum(part) # x.amount + AmountSum(part \ {x})
    BY <1>1
<1> DEFINE p == Pick(part)
           both == part \ {x, p}
<1>3. /\ IsFiniteSet(part) /\ IsFiniteSet(part \ {x}) /\ IsFiniteSet(part \ {p})
      /\ IsFiniteSet(both) /\ p \in part
    BY PickIn, FS_Subset
<1>4. AmountSum(part) = p.amount + AmountSum(part \ {p})
    BY <1>3, AmountSumStep
<1>5. x # p
    BY <1>2, <1>4
<1>6. AmountSum(part \ {p}) = x.amount + AmountSum(both)
  <2>1. part \ {p} \notin bad /\ x \in part \ {p} /\ (part \ {p}) \ {x} = both
      BY <1>1, <1>3, <1>5
  <2> QED
      BY <2>1
<1>7. AmountSum(part \ {x}) = p.amount + AmountSum(both)
  <2>1. part \ {x} \notin bad /\ p \in part \ {x} /\ (part \ {x}) \ {p} = both
      BY <1>1, <1>3, <1>5
  <2> QED
      BY <2>1
<1>8. x.amount \in Nat /\ p.amount \in Nat /\ AmountSum(both) \in Nat
    BY <1>3, AmountSumNat
<1> QED
    BY <1>2, <1>4, <1>6, <1>7, <1>8

\* A new row adds its amount.
LEMMA AmountSumAdd ==
    ASSUME NEW rows, IsFiniteSet(rows), \A row \in rows : row.amount \in Nat,
           NEW row, row \notin rows, row.amount \in Nat
    PROVE  AmountSum(rows \union {row}) = AmountSum(rows) + row.amount
<1>1. IsFiniteSet(rows \union {row})
    BY FS_AddElement
<1>2. (rows \union {row}) \ {row} = rows
    OBVIOUS
<1>3. AmountSum(rows \union {row}) = row.amount + AmountSum(rows)
    BY <1>1, <1>2, AmountSumRemove
<1> QED
    BY <1>3, AmountSumNat

-----------------------------------------------------------------------------
(* What a transaction has earned for each student and not yet committed.   *)

\* The attempt of a finish has been awarded, to its owner u.
Finished(r, u) == /\ tx[r].pc \in {"duel", "first", "second", "commit"}
                  /\ u = Owner[tx[r].attempt]

\* The duel it settles has been counted for u as won, or as drawn.
Wins(r, u) ==
    \/ /\ tx[r].pc \in {"second", "commit"} /\ tx[r].duel # NoAttempt
       /\ tx[r].result # "DRAW" /\ u = First(r)
    \/ /\ tx[r].pc = "botCommit" /\ tx[r].result = "CHALLENGER_WIN"
       /\ u = Owner[tx[r].attempt]

Draws(r, u) ==
    /\ tx[r].pc \in {"second", "commit"} /\ tx[r].duel # NoAttempt
    /\ tx[r].result = "DRAW"
    /\ u = First(r) \/ (tx[r].pc = "commit" /\ u = Second(r))

AttemptXpOf(r) == XpOf(attempts[tx[r].attempt].answers)

\* A stats row s is the committed one of u and what r has earned for u.
Adds(r, u, s) ==
    /\ s.xp = stats[u].xp + (IF Finished(r, u) THEN AttemptXpOf(r) ELSE 0)
                          + (IF Wins(r, u) THEN DuelBonus ELSE 0)
    /\ s.attempts = stats[u].attempts + (IF Finished(r, u) THEN 1 ELSE 0)
    /\ s.won = stats[u].won + (IF Wins(r, u) THEN 1 ELSE 0)
    /\ s.drawn = stats[u].drawn + (IF Draws(r, u) THEN 1 ELSE 0)

\* Pending rows are what the transaction earned on top of rows it has locked.
PendingFacts(r) ==
    \A u \in Users :
        /\ tx[r].pending[u] = NoStats =>
               ~Finished(r, u) /\ ~Wins(r, u) /\ ~Draws(r, u)
        /\ tx[r].pending[u] # NoStats =>
               <<"stats", u>> \in held[r] /\ Adds(r, u, tx[r].pending[u])

\* A finish has found every answer; a bot has played.
ChecksFacts(r) ==
    /\ Finishing(r) => /\ tx[r].duration \in Durations
                       /\ AllAnswered(tx[r].attempt)
    /\ BotPlaying(r) =>
           \E right \in SUBSET Questions, seconds \in Durations \ {0} :
               tx[r].result = BotResult(attempts[tx[r].attempt], right, seconds)

\* Nobody accepts a challenge of their own.
OwnersDiffer ==
    \A d \in AttemptIds :
        duels[d].opponent \in AttemptIds => Owner[duels[d].opponent] # Owner[d]

EarningsRight ==
    /\ \A r \in Requests : PendingFacts(r) /\ ChecksFacts(r)
    /\ OwnersDiffer

-----------------------------------------------------------------------------
(* What a step leaves of the rows a transaction relies on.                 *)

\* A step of request r ends it or moves it on, and leaves the others.
LEMMA OneMoves ==
    ASSUME IInv, NEW r \in Requests,
           Begin(r) \/ FinishStep(r) \/ BotStep(r) \/ SubmitStep(r) \/ Abort(r)
    PROVE  \A s \in Requests \ {r} : tx'[s] = tx[s] /\ held'[s] = held[s]
<1>1. tx \in [Requests -> Transaction] /\ held \in [Requests -> SUBSET Locks]
    BY DEF IInv, TypeOK
<1>2. CASE Begin(r)
    BY <1>1, <1>2 DEF Begin, SubmitLoad, FinishBegin, BotBegin, Hold
<1>3. CASE FinishStep(r)
    BY <1>1, <1>3 DEF FinishStep, FinishAward, FinishNoDuel, FinishLockDuel, FinishFirst,
       FinishSecond, FinishCommit, Hold, End
<1>4. CASE BotStep(r)
    BY <1>1, <1>4 DEF BotStep, BotInsert, BotConflict, BotWon, BotNotWon, BotCommit,
       Hold, End
<1>5. CASE SubmitStep(r)
    BY <1>1, <1>5 DEF SubmitStep, SubmitSave, SubmitReject, SubmitReply, End
<1>6. CASE Abort(r)
    BY <1>1, <1>6 DEF Abort, End
<1> QED
    BY <1>2, <1>3, <1>4, <1>5, <1>6

\* Whatever else happens, only these steps write.
LEMMA Writers ==
    ASSUME [Next]_vars
    PROVE  \/ UNCHANGED <<attempts, duels, ledger, stats, progress>>
           \/ \E a \in AttemptIds : StartAttempt(a) \/ CreateDuel(a) \/ Expire(a)
           \/ \E d, a \in AttemptIds : AcceptDuel(d, a)
           \/ \E r \in Requests : SubmitSave(r) \/ FinishCommit(r) \/ BotCommit(r)
<1>1. ASSUME NEW r \in Requests, Begin(r)
      PROVE  UNCHANGED <<attempts, duels, ledger, stats, progress>>
    BY <1>1 DEF Begin, SubmitLoad, FinishBegin, BotBegin, database
<1>2. ASSUME NEW r \in Requests, FinishStep(r), ~FinishCommit(r)
      PROVE  UNCHANGED <<attempts, duels, ledger, stats, progress>>
    BY <1>2 DEF FinishStep, FinishAward, FinishNoDuel, FinishLockDuel, FinishFirst,
       FinishSecond, database
<1>3. ASSUME NEW r \in Requests, BotStep(r), ~BotCommit(r)
      PROVE  UNCHANGED <<attempts, duels, ledger, stats, progress>>
    BY <1>3 DEF BotStep, BotInsert, BotConflict, BotWon, BotNotWon, database
<1>4. ASSUME NEW r \in Requests, SubmitStep(r), ~SubmitSave(r)
      PROVE  UNCHANGED <<attempts, duels, ledger, stats, progress>>
    BY <1>4 DEF SubmitStep, SubmitReject, SubmitReply, database
<1>5. ASSUME UpdateChallengeStatus \/ UNCHANGED vars \/ \E r \in Requests : Abort(r)
      PROVE  UNCHANGED <<attempts, duels, ledger, stats, progress>>
    BY <1>5 DEF UpdateChallengeStatus, Abort, database, vars
<1> QED
    BY <1>1, <1>2, <1>3, <1>4, <1>5 DEF Next

\* Answers of an attempt that is being finished stay as they are.
LEMMA AnswersKept ==
    ASSUME IInv, [Next]_vars, NEW s \in Requests, Finishing(s),
           tx'[s] = tx[s]
    PROVE  attempts'[tx[s].attempt].answers = attempts[tx[s].attempt].answers
<1> DEFINE a == tx[s].attempt
<1>1. /\ a \in AttemptIds /\ attempts[a].status = "IN_PROGRESS"
      /\ <<"attempt", a>> \in held[s] /\ attempts \in [AttemptIds -> Attempt]
    BY DEF IInv, RequestFacts, FinishFacts, TypeOK
<1>2. ASSUME NEW b \in AttemptIds, StartAttempt(b) \/ CreateDuel(b) \/ Expire(b)
      PROVE  attempts'[a] = attempts[a]
    BY <1>1, <1>2 DEF StartAttempt, CreateDuel, Expire
<1>3. ASSUME NEW d \in AttemptIds, NEW b \in AttemptIds, AcceptDuel(d, b)
      PROVE  attempts'[a] = attempts[a]
    BY <1>1, <1>3 DEF AcceptDuel
<1>4. ASSUME NEW r \in Requests, SubmitSave(r)
      PROVE  attempts'[a] = attempts[a]
  <2>1. r # s
      BY <1>4 DEF SubmitSave, Finishing
  <2>2. tx[r].attempt # a
      BY <1>1, <1>4, <2>1 DEF SubmitSave, Free
  <2> QED
      BY <1>1, <1>4, <2>2 DEF SubmitSave
<1>5. ASSUME NEW r \in Requests, FinishCommit(r)
      PROVE  attempts'[a].answers = attempts[a].answers
    BY <1>1, <1>5 DEF FinishCommit, Attempt
<1>6. ASSUME NEW r \in Requests, BotCommit(r)
      PROVE  attempts'[a] = attempts[a]
    BY <1>6 DEF BotCommit
<1> QED
    BY <1>1, <1>2, <1>3, <1>4, <1>5, <1>6, Writers

\* Of a stats row the totals count all but the losses.
SameTotals(s, t) == /\ s.xp = t.xp /\ s.attempts = t.attempts
                    /\ s.won = t.won /\ s.drawn = t.drawn

\* A stats row that is locked changes, if at all, in its number of losses.
LEMMA StatsKept ==
    ASSUME IInv, EarningsRight, [Next]_vars, NEW s \in Requests, tx'[s] = tx[s],
           NEW u \in Users, <<"stats", u>> \in held[s]
    PROVE  SameTotals(stats'[u], stats[u])
<1>1. stats \in [Users -> Stats] /\ tx \in [Requests -> Transaction] /\ Idle.pc = "idle"
    BY DEF IInv, TypeOK, Idle
<1>2. ASSUME NEW r \in Requests, r # s, stats' = StatsWritten(r)
      PROVE  stats'[u] = stats[u]
  <2>1. <<"stats", u>> \notin held[r]
      BY <1>2 DEF IInv, LocksExclusive
  <2>2. tx[r].pending[u] = NoStats
      BY <2>1 DEF EarningsRight, PendingFacts
  <2> QED
      BY <1>2, <2>2 DEF StatsWritten, StatsSeen
<1>3. ASSUME NEW r \in Requests, FinishCommit(r)
      PROVE  r # s /\ stats' = StatsWritten(r)
    BY <1>1, <1>3 DEF FinishCommit, End
<1>4. ASSUME NEW r \in Requests, BotCommit(r), stats' = StatsWritten(r)
      PROVE  r # s
    BY <1>1, <1>4 DEF BotCommit, End
<1>5. ASSUME NEW r \in Requests, BotCommit(r), stats' # StatsWritten(r)
      PROVE  SameTotals(stats'[u], stats[u])
  <2> DEFINE v == Owner[tx[r].attempt]
             n == tx[r].lost + 1
  <2>1. stats' = [stats EXCEPT ![v].lost = n]
      BY <1>5 DEF BotCommit
  <2> HIDE DEF v, n
  <2> QED
      BY <1>1, <2>1 DEF SameTotals, Stats
<1>6. ASSUME UNCHANGED stats PROVE SameTotals(stats'[u], stats[u])
    BY <1>6 DEF SameTotals
<1> QED
    BY <1>2, <1>3, <1>4, <1>5, <1>6, Writers
       DEF SameTotals, StartAttempt, CreateDuel, Expire, AcceptDuel, SubmitSave

\* What a request has earned and found stays true while others move.
LEMMA EarningsUndisturbed ==
    ASSUME IInv, IInv', EarningsRight, [Next]_vars, NEW s \in Requests,
           tx'[s] = tx[s], held'[s] = held[s]
    PROVE  (PendingFacts(s) /\ ChecksFacts(s))'
<1>1. Finishing(s) => AttemptXpOf(s)' = AttemptXpOf(s)
    BY AnswersKept DEF AttemptXpOf
<1>2. Deciding(s) => First(s)' = First(s) /\ Second(s)' = Second(s)
  <2> SUFFICES ASSUME Deciding(s) PROVE First(s)' = First(s) /\ Second(s)' = Second(s)
      OBVIOUS
  <2>1. DecideFacts(s) /\ DecideFacts(s)' /\ Deciding(s)'
      BY DEF IInv, RequestFacts, Deciding
  <2>2. duels[tx[s].duel].opponent = tx[s].attempt /\ duels'[tx[s].duel].opponent = tx[s].attempt
      BY <2>1 DEF DecideFacts
  <2> QED
      BY <2>2 DEF First, Second
<1>3. \A u \in Users : /\ Finished(s, u)' <=> Finished(s, u)
                       /\ Wins(s, u)' <=> Wins(s, u)
                       /\ Draws(s, u)' <=> Draws(s, u)
    BY <1>2 DEF Finished, Wins, Draws, Deciding
<1>4. \A u \in Users : Finished(s, u) => Finishing(s)
    BY DEF Finished, Finishing
<1>5. PendingFacts(s)'
  <2> SUFFICES ASSUME NEW u \in Users, tx[s].pending[u] # NoStats
               PROVE  Adds(s, u, tx[s].pending[u])'
      BY <1>3 DEF EarningsRight, PendingFacts
  <2>1. Adds(s, u, tx[s].pending[u]) /\ <<"stats", u>> \in held[s]
      BY DEF EarningsRight, PendingFacts
  <2>2. SameTotals(stats'[u], stats[u])
      BY <2>1, StatsKept
  <2> QED
      BY <2>1, <2>2, <1>1, <1>3, <1>4 DEF Adds, SameTotals
<1>6. ChecksFacts(s)'
  <2>1. ChecksFacts(s)
      BY DEF EarningsRight
  <2>2. Finishing(s) => AllAnswered(tx[s].attempt)'
      BY <2>1, AnswersKept DEF ChecksFacts, AllAnswered
  <2>3. BotPlaying(s) => attempts'[tx[s].attempt] = attempts[tx[s].attempt]
      BY StepKeepsCompleted DEF KeepsCompleted, IInv, RequestFacts, BotFacts
  <2> QED
      BY <2>1, <2>2, <2>3 DEF ChecksFacts, Finishing, BotPlaying, AllAnswered
<1> QED
    BY <1>5, <1>6

-----------------------------------------------------------------------------
(* What a step makes of the request that takes it.                         *)

\* A request that is not in the middle of a finish or a bot duel has earned
\* nothing.
Earnless(t) == t.pc \in {"idle", "submit", "saved", "own", "botInsert", "botSettle"}

LEMMA EarnlessFacts ==
    ASSUME NEW r \in Requests, Earnless(tx[r])
    PROVE  \A u \in Users : ~Finished(r, u) /\ ~Wins(r, u) /\ ~Draws(r, u)
BY DEF Earnless, Finished, Wins, Draws

\* While nothing has been earned there is nothing pending.
LEMMA NothingPending ==
    ASSUME NEW r \in Requests, tx[r].pending = [u \in Users |-> NoStats], Earnless(tx[r])
    PROVE  PendingFacts(r)
BY EarnlessFacts DEF PendingFacts

\* A request that ends has nothing pending.
LEMMA EndEarns ==
    ASSUME IInv, NEW r \in Requests, End(r)
    PROVE  (PendingFacts(r) /\ ChecksFacts(r))'
<1>1. tx'[r] = Idle
    BY DEF End, IInv, TypeOK
<1>2. /\ Idle.pc = "idle" /\ Idle.pending = [u \in Users |-> NoStats]
    BY DEF Idle
<1>3. ChecksFacts(r)'
    BY <1>1, <1>2 DEF ChecksFacts, Finishing, BotPlaying
<1>4. PendingFacts(r)'
    BY <1>1, <1>2 DEF PendingFacts, Finished, Wins, Draws
<1> QED
    BY <1>3, <1>4

\* Where a request moves on to.
LEMMA MovedTo ==
    ASSUME IInv, NEW r \in Requests, NEW t, tx' = [tx EXCEPT ![r] = t]
    PROVE  tx'[r] = t
BY DEF IInv, TypeOK

\* A request begins with nothing pending.
LEMMA BeginEarns ==
    ASSUME IInv, NEW r \in Requests, Begin(r)
    PROVE  (PendingFacts(r) /\ ChecksFacts(r))'
<1>1. tx[r] = Idle /\ tx[r] \in Transaction
    BY TxTypes DEF Begin, SubmitLoad, FinishBegin, BotBegin
<1>2. tx[r].pending = [u \in Users |-> NoStats]
    BY <1>1 DEF Idle
<1>3. ASSUME tx'[r].pending = tx[r].pending, tx'[r].pc \in {"submit", "own", "botInsert"}
      PROVE  PendingFacts(r)'
    BY <1>2, <1>3 DEF PendingFacts, Finished, Wins, Draws
<1>4. ASSUME NEW a \in AttemptIds, NEW q \in Questions, NEW choice \in Options,
             SubmitLoad(r, a, q, choice)
      PROVE  tx'[r].pending = tx[r].pending /\ tx'[r].pc = "submit"
  <2> DEFINE t == [tx[r] EXCEPT !.pc = "submit", !.attempt = a, !.question = q,
                                !.choice = choice, !.seen = attempts[a].answers[q]]
  <2>0. tx' = [tx EXCEPT ![r] = t]
      BY <1>4 DEF SubmitLoad, IInv, TypeOK
  <2>1. tx'[r] = t
    <3> HIDE DEF t
    <3> QED
      BY <2>0, MovedTo
  <2> QED
      BY <2>1, <1>1 DEF Transaction
<1>5. ASSUME NEW a \in AttemptIds, NEW duration \in Durations, FinishBegin(r, a, duration)
      PROVE  /\ tx'[r].pending = tx[r].pending /\ tx'[r].pc = "own"
             /\ tx'[r].attempt = a /\ tx'[r].duration = duration /\ AllAnswered(a)'
  <2> DEFINE t == [tx[r] EXCEPT !.pc = "own", !.attempt = a, !.duration = duration]
  <2>0. tx' = [tx EXCEPT ![r] = t]
      BY <1>5 DEF FinishBegin, IInv, TypeOK
  <2>1. tx'[r] = t
    <3> HIDE DEF t
    <3> QED
      BY <2>0, MovedTo
  <2>2. AllAnswered(a)'
      BY <1>5 DEF FinishBegin, MayFinish, AllAnswered, database
  <2> QED
      BY <2>1, <2>2, <1>1 DEF Transaction
<1>6. ASSUME NEW a \in AttemptIds, BotBegin(r, a)
      PROVE  tx'[r].pending = tx[r].pending /\ tx'[r].pc = "botInsert"
  <2> DEFINE t == [tx[r] EXCEPT !.pc = "botInsert", !.attempt = a]
  <2>0. tx' = [tx EXCEPT ![r] = t]
      BY <1>6 DEF BotBegin, IInv, TypeOK
  <2>1. tx'[r] = t
    <3> HIDE DEF t
    <3> QED
      BY <2>0, MovedTo
  <2> QED
      BY <2>1, <1>1 DEF Transaction
<1>7. ASSUME tx'[r].pc \in {"submit", "botInsert"}
      PROVE  ChecksFacts(r)'
    BY <1>7 DEF ChecksFacts, Finishing, BotPlaying
<1>8. ASSUME NEW a \in AttemptIds, NEW duration \in Durations, FinishBegin(r, a, duration)
      PROVE  ChecksFacts(r)'
    BY <1>5, <1>8 DEF ChecksFacts, Finishing, BotPlaying
<1> QED
    BY <1>3, <1>4, <1>5, <1>6, <1>7, <1>8 DEF Begin

\* Within a finish or a bot duel only what is named here changes.
LEMMA ChecksKept ==
    ASSUME NEW r \in Requests, ChecksFacts(r), UNCHANGED attempts,
           tx'[r].attempt = tx[r].attempt, tx'[r].duration = tx[r].duration,
           Finishing(r)' => Finishing(r),
           BotPlaying(r)' => BotPlaying(r) /\ tx'[r].result = tx[r].result
    PROVE  ChecksFacts(r)'
BY DEF ChecksFacts, AllAnswered

\* What a request sees of a student's stats is the committed row and what it
\* has earned.
LEMMA SeenAdds ==
    ASSUME IInv, NEW r \in Requests, PendingFacts(r), NEW u \in Users
    PROVE  StatsSeen(r, u) \in Stats /\ Adds(r, u, StatsSeen(r, u))
<1>1. stats[u] \in Stats /\ tx[r].pending[u] \in Stats \union {NoStats}
    BY TxTypes DEF IInv, TypeOK, Transaction
<1>2. CASE tx[r].pending[u] = NoStats
  <2>1. ~Finished(r, u) /\ ~Wins(r, u) /\ ~Draws(r, u) /\ StatsSeen(r, u) = stats[u]
      BY <1>2 DEF PendingFacts, StatsSeen
  <2>2. /\ stats[u].xp \in Nat /\ stats[u].attempts \in Nat
        /\ stats[u].won \in Nat /\ stats[u].drawn \in Nat
      BY <1>1 DEF Stats
  <2> QED
      BY <1>1, <2>1, <2>2 DEF Adds
<1>3. CASE tx[r].pending[u] # NoStats
    BY <1>1, <1>3 DEF PendingFacts, StatsSeen
<1> QED
    BY <1>2, <1>3

\* What a duel earns adds up with what the transaction had earned before it.
LEMMA AddedUp ==
    ASSUME IInv, NEW r \in Requests, NEW u \in Users, NEW seen \in Stats,
           NEW s, Adds(r, u, seen), ~Wins(r, u), ~Draws(r, u),
           tx[r].attempt \in AttemptIds,
           stats' = stats, AttemptXpOf(r)' = AttemptXpOf(r),
           Finished(r, u)' <=> Finished(r, u),
           s.xp = seen.xp + (IF Wins(r, u)' THEN DuelBonus ELSE 0),
           s.attempts = seen.attempts,
           s.won = seen.won + (IF Wins(r, u)' THEN 1 ELSE 0),
           s.drawn = seen.drawn + (IF Draws(r, u)' THEN 1 ELSE 0)
    PROVE  Adds(r, u, s)'
<1>1. AttemptXpOf(r) \in Nat
    BY XpNat DEF AttemptXpOf, IInv, TypeOK, Attempt
<1>2. /\ stats[u].xp \in Nat /\ stats[u].attempts \in Nat
      /\ stats[u].won \in Nat /\ stats[u].drawn \in Nat
    BY DEF IInv, TypeOK, Stats
<1>3. s.xp = (stats[u].xp + (IF Finished(r, u)' THEN AttemptXpOf(r)' ELSE 0)
                          + (IF Wins(r, u)' THEN DuelBonus ELSE 0))
    BY <1>1, <1>2 DEF Adds, DuelBonus
<1>4. s.won = stats[u].won + (IF Wins(r, u)' THEN 1 ELSE 0)
    BY <1>2 DEF Adds
<1>5. s.drawn = stats[u].drawn + (IF Draws(r, u)' THEN 1 ELSE 0)
    BY <1>2 DEF Adds
<1> QED
    BY <1>3, <1>4, <1>5 DEF Adds

\* A step that locks the stats of u and writes row s keeps the pending rows
\* right if s is, and if it earns for no other student.
LEMMA OneAdded ==
    ASSUME IInv, NEW r \in Requests, PendingFacts(r), UNCHANGED database,
           NEW u \in Users, NEW s, s # NoStats,
           tx'[r].attempt = tx[r].attempt,
           tx'[r].pending = [tx[r].pending EXCEPT ![u] = s],
           held'[r] = held[r] \union {<<"stats", u>>},
           \A v \in Users \ {u} : /\ Finished(r, v)' <=> Finished(r, v)
                                  /\ Wins(r, v)' <=> Wins(r, v)
                                  /\ Draws(r, v)' <=> Draws(r, v),
           Adds(r, u, s)'
    PROVE  PendingFacts(r)'
<1>1. tx[r].pending \in [Users -> Stats \union {NoStats}]
    BY TxTypes DEF Transaction
<1>2. tx'[r].pending[u] = s /\ \A v \in Users \ {u} : tx'[r].pending[v] = tx[r].pending[v]
    BY <1>1
<1>3. AttemptXpOf(r)' = AttemptXpOf(r) /\ stats' = stats
    BY DEF AttemptXpOf, database
<1>4. ASSUME NEW v \in Users \ {u}, tx[r].pending[v] # NoStats
      PROVE  Adds(r, v, tx[r].pending[v])' /\ <<"stats", v>> \in held[r]
    BY <1>2, <1>3, <1>4 DEF Adds, PendingFacts
<1> QED
    BY <1>2, <1>4 DEF PendingFacts

\* The award is the first thing a finish earns.
LEMMA FinishAwardEarns ==
    ASSUME IInv, EarningsRight, NEW r \in Requests, FinishAward(r)
    PROVE  (PendingFacts(r) /\ ChecksFacts(r))'
<1> PICK a \in AttemptIds : a = tx[r].attempt /\ attempts[a].status = "IN_PROGRESS"
    BY DEF FinishAward, IInv, RequestFacts, FinishFacts, Finishing
<1> PICK u \in Users : u = Owner[a]
    BY RulesAssumption
<1> PICK row : row = AttemptRow(a, attempts[a].answers)
    OBVIOUS
<1> PICK s : s = AddAttempt(stats[u], row.amount)
    OBVIOUS
<1>1. tx[r].pc = "own" /\ ~Paid(row) /\ row.amount = AttemptXpOf(r)
    BY NotPaid DEF FinishAward, AttemptRow, AttemptXpOf
<1>2. AttemptXpOf(r) \in Nat /\ stats[u] \in Stats
    BY XpNat DEF AttemptXpOf, IInv, TypeOK, Attempt
<1>3. /\ s.xp = stats[u].xp + AttemptXpOf(r) /\ s.attempts = stats[u].attempts + 1
      /\ s.won = stats[u].won /\ s.drawn = stats[u].drawn
    BY <1>1, <1>2 DEF AddAttempt, Stats
<1>4. s # NoStats
    BY <1>1, <1>2, StatsTypes, AttemptsAssumption
<1> DEFINE t == [tx[r] EXCEPT !.pc = "duel", !.rows = {row}, !.pending[u] = s]
<1>5. /\ held'[r] = held[r] \union {<<"stats", u>>}
      /\ UNCHANGED database /\ tx' = [tx EXCEPT ![r] = t]
    BY <1>1, ZenonT(40) DEF FinishAward, Hold, IInv, TypeOK
<1>6. tx'[r] = t
  <2> HIDE DEF t
  <2> QED
      BY <1>5, MovedTo
<1>7. /\ tx'[r].pc = "duel" /\ tx'[r].attempt = a /\ tx'[r].duration = tx[r].duration
      /\ tx'[r].pending = [tx[r].pending EXCEPT ![u] = s]
    BY <1>6, TxTypes DEF Transaction
<1> HIDE DEF t
<1>8. AttemptXpOf(r)' = AttemptXpOf(r) /\ stats' = stats
    BY <1>5, <1>7 DEF AttemptXpOf, database
<1>9. \A v \in Users : /\ Finished(r, v)' <=> v = u
                       /\ ~Wins(r, v)' /\ ~Draws(r, v)'
                       /\ ~Finished(r, v) /\ ~Wins(r, v) /\ ~Draws(r, v)
    BY <1>1, <1>7 DEF Finished, Wins, Draws
<1>10. Adds(r, u, s)'
  <2>1. stats[u].xp \in Nat /\ stats[u].won \in Nat /\ stats[u].drawn \in Nat
      BY <1>2 DEF Stats
  <2> QED
      BY <1>2, <1>3, <1>8, <1>9, <2>1, SMTT(30) DEF Adds
<1>11. PendingFacts(r)'
    BY <1>4, <1>5, <1>7, <1>9, <1>10, OneAdded DEF EarningsRight
<1>12. ChecksFacts(r)'
    BY <1>1, <1>5, <1>7, ChecksKept DEF EarningsRight, database, Finishing, BotPlaying
<1> QED
    BY <1>11, <1>12

\* A step that writes no stats and earns nothing keeps the pending rows right.
LEMMA NothingAdded ==
    ASSUME IInv, NEW r \in Requests, PendingFacts(r), UNCHANGED database,
           tx'[r].attempt = tx[r].attempt, tx'[r].pending = tx[r].pending,
           held[r] \subseteq held'[r],
           \A v \in Users : /\ Finished(r, v)' <=> Finished(r, v)
                            /\ Wins(r, v)' <=> Wins(r, v)
                            /\ Draws(r, v)' <=> Draws(r, v)
    PROVE  PendingFacts(r)'
<1>1. AttemptXpOf(r)' = AttemptXpOf(r) /\ stats' = stats
    BY DEF AttemptXpOf, database
<1>2. ASSUME NEW v \in Users, tx[r].pending[v] # NoStats
      PROVE  Adds(r, v, tx[r].pending[v])' /\ <<"stats", v>> \in held[r]
    BY <1>1, <1>2 DEF Adds, PendingFacts
<1> QED
    BY <1>2 DEF PendingFacts

\* A finish without a duel has earned what it will.
LEMMA FinishNoDuelEarns ==
    ASSUME IInv, EarningsRight, NEW r \in Requests, FinishNoDuel(r)
    PROVE  (PendingFacts(r) /\ ChecksFacts(r))'
<1> DEFINE t == [tx[r] EXCEPT !.pc = "commit"]
<1>1. tx[r].pc = "duel" /\ tx[r].duel = NoAttempt
    BY DEF FinishNoDuel, IInv, RequestFacts, FinishFacts, Finishing
<1>2. tx' = [tx EXCEPT ![r] = t] /\ held' = held /\ UNCHANGED database
    BY DEF FinishNoDuel, IInv, TypeOK
<1>3. tx'[r] = t
  <2> HIDE DEF t
  <2> QED
      BY <1>2, MovedTo
<1>4. /\ tx'[r].pc = "commit" /\ tx'[r].attempt = tx[r].attempt
      /\ tx'[r].duration = tx[r].duration /\ tx'[r].duel = NoAttempt
      /\ tx'[r].pending = tx[r].pending
    BY <1>1, <1>3, TxTypes DEF Transaction
<1> HIDE DEF t
<1>5. \A v \in Users : /\ Finished(r, v)' <=> Finished(r, v)
                       /\ ~Wins(r, v)' /\ ~Draws(r, v)'
                       /\ ~Wins(r, v) /\ ~Draws(r, v)
    BY <1>1, <1>4 DEF Finished, Wins, Draws
<1>6. PendingFacts(r)'
    BY <1>2, <1>4, <1>5, NothingAdded DEF EarningsRight
<1>7. ChecksFacts(r)'
    BY <1>1, <1>2, <1>4, ChecksKept DEF EarningsRight, database, Finishing, BotPlaying
<1> QED
    BY <1>6, <1>7

\* Deciding a duel earns nothing yet.
LEMMA FinishLockDuelEarns ==
    ASSUME IInv, EarningsRight, NEW r \in Requests, NEW d \in AttemptIds,
           FinishLockDuel(r, d)
    PROVE  (PendingFacts(r) /\ ChecksFacts(r))'
<1> PICK res : res = DuelResult(AttemptSeen(r, d), AttemptSeen(r, duels[d].opponent))
    OBVIOUS
<1> DEFINE t == [tx[r] EXCEPT !.pc = "first", !.duel = d, !.result = res]
<1>1. tx[r].pc = "duel" /\ Settles(r, d)
    BY FoundDuel DEF FinishLockDuel
<1>2. /\ tx' = [tx EXCEPT ![r] = t] /\ held[r] \subseteq held'[r] /\ UNCHANGED database
    BY <1>1 DEF FinishLockDuel, Hold, IInv, TypeOK
<1>3. tx'[r] = t
  <2> HIDE DEF t
  <2> QED
      BY <1>2, MovedTo
<1>4. /\ tx'[r].pc = "first" /\ tx'[r].attempt = tx[r].attempt
      /\ tx'[r].duration = tx[r].duration /\ tx'[r].pending = tx[r].pending
    BY <1>1, <1>3, TxTypes DEF Transaction
<1> HIDE DEF t
<1>5. \A v \in Users : /\ Finished(r, v)' <=> Finished(r, v)
                       /\ ~Wins(r, v)' /\ ~Draws(r, v)'
                       /\ ~Wins(r, v) /\ ~Draws(r, v)
    BY <1>1, <1>4 DEF Finished, Wins, Draws
<1>6. PendingFacts(r)'
    BY <1>2, <1>4, <1>5, NothingAdded DEF EarningsRight
<1>7. ChecksFacts(r)'
    BY <1>1, <1>2, <1>4, ChecksKept DEF EarningsRight, database, Finishing, BotPlaying
<1> QED
    BY <1>6, <1>7

\* The winner's bonus, or the first half of a draw, is earned.
LEMMA FinishFirstEarns ==
    ASSUME IInv, EarningsRight, NEW r \in Requests, FinishFirst(r)
    PROVE  (PendingFacts(r) /\ ChecksFacts(r))'
<1>1. tx[r].pc = "first" /\ Finishing(r) /\ Deciding(r)
    BY DEF FinishFirst, Finishing, Deciding, IInv, RequestFacts, FinishFacts
<1> PICK u \in Users : u = First(r)
    BY <1>1, DecidedDuel
<1> PICK row : row = BonusRow(u, tx[r].duel)
    OBVIOUS
<1> PICK due : due = IF tx[r].result = "DRAW" \/ Paid(row) THEN {} ELSE {row}
    OBVIOUS
<1> PICK seen \in Stats : seen = StatsSeen(r, u) /\ Adds(r, u, seen)
    BY SeenAdds DEF EarningsRight
<1> PICK s : s = IF tx[r].result = "DRAW" THEN [seen EXCEPT !.drawn = @ + 1]
                 ELSE AddWin(seen, DuelBonus)
    OBVIOUS
<1>2. ~Paid(row) /\ tx[r].duel # NoAttempt
    BY <1>1, DecidedDuel, NoBonusPaid, RulesAssumption
<1>3. s # NoStats
    BY StatsTypes, AttemptsAssumption DEF DuelBonus
<1> DEFINE t == [tx[r] EXCEPT !.pc = "second", !.rows = @ \union due, !.pending[u] = s]
<1>4. /\ held'[r] = held[r] \union {<<"stats", u>>}
      /\ UNCHANGED database /\ tx' = [tx EXCEPT ![r] = t]
    BY <1>2 DEF FinishFirst, Hold, IInv, TypeOK
<1>5. tx'[r] = t
  <2> HIDE DEF t
  <2> QED
      BY <1>4, MovedTo
<1>6. /\ tx'[r].pc = "second" /\ tx'[r].attempt = tx[r].attempt
      /\ tx'[r].duration = tx[r].duration /\ tx'[r].duel = tx[r].duel
      /\ tx'[r].result = tx[r].result
      /\ tx'[r].pending = [tx[r].pending EXCEPT ![u] = s]
    BY <1>5, TxTypes DEF Transaction
<1> HIDE DEF t
<1>7. First(r)' = u /\ AttemptXpOf(r)' = AttemptXpOf(r) /\ stats' = stats
  <2>1. UNCHANGED <<duels, attempts, stats>>
      BY <1>4 DEF database
  <2>2. First(r)' = First(r)
      BY <2>1, <1>6 DEF First
  <2> QED
      BY <2>1, <2>2, <1>6 DEF AttemptXpOf
<1>8. ASSUME NEW v \in Users
      PROVE  /\ Finished(r, v)' <=> Finished(r, v)
             /\ Wins(r, v)' <=> tx[r].result # "DRAW" /\ v = u
             /\ Draws(r, v)' <=> tx[r].result = "DRAW" /\ v = u
             /\ ~Wins(r, v) /\ ~Draws(r, v)
  <2>1. Finished(r, v)' <=> Finished(r, v)
      BY <1>1, <1>6 DEF Finished
  <2>2. Wins(r, v)' <=> tx[r].result # "DRAW" /\ v = u
      BY <1>2, <1>6, <1>7 DEF Wins
  <2>3. Draws(r, v)' <=> tx[r].result = "DRAW" /\ v = u
      BY <1>2, <1>6, <1>7 DEF Draws
  <2>4. ~Wins(r, v) /\ ~Draws(r, v)
      BY <1>1 DEF Wins, Draws
  <2> QED
      BY <2>1, <2>2, <2>3, <2>4
<1>9. /\ s.xp = seen.xp + (IF tx[r].result = "DRAW" THEN 0 ELSE DuelBonus)
      /\ s.won = seen.won + (IF tx[r].result = "DRAW" THEN 0 ELSE 1)
      /\ s.drawn = seen.drawn + (IF tx[r].result = "DRAW" THEN 1 ELSE 0)
      /\ s.attempts = seen.attempts
    BY DEF AddWin, Stats, DuelBonus
<1>10. Adds(r, u, s)'
    BY <1>1, <1>7, <1>8, <1>9, DecidedDuel, AddedUp
<1>10a. \A v \in Users \ {u} : /\ Finished(r, v)' <=> Finished(r, v)
                               /\ Wins(r, v)' <=> Wins(r, v)
                               /\ Draws(r, v)' <=> Draws(r, v)
    BY <1>8
<1>11. PendingFacts(r)'
    BY <1>3, <1>4, <1>6, <1>10, <1>10a, OneAdded DEF EarningsRight
<1>12. ChecksFacts(r)'
    BY <1>1, <1>4, <1>6, ChecksKept DEF EarningsRight, database, Finishing, BotPlaying
<1> QED
    BY <1>11, <1>12

\* The two students of a duel are two students.
LEMMA FirstNotSecond ==
    ASSUME IInv, OwnersDiffer, NEW r \in Requests, Finishing(r), Deciding(r)
    PROVE  First(r) # Second(r)
<1>1. duels[tx[r].duel].opponent \in AttemptIds /\ tx[r].duel \in AttemptIds
    BY DecidedDuel
<1> QED
    BY <1>1 DEF First, Second, OwnersDiffer

\* The loser's number of losses is no total; a draw is earned by both.
LEMMA FinishSecondEarns ==
    ASSUME IInv, EarningsRight, NEW r \in Requests, FinishSecond(r)
    PROVE  (PendingFacts(r) /\ ChecksFacts(r))'
<1>1. tx[r].pc = "second" /\ Finishing(r) /\ Deciding(r)
    BY DEF FinishSecond, Finishing, Deciding, IInv, RequestFacts, FinishFacts
<1> PICK u \in Users : u = Second(r)
    BY <1>1, DecidedDuel
<1> PICK seen \in Stats : seen = StatsSeen(r, u) /\ Adds(r, u, seen)
    BY SeenAdds DEF EarningsRight
<1> PICK s : s = IF tx[r].result = "DRAW" THEN [seen EXCEPT !.drawn = @ + 1]
                 ELSE [seen EXCEPT !.lost = @ + 1]
    OBVIOUS
<1>2. tx[r].duel # NoAttempt /\ u # First(r)
    BY <1>1, FirstNotSecond DEF Deciding, EarningsRight
<1>3. s # NoStats
    BY StatsTypes, AttemptsAssumption DEF DuelBonus
<1> DEFINE t == [tx[r] EXCEPT !.pc = "commit", !.pending[u] = s]
<1>4. /\ held'[r] = held[r] \union {<<"stats", u>>}
      /\ UNCHANGED database /\ tx' = [tx EXCEPT ![r] = t]
    BY DEF FinishSecond, Hold, IInv, TypeOK
<1>5. tx'[r] = t
  <2> HIDE DEF t
  <2> QED
      BY <1>4, MovedTo
<1>6. /\ tx'[r].pc = "commit" /\ tx'[r].attempt = tx[r].attempt
      /\ tx'[r].duration = tx[r].duration /\ tx'[r].duel = tx[r].duel
      /\ tx'[r].result = tx[r].result
      /\ tx'[r].pending = [tx[r].pending EXCEPT ![u] = s]
    BY <1>5, TxTypes DEF Transaction
<1> HIDE DEF t
<1>7. /\ First(r)' = First(r) /\ Second(r)' = u
      /\ AttemptXpOf(r)' = AttemptXpOf(r) /\ stats' = stats
  <2>1. UNCHANGED <<duels, attempts, stats>>
      BY <1>4 DEF database
  <2>2. First(r)' = First(r) /\ Second(r)' = Second(r)
      BY <2>1, <1>6 DEF First, Second
  <2> QED
      BY <2>1, <2>2, <1>6 DEF AttemptXpOf
<1>8. ASSUME NEW v \in Users
      PROVE  /\ Finished(r, v)' <=> Finished(r, v)
             /\ Wins(r, v)' <=> Wins(r, v)
             /\ Wins(r, v) => tx[r].result # "DRAW"
             /\ Draws(r, v)' <=> Draws(r, v) \/ (tx[r].result = "DRAW" /\ v = u)
             /\ Draws(r, v) => v # u
  <2>1. Finished(r, v)' <=> Finished(r, v)
      BY <1>1, <1>6 DEF Finished
  <2>2. (Wins(r, v)' <=> Wins(r, v)) /\ (Wins(r, v) => tx[r].result # "DRAW")
      BY <1>1, <1>2, <1>6, <1>7 DEF Wins
  <2>3. Draws(r, v)' <=> tx[r].result = "DRAW" /\ (v = First(r) \/ v = u)
      BY <1>2, <1>6, <1>7 DEF Draws
  <2>4. Draws(r, v) <=> tx[r].result = "DRAW" /\ v = First(r)
      BY <1>1, <1>2 DEF Draws
  <2> QED
      BY <1>2, <2>1, <2>2, <2>3, <2>4
<1>9. Adds(r, u, s)'
  <2>1. CASE tx[r].result = "DRAW"
    <3>1. /\ s.xp = seen.xp + 0 /\ s.won = seen.won + 0
          /\ s.drawn = seen.drawn + 1 /\ s.attempts = seen.attempts
        BY <2>1 DEF Stats
    <3>2. ~Wins(r, u) /\ ~Wins(r, u)' /\ ~Draws(r, u) /\ Draws(r, u)'
        BY <2>1, <1>8
    <3> QED
        BY <3>1, <3>2, <1>1, <1>7, <1>8, DecidedDuel, AddedUp
  <2>2. CASE tx[r].result # "DRAW"
    <3>1. /\ s.xp = seen.xp /\ s.won = seen.won
          /\ s.drawn = seen.drawn /\ s.attempts = seen.attempts
        BY <2>2 DEF Stats
    <3>2. Draws(r, u)' <=> Draws(r, u)
        BY <2>2, <1>8
    <3> QED
        BY <3>1, <3>2, <1>7, <1>8 DEF Adds
  <2> QED
      BY <2>1, <2>2
<1>10. \A v \in Users \ {u} : /\ Finished(r, v)' <=> Finished(r, v)
                              /\ Wins(r, v)' <=> Wins(r, v)
                              /\ Draws(r, v)' <=> Draws(r, v)
    BY <1>8
<1>11. PendingFacts(r)'
    BY <1>3, <1>4, <1>6, <1>9, <1>10, OneAdded DEF EarningsRight
<1>12. ChecksFacts(r)'
    BY <1>1, <1>4, <1>6, ChecksKept DEF EarningsRight, database, Finishing, BotPlaying
<1> QED
    BY <1>11, <1>12

\* A bot has played; nothing is earned yet.
LEMMA BotInsertEarns ==
    ASSUME IInv, EarningsRight, NEW r \in Requests, NEW right \in SUBSET Questions,
           NEW seconds \in Durations \ {0}, BotInsert(r, right, seconds)
    PROVE  (PendingFacts(r) /\ ChecksFacts(r))'
<1> PICK res : res = BotResult(attempts[tx[r].attempt], right, seconds)
    OBVIOUS
<1> DEFINE t == [tx[r] EXCEPT !.pc = "botSettle", !.result = res]
<1>1. /\ tx[r].pc = "botInsert" /\ tx' = [tx EXCEPT ![r] = t]
      /\ held[r] \subseteq held'[r] /\ UNCHANGED database
    BY DEF BotInsert, Hold, IInv, TypeOK
<1>2. tx'[r] = t
  <2> HIDE DEF t
  <2> QED
      BY <1>1, MovedTo
<1>3. /\ tx'[r].pc = "botSettle" /\ tx'[r].attempt = tx[r].attempt
      /\ tx'[r].result = res /\ tx'[r].pending = tx[r].pending
    BY <1>2, TxTypes DEF Transaction
<1> HIDE DEF t
<1>4. \A v \in Users : /\ ~Finished(r, v)' /\ ~Finished(r, v)
                       /\ ~Wins(r, v)' /\ ~Draws(r, v)'
                       /\ ~Wins(r, v) /\ ~Draws(r, v)
    BY <1>1, <1>3 DEF Finished, Wins, Draws
<1>5. PendingFacts(r)'
    BY <1>1, <1>3, <1>4, NothingAdded DEF EarningsRight
<1>6. ChecksFacts(r)'
  <2>1. ~Finishing(r)' /\ attempts' = attempts
      BY <1>1, <1>3 DEF Finishing, database
  <2>2. tx'[r].result = BotResult(attempts'[tx'[r].attempt], right, seconds)
      BY <2>1, <1>3
  <2> QED
      BY <2>1, <2>2 DEF ChecksFacts
<1> QED
    BY <1>5, <1>6

\* The bonus for a won duel with the bot is earned.
LEMMA BotWonEarns ==
    ASSUME IInv, EarningsRight, NEW r \in Requests, BotWon(r)
    PROVE  (PendingFacts(r) /\ ChecksFacts(r))'
<1>1. /\ tx[r].pc = "botSettle" /\ tx[r].result = "CHALLENGER_WIN"
      /\ tx[r].attempt \in AttemptIds
    BY DEF BotWon, IInv, RequestFacts, BotFacts, BotPlaying
<1> PICK u \in Users : u = Owner[tx[r].attempt]
    BY <1>1, RulesAssumption
<1> PICK row : row = BonusRow(u, tx[r].attempt)
    OBVIOUS
<1> PICK seen \in Stats : seen = StatsSeen(r, u) /\ Adds(r, u, seen)
    BY SeenAdds DEF EarningsRight
<1> PICK s : s = AddWin(seen, DuelBonus)
    OBVIOUS
<1>2. s # NoStats
    BY StatsTypes, AttemptsAssumption DEF DuelBonus
<1> DEFINE t == [tx[r] EXCEPT !.pc = "botCommit", !.rows = {row}, !.pending[u] = s]
<1>3. /\ held'[r] = held[r] \union {<<"stats", u>>}
      /\ UNCHANGED database /\ tx' = [tx EXCEPT ![r] = t]
    BY DEF BotWon, Hold, IInv, TypeOK
<1>4. tx'[r] = t
  <2> HIDE DEF t
  <2> QED
      BY <1>3, MovedTo
<1>5. /\ tx'[r].pc = "botCommit" /\ tx'[r].attempt = tx[r].attempt
      /\ tx'[r].duration = tx[r].duration /\ tx'[r].result = tx[r].result
      /\ tx'[r].pending = [tx[r].pending EXCEPT ![u] = s]
    BY <1>4, TxTypes DEF Transaction
<1> HIDE DEF t
<1>6. AttemptXpOf(r)' = AttemptXpOf(r) /\ stats' = stats
    BY <1>3, <1>5 DEF AttemptXpOf, database
<1>7. ASSUME NEW v \in Users
      PROVE  /\ ~Finished(r, v)' /\ ~Finished(r, v)
             /\ Wins(r, v)' <=> v = u
             /\ ~Wins(r, v) /\ ~Draws(r, v)' /\ ~Draws(r, v)
  <2>1. ~Finished(r, v)' /\ ~Finished(r, v)
      BY <1>1, <1>5 DEF Finished
  <2>2. (Wins(r, v)' <=> v = u) /\ ~Wins(r, v)
      BY <1>1, <1>5 DEF Wins
  <2>3. ~Draws(r, v)' /\ ~Draws(r, v)
      BY <1>1, <1>5 DEF Draws
  <2> QED
      BY <2>1, <2>2, <2>3
<1>8. Adds(r, u, s)'
  <2>1. /\ s.xp = seen.xp + DuelBonus /\ s.won = seen.won + 1
        /\ s.drawn = seen.drawn + 0 /\ s.attempts = seen.attempts
      BY DEF AddWin, Stats, DuelBonus
  <2> QED
      BY <2>1, <1>1, <1>6, <1>7, AddedUp
<1>9. \A v \in Users \ {u} : /\ Finished(r, v)' <=> Finished(r, v)
                             /\ Wins(r, v)' <=> Wins(r, v)
                             /\ Draws(r, v)' <=> Draws(r, v)
    BY <1>7
<1>10. PendingFacts(r)'
    BY <1>2, <1>3, <1>5, <1>8, <1>9, OneAdded DEF EarningsRight
<1>11. ChecksFacts(r)'
    BY <1>1, <1>3, <1>5, ChecksKept DEF EarningsRight, database, Finishing, BotPlaying
<1> QED
    BY <1>10, <1>11

\* A duel with the bot that is not won earns nothing.
LEMMA BotNotWonEarns ==
    ASSUME IInv, EarningsRight, NEW r \in Requests, BotNotWon(r)
    PROVE  (PendingFacts(r) /\ ChecksFacts(r))'
<1> PICK n : n = stats[Owner[tx[r].attempt]].lost
    OBVIOUS
<1> DEFINE t == [tx[r] EXCEPT !.pc = "botCommit", !.lost = n]
<1>1. /\ tx[r].pc = "botSettle" /\ tx[r].result # "CHALLENGER_WIN"
      /\ tx' = [tx EXCEPT ![r] = t] /\ held' = held /\ UNCHANGED database
    BY DEF BotNotWon, IInv, TypeOK
<1>2. tx'[r] = t
  <2> HIDE DEF t
  <2> QED
      BY <1>1, MovedTo
<1>3. /\ tx'[r].pc = "botCommit" /\ tx'[r].attempt = tx[r].attempt
      /\ tx'[r].duration = tx[r].duration /\ tx'[r].result = tx[r].result
      /\ tx'[r].pending = tx[r].pending
    BY <1>2, TxTypes DEF Transaction
<1> HIDE DEF t
<1>4. \A v \in Users : /\ ~Finished(r, v)' /\ ~Finished(r, v)
                       /\ ~Wins(r, v)' /\ ~Draws(r, v)'
                       /\ ~Wins(r, v) /\ ~Draws(r, v)
    BY <1>1, <1>3 DEF Finished, Wins, Draws
<1>5. PendingFacts(r)'
    BY <1>1, <1>3, <1>4, NothingAdded DEF EarningsRight
<1>6. ChecksFacts(r)'
    BY <1>1, <1>3, ChecksKept DEF EarningsRight, database, Finishing, BotPlaying
<1> QED
    BY <1>5, <1>6

\* An answer that is saved earns nothing.
LEMMA SubmitSaveEarns ==
    ASSUME IInv, EarningsRight, NEW r \in Requests, SubmitSave(r)
    PROVE  (PendingFacts(r) /\ ChecksFacts(r))'
<1> DEFINE t == [tx[r] EXCEPT !.pc = "saved"]
<1>1. /\ tx[r].pc = "submit" /\ tx' = [tx EXCEPT ![r] = t] /\ held' = held
    BY DEF SubmitSave, IInv, TypeOK
<1>2. tx'[r] = t
  <2> HIDE DEF t
  <2> QED
      BY <1>1, MovedTo
<1>3. tx'[r].pc = "saved" /\ tx'[r].pending = tx[r].pending
    BY <1>2, TxTypes DEF Transaction
<1> HIDE DEF t
<1>4. ChecksFacts(r)'
    BY <1>3 DEF ChecksFacts, Finishing, BotPlaying
<1>5. ASSUME NEW v \in Users
      PROVE  /\ ~Finished(r, v)' /\ ~Wins(r, v)' /\ ~Draws(r, v)'
             /\ ~Finished(r, v) /\ ~Wins(r, v) /\ ~Draws(r, v)
    BY <1>1, <1>3 DEF Finished, Wins, Draws
<1>6. ASSUME NEW v \in Users, tx[r].pending[v] # NoStats
      PROVE  Adds(r, v, tx[r].pending[v])' /\ <<"stats", v>> \in held[r]
  <2>1. Adds(r, v, tx[r].pending[v]) /\ <<"stats", v>> \in held[r] /\ stats' = stats
      BY <1>6 DEF PendingFacts, EarningsRight, SubmitSave
  <2>2. (tx[r].pending[v])' = tx[r].pending[v]
      BY <1>3
  <2> QED
      BY <2>1, <2>2, <1>5 DEF Adds
<1>7. PendingFacts(r)'
    BY <1>1, <1>3, <1>5, <1>6 DEF PendingFacts
<1> QED
    BY <1>4, <1>7

\* Every step of a request keeps what is known of the request.
LEMMA RequestEarns ==
    ASSUME IInv, EarningsRight, NEW r \in Requests,
           Begin(r) \/ FinishStep(r) \/ BotStep(r) \/ SubmitStep(r) \/ Abort(r)
    PROVE  (PendingFacts(r) /\ ChecksFacts(r))'
<1>1. CASE Begin(r)
    BY <1>1, BeginEarns
<1>2. CASE FinishStep(r)
  <2>1. CASE FinishCommit(r)
      BY <2>1, EndEarns DEF FinishCommit
  <2> QED
      BY <1>2, <2>1, FinishAwardEarns, FinishNoDuelEarns, FinishLockDuelEarns,
         FinishFirstEarns, FinishSecondEarns DEF FinishStep
<1>3. CASE BotStep(r)
  <2>1. CASE BotConflict(r)
      BY <2>1, EndEarns DEF BotConflict
  <2>2. CASE BotCommit(r)
      BY <2>2, EndEarns DEF BotCommit
  <2> QED
      BY <1>3, <2>1, <2>2, BotInsertEarns, BotWonEarns, BotNotWonEarns DEF BotStep
<1>4. CASE SubmitStep(r)
  <2>1. CASE SubmitReject(r)
      BY <2>1, EndEarns DEF SubmitReject
  <2>2. CASE SubmitReply(r)
      BY <2>2, EndEarns DEF SubmitReply
  <2> QED
      BY <1>4, <2>1, <2>2, SubmitSaveEarns DEF SubmitStep
<1>5. CASE Abort(r)
    BY <1>5, EndEarns DEF Abort
<1> QED
    BY <1>1, <1>2, <1>3, <1>4, <1>5

\* Only accepting a challenge makes two students opponents.
LEMMA OwnersStayDifferent == IInv /\ OwnersDiffer /\ [Next]_vars => OwnersDiffer'
<1> SUFFICES ASSUME IInv, OwnersDiffer, [Next]_vars PROVE OwnersDiffer'
    OBVIOUS
<1>1. duels \in [AttemptIds -> Duel]
    BY DEF IInv, TypeOK
<1>2. ASSUME NEW a \in AttemptIds, StartAttempt(a) \/ CreateDuel(a) \/ Expire(a)
      PROVE  \A d \in AttemptIds : duels'[d].opponent = duels[d].opponent
    BY <1>1, <1>2 DEF StartAttempt, CreateDuel, Expire, Duel
<1>3. ASSUME NEW e \in AttemptIds, NEW a \in AttemptIds, AcceptDuel(e, a)
      PROVE  OwnersDiffer'
  <2> DEFINE new == [duels[e] EXCEPT !.status = "ACCEPTED", !.opponent = a]
  <2>1. duels' = [duels EXCEPT ![e] = new] /\ Owner[a] # Owner[e]
      BY <1>3 DEF AcceptDuel
  <2>2. new.opponent = a
      BY <1>1 DEF Duel
  <2> HIDE DEF new
  <2> QED
      BY <1>1, <2>1, <2>2 DEF OwnersDiffer
<1>4. ASSUME NEW r \in Requests, FinishCommit(r)
      PROVE  \A d \in AttemptIds : duels'[d].opponent = duels[d].opponent
    BY <1>1, <1>4 DEF FinishCommit, Duel
<1>5. ASSUME NEW r \in Requests, BotCommit(r)
      PROVE  OwnersDiffer'
  <2>0. PICK a \in AttemptIds : a = tx[r].attempt
      BY <1>5 DEF BotCommit, IInv, RequestFacts, BotFacts, BotPlaying
  <2> DEFINE new == [duels[a] EXCEPT !.status = "COMPLETED", !.opponent = BotAttempt,
                                     !.result = tx[r].result]
  <2>1. duels' = [duels EXCEPT ![a] = new]
      BY <1>5, <2>0 DEF BotCommit
  <2>2. new.opponent \notin AttemptIds
      BY <1>1, RulesAssumption DEF Duel
  <2> HIDE DEF new
  <2> QED
      BY <1>1, <2>1, <2>2 DEF OwnersDiffer
<1>6. ASSUME NEW r \in Requests, SubmitSave(r) PROVE UNCHANGED duels
    BY <1>6 DEF SubmitSave
<1> QED
    BY <1>2, <1>3, <1>4, <1>5, <1>6, Writers DEF OwnersDiffer

\* Before the first request nothing has been earned.
LEMMA InitEarnings == Init => EarningsRight
<1> SUFFICES ASSUME Init PROVE EarningsRight
    OBVIOUS
<1>1. ASSUME NEW r \in Requests PROVE PendingFacts(r) /\ ChecksFacts(r)
  <2>1. /\ tx[r].pc = "idle" /\ tx[r].pending = [u \in Users |-> NoStats]
      BY DEF Init, Idle
  <2> QED
      BY <2>1 DEF PendingFacts, ChecksFacts, Finished, Wins, Draws, Finishing, BotPlaying
<1>2. OwnersDiffer
    BY RulesAssumption DEF Init, NoDuel, OwnersDiffer
<1> QED
    BY <1>1, <1>2 DEF EarningsRight

\* Every step keeps what transactions have earned right.
LEMMA StepEarnings == IInv /\ EarningsRight /\ [Next]_vars => EarningsRight'
<1> SUFFICES ASSUME IInv, EarningsRight, [Next]_vars PROVE EarningsRight'
    OBVIOUS
<1>1. IInv'
    BY StepIInv
<1>2. OwnersDiffer'
    BY OwnersStayDifferent DEF EarningsRight
<1>3. ASSUME UNCHANGED <<tx, held>>, NEW s \in Requests
      PROVE  (PendingFacts(s) /\ ChecksFacts(s))'
  <2>1. tx'[s] = tx[s] /\ held'[s] = held[s]
      BY <1>3
  <2> QED
      BY <1>1, <2>1, EarningsUndisturbed
<1>4. ASSUME NEW r \in Requests, NEW s \in Requests,
             Begin(r) \/ FinishStep(r) \/ BotStep(r) \/ SubmitStep(r) \/ Abort(r)
      PROVE  (PendingFacts(s) /\ ChecksFacts(s))'
  <2>1. CASE s = r
      BY <1>4, <2>1, RequestEarns
  <2>2. CASE s # r
    <3>1. tx'[s] = tx[s] /\ held'[s] = held[s]
        BY <1>4, <2>2, OneMoves
    <3> QED
        BY <1>1, <3>1, EarningsUndisturbed
  <2> QED
      BY <2>1, <2>2
<1>5. \/ UNCHANGED <<tx, held>>
      \/ \E r \in Requests :
             Begin(r) \/ FinishStep(r) \/ BotStep(r) \/ SubmitStep(r) \/ Abort(r)
    BY DEF Next, vars, StartAttempt, CreateDuel, Expire, AcceptDuel, UpdateChallengeStatus
<1>6. (\A s \in Requests : PendingFacts(s) /\ ChecksFacts(s))'
    BY <1>3, <1>4, <1>5
<1> QED
    BY <1>2, <1>6 DEF EarningsRight

\* What a transaction holds to write is the committed row of each student
\* it has locked, and exactly what it has earned for that student
\* (finish_attempt, _maybe_complete_duel, create_bot_duel).
THEOREM EarningsAreRight == Spec => []EarningsRight
<1>1. Init => IInv /\ EarningsRight
    BY InitIInv, InitEarnings
<1>2. IInv /\ EarningsRight /\ [Next]_vars => (IInv /\ EarningsRight)'
    BY StepIInv, StepEarnings
<1> QED
    BY <1>1, <1>2, PTL DEF Spec

-----------------------------------------------------------------------------
(* What a commit adds to the totals.                                       *)

\* A commit writes for every student the committed row and what the
\* transaction has earned.
LEMMA CommitAdds ==
    ASSUME IInv, EarningsRight, NEW r \in Requests, FinishCommit(r) \/ BotCommit(r),
           NEW u \in Users
    PROVE  Adds(r, u, stats'[u])
<1>1. stats \in [Users -> Stats]
    BY DEF IInv, TypeOK
<1>2. CASE stats' = StatsWritten(r)
    BY <1>2, SeenAdds DEF StatsWritten, EarningsRight
<1>3. CASE stats' # StatsWritten(r)
  <2> DEFINE v == Owner[tx[r].attempt]
             n == tx[r].lost + 1
  <2>1. /\ tx[r].pc = "botCommit" /\ tx[r].result # "CHALLENGER_WIN"
        /\ stats' = [stats EXCEPT ![v].lost = n]
      BY <1>3 DEF FinishCommit, BotCommit
  <2> HIDE DEF v, n
  <2>2. SameTotals(stats'[u], stats[u])
      BY <1>1, <2>1 DEF SameTotals, Stats
  <2>3. ~Finished(r, u) /\ ~Wins(r, u) /\ ~Draws(r, u)
      BY <2>1 DEF Finished, Wins, Draws
  <2>4. /\ stats[u].xp \in Nat /\ stats[u].attempts \in Nat
        /\ stats[u].won \in Nat /\ stats[u].drawn \in Nat
      BY <1>1 DEF Stats
  <2> QED
      BY <2>2, <2>3, <2>4 DEF Adds, SameTotals
<1> QED
    BY <1>2, <1>3

-----------------------------------------------------------------------------
(* A finish is one step of Rewards.                                        *)

\* The abstract specification computes with the same rules.
LEMMA SameRules ==
    /\ Promise!DuelBonus = DuelBonus /\ Promise!NoAnswers = NoAnswers
    /\ Promise!NoDuel = NoDuel
    /\ \A a, answers : Promise!AttemptRow(a, answers) = AttemptRow(a, answers)
    /\ \A u, d : Promise!BonusRow(u, d) = BonusRow(u, d)
    /\ \A c, o : Promise!DuelResult(c, o) = DuelResult(c, o)
    /\ \A c, right, seconds :
           Promise!BotResult(c, right, seconds) = BotResult(c, right, seconds)
<1>1. Promise!DuelBonus = DuelBonus /\ Promise!NoAnswers = NoAnswers
      /\ Promise!NoDuel = NoDuel
    BY DEF Promise!DuelBonus, DuelBonus, Promise!NoAnswers, NoAnswers,
           Promise!NoDuel, NoDuel
<1>2. /\ \A n, d : Promise!RoundDiv(n, d) = RoundDiv(n, d)
      /\ \A S : Promise!Cardinality(S) = Cardinality(S)
      /\ \A answers : Promise!Right(answers) = Right(answers)
    BY DEF Promise!RoundDiv, RoundDiv, Promise!Cardinality, Cardinality,
           Promise!Right, Right
<1>3. \A answers : Promise!XpOf(answers) = XpOf(answers)
    BY <1>2 DEF Promise!XpOf, XpOf, Promise!AttemptXp, AttemptXp,
           Promise!Accuracy, Accuracy
<1>4. \A right : Promise!ScoreOf(right) = ScoreOf(right)
    BY DEF Promise!ScoreOf, ScoreOf, Promise!FoldFunctionOnSet, FoldFunctionOnSet,
           Promise!MapThenFoldSet, MapThenFoldSet, Promise!AttemptScore, AttemptScore,
           Promise!RoundDiv, RoundDiv
<1>5. \A right, seconds : Promise!Result(right, seconds) = Result(right, seconds)
    BY <1>2, <1>4 DEF Promise!Result, Result
<1>6. \A c, o : Promise!ResolveWinner(c, o) = ResolveWinner(c, o)
    BY DEF Promise!ResolveWinner, ResolveWinner
<1>7. \A c, o : Promise!DuelResult(c, o) = DuelResult(c, o)
    BY <1>2, <1>5, <1>6 DEF Promise!DuelResult, DuelResult
<1>8. \A c, right, seconds :
          Promise!BotResult(c, right, seconds) = BotResult(c, right, seconds)
    BY <1>2, <1>5, <1>6 DEF Promise!BotResult, BotResult, Promise!OrSlowest, OrSlowest
<1>9. /\ \A a, answers : Promise!AttemptRow(a, answers) = AttemptRow(a, answers)
      /\ \A u, d : Promise!BonusRow(u, d) = BonusRow(u, d)
    BY <1>1, <1>3 DEF Promise!AttemptRow, AttemptRow, Promise!BonusRow, BonusRow
<1> QED
    BY <1>1, <1>7, <1>8, <1>9

\* The totals of Rewards.
Totals == [u \in Users |-> [xp |-> stats[u].xp, attempts |-> stats[u].attempts,
                            won |-> stats[u].won, drawn |-> stats[u].drawn]]

\* Initial states map to initial states.
LEMMA InitRefines == Init => Promise!Init
BY SameRules DEF Init, Promise!Init

\* Steps that write at once are the steps they are named after.
LEMMA PlainRefines ==
    ASSUME NEW a \in AttemptIds, StartAttempt(a) \/ CreateDuel(a) \/ Expire(a)
    PROVE  Promise!Next
<1>1. CASE StartAttempt(a)
    BY <1>1 DEF StartAttempt, Promise!Start, Promise!Next
<1>2. CASE CreateDuel(a)
    BY <1>2, SameRules DEF CreateDuel, Promise!Create, Promise!Next
<1>3. CASE Expire(a)
    BY <1>3 DEF Expire, Promise!Expire, Promise!Next
<1> QED
    BY <1>1, <1>2, <1>3

LEMMA AcceptRefines ==
    ASSUME NEW d \in AttemptIds, NEW a \in AttemptIds, AcceptDuel(d, a)
    PROVE  Promise!Next
BY DEF AcceptDuel, MayAccept, Promise!Accept, Promise!Next

\* An answer that is saved is selected, unless the copy the request loaded
\* had it already: then nothing is written.
LEMMA SubmitRefines ==
    ASSUME IInv, NEW r \in Requests, SubmitSave(r)
    PROVE  Promise!Next \/ UNCHANGED Promise!abstract
<1> PICK a \in AttemptIds, q \in Questions, choice \in Options :
        a = tx[r].attempt /\ q = tx[r].question /\ choice = tx[r].choice
    BY DEF SubmitSave, IInv, RequestFacts, SubmitFacts
<1>1. /\ UNCHANGED <<duels, ledger, stats>> /\ attempts[a].status = "IN_PROGRESS"
      /\ attempts' = [attempts EXCEPT ![a].answers[q] = AnswerWritten(r)]
    BY DEF SubmitSave, MayAnswer
<1>2. CASE choice = tx[r].seen
  <2>1. AnswerWritten(r) = attempts[a].answers[q]
      BY <1>2 DEF AnswerWritten
  <2>2. attempts' = attempts
    <3>1. attempts[a] \in Attempt /\ attempts[a].answers \in [Questions -> Answer]
        BY DEF IInv, TypeOK, Attempt
    <3>2. [attempts[a].answers EXCEPT ![q] = AnswerWritten(r)] = attempts[a].answers
        BY <2>1, <3>1
    <3>3. attempts' = [attempts EXCEPT ![a] =
                          [attempts[a] EXCEPT !.answers = attempts[a].answers]]
        BY <1>1, <3>2
    <3>4. [attempts[a] EXCEPT !.answers = attempts[a].answers] = attempts[a]
        BY <3>1 DEF Attempt
    <3> QED
        BY <3>3, <3>4 DEF IInv, TypeOK
  <2> QED
      BY <1>1, <2>2 DEF Promise!abstract
<1>3. CASE choice # tx[r].seen
  <2>1. Promise!Select(a, q, choice)
      BY <1>1, <1>3 DEF AnswerWritten, Promise!Select
  <2> QED
      BY <2>1 DEF Promise!Next
<1> QED
    BY <1>2, <1>3

\* A finish that decides no duel commits the attempt and its award.
LEMMA FinishRefines ==
    ASSUME IInv, EarningsRight, NEW r \in Requests, FinishCommit(r),
           tx[r].duel = NoAttempt
    PROVE  Promise!Next
<1> PICK a : a = tx[r].attempt
    OBVIOUS
<1> PICK v : v = Owner[a]
    OBVIOUS
<1> PICK row : row = AttemptRow(a, attempts[a].answers)
    OBVIOUS
<1> PICK n : n = tx[r].duration
    OBVIOUS
<1>1. /\ tx[r].pc = "commit" /\ a \in AttemptIds /\ v \in Users
      /\ attempts[a].status = "IN_PROGRESS"
      /\ tx[r].rows = {row} /\ \A d \in AttemptIds : duels[d].opponent # a
    BY RulesAssumption DEF FinishCommit, IInv, RequestFacts, FinishFacts, Finishing
<1>2. n \in Durations /\ \A q \in Questions : attempts[a].answers[q] # "none"
    BY <1>1 DEF EarningsRight, ChecksFacts, Finishing, AllAnswered
<1>3. /\ attempts' = [attempts EXCEPT ![a].status = "COMPLETED", ![a].duration = n]
      /\ ledger' = ledger \union {row} /\ duels' = duels
    BY <1>1 DEF FinishCommit
<1>4. \A u \in Users : /\ Finished(r, u) <=> u = v
                       /\ ~Wins(r, u) /\ ~Draws(r, u)
    BY <1>1 DEF Finished, Wins, Draws
<1>5. row.amount = AttemptXpOf(r) /\ row.amount \in Nat
    BY <1>1, XpNat DEF AttemptRow, AttemptXpOf, IInv, TypeOK, Attempt
<1>6. ASSUME NEW u \in Users
      PROVE  /\ stats'[u].xp = stats[u].xp + (IF u = v THEN row.amount ELSE 0)
             /\ stats'[u].attempts = stats[u].attempts + (IF u = v THEN 1 ELSE 0)
             /\ stats'[u].won = stats[u].won
             /\ stats'[u].drawn = stats[u].drawn
             /\ stats[u].xp \in Nat /\ stats[u].attempts \in Nat
             /\ stats[u].won \in Nat /\ stats[u].drawn \in Nat
  <2>1. /\ stats[u].xp \in Nat /\ stats[u].attempts \in Nat
        /\ stats[u].won \in Nat /\ stats[u].drawn \in Nat
      BY DEF IInv, TypeOK, Stats
  <2>2. Adds(r, u, stats'[u])
      BY CommitAdds
  <2> QED
      BY <2>1, <2>2, <1>4, <1>5 DEF Adds
<1>7. Totals' = [Totals EXCEPT ![v] = Promise!Gain(@, row.amount, TRUE, FALSE, FALSE)]
    BY <1>1, <1>5, <1>6 DEF Totals, Promise!Gain
<1>8. Promise!Finish(a, n)
    BY <1>1, <1>2, <1>3, <1>7, SameRules DEF Promise!Finish, Totals
<1> QED
    BY <1>1, <1>2, <1>8 DEF Promise!Next

\* A finish that decides a duel commits the duel and what it is worth to
\* both students along with the attempt and its award.
LEMMA FinishDuelRefines ==
    ASSUME IInv, EarningsRight, NEW r \in Requests, FinishCommit(r),
           tx[r].duel # NoAttempt
    PROVE  Promise!Next
<1> PICK a : a = tx[r].attempt
    OBVIOUS
<1> PICK d : d = tx[r].duel
    OBVIOUS
<1> PICK v : v = Owner[a]
    OBVIOUS
<1> PICK row : row = AttemptRow(a, attempts[a].answers)
    OBVIOUS
<1> PICK n : n = tx[r].duration
    OBVIOUS
<1> PICK res : res = tx[r].result
    OBVIOUS
<1> PICK winner : winner = Promise!WinnerOf(d, a, res)
    OBVIOUS
<1> PICK drawers : drawers = Promise!DrawersOf(d, a, res)
    OBVIOUS
<1>1. /\ tx[r].pc = "commit" /\ Finishing(r) /\ Deciding(r)
      /\ a \in AttemptIds /\ attempts[a].status = "IN_PROGRESS"
      /\ tx[r].rows = {row} \union Bonus(r)
    BY DEF FinishCommit, IInv, RequestFacts, FinishFacts, Finishing, Deciding
<1>2. n \in Durations /\ \A q \in Questions : attempts[a].answers[q] # "none"
    BY <1>1 DEF EarningsRight, ChecksFacts, AllAnswered
<1>3. /\ d \in AttemptIds /\ duels[d].status = "ACCEPTED" /\ duels[d].opponent = a
      /\ res \in Outcome /\ v \in Users /\ attempts[a] \in Attempt
    BY <1>1, DecidedDuel, RulesAssumption DEF IInv, TypeOK
<1>4. res = DuelResult(attempts[d], [attempts[a] EXCEPT !.duration = n])
  <2>1. res = DuelResult(attempts[d], [attempts[a] EXCEPT !.status = "COMPLETED",
                                                          !.duration = n])
      BY <1>1 DEF IInv, RequestFacts, DecideFacts
  <2>2. n \in Nat
      BY <1>2, RulesAssumption
  <2> DEFINE done == [attempts[a] EXCEPT !.status = "COMPLETED", !.duration = n]
             timed == [attempts[a] EXCEPT !.duration = n]
  <2>3. done.answers = timed.answers /\ done.duration = timed.duration
      BY <1>3, <2>2 DEF Attempt
  <2> HIDE DEF done, timed
  <2>4. DuelResult(attempts[d], done) = DuelResult(attempts[d], timed)
      BY <2>3 DEF DuelResult
  <2> QED
      BY <2>1, <2>4 DEF done, timed
<1>5. /\ attempts' = [attempts EXCEPT ![a].status = "COMPLETED", ![a].duration = n]
      /\ ledger' = ledger \union tx[r].rows
      /\ duels' = [duels EXCEPT ![d].status = "COMPLETED", ![d].result = res]
    BY <1>1 DEF FinishCommit
<1>6. /\ winner = IF res = "DRAW" THEN {} ELSE {First(r)}
      /\ drawers = IF res = "DRAW" THEN {First(r), Second(r)} ELSE {}
    BY <1>1, <1>3 DEF Promise!WinnerOf, Promise!DrawersOf, First, Second, Outcome
<1>7. Bonus(r) = {BonusRow(u, d) : u \in winner}
    BY <1>6 DEF Bonus
<1>8. \A u \in Users : /\ Finished(r, u) <=> u = v
                       /\ Wins(r, u) <=> u \in winner
                       /\ Draws(r, u) <=> u \in drawers
    BY <1>1, <1>6 DEF Finished, Wins, Draws
<1>9. row.amount = AttemptXpOf(r) /\ row.amount \in Nat
    BY <1>1, XpNat DEF AttemptRow, AttemptXpOf, IInv, TypeOK, Attempt
<1>10. ASSUME NEW u \in Users
       PROVE  /\ stats'[u].xp = stats[u].xp + (IF u = v THEN row.amount ELSE 0)
                                            + (IF u \in winner THEN DuelBonus ELSE 0)
              /\ stats'[u].attempts = stats[u].attempts + (IF u = v THEN 1 ELSE 0)
              /\ stats'[u].won = stats[u].won + (IF u \in winner THEN 1 ELSE 0)
              /\ stats'[u].drawn = stats[u].drawn + (IF u \in drawers THEN 1 ELSE 0)
    BY <1>8, <1>9, CommitAdds DEF Adds
<1>11. Totals' = [u \in Users |->
                     Promise!Gain(Totals[u], IF u = v THEN row.amount ELSE 0,
                                  u = v, u \in winner, u \in drawers)]
    BY <1>10, SameRules DEF Totals, Promise!Gain
<1>12. ledger' = ledger \union {row} \union {BonusRow(u, d) : u \in winner}
    BY <1>1, <1>5, <1>7
<1>13. /\ row = Promise!AttemptRow(a, attempts[a].answers)
       /\ res = Promise!DuelResult(attempts[d], [attempts[a] EXCEPT !.duration = n])
       /\ {BonusRow(u, d) : u \in winner} = {Promise!BonusRow(u, d) : u \in winner}
    BY <1>4, SameRules
<1>14. Promise!FinishDuel(a, n, d)
    BY <1>1, <1>2, <1>3, <1>5, <1>11, <1>12, <1>13 DEF Promise!FinishDuel, Totals
<1> QED
    BY <1>1, <1>2, <1>3, <1>14 DEF Promise!Next

\* A bot duel is created, settled and paid in one step.
LEMMA BotRefines ==
    ASSUME IInv, EarningsRight, NEW r \in Requests, BotCommit(r)
    PROVE  Promise!Next
<1> PICK a : a = tx[r].attempt
    OBVIOUS
<1> PICK res : res = tx[r].result
    OBVIOUS
<1> PICK winner : winner = Promise!WinnerOf(a, BotAttempt, res)
    OBVIOUS
<1>1. /\ tx[r].pc = "botCommit" /\ BotPlaying(r)
      /\ a \in AttemptIds /\ attempts[a].status = "COMPLETED"
      /\ duels[a] = NoDuel /\ res \in Outcome
      /\ tx[r].rows = IF res = "CHALLENGER_WIN" THEN {BonusRow(Owner[a], a)} ELSE {}
    BY DEF BotCommit, IInv, RequestFacts, BotFacts, BotPlaying
<1>2. PICK right \in SUBSET Questions, seconds \in Durations \ {0} :
          res = BotResult(attempts[a], right, seconds)
    BY <1>1 DEF EarningsRight, ChecksFacts
<1>3. /\ UNCHANGED attempts /\ ledger' = ledger \union tx[r].rows
      /\ duels' = [duels EXCEPT ![a].status = "COMPLETED",
                                ![a].opponent = BotAttempt, ![a].result = res]
    BY DEF BotCommit
<1>4. winner = IF res = "CHALLENGER_WIN" THEN {Owner[a]} ELSE {}
    BY <1>1, RulesAssumption DEF Promise!WinnerOf, Outcome
<1>5. tx[r].rows = {BonusRow(u, a) : u \in winner}
    BY <1>1, <1>4
<1>6. \A u \in Users : /\ ~Finished(r, u) /\ ~Draws(r, u)
                       /\ Wins(r, u) <=> u \in winner
    BY <1>1, <1>4 DEF Finished, Wins, Draws
<1>7. ASSUME NEW u \in Users
      PROVE  /\ stats'[u].xp = stats[u].xp + 0 + (IF u \in winner THEN DuelBonus ELSE 0)
             /\ stats'[u].attempts = stats[u].attempts + 0
             /\ stats'[u].won = stats[u].won + (IF u \in winner THEN 1 ELSE 0)
             /\ stats'[u].drawn = stats[u].drawn + 0
    BY <1>6, CommitAdds DEF Adds
<1>8. Totals' = [u \in Users |->
                     Promise!Gain(Totals[u], 0, FALSE, u \in winner, FALSE)]
    BY <1>7, SameRules DEF Totals, Promise!Gain
<1>9. Promise!PlayBot(a, right, seconds)
    BY <1>1, <1>2, <1>3, <1>5, <1>8, SameRules DEF Promise!PlayBot, Totals
<1> QED
    BY <1>1, <1>9 DEF Promise!Next

\* Every step is a step of Rewards or changes nothing Rewards speaks of.
LEMMA StepRefines ==
    IInv /\ EarningsRight /\ [Next]_vars => [Promise!Next]_Promise!abstract
<1> SUFFICES ASSUME IInv, EarningsRight, [Next]_vars
             PROVE  Promise!Next \/ UNCHANGED Promise!abstract
    OBVIOUS
<1>1. CASE UNCHANGED <<attempts, duels, ledger, stats, progress>>
    BY <1>1 DEF Promise!abstract
<1> QED
    BY <1>1, Writers, PlainRefines, AcceptRefines, SubmitRefines, FinishRefines,
       FinishDuelRefines, BotRefines

\* Completing an attempt, paying for it and settling the duel it decides
\* look like one step, taken at most once per attempt, whatever requests
\* are under way and however they fail (finish_attempt, create_bot_duel).
THEOREM RewardsRefined == Spec => ImplementsRewards
<1>1. Init => IInv /\ EarningsRight /\ Promise!Init
    BY InitIInv, InitEarnings, InitRefines
<1>2. IInv /\ EarningsRight /\ [Next]_vars => (IInv /\ EarningsRight)'
    BY StepIInv, StepEarnings
<1>3. IInv /\ EarningsRight /\ [Next]_vars => [Promise!Next]_Promise!abstract
    BY StepRefines
<1> QED
    BY <1>1, <1>2, <1>3, PTL DEF Spec, ImplementsRewards, Promise!Spec

-----------------------------------------------------------------------------
(* The totals and the history.                                             *)

Own(u) == {a \in Completed : Owner[a] = u}

Drawn(u) == {d \in Settled : /\ duels[d].result = "DRAW"
                             /\ duels[d].opponent \in AttemptIds
                             /\ u \in {Owner[d], Owner[duels[d].opponent]}}

RowsOf(u) == {row \in ledger : row.user = u}

Matches(u) == /\ stats[u].xp = AmountSum(RowsOf(u))
              /\ stats[u].attempts = Cardinality(Own(u))
              /\ progress[u] = Cardinality(Own(u))
              /\ stats[u].won = Cardinality(Won(u))
              /\ stats[u].drawn = Cardinality(Drawn(u))

\* There is only so much history, and the totals are what it adds up to.
HistoryRight ==
    /\ IsFiniteSet(Completed) /\ IsFiniteSet(Settled) /\ IsFiniteSet(ledger)
    /\ \A u \in Users : Matches(u)

\* The parts of a finite history that concern one student are finite.
LEMMA PartsFinite ==
    ASSUME TypeOK, HistoryRight, NEW u
    PROVE  /\ IsFiniteSet(Own(u)) /\ IsFiniteSet(Won(u)) /\ IsFiniteSet(Drawn(u))
           /\ IsFiniteSet(RowsOf(u)) /\ \A row \in RowsOf(u) : row.amount \in Nat
<1>1. /\ Own(u) \subseteq Completed /\ Won(u) \subseteq Settled
      /\ Drawn(u) \subseteq Settled /\ RowsOf(u) \subseteq ledger
    BY DEF Own, Won, Drawn, RowsOf
<1>2. \A row \in RowsOf(u) : row.amount \in Nat
    BY <1>1 DEF TypeOK, Row
<1> QED
    BY <1>1, <1>2, FS_Subset DEF HistoryRight

\* A set that gains a new member, or none, grows by as much.
LEMMA OneMore ==
    ASSUME NEW S, IsFiniteSet(S), NEW x, x \notin S, NEW X, X = {} \/ X = {x}
    PROVE  /\ IsFiniteSet(S \union X)
           /\ Cardinality(S \union X) = Cardinality(S) + (IF X = {} THEN 0 ELSE 1)
<1>1. Cardinality(S) \in Nat
    BY FS_CardinalityType
<1>2. IsFiniteSet(S \union {x}) /\ Cardinality(S \union {x}) = Cardinality(S) + 1
    BY FS_AddElement
<1>3. S \union {} = S
    OBVIOUS
<1> QED
    BY <1>1, <1>2, <1>3

\* The amount of a new row, if there is one, is added.
LEMMA MoreRow ==
    ASSUME NEW rows, IsFiniteSet(rows), \A row \in rows : row.amount \in Nat,
           NEW x, x \notin rows, x.amount \in Nat, NEW X, X = {} \/ X = {x}
    PROVE  /\ IsFiniteSet(rows \union X) /\ \A row \in rows \union X : row.amount \in Nat
           /\ AmountSum(rows \union X)
                  = AmountSum(rows) + (IF X = {} THEN 0 ELSE x.amount)
<1>1. AmountSum(rows) \in Nat
    BY AmountSumNat
<1>2. IsFiniteSet(rows \union {x}) /\ AmountSum(rows \union {x}) = AmountSum(rows) + x.amount
    BY FS_AddElement, AmountSumAdd
<1>3. CASE X = {}
  <2>1. rows \union X = rows
      BY <1>3
  <2> QED
      BY <1>1, <1>3, <2>1
<1>4. CASE X = {x}
  <2>1. \A row \in rows \union X : row.amount \in Nat
      BY <1>4
  <2> QED
      BY <1>2, <1>4, <2>1
<1> QED
    BY <1>3, <1>4

\* Settling a duel gives it to the student who won it, or to both who drew.
LEMMA OneMoreSettled ==
    ASSUME NEW d \in AttemptIds, NEW o, NEW res,
           duels[d].status # "COMPLETED", duels'[d].status = "COMPLETED",
           duels'[d].opponent = o, duels'[d].result = res,
           \A e \in AttemptIds \ {d} : duels'[e] = duels[e],
           NEW u \in Users
    PROVE  /\ d \notin Settled /\ Settled' = Settled \union {d}
           /\ d \notin Won(u) /\ d \notin Drawn(u)
           /\ Won(u)' = Won(u) \union
                  (IF \/ res = "CHALLENGER_WIN" /\ Owner[d] = u
                      \/ res = "OPPONENT_WIN" /\ o \in AttemptIds /\ Owner[o] = u
                   THEN {d} ELSE {})
           /\ Drawn(u)' = Drawn(u) \union
                  (IF res = "DRAW" /\ o \in AttemptIds /\ u \in {Owner[d], Owner[o]}
                   THEN {d} ELSE {})
<1>1. d \notin Settled /\ Settled' = Settled \union {d}
    BY DEF Settled
<1>2. \A e \in Settled : e \in AttemptIds /\ e # d /\ duels'[e] = duels[e]
    BY DEF Settled
<1>3. d \notin Won(u) /\ d \notin Drawn(u)
    BY <1>1 DEF Won, Drawn
<1>4. Won(u)' = Won(u) \union
                  (IF \/ res = "CHALLENGER_WIN" /\ Owner[d] = u
                      \/ res = "OPPONENT_WIN" /\ o \in AttemptIds /\ Owner[o] = u
                   THEN {d} ELSE {})
    BY <1>1, <1>2 DEF Won
<1>5. Drawn(u)' = Drawn(u) \union
                  (IF res = "DRAW" /\ o \in AttemptIds /\ u \in {Owner[d], Owner[o]}
                   THEN {d} ELSE {})
    BY <1>1, <1>2 DEF Drawn
<1> QED
    BY <1>1, <1>3, <1>4, <1>5

\* The history of u gains attempt a, or not, duel d as won or as drawn, or
\* not, and the rows x and y that go with them, and the totals of u gain as
\* much.
Grows(u, a, A, d, W, D, x, X, y, Y) ==
    /\ a \notin Completed /\ A \in {{}, {a}} /\ Own(u)' = Own(u) \union A
    /\ d \notin Settled /\ W \in {{}, {d}} /\ Won(u)' = Won(u) \union W
    /\ D \in {{}, {d}} /\ Drawn(u)' = Drawn(u) \union D
    /\ x \notin ledger /\ x.amount \in Nat /\ X \in {{}, {x}}
    /\ y \notin ledger /\ y.amount = DuelBonus /\ y # x /\ Y \in {{}, {y}}
    /\ RowsOf(u)' = (RowsOf(u) \union X) \union Y
    /\ stats'[u].xp = stats[u].xp + (IF X = {} THEN 0 ELSE x.amount)
                                  + (IF Y = {} THEN 0 ELSE DuelBonus)
    /\ stats'[u].attempts = stats[u].attempts + (IF A = {} THEN 0 ELSE 1)
    /\ progress'[u] = progress[u] + (IF A = {} THEN 0 ELSE 1)
    /\ stats'[u].won = stats[u].won + (IF W = {} THEN 0 ELSE 1)
    /\ stats'[u].drawn = stats[u].drawn + (IF D = {} THEN 0 ELSE 1)

\* What a commit adds to the totals of a student is what it adds to the
\* history.
LEMMA MatchesGrows ==
    ASSUME TypeOK, HistoryRight, NEW u \in Users, NEW a, NEW A, NEW d, NEW W, NEW D,
           NEW x, NEW X, NEW y, NEW Y, Grows(u, a, A, d, W, D, x, X, y, Y)
    PROVE  Matches(u)'
<1>0. /\ a \notin Completed /\ A \in {{}, {a}} /\ Own(u)' = Own(u) \union A
      /\ d \notin Settled /\ W \in {{}, {d}} /\ Won(u)' = Won(u) \union W
      /\ D \in {{}, {d}} /\ Drawn(u)' = Drawn(u) \union D
      /\ x \notin ledger /\ x.amount \in Nat /\ X \in {{}, {x}}
      /\ y \notin ledger /\ y.amount = DuelBonus /\ y # x /\ Y \in {{}, {y}}
      /\ RowsOf(u)' = (RowsOf(u) \union X) \union Y
    BY DEF Grows
<1>1. Matches(u)
    BY DEF HistoryRight
<1>2. /\ IsFiniteSet(Own(u)) /\ IsFiniteSet(Won(u)) /\ IsFiniteSet(Drawn(u))
      /\ IsFiniteSet(RowsOf(u)) /\ \A row \in RowsOf(u) : row.amount \in Nat
    BY PartsFinite
<1>3. /\ a \notin Own(u) /\ d \notin Won(u) /\ d \notin Drawn(u)
      /\ x \notin RowsOf(u) /\ y \notin RowsOf(u)
    BY <1>0 DEF Own, Won, Drawn, RowsOf
<1>4. /\ Cardinality(Own(u)') = Cardinality(Own(u)) + (IF A = {} THEN 0 ELSE 1)
      /\ Cardinality(Won(u)') = Cardinality(Won(u)) + (IF W = {} THEN 0 ELSE 1)
      /\ Cardinality(Drawn(u)') = Cardinality(Drawn(u)) + (IF D = {} THEN 0 ELSE 1)
  <2>1. Cardinality(Own(u) \union A) = Cardinality(Own(u)) + (IF A = {} THEN 0 ELSE 1)
      BY <1>0, <1>2, <1>3, OneMore
  <2>2. Cardinality(Won(u) \union W) = Cardinality(Won(u)) + (IF W = {} THEN 0 ELSE 1)
      BY <1>0, <1>2, <1>3, OneMore
  <2>3. Cardinality(Drawn(u) \union D) = Cardinality(Drawn(u)) + (IF D = {} THEN 0 ELSE 1)
      BY <1>0, <1>2, <1>3, OneMore
  <2> QED
      BY <1>0, <2>1, <2>2, <2>3
<1>5. AmountSum(RowsOf(u)') = AmountSum(RowsOf(u)) + (IF X = {} THEN 0 ELSE x.amount)
                                                   + (IF Y = {} THEN 0 ELSE DuelBonus)
  <2> DEFINE rows == RowsOf(u)
             some == rows \union X
  <2>1. /\ IsFiniteSet(some) /\ \A row \in some : row.amount \in Nat
        /\ AmountSum(some) = AmountSum(rows) + (IF X = {} THEN 0 ELSE x.amount)
    <3> HIDE DEF rows
    <3> QED
        BY <1>0, <1>2, <1>3, MoreRow DEF rows
  <2>2. y \notin some /\ y.amount \in Nat
      BY <1>0, <1>3 DEF DuelBonus
  <2> HIDE DEF some, rows
  <2>3. AmountSum(some \union Y) = AmountSum(some) + (IF Y = {} THEN 0 ELSE y.amount)
      BY <1>0, <2>1, <2>2, MoreRow
  <2> QED
      BY <1>0, <2>1, <2>3 DEF some, rows
<1> QED
    BY <1>1, <1>4, <1>5 DEF Matches, Grows

\* A row for an attempt that cannot be is in no ledger.
LEMMA NoSuchRow ==
    ASSUME TypeOK, NEW row, row.source = NoAttempt
    PROVE  row \notin ledger
BY RulesAssumption DEF TypeOK, Row

\* Where the history grows in step with the totals.
LEMMA FinishHistory ==
    ASSUME IInv, EarningsRight, HistoryRight, NEW r \in Requests, FinishCommit(r)
    PROVE  HistoryRight'
<1> PICK a : a = tx[r].attempt
    OBVIOUS
<1> PICK d : d = tx[r].duel
    OBVIOUS
<1> PICK v : v = Owner[a]
    OBVIOUS
<1> PICK row : row = AttemptRow(a, attempts[a].answers)
    OBVIOUS
<1> PICK first : first = First(r)
    OBVIOUS
<1> PICK second : second = Second(r)
    OBVIOUS
<1> PICK res : res = tx[r].result
    OBVIOUS
<1>0. TypeOK
    BY DEF IInv
<1>1. /\ tx[r].pc = "commit" /\ Finishing(r) /\ a \in AttemptIds
      /\ attempts[a].status = "IN_PROGRESS" /\ v \in Users
    BY RulesAssumption DEF FinishCommit, IInv, RequestFacts, FinishFacts, Finishing
<1>2. Completed' = Completed \union {a} /\ a \notin Completed
  <2> DEFINE done == [attempts[a] EXCEPT !.status = "COMPLETED",
                                         !.duration = tx[r].duration]
  <2>1. attempts' = [attempts EXCEPT ![a] = done]
      BY DEF FinishCommit
  <2>2. done.status = "COMPLETED"
      BY <1>0, <1>1 DEF TypeOK, Attempt
  <2> HIDE DEF done
  <2> QED
      BY <1>0, <1>1, <2>1, <2>2 DEF Completed, TypeOK
<1>3. row \notin ledger /\ row.amount \in Nat /\ row.type = "ATTEMPT" /\ row.user = v
  <2>1. ~Paid(row)
      BY <1>1, NotPaid
  <2> QED
      BY <1>0, <1>1, <2>1, XpNat DEF Paid, AttemptRow, TypeOK, Attempt
<1>4. row.amount = AttemptXpOf(r)
    BY DEF AttemptRow, AttemptXpOf
<1>5. tx[r].rows = {row} \union (IF d = NoAttempt \/ res = "DRAW" THEN {}
                                 ELSE {BonusRow(first, d)})
    BY <1>1 DEF IInv, RequestFacts, FinishFacts, Bonus
<1>6. ledger' = ledger \union tx[r].rows /\ progress' = [progress EXCEPT ![v] = @ + 1]
    BY <1>3, <1>5 DEF FinishCommit
<1>7. ASSUME NEW u \in Users
      PROVE  /\ Finished(r, u) <=> u = v
             /\ Wins(r, u) <=> d # NoAttempt /\ res # "DRAW" /\ u = first
             /\ Draws(r, u) <=> d # NoAttempt /\ res = "DRAW" /\ u \in {first, second}
    BY <1>1 DEF Finished, Wins, Draws
<1>8. IsFiniteSet(Completed') /\ IsFiniteSet(ledger')
  <2>1. IsFiniteSet(Completed \union {a}) /\ IsFiniteSet(ledger \union {row})
      BY FS_AddElement DEF HistoryRight
  <2>2. IsFiniteSet((ledger \union {row}) \union {BonusRow(first, d)})
      BY <2>1, FS_AddElement
  <2> QED
      BY <1>2, <1>5, <1>6, <2>1, <2>2
<1>9. \A u \in Users : Own(u)' = Own(u) \union (IF u = v THEN {a} ELSE {})
    BY <1>1, <1>2 DEF Own
<1>10. \A u \in Users :
           /\ progress'[u] = progress[u] + (IF u = v THEN 1 ELSE 0)
           /\ stats'[u].xp = stats[u].xp + (IF u = v THEN row.amount ELSE 0)
                                         + (IF Wins(r, u) THEN DuelBonus ELSE 0)
           /\ stats'[u].attempts = stats[u].attempts + (IF u = v THEN 1 ELSE 0)
           /\ stats'[u].won = stats[u].won + (IF Wins(r, u) THEN 1 ELSE 0)
           /\ stats'[u].drawn = stats[u].drawn + (IF Draws(r, u) THEN 1 ELSE 0)
  <2>1. \A u \in Users : progress'[u] = progress[u] + (IF u = v THEN 1 ELSE 0)
      BY <1>0, <1>6 DEF TypeOK
  <2> QED
      BY <2>1, <1>4, <1>7, CommitAdds DEF Adds
<1>11. CASE d = NoAttempt
  <2>1. duels' = duels
      BY <1>11 DEF FinishCommit
  <2>2. ASSUME NEW u \in Users PROVE Matches(u)'
    <3> DEFINE X == IF u = v THEN {row} ELSE {}
               A == IF u = v THEN {a} ELSE {}
               y == BonusRow(u, NoAttempt)
    <3>1. NoAttempt \notin Settled
        BY RulesAssumption DEF Settled
    <3>2. Won(u)' = Won(u) \union {} /\ Drawn(u)' = Drawn(u) \union {}
        BY <2>1 DEF Won, Drawn, Settled
    <3>3. y \notin ledger /\ y.amount = DuelBonus /\ y # row
        BY <1>0, <1>1, NoSuchRow, RulesAssumption DEF BonusRow, AttemptRow
    <3>4. RowsOf(u)' = (RowsOf(u) \union X) \union {}
        BY <1>3, <1>5, <1>6, <1>11 DEF RowsOf
    <3>5. ~Wins(r, u) /\ ~Draws(r, u)
        BY <1>7, <1>11
    <3>6. /\ X = {} \/ X = {row}
          /\ A = {} \/ A = {a}
          /\ X = {} <=> u # v
          /\ A = {} <=> u # v
        OBVIOUS
    <3>7. Own(u)' = Own(u) \union A
        BY <1>9
    <3> HIDE DEF X, A, y
    <3>8. Grows(u, a, A, NoAttempt, {}, {}, row, X, y, {})
        BY <1>2, <1>3, <1>10, <3>1, <3>2, <3>3, <3>4, <3>5, <3>6, <3>7 DEF Grows
    <3> QED
        BY <1>0, <3>8, MatchesGrows
  <2> QED
      BY <1>8, <2>1, <2>2 DEF HistoryRight, Settled
<1>12. CASE d # NoAttempt
  <2>1. /\ d \in AttemptIds /\ duels[d].status = "ACCEPTED" /\ duels[d].opponent = a
        /\ res \in Outcome /\ first \in Users /\ second \in Users
      BY <1>1, <1>12, DecidedDuel DEF Deciding
  <2>2. /\ \A e \in AttemptIds \ {d} : duels'[e] = duels[e]
        /\ duels'[d].status = "COMPLETED" /\ duels'[d].opponent = a
        /\ duels'[d].result = res
    <3> DEFINE e == [duels[d] EXCEPT !.status = "COMPLETED", !.result = res]
    <3>1. duels' = [duels EXCEPT ![d] = e]
        BY <1>12 DEF FinishCommit
    <3>2. e.status = "COMPLETED" /\ e.opponent = a /\ e.result = res
        BY <1>0, <2>1 DEF TypeOK, Duel
    <3> HIDE DEF e
    <3> QED
        BY <1>0, <2>1, <3>1, <3>2 DEF TypeOK
  <2>3. /\ d \notin Settled /\ Settled' = Settled \union {d}
        /\ \A u \in Users :
               /\ Won(u)' = Won(u) \union
                      (IF \/ res = "CHALLENGER_WIN" /\ Owner[d] = u
                          \/ res = "OPPONENT_WIN" /\ a \in AttemptIds /\ Owner[a] = u
                       THEN {d} ELSE {})
               /\ Drawn(u)' = Drawn(u) \union
                      (IF res = "DRAW" /\ a \in AttemptIds /\ u \in {Owner[d], Owner[a]}
                       THEN {d} ELSE {})
    <3>1. duels[d].status # "COMPLETED" /\ Users # {}
        BY <1>1, <2>1
    <3> QED
        BY <2>1, <2>2, <3>1, OneMoreSettled
  <2>4. /\ first = IF res = "OPPONENT_WIN" THEN v ELSE Owner[d]
        /\ second = IF res = "OPPONENT_WIN" THEN Owner[d] ELSE v
      BY <2>1 DEF First, Second
  <2>5. ASSUME NEW u \in Users PROVE Matches(u)'
    <3> DEFINE X == IF u = v THEN {row} ELSE {}
               A == IF u = v THEN {a} ELSE {}
               y == BonusRow(u, d)
               W == IF res # "DRAW" /\ u = first THEN {d} ELSE {}
               D == IF res = "DRAW" /\ u \in {first, second} THEN {d} ELSE {}
               Y == IF res # "DRAW" /\ u = first THEN {y} ELSE {}
    <3>1. Won(u)' = Won(u) \union W
        BY <1>1, <2>1, <2>3, <2>4 DEF Outcome
    <3>2. Drawn(u)' = Drawn(u) \union D
        BY <1>1, <2>1, <2>3, <2>4
    <3>3. y \notin ledger /\ y.amount = DuelBonus /\ y # row
      <4>1. ~Paid(y)
          BY <2>1, NoBonusPaid
      <4> QED
          BY <4>1 DEF BonusRow, AttemptRow, Paid
    <3>4. RowsOf(u)' = (RowsOf(u) \union X) \union Y
        BY <1>3, <1>5, <1>6, <1>12 DEF RowsOf, BonusRow
    <3>5. /\ Wins(r, u) <=> W # {}
          /\ Draws(r, u) <=> D # {}
        BY <1>7, <1>12
    <3>6. /\ X = {} \/ X = {row}
          /\ A = {} \/ A = {a}
          /\ W = {} \/ W = {d}
          /\ D = {} \/ D = {d}
          /\ Y = {} \/ Y = {y}
          /\ X = {} <=> u # v
          /\ A = {} <=> u # v
          /\ Y = {} <=> W = {}
        OBVIOUS
    <3>7. Own(u)' = Own(u) \union A
        BY <1>9
    <3> HIDE DEF X, A, W, D, Y, y
    <3>8. Grows(u, a, A, d, W, D, row, X, y, Y)
        BY <1>2, <1>3, <1>10, <2>3, <3>1, <3>2, <3>3, <3>4, <3>5, <3>6, <3>7 DEF Grows
    <3> QED
        BY <1>0, <3>8, MatchesGrows
  <2>6. IsFiniteSet(Settled')
      BY <2>3, FS_AddElement DEF HistoryRight
  <2> QED
      BY <1>8, <2>5, <2>6 DEF HistoryRight
<1> QED
    BY <1>11, <1>12

\* A bot duel that is won is counted and paid together.
LEMMA BotHistory ==
    ASSUME IInv, EarningsRight, HistoryRight, NEW r \in Requests, BotCommit(r)
    PROVE  HistoryRight'
<1> PICK d : d = tx[r].attempt
    OBVIOUS
<1> PICK v : v = Owner[d]
    OBVIOUS
<1> PICK res : res = tx[r].result
    OBVIOUS
<1> PICK won : won = IF res = "CHALLENGER_WIN" THEN {BonusRow(v, d)} ELSE {}
    OBVIOUS
<1>0. TypeOK
    BY DEF IInv
<1>1. /\ tx[r].pc = "botCommit" /\ d \in AttemptIds /\ v \in Users
      /\ duels[d].status # "COMPLETED" /\ res \in Outcome /\ tx[r].rows = won
  <2>1. tx[r].pc = "botCommit" /\ BotPlaying(r) /\ BotFacts(r)
      BY DEF BotCommit, BotPlaying, IInv, RequestFacts
  <2>2. /\ d \in AttemptIds /\ duels[d] = NoDuel /\ res \in Outcome
        /\ tx[r].rows = IF res = "CHALLENGER_WIN" THEN {BonusRow(v, d)} ELSE {}
      BY <2>1 DEF BotFacts
  <2>3. v \in Users /\ NoDuel.status # "COMPLETED"
      BY <2>2, RulesAssumption DEF NoDuel
  <2> QED
      BY <2>1, <2>2, <2>3
<1>2. /\ UNCHANGED <<attempts, progress>> /\ ledger' = ledger \union won
    BY <1>1 DEF BotCommit
<1>3. /\ \A e \in AttemptIds \ {d} : duels'[e] = duels[e]
      /\ duels'[d].status = "COMPLETED" /\ duels'[d].opponent = BotAttempt
      /\ duels'[d].result = res
  <2> DEFINE e == [duels[d] EXCEPT !.status = "COMPLETED", !.opponent = BotAttempt,
                                   !.result = res]
  <2>1. duels' = [duels EXCEPT ![d] = e]
      BY DEF BotCommit
  <2>2. e.status = "COMPLETED" /\ e.opponent = BotAttempt /\ e.result = res
      BY <1>0, <1>1 DEF TypeOK, Duel
  <2> HIDE DEF e
  <2> QED
      BY <1>0, <1>1, <2>1, <2>2 DEF TypeOK
<1>4. /\ d \notin Settled /\ Settled' = Settled \union {d}
      /\ \A u \in Users :
             /\ Won(u)' = Won(u) \union
                    (IF res = "CHALLENGER_WIN" /\ u = v THEN {d} ELSE {})
             /\ Drawn(u)' = Drawn(u)
  <2> PICK o : o = BotAttempt
      OBVIOUS
  <2>1. o \notin AttemptIds /\ duels'[d].opponent = o
      BY <1>3, RulesAssumption
  <2>2. ASSUME NEW u \in Users
        PROVE  /\ d \notin Settled /\ Settled' = Settled \union {d}
               /\ Won(u)' = Won(u) \union
                      (IF \/ res = "CHALLENGER_WIN" /\ Owner[d] = u
                          \/ res = "OPPONENT_WIN" /\ o \in AttemptIds /\ Owner[o] = u
                       THEN {d} ELSE {})
               /\ Drawn(u)' = Drawn(u) \union
                      (IF res = "DRAW" /\ o \in AttemptIds /\ u \in {Owner[d], Owner[o]}
                       THEN {d} ELSE {})
      BY <1>1, <1>3, <2>1, OneMoreSettled
  <2>3. ASSUME NEW u \in Users
        PROVE  /\ d \notin Settled /\ Settled' = Settled \union {d}
               /\ Won(u)' = Won(u) \union
                      (IF res = "CHALLENGER_WIN" /\ u = v THEN {d} ELSE {})
               /\ Drawn(u)' = Drawn(u)
    <3>1. ~(res = "OPPONENT_WIN" /\ o \in AttemptIds /\ Owner[o] = u)
          /\ ~(res = "DRAW" /\ o \in AttemptIds /\ u \in {Owner[d], Owner[o]})
        BY <2>1
    <3>2. Drawn(u)' = Drawn(u) \union {}
        BY <2>2, <3>1
    <3>3. Won(u)' = Won(u) \union (IF res = "CHALLENGER_WIN" /\ Owner[d] = u
                                    THEN {d} ELSE {})
        BY <2>2, <3>1
    <3> QED
        BY <2>2, <3>2, <3>3
  <2> QED
      BY <1>1, <2>3
<1>5. ASSUME NEW u \in Users
      PROVE  /\ ~Finished(r, u) /\ ~Draws(r, u)
             /\ Wins(r, u) <=> res = "CHALLENGER_WIN" /\ u = v
    BY <1>1 DEF Finished, Wins, Draws
<1>6. \A u \in Users :
          /\ stats'[u].xp = stats[u].xp + 0
                                + (IF res = "CHALLENGER_WIN" /\ u = v THEN DuelBonus ELSE 0)
          /\ stats'[u].attempts = stats[u].attempts + 0
          /\ stats'[u].won = stats[u].won
                                + (IF res = "CHALLENGER_WIN" /\ u = v THEN 1 ELSE 0)
          /\ stats'[u].drawn = stats[u].drawn + 0
    BY <1>5, CommitAdds DEF Adds
<1>7. ASSUME NEW u \in Users PROVE Matches(u)'
  <2> DEFINE y == BonusRow(u, d)
             x == BonusRow(u, NoAttempt)
             W == IF res = "CHALLENGER_WIN" /\ u = v THEN {d} ELSE {}
             Y == IF res = "CHALLENGER_WIN" /\ u = v THEN {y} ELSE {}
  <2>1. Won(u)' = Won(u) \union W /\ Drawn(u)' = Drawn(u) \union {}
      BY <1>4
  <2>2. y \notin ledger /\ y.amount = DuelBonus
    <3>1. ~Paid(y)
        BY <1>1, NoBonusPaid
    <3> QED
        BY <3>1 DEF BonusRow, Paid
  <2>3. x \notin ledger /\ x.amount \in Nat /\ y # x
      BY <1>0, <1>1, NoSuchRow, RulesAssumption DEF BonusRow, DuelBonus
  <2>4. RowsOf(u)' = (RowsOf(u) \union {}) \union Y
      BY <1>2 DEF RowsOf, BonusRow
  <2>5. Own(u)' = Own(u) \union {} /\ NoAttempt \notin Completed
      BY <1>2, RulesAssumption DEF Own, Completed
  <2>6. progress'[u] = progress[u] + 0
      BY <1>0, <1>2 DEF TypeOK
  <2>7. /\ W \in {{}, {d}} /\ Y \in {{}, {y}}
        /\ Y = {} <=> ~(res = "CHALLENGER_WIN" /\ u = v)
        /\ W = {} <=> ~(res = "CHALLENGER_WIN" /\ u = v)
      OBVIOUS
  <2> HIDE DEF x, y, W, Y
  <2>8. Grows(u, NoAttempt, {}, d, W, {}, x, {}, y, Y)
      BY <1>4, <1>6, <2>1, <2>2, <2>3, <2>4, <2>5, <2>6, <2>7 DEF Grows
  <2> QED
      BY <1>0, <2>8, MatchesGrows
<1>8. IsFiniteSet(Completed') /\ IsFiniteSet(Settled') /\ IsFiniteSet(ledger')
  <2>1. IsFiniteSet(Settled \union {d}) /\ IsFiniteSet(ledger \union {BonusRow(v, d)})
      BY FS_AddElement DEF HistoryRight
  <2>2. Completed' = Completed
      BY <1>2 DEF Completed
  <2> QED
      BY <1>2, <1>4, <2>1, <2>2 DEF HistoryRight
<1> QED
    BY <1>7, <1>8 DEF HistoryRight

\* Nothing else completes an attempt or settles a duel, or touches a total.
LEMMA OtherHistory ==
    ASSUME IInv, HistoryRight, [Next]_vars, UNCHANGED <<ledger, stats, progress>>,
           Completed' = Completed, Settled' = Settled
    PROVE  HistoryRight'
<1>1. \A d \in Settled : duels'[d] = duels[d]
    BY StepKeepsCompleted DEF KeepsCompleted, Settled
<1>2. ASSUME NEW u \in Users PROVE Matches(u)'
  <2>1. /\ Own(u)' = Own(u) /\ RowsOf(u)' = RowsOf(u)
        /\ Won(u)' = Won(u) /\ Drawn(u)' = Drawn(u)
      BY <1>1 DEF Own, RowsOf, Won, Drawn
  <2> QED
      BY <2>1 DEF HistoryRight, Matches
<1> QED
    BY <1>2 DEF HistoryRight

\* Every step keeps the totals equal to the history.
LEMMA StepHistory ==
    IInv /\ EarningsRight /\ HistoryRight /\ [Next]_vars => HistoryRight'
<1> SUFFICES ASSUME IInv, EarningsRight, HistoryRight, [Next]_vars PROVE HistoryRight'
    OBVIOUS
<1>0. attempts \in [AttemptIds -> Attempt] /\ duels \in [AttemptIds -> Duel]
    BY DEF IInv, TypeOK
<1>1. CASE UNCHANGED <<attempts, duels, ledger, stats, progress>>
  <2>1. Completed' = Completed /\ Settled' = Settled
      BY <1>1 DEF Completed, Settled
  <2> QED
      BY <1>1, <2>1, OtherHistory
<1>2. ASSUME NEW a \in AttemptIds, StartAttempt(a) \/ CreateDuel(a) \/ Expire(a)
      PROVE  HistoryRight'
  <2>1. UNCHANGED <<ledger, stats, progress>>
      BY <1>2 DEF StartAttempt, CreateDuel, Expire
  <2>2. Completed' = Completed
      BY <1>0, <1>2 DEF StartAttempt, CreateDuel, Expire, Completed, Attempt
  <2>3. Settled' = Settled
    <3>1. CASE StartAttempt(a)
        BY <3>1 DEF StartAttempt, Settled
    <3>2. CASE CreateDuel(a)
        BY <1>0, <3>2 DEF CreateDuel, Settled, Duel, NoDuel
    <3>3. CASE Expire(a)
        BY <1>0, <3>3 DEF Expire, Settled, Duel
    <3> QED
        BY <1>2, <3>1, <3>2, <3>3
  <2> QED
      BY <2>1, <2>2, <2>3, OtherHistory
<1>3. ASSUME NEW d \in AttemptIds, NEW a \in AttemptIds, AcceptDuel(d, a)
      PROVE  HistoryRight'
  <2>1. Completed' = Completed /\ UNCHANGED <<ledger, stats, progress>>
      BY <1>0, <1>3 DEF AcceptDuel, Completed, Attempt
  <2>2. Settled' = Settled
      BY <1>0, <1>3 DEF AcceptDuel, MayAccept, Settled, Duel
  <2> QED
      BY <2>1, <2>2, OtherHistory
<1>4. ASSUME NEW r \in Requests, SubmitSave(r) PROVE HistoryRight'
  <2>1. Settled' = Settled /\ UNCHANGED <<ledger, stats, progress>>
      BY <1>4 DEF SubmitSave, Settled
  <2>2. Completed' = Completed
      BY <1>0, <1>4 DEF SubmitSave, Completed, Attempt
  <2> QED
      BY <2>1, <2>2, OtherHistory
<1> QED
    BY <1>1, <1>2, <1>3, <1>4, FinishHistory, BotHistory, Writers

\* Before the first attempt the totals are zero.
LEMMA InitHistory == Init => HistoryRight
<1> SUFFICES ASSUME Init PROVE HistoryRight
    OBVIOUS
<1>1. Completed = {} /\ Settled = {} /\ ledger = {}
    BY DEF Init, Completed, Settled, NoDuel
<1>2. ASSUME NEW u \in Users
      PROVE  Own(u) = {} /\ Won(u) = {} /\ Drawn(u) = {} /\ RowsOf(u) = {}
    BY <1>1 DEF Own, Won, Drawn, RowsOf
<1>3. ASSUME NEW u \in Users PROVE Matches(u)
    BY <1>2, FS_EmptySet, AmountSumStep DEF Matches, Init
<1> QED
    BY <1>1, <1>3, FS_EmptySet DEF HistoryRight

\* A student's running totals are what the ledger, the completed attempts
\* and the settled duels add up to, however many requests run at once
\* (_update_stats, _update_topic_progress, _maybe_complete_duel).
THEOREM TotalsAreRight == Spec => []TotalsMatchHistory
<1>1. Init => IInv /\ EarningsRight /\ HistoryRight
    BY InitIInv, InitEarnings, InitHistory
<1>2. IInv /\ EarningsRight /\ HistoryRight /\ [Next]_vars
          => (IInv /\ EarningsRight /\ HistoryRight)'
    BY StepIInv, StepEarnings, StepHistory
<1>3. HistoryRight => TotalsMatchHistory
    BY DEF HistoryRight, Matches, TotalsMatchHistory, AmountSum, Own, Drawn, RowsOf
<1> QED
    BY <1>1, <1>2, <1>3, PTL DEF Spec
=============================================================================
