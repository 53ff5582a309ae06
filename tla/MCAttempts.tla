----------------------------- MODULE MCAttempts -----------------------------
(* Instances of Attempts for TLC.                                          *)
EXTENDS Attempts, TLC

CONSTANTS ann, bob, a1, a2, b1, b2, q1, q2, r1, r2, r3

\* An identifier belongs to the student it is named for.
MCOwner == [a \in AttemptIds |-> IF a \in {a1, a2} THEN ann ELSE bob]
MCPoints == [q \in Questions |-> IF q = q1 THEN 1 ELSE 2]

\* Requests are interchangeable, and so are one student's identifiers.
Symmetry == Permutations(Requests)
              \union Permutations(AttemptIds \intersect {a1, a2})
              \union Permutations(AttemptIds \intersect {b1, b2})

\* A state the students reach without any race: each has completed an
\* attempt, challenged the other with it and accepted the other's
\* challenge, and has answered everything but not finished, so that an answer
\* can still be changed while the finishes run.
Crosswise ==
    LET right == [q \in Questions |-> "right"]
        done == {a1, b1}
    IN  /\ attempts = [a \in AttemptIds |->
              [status |-> IF a \in done THEN "COMPLETED" ELSE "IN_PROGRESS",
               answers |-> right, duration |-> IF a \in done THEN 1 ELSE 0]]
        /\ duels = [d \in AttemptIds |->
              IF d \in done THEN [NoDuel EXCEPT !.status = "ACCEPTED",
                                  !.opponent = IF d = a1 THEN b2 ELSE a2]
                            ELSE NoDuel]
        /\ ledger = {AttemptRow(a, right) : a \in done}
        /\ stats = [u \in Users |-> [xp |-> XpOf(right), attempts |-> 1,
                                     won |-> 0, lost |-> 0, drawn |-> 0]]
        /\ progress = [u \in Users |-> 1]
        /\ ready = TRUE
        /\ tx = [r \in Requests |-> Idle]
        /\ held = [r \in Requests |-> {}]

CrosswiseSpec == Crosswise /\ [][Next]_vars /\ Fairness
=============================================================================
