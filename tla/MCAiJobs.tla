------------------------------ MODULE MCAiJobs ------------------------------
(* Instances of AiJobs for TLC.                                            *)
EXTENDS AiJobs, TLC

CONSTANTS ann, bob, p1, p2

MCRequester == [j \in Jobs |-> IF bob \in Users /\ j = 3 THEN bob ELSE ann]

Symmetry == Permutations(Procs)
=============================================================================
