---------------------------- MODULE JobLifecycle ----------------------------
(* What the generation queue promises of a job, without workers, claims,   *)
(* crashes or recovery (AiJobStatus in server/core/enums.py).              *)
(*                                                                         *)
(* An accepted job stays open until it delivers one set of questions or    *)
(* gives up; only a job that gave up is ever opened again.                 *)
EXTENDS Integers

CONSTANT Jobs

VARIABLES state, delivered

lifecycle == <<state, delivered>>

Init == /\ state = [j \in Jobs |-> "ABSENT"]
        /\ delivered = [j \in Jobs |-> 0]

\* Accepted by generate_challenge, or sent back by admin_retry_ai_job.
Open(j) == /\ state[j] \in {"ABSENT", "FAILED"}
           /\ state' = [state EXCEPT ![j] = "OPEN"]
           /\ UNCHANGED delivered

Deliver(j) == /\ state[j] = "OPEN"
              /\ state' = [state EXCEPT ![j] = "COMPLETED"]
              /\ delivered' = [delivered EXCEPT ![j] = @ + 1]

GiveUp(j) == /\ state[j] = "OPEN"
             /\ state' = [state EXCEPT ![j] = "FAILED"]
             /\ UNCHANGED delivered

Next == \E j \in Jobs : Open(j) \/ Deliver(j) \/ GiveUp(j)

Spec == Init /\ [][Next]_lifecycle
=============================================================================
