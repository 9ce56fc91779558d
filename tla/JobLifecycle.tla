---------------------------- MODULE JobLifecycle ----------------------------
(***************************************************************************)
(* What an ingestion job promises to a client that polls its status: it    *)
(* is accepted, tried a bounded number of times, and reaches one outcome   *)
(* that never changes while the job exists.                                *)
(***************************************************************************)
EXTENDS Naturals

CONSTANTS Jobs, MaxAttempts

VARIABLES status, attempts

Outcomes == {"INDEXED", "FAILED"}

Init ==
    /\ status = [j \in Jobs |-> "NONE"]
    /\ attempts = [j \in Jobs |-> 0]

Accept(j) ==
    /\ status[j] = "NONE"
    /\ status' = [status EXCEPT ![j] = "PENDING"]
    /\ UNCHANGED attempts

Try(j) ==
    /\ status[j] \in {"PENDING", "PROCESSING"}
    /\ attempts[j] < MaxAttempts
    /\ status' = [status EXCEPT ![j] = "PROCESSING"]
    /\ attempts' = [attempts EXCEPT ![j] = @ + 1]

\* The outcome of an attempt, or the refusal of the queue.
Conclude(j, outcome) ==
    /\ \/ status[j] = "PROCESSING"
       \/ status[j] = "PENDING" /\ outcome = "FAILED"
    /\ status' = [status EXCEPT ![j] = outcome]
    /\ UNCHANGED attempts

\* A deletion takes every job of the document at once.
Remove(js) ==
    /\ \A j \in js : status[j] \notin {"NONE", "DELETED"}
    /\ status' = [j \in Jobs |-> IF j \in js THEN "DELETED" ELSE status[j]]
    /\ attempts' = [j \in Jobs |-> IF j \in js THEN 0 ELSE attempts[j]]

Next ==
    \/ \E j \in Jobs :
          \/ Accept(j)
          \/ Try(j)
          \/ \E outcome \in Outcomes : Conclude(j, outcome)
    \/ \E js \in SUBSET Jobs : Remove(js)

\* What a job may do.
SafeSpec == Init /\ [][Next]_<<status, attempts>>

\* And what it has to: an attempt that can be concluded is.
Spec == /\ SafeSpec
        /\ \A j \in Jobs :
              WF_<<status, attempts>>(\E outcome \in Outcomes : Conclude(j, outcome))
=============================================================================
