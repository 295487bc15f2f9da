---------------------------- MODULE JobLifecycle ----------------------------
(***************************************************************************)
(* What the collection-job queue promises of one job, whatever collectors, *)
(* crashes and recoveries do: it is queued once, leased to one collector   *)
(* at a time, completed or buried at most once, and re-queued after a      *)
(* failure only while it has failed fewer times than its limit, the rule   *)
(* that docs/scheduler.md gives.  A queue may give up sooner.  The promise *)
(* ends for a job whose lease is taken from a collector that is still      *)
(* working on it: such a job is contested, and nothing is said of it any   *)
(* more.                                                                   *)
(***************************************************************************)
EXTENDS Naturals

CONSTANTS Jobs, Limit

VARIABLES
    state,      \* job -> its stage
    failures    \* job -> failed attempts reported so far

Init ==
    /\ state = [j \in Jobs |-> "absent"]
    /\ failures = [j \in Jobs |-> 0]

Move(S, from, to) ==
    /\ \A j \in S : state[j] = from
    /\ state' = [j \in Jobs |-> IF j \in S THEN to ELSE state[j]]

Fail(j) == failures' = [failures EXCEPT ![j] = @ + 1]

Enqueue(S) == Move(S, "absent", "queued") /\ UNCHANGED failures

Lease(S) == Move(S, "queued", "leased") /\ UNCHANGED failures

Complete(j) == Move({j}, "leased", "done") /\ UNCHANGED failures

Retry(j) ==
    /\ Move({j}, "leased", "queued")
    /\ failures[j] < Limit[j]
    /\ Fail(j)

Bury(j) ==
    /\ Move({j}, "leased", "buried")
    /\ failures[j] <= Limit[j]
    /\ Fail(j)

\* The leases of S run out; the holders of the jobs in T still work on them.
Expire(S, T) ==
    /\ \A j \in S : state[j] = "leased"
    /\ state' = [j \in Jobs |-> IF j \in T THEN "contested"
                                ELSE IF j \in S THEN "queued"
                                ELSE state[j]]
    /\ failures' = [j \in Jobs |-> IF j \in T THEN 0 ELSE failures[j]]

Next ==
    \/ \E S \in SUBSET Jobs : Enqueue(S) \/ Lease(S)
    \/ \E j \in Jobs : Complete(j) \/ Retry(j) \/ Bury(j)
    \/ \E S \in SUBSET Jobs : \E T \in SUBSET S : Expire(S, T)

Spec == Init /\ [][Next]_<<state, failures>>
=============================================================================
