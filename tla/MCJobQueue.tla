---------------------------- MODULE MCJobQueue ----------------------------
(* Small instances of JobQueue for TLC. *)
EXTENDS JobQueue, TLC

\* One frequent and urgent target, one that is collected every two ticks.
MCInterval == [t \in Targets |-> IF t = "book" THEN 1 ELSE 2]
MCPriority == [t \in Targets |-> IF t = "book" THEN 10 ELSE 20]
MCMaxRetry == [t \in Targets |-> IF t = "book" THEN 2 ELSE 0]

WorkerSymmetry == Permutations(Workers)
===========================================================================
