----------------------------- MODULE MCWorker -----------------------------
(* What a worker's pass over the queue rests on, with its progress: the      *)
(* circuit breaker three calls share, the queue (two collectors that crash   *)
(* and overtake each other on one job, one that abandons a batch of two, and *)
(* two that share a batch without a crash) and one execution of a job.  The  *)
(* three share no state; one acts and the others rest: scene says which, and *)
(* fairness is that of the component's own module.                           *)
EXTENDS CircuitBreaker, JobQueue, Collector, TLC

CONSTANTS w1, w2

VARIABLE scene

allVars == <<scene, vars, queueVars, collectorVars>>

-----------------------------------------------------------------------------
InBreaker(A) == scene = "breaker" /\ A /\ UNCHANGED <<scene, queueVars, collectorVars>>

ForTargets(book, funding) == [t \in Targets |-> IF t = "book" THEN book ELSE funding]

\* One frequent and urgent target, and one that is not retried.
TargetInterval == ForTargets(1, 2)
TargetPriority == ForTargets(10, 20)
TargetMaxRetry == ForTargets(2, 0)

InQueue(A) ==
    /\ scene \in {"overlap", "batch", "both"} /\ A
    /\ scene = "overlap" => \A k \in JobKeys : k[1] # "book" => jobs'[k] = NoRow
    /\ scene = "batch" => tx'[w2] = NoTx
    /\ scene = "both" => crashes' = 0
    /\ UNCHANGED <<scene, vars, collectorVars>>

-----------------------------------------------------------------------------
(* A snapshot that carries open interest and funding, next to a rejected     *)
(* one; a poll of small and large liquidations and flows; an empty answer.   *)

Rec(kind, id, valid, has) == [kind |-> kind, id |-> id, valid |-> valid, has |-> has, bucket |-> 100]

Results ==
    {Result({}),
     Result({Rec("market", 1, TRUE, {"oi", "funding"}), Rec("market", 2, FALSE, {"oi"}),
             Rec("oi", 3, TRUE, {}), Rec("funding_history", 4, FALSE, {})}),
     Result({Rec("liquidation", 5, TRUE, {"large"}), Rec("liquidation", 6, TRUE, {}),
             Rec("taker_flow", 7, TRUE, {"delta"}), Rec("taker_flow", 8, TRUE, {"delta"})})}

Said == {{}, {"parse"}, {"normalize", "parse"}, {"placeholder"}, {"rate limit", "parse"}}

InCollector(A) == scene = "execute" /\ A /\ UNCHANGED <<scene, vars, queueVars>>

-----------------------------------------------------------------------------
AllInit ==
    /\ scene \in {"breaker", "overlap", "batch", "both", "execute"}
    /\ Init /\ QueueInit /\ CollectorInit
    /\ scene # "execute" => dataType = "funding"

AllNext == InBreaker(Next) \/ InQueue(QueueNext) \/ InCollector(CollectorNext)

\* The fairness of the modules.  A behaviour stays in its scene, so weak fairness
\* of a disjunction over scenes is weak fairness of each disjunct in its own.
AllFairness ==
    /\ WF_allVars(InBreaker(Tick) \/ InQueue(QueueTick) \/ InCollector(CollectorStep))
    /\ WF_allVars(InQueue(RecoverInterrupted))
    /\ \A w \in {w1, w2} : WF_allVars(InQueue(Collector(w)))
    /\ \A c \in Callers : WF_allVars(InBreaker(Verdict(c))) /\ WF_allVars(InBreaker(Allow(c)))

AllSpec == AllInit /\ [][AllNext]_allVars /\ AllFairness

-----------------------------------------------------------------------------
\* Every execution of a job ends it or leads to another one, so the job is
\* finished in the end, whatever fails (worker.go:92-170, collector.go:40-118).
ExecutionEnds == scene = "execute" => EveryJobEnds
===========================================================================
