---------------------------- MODULE MCProgress ----------------------------
(* What must eventually happen, on instances small enough for liveness: the  *)
(* CVD settles, observed events are written, retention runs end, callers of  *)
(* the rate limiter are admitted.  One component acts, the others rest:      *)
(* scene says which, and fairness is that of the component's own module.     *)
EXTENDS RateLimiter, Sequences, FiniteSets, TLC

CONSTANTS w1, w2, Nil

VARIABLES
    scene,
    exchange, revisions, takerFlows, cvd, answer, at, previous, deaths, \* TakerFlows
    behind,
    buffer, flush, events, stamp, sink, newest, written, dropped,       \* SnapshotWorker
    raced, observed, time, sinkFaults,
    now, klines, cleanupRuns, rollupRuns, item, plan, parts, deleted,   \* Retention
    expired, late, runs, faults

flowVars      == <<exchange, revisions, takerFlows, cvd, answer, at, previous, deaths, behind>>
bufferVars    == <<buffer, flush, events, stamp, sink, newest, written, dropped, raced,
                   observed, time, sinkFaults>>
retentionVars == <<now, klines, cleanupRuns, rollupRuns, item, plan, parts, deleted,
                   expired, late, runs, faults>>
allVars == <<scene, vars, flowVars, bufferVars, retentionVars>>

-----------------------------------------------------------------------------
InLimiter(A) ==
    scene = "limiter" /\ A /\ UNCHANGED <<scene, flowVars, bufferVars, retentionVars>>

Bought   == [buy |-> 2, sell |-> 1]
Unparsed == [buy |-> Nil, sell |-> 1]

Cumulated == INSTANCE TakerFlows WITH
    Collectors <- {w1, w2}, Flows <- {Bought, Unparsed},
    Periods <- 3, Window <- 2, Orders <- {"asc", "desc"}, MaxRevisions <- 1, MaxDeaths <- 0,
    todo <- answer

InFlows(A) ==
    scene = "cvd" /\ A /\ UNCHANGED <<scene, vars, bufferVars, retentionVars>>

Buffered == INSTANCE SnapshotWorker WITH
    Keys <- {"k1"}, Flushers <- {w1, w2}, BadKey <- "bad", Bucket <- 2,
    MaxEvents <- 3, MaxTime <- 1, MaxFaults <- 2,
    latest <- buffer, pc <- flush, now <- time, faults <- sinkFaults

InBuffer(A) ==
    scene = "buffer" /\ A /\ UNCHANGED <<scene, vars, flowVars, retentionVars>>

Policy ==
    [id |-> 1, priority |-> 10, enabled |-> TRUE, interval |-> "1m",
     retentionDays |-> 1, minRetentionDays |-> 1, chunkSize |-> 1, maxRowsPerRun |-> 3,
     dryRun |-> FALSE, rollupBeforeDelete |-> TRUE, partitionStrategy |-> "delete"]

Cleanup == INSTANCE Retention WITH
    Width <- "1m" :> 1 @@ "5m" :> 2, klineRollups <- "1m" :> "5m", Collected <- {"1m"},
    Policies <- {Policy}, Tables <- {{Policy}}, MinRetentionDays <- 1, Partitions <- {},
    OptionMaxRows <- 0, DiskPressureCritical <- FALSE, MaxTime <- 3,
    MaxRuns <- 1, MaxFaults <- 1, MaxLate <- 2,
    pc <- item

InRetention(A) ==
    scene = "retention" /\ A /\ UNCHANGED <<scene, vars, flowVars, bufferVars>>

ASSUME
    /\ Cumulated!TakerFlowsAssumption /\ Buffered!SnapshotAssumption
    /\ Cleanup!RetentionAssumption

-----------------------------------------------------------------------------
AllInit ==
    /\ scene \in {"limiter", "cvd", "buffer", "retention"}
    /\ Init /\ Cumulated!Init /\ Buffered!BufferInit /\ Cleanup!Init
    /\ exchange = IF scene = "cvd" THEN <<Bought, Bought>> ELSE <<>>

AllNext ==
    \/ InLimiter(Next) \/ InFlows(Cumulated!Next)
    \/ InBuffer(Buffered!BufferNext) \/ InRetention(Cleanup!Next)

\* The fairness of the modules.  A behaviour stays in its scene, so weak fairness
\* of a disjunction over scenes is weak fairness of each disjunct in its own.
AllFairness ==
    /\ WF_allVars(InLimiter(Tick) \/ InRetention(Cleanup!Step))
    /\ \A w \in {w1, w2} :
          WF_allVars(\/ InLimiter(w \in Callers /\ Reserve(w))
                     \/ InFlows(Cumulated!Collect(w)) \/ InBuffer(Buffered!FlushStep(w)))

AllSpec == AllInit /\ [][AllNext]_allVars /\ AllFairness

-----------------------------------------------------------------------------
\* However two collectors interleave on the same flows and whatever order the
\* answers come in, the CVD of the periods still answered settles once trading has
\* stopped: every one has a row, with the exchange's last word as its delta, and
\* each row is the row before it plus its delta (advanced.go:171-210, 667-690).
Settles == scene = "cvd" => Cumulated!Settles

\* Every event Observe takes is written by some later Flush, or a newer one of its
\* key is, unless a failing sink makes Flush put an older one back over it, and
\* provided that the sink does not fail for ever (snapshot.go:41-81).
EventuallyWritten == Buffered!EventuallyWritten

\* A retention process that is not killed comes to its end, although collectors
\* keep writing rows its policy matches (engine.go:79-181).
RunEnds == Cleanup!RunEnds
=============================================================================
