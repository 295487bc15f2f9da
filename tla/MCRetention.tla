---------------------------- MODULE MCRetention ----------------------------
(* Two scenes.  "history": one policy whose candles are rolled up and then   *)
(* deleted in chunks, over two runs, with a failing statement.  "policies":  *)
(* one run over four policies with a row budget of one.  Candles are of 1m   *)
(* and 5m; a 5m kline covers two periods here, which is enough for a cutoff  *)
(* inside a bucket.  1h and 1d have no candles.                              *)
EXTENDS Retention, TLC

VARIABLE scene

Widths == "1m" :> 1 @@ "5m" :> 2 @@ "1h" :> 4 @@ "1d" :> 4
Rollups == "1m" :> "5m"
OnePartition == {[from |-> 0, to |-> 2]}

Policy(id, interval, maxRowsPerRun, rollup, dryRun, strategy) ==
    [id |-> id, priority |-> 10, enabled |-> TRUE, interval |-> interval,
     retentionDays |-> 1, minRetentionDays |-> 1, chunkSize |-> 2,
     maxRowsPerRun |-> maxRowsPerRun, dryRun |-> dryRun, rollupBeforeDelete |-> rollup,
     partitionStrategy |-> strategy]

\* The run's own limit is below this one.
OnePolicy == {Policy(1, "1m", 4, TRUE, FALSE, "delete")}

\* Candles rolled up and deleted, a dry run, a partition dropped by a policy of
\* another interval, and a rollup that has no target.
FourPolicies ==
    {Policy(1, "1m", 1, TRUE, FALSE, "delete"), Policy(2, "5m", 1, FALSE, TRUE, "auto"),
     Policy(3, "1h", 1, FALSE, FALSE, "auto"), Policy(4, "1d", 1, TRUE, FALSE, "delete")}

AllPolicies == OnePolicy \cup FourPolicies
BothTables == {OnePolicy, FourPolicies}

ASSUME RetentionAssumption

\* The table that a scene's runs read, and what else bounds it.
InScene ==
    \/ scene = "history" /\ Len(plan') <= 1
    \/ /\ scene = "policies" /\ now' <= 3 /\ runs' <= 1 /\ faults' = 0
       /\ pc = "idle" => Len(plan') # 1

SceneInit == scene \in {"history", "policies"} /\ Init
SceneNext == Next /\ InScene /\ UNCHANGED scene
SceneSpec == SceneInit /\ [][SceneNext]_<<scene, vars>>
=============================================================================
