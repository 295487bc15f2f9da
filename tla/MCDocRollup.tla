---------------------------- MODULE MCDocRollup ----------------------------
(* One policy that rolls 1m candles up to 5m, two periods long here, before  *)
(* it deletes them, one row a run, over two runs without a fault.  Candles   *)
(* come in when they close, and never late.                                  *)
EXTENDS Retention, TLC

Widths == "1m" :> 1 @@ "5m" :> 2
Rollups == "1m" :> "5m"

OnePolicy ==
    {[id |-> 1, priority |-> 10, enabled |-> TRUE, interval |-> "1m",
      retentionDays |-> 1, minRetentionDays |-> 1, chunkSize |-> 1, maxRowsPerRun |-> 1,
      dryRun |-> FALSE, rollupBeforeDelete |-> TRUE, partitionStrategy |-> "delete"]}
OneTable == {OnePolicy}
=============================================================================
