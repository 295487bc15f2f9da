----------------------------- MODULE Retention -----------------------------
(***************************************************************************)
(* The retention service on derivative_klines for one instrument: RunOnce  *)
(* plans the enabled policies and takes each of them through start, count, *)
(* roll up, drop partitions or delete in chunks, finish, while collectors  *)
(* keep writing klines.  Every SQL statement is one action, and every      *)
(* statement can fail, find its context expired, or be the last of a       *)
(* process that dies.                                                      *)
(*                                                                         *)
(* Abstractions.  Time is counted in periods of the finest interval.  What *)
(* a kline says is reduced to the set of such periods its high, low, close *)
(* and volume account for, and to the period its open price is from: a sum *)
(* or a maximum over rows is the union of their periods.  A failed         *)
(* statement has no effect.  The other tables have neither an interval nor *)
(* a rollup and are the special case of a policy without one.              *)
(***************************************************************************)
EXTENDS Integers, Sequences, FiniteSets, Functions

CONSTANTS
    Width,                 \* interval -> its length
    klineRollups,          \* interval -> the next coarser one, where there is one
    Collected,             \* intervals the collectors write
    Policies,              \* rows data_retention_policies may have
    Tables,                \* sets of them it may hold when a run reads it
    MinRetentionDays,      \* of the table's TableSpec
    Partitions,            \* child tables as records [from, to]; to is exclusive
    OptionMaxRows,         \* RETENTION_MAX_ROWS_PER_RUN, 0 when unset
    DiskPressureCritical,
    MaxTime, MaxRuns,      \* bounds of the model: time, retention processes,
    MaxFaults,             \* failed statements and crashes together,
    MaxLate                \* how old a kline a collector still writes

Intervals == DOMAIN Width

RetentionAssumption ==
    /\ Width \in [Intervals -> Nat \ {0}] /\ Collected \subseteq Intervals
    /\ \A i \in DOMAIN klineRollups :
          /\ i \in Intervals /\ klineRollups[i] \in Intervals
          /\ Width[klineRollups[i]] > Width[i]
          /\ Width[klineRollups[i]] % Width[i] = 0
    /\ \A table \in Tables : table \subseteq Policies /\ IsFiniteSet(table)
    /\ \A p \in Policies :
          /\ {p.retentionDays, p.minRetentionDays, p.chunkSize, p.maxRowsPerRun} \subseteq Int
          /\ {p.enabled, p.dryRun, p.rollupBeforeDelete} \subseteq BOOLEAN
    /\ \A t \in Partitions : t.from \in Int /\ t.to \in Int
    /\ OptionMaxRows \in Int /\ MinRetentionDays \in Int /\ DiskPressureCritical \in BOOLEAN
    /\ MaxTime \in Nat /\ MaxRuns \in Nat /\ MaxFaults \in Nat /\ MaxLate \in Nat

VARIABLES
    now,
    klines,      \* [interval, open] -> [closed, ticks, opened], for the rows there are
    cleanupRuns, \* data_cleanup_runs: [policy, cutoff] -> status
    rollupRuns,  \* data_rollup_runs: [policy, cutoff] -> status
    pc,          \* where RunPlanItem is
    plan,        \* the items left, the current one first
    parts,       \* partitions left to drop
    deleted,     \* result.RowsDeleted
    expired,     \* the item's context has timed out
    late,        \* history: klines written since the item's rollup
    runs, faults  \* used up of MaxRuns and MaxFaults

engine == <<pc, plan, parts, deleted, expired>>
audits == <<cleanupRuns, rollupRuns>>
vars == <<now, klines, audits, engine, late, runs, faults>>

Item == Head(plan)
RunKey == [policy |-> Item.policy.id, cutoff |-> Item.cutoff]
Empty == [k \in {} |-> k]

\* INSERT ... ON CONFLICT DO UPDATE of rows, or of one row.
Upsert(table, rows) ==
    [k \in DOMAIN table \cup DOMAIN rows |-> IF k \in DOMAIN rows THEN rows[k] ELSE table[k]]
Put(table, key, row) == Upsert(table, [k \in {key} |-> row])

Init ==
    /\ now = 0 /\ klines = Empty
    /\ cleanupRuns = Empty /\ rollupRuns = Empty
    /\ pc = "idle" /\ plan = <<>> /\ parts = {} /\ deleted = 0
    /\ expired = FALSE /\ late = {}
    /\ runs = 0 /\ faults = 0
-----------------------------------------------------------------------------
(* Time and the collectors.                                                *)

Tick ==
    /\ now < MaxTime
    /\ now' = now + 1
    /\ UNCHANGED <<klines, audits, engine, late, runs, faults>>

\* KlineRepository.Upsert of the kline that opened at t, possibly long ago
\* (backfill) and possibly still open.  An existing row keeps its open price.
Collect(i, t) ==
    LET key == [interval |-> i, open |-> t]
        row == [closed |-> t + Width[i] <= now,
                ticks  |-> { n \in t..(t + Width[i] - 1) : n <= now },
                opened |-> IF key \in DOMAIN klines THEN klines[key].opened
                                                    ELSE t]
    IN  /\ t % Width[i] = 0
        /\ klines' = Put(klines, key, row)
        /\ late' = IF pc = "idle" THEN {} ELSE late \cup {key}
        /\ UNCHANGED <<now, audits, engine, runs, faults>>
-----------------------------------------------------------------------------
(* Planning.                                                               *)

MinDays(p) == IF p.minRetentionDays > MinRetentionDays THEN p.minRetentionDays
                                                       ELSE MinRetentionDays

ValidatePolicy(p) ==
    /\ p.retentionDays > 0 /\ p.retentionDays >= MinDays(p)
    /\ p.chunkSize > 0 /\ p.maxRowsPerRun > 0

\* derivative_klines is PartitionPreferred, so "auto" drops as well.
shouldUsePartitionDrop(p) == p.partitionStrategy # "delete"

Before(p, q) ==
    p.priority < q.priority \/ (p.priority = q.priority /\ p.id < q.id)

Enabled(table) == { p \in table : p.enabled }

\* The enabled policies in their order: ids differ, so there is one.
Orders(table) ==
    { order \in [1..Cardinality(Enabled(table)) -> Enabled(table)] :
         \A m, n \in DOMAIN order : m < n => Before(order[m], order[n]) }

PlanFor(order, time) ==
    [n \in DOMAIN order |-> [policy |-> order[n],
                             cutoff |-> time - order[n].retentionDays,
                             drop   |-> shouldUsePartitionDrop(order[n])]]

\* One invalid policy fails the whole plan.  Between two runs the table may be
\* edited; a run works from what it read.
RunOnce ==
    /\ pc = "idle" /\ runs < MaxRuns
    /\ runs' = runs + 1
    /\ \E table \in Tables :
          /\ Enabled(table) # {} /\ \A p \in Enabled(table) : ValidatePolicy(p)
          /\ \E order \in Orders(table) : plan' = PlanFor(order, now)
    /\ pc' = "start"
    /\ parts' = {} /\ deleted' = 0 /\ expired' = FALSE /\ late' = {}
    /\ UNCHANGED <<now, klines, audits, faults>>

\* Mutant: the last item of the plan is taken again.
NextItemNoEnd ==
    /\ plan' = Tail(plan)
    /\ pc' = "start"
    /\ parts' = {} /\ deleted' = 0 /\ expired' = FALSE /\ late' = {}

\* RunPlanItem returns, with or without an error: RunOnce goes on.
NextItem ==
    /\ plan' = Tail(plan)
    /\ pc' = IF Len(plan) = 1 THEN "idle" ELSE "start"
    /\ parts' = {} /\ deleted' = 0 /\ expired' = FALSE /\ late' = {}

Timeout ==
    /\ pc # "idle" /\ ~expired
    /\ expired' = TRUE
    /\ UNCHANGED <<now, klines, audits, pc, plan, parts, deleted, late, runs,
                   faults>>

Crash ==
    /\ pc # "idle" /\ faults < MaxFaults
    /\ faults' = faults + 1
    /\ pc' = "idle" /\ plan' = <<>> /\ parts' = {} /\ deleted' = 0
    /\ expired' = FALSE /\ late' = {}
    /\ UNCHANGED <<now, klines, audits, runs>>
-----------------------------------------------------------------------------
(* RunPlanItem, statement by statement.                                    *)

\* The statement at pc runs, the item goes on at next.
Goes(at, next) ==
    /\ pc = at /\ ~expired
    /\ pc' = next
    /\ UNCHANGED <<now, plan, expired, runs, faults>>

\* The statement at pc returns an error.
Errs(at) ==
    /\ pc = at
    /\ \/ expired /\ UNCHANGED faults
       \/ ~expired /\ faults < MaxFaults /\ faults' = faults + 1
    /\ UNCHANGED <<now, klines, audits, runs>>

\* StartCleanupRun returns its error; the others go through fail.
StartCleanupRun ==
    \/ /\ Goes("start", IF DiskPressureCritical THEN "fail" ELSE "count")
       /\ cleanupRuns' = Put(cleanupRuns, RunKey, "running")
       /\ UNCHANGED <<klines, rollupRuns, parts, deleted, late>>
    \/ Errs("start") /\ NextItem

Fail == pc' = "fail" /\ UNCHANGED <<plan, parts, deleted, expired, late>>

\* A dry run has nothing left to do but to finish.
ToDelete == IF Item.policy.dryRun THEN "finish" ELSE "delete"
AfterRollup == IF Item.drop THEN "partitions" ELSE ToDelete

CountEligible ==
    \/ /\ Goes("count", IF Item.policy.rollupBeforeDelete THEN "window"
                                                          ELSE AfterRollup)
       /\ UNCHANGED <<klines, audits, parts, deleted, late>>
    \/ Errs("count") /\ Fail

\* Mutant: the WHERE clause without its interval.
EligibleAnyInterval(p, cutoff) == { k \in DOMAIN klines : k.open < cutoff }

\* What the policy matches, by interval and time.
Eligible(p, cutoff) ==
    { k \in DOMAIN klines : k.interval = p.interval /\ k.open < cutoff }

ClosedSource ==
    { k \in Eligible(Item.policy, Item.cutoff) : klines[k].closed }

\* RollupBeforeDelete up to its window query: an interval without a target is
\* an error, nothing to read or a dry run ends it.
KlineRollupWindow ==
    \/ /\ Goes("window", IF ClosedSource = {} \/ Item.policy.dryRun
                         THEN AfterRollup ELSE "startRollup")
       /\ Item.policy.interval \in DOMAIN klineRollups
       /\ UNCHANGED <<klines, audits, parts, deleted, late>>
    \/ Errs("window") /\ Fail
    \/ /\ pc = "window" /\ Item.policy.interval \notin DOMAIN klineRollups
       /\ Fail
       /\ UNCHANGED <<now, klines, audits, runs, faults>>

StartRollupRun ==
    \/ /\ Goes("startRollup", "upsert")
       /\ rollupRuns' = Put(rollupRuns, RunKey, "running")
       /\ UNCHANGED <<klines, cleanupRuns, parts, deleted, late>>
    \/ Errs("startRollup") /\ Fail

\* The kline of the coarser interval that k is part of.
Bucket(k) ==
    LET target == klineRollups[k.interval]
    IN  [interval |-> target, open |-> (k.open \div Width[target]) * Width[target]]

Group(b) == { k \in ClosedSource : Bucket(k) = b }
FirstOf(group) == CHOOSE k \in group : \A l \in group : k.open <= l.open

\* The grouped INSERT ... ON CONFLICT DO UPDATE over the closed rows older
\* than the cutoff.  A conflicting row keeps its open price and loses the rest.
Rolled ==
    [b \in { Bucket(k) : k \in ClosedSource } |->
        [closed |-> TRUE,
         ticks  |-> UNION { klines[k].ticks : k \in Group(b) },
         opened |-> IF b \in DOMAIN klines THEN klines[b].opened
                                           ELSE klines[FirstOf(Group(b))].opened]]

\* Mutant: the error of the upsert is dropped.
UpsertKlineRollupIgnoresError ==
    \/ /\ Goes("upsert", "finishRollup")
       /\ klines' = Upsert(klines, Rolled)
       /\ late' = {}
       /\ UNCHANGED <<audits, parts, deleted>>
    \/ Errs("upsert") /\ pc' = "finishRollup"
       /\ UNCHANGED <<plan, parts, deleted, expired, late>>

UpsertKlineRollup ==
    \/ /\ Goes("upsert", "finishRollup")
       /\ klines' = Upsert(klines, Rolled)
       /\ late' = {}
       /\ UNCHANGED <<audits, parts, deleted>>
    \/ Errs("upsert") /\ pc' = "failRollup"
       /\ UNCHANGED <<plan, parts, deleted, expired, late>>

FinishRollupRun ==
    \/ /\ Goes("finishRollup", AfterRollup)
       /\ rollupRuns' = Put(rollupRuns, RunKey, "succeeded")
       /\ UNCHANGED <<klines, cleanupRuns, parts, deleted, late>>
    \/ Errs("finishRollup") /\ Fail
    \/ /\ Goes("failRollup", "fail")
       /\ rollupRuns' = Put(rollupRuns, RunKey, "failed")
       /\ UNCHANGED <<klines, cleanupRuns, parts, deleted, late>>
    \/ Errs("failRollup") /\ Fail

EligiblePartitions(cutoff) == { t \in Partitions : t.to <= cutoff }

ListEligiblePartitions ==
    \/ /\ Goes("partitions",
               IF EligiblePartitions(Item.cutoff) # {} /\ ~Item.policy.dryRun
               THEN "drop" ELSE ToDelete)
       /\ parts' = EligiblePartitions(Item.cutoff)
       /\ UNCHANGED <<klines, audits, deleted, late>>
    \/ Errs("partitions") /\ Fail

\* A child table holds the rows of every interval in its range.
DropPartition ==
    \/ \E t \in parts :
          /\ \A u \in parts : t.from <= u.from
          /\ Goes("drop", IF parts = {t} THEN "finish" ELSE "drop")
          /\ klines' = Restrict(klines, { k \in DOMAIN klines :
                                            ~(k.open \in t.from..(t.to - 1)) })
          /\ parts' = parts \ {t}
          /\ UNCHANGED <<audits, deleted, late>>
    \/ Errs("drop") /\ Fail

effectiveMaxRows(p) ==
    IF OptionMaxRows > 0 /\ OptionMaxRows < p.maxRowsPerRun
    THEN OptionMaxRows ELSE p.maxRowsPerRun

NextChunk(p) ==
    LET remaining == effectiveMaxRows(p) - deleted
    IN  IF remaining < p.chunkSize THEN remaining ELSE p.chunkSize

\* The oldest rows first, as many as the chunk holds.
Chunk(eligible, size) ==
    { k \in eligible : Cardinality({ l \in eligible : l.open < k.open }) < size }

\* Mutant: one chunk is taken for the whole backlog.
DeleteChunkOnce ==
    \/ LET gone == Chunk(Eligible(Item.policy, Item.cutoff),
                         NextChunk(Item.policy))
       IN  /\ Goes("delete", "finish")
           /\ klines' = Restrict(klines, DOMAIN klines \ gone)
           /\ deleted' = deleted + Cardinality(gone)
           /\ UNCHANGED <<audits, parts, late>>
    \/ Errs("delete") /\ Fail

\* Mutant: the loop does not notice that nothing was left to delete.
DeleteChunkForever ==
    LET gone == Chunk(Eligible(Item.policy, Item.cutoff), NextChunk(Item.policy))
    IN  /\ Goes("delete", IF deleted + Cardinality(gone)
                               < effectiveMaxRows(Item.policy)
                          THEN "delete" ELSE "finish")
        /\ klines' = Restrict(klines, DOMAIN klines \ gone)
        /\ deleted' = deleted + Cardinality(gone)
        /\ UNCHANGED <<audits, parts, late>>

\* One round of the chunk loop of RunPlanItem.
DeleteChunk ==
    \/ LET size == NextChunk(Item.policy)
           gone == Chunk(Eligible(Item.policy, Item.cutoff), size)
           more == /\ Cardinality(gone) = size
                   /\ deleted + size < effectiveMaxRows(Item.policy)
       IN  /\ Goes("delete", IF more THEN "delete" ELSE "finish")
           /\ klines' = Restrict(klines, DOMAIN klines \ gone)
           /\ deleted' = deleted + Cardinality(gone)
           /\ UNCHANGED <<audits, parts, late>>
    \/ Errs("delete") /\ Fail

\* FinishCleanupRun, on success or from fail; an error leaves the row as it is
\* and the item is over in any case.
FinishCleanupRun ==
    /\ pc \in {"finish", "fail"}
    /\ \/ /\ ~expired
          /\ cleanupRuns' = Put(cleanupRuns, RunKey,
                                IF pc = "finish" THEN "succeeded" ELSE "failed")
          /\ UNCHANGED <<now, klines, rollupRuns, runs, faults>>
       \/ Errs(pc)
    /\ NextItem

Step ==
    \/ StartCleanupRun \/ CountEligible
    \/ KlineRollupWindow \/ StartRollupRun \/ UpsertKlineRollup
    \/ FinishRollupRun
    \/ ListEligiblePartitions \/ DropPartition
    \/ DeleteChunk \/ FinishCleanupRun

Next ==
    \/ Tick
    \/ \E i \in Collected, t \in 0..now : t + MaxLate >= now /\ Collect(i, t)
    \/ RunOnce \/ Step \/ Timeout \/ Crash

Spec == Init /\ [][Next]_vars

\* A running retention process goes on; nothing else is promised.
FairSpec == Spec /\ WF_vars(Step)
-----------------------------------------------------------------------------
Keys == [interval : Intervals, open : 0..MaxTime]
RunKeys == [policy : { p.id : p \in Policies }, cutoff : Int]
Statuses == {"running", "succeeded", "failed"}

\* Every variable has its type.
TypeOK ==
    /\ now \in 0..MaxTime
    /\ DOMAIN klines \subseteq Keys
    /\ \A k \in DOMAIN klines : klines[k] \in [closed : BOOLEAN,
                                               ticks  : SUBSET (0..MaxTime),
                                               opened : 0..MaxTime]
    /\ \A r \in DOMAIN cleanupRuns : r \in RunKeys /\ cleanupRuns[r] \in Statuses
    /\ \A r \in DOMAIN rollupRuns : r \in RunKeys /\ rollupRuns[r] \in Statuses
    /\ (pc = "idle") = (plan = <<>>)
    /\ parts \subseteq Partitions /\ deleted \in Nat /\ expired \in BOOLEAN
    /\ late \subseteq Keys

Removed(k) == k \in DOMAIN klines /\ k \notin DOMAIN klines'

\* A kline disappears only by the policy at work, which was enabled when the run
\* read it, is no dry run and has kept the kline for its days, and never under disk
\* pressure.  A chunk holds klines of the policy's own interval only; a child table
\* that is dropped may hold others (sql.go:43-51, store.go:131-137).
InScope ==
    \A k \in DOMAIN klines : Removed(k) =>
       /\ ~DiskPressureCritical
       /\ Item.policy.enabled /\ ~Item.policy.dryRun
       /\ k.open + Item.policy.retentionDays < now
       /\ pc = "delete" => Item.policy.interval = k.interval

\* A closed kline that was there when the run rolled its interval up is still
\* counted in the coarser kline at the moment a chunk takes it, whatever failed
\* or timed out in between (engine.go:117-124, 164).
Counted ==
    \A k \in DOMAIN klines :
       Removed(k) /\ pc = "delete" /\ klines[k].closed /\ k \notin late
         /\ Item.policy.rollupBeforeDelete =>
       \E b \in DOMAIN klines :
          /\ b.interval = klineRollups[k.interval]
          /\ klines[k].ticks \subseteq klines[b].ticks

\* No run of a policy deletes more rows than its budget, although chunks have a
\* size of their own (engine.go:153-172).
WithinRowBudget == pc # "idle" => deleted <= effectiveMaxRows(Item.policy)

\* A cleanup run that becomes succeeded has dropped partitions, has used up its
\* row budget or has left no expired row but those that came in while it ran
\* (engine.go:126-179).
Done ==
    \A r \in DOMAIN cleanupRuns' :
       (/\ cleanupRuns'[r] = "succeeded"
        /\ r \notin DOMAIN cleanupRuns \/ cleanupRuns[r] # "succeeded"
        /\ ~Item.policy.dryRun) =>
       \/ Item.drop /\ EligiblePartitions(Item.cutoff) # {}
       \/ deleted = effectiveMaxRows(Item.policy)
       \/ Eligible(Item.policy, Item.cutoff) \subseteq late

\* A retention process always ends: the chunk loop stops although collectors
\* keep writing rows the policy matches.
RunEnds == pc # "idle" ~> pc = "idle"

\* A rollup only adds to what a coarser kline accounts for.
RollupKeepsHistory ==
    [][\A k \in DOMAIN klines :
          k \in DOMAIN klines' => klines[k].ticks \subseteq klines'[k].ticks]_vars

\* A kline is lost to a policy only as the policy says (sql.go:43-51).
PolicyScoped == [][InScope]_vars

\* No chunk takes a rolled up kline that is counted nowhere (engine.go:117-164).
CountedWhenRemoved == [][Counted]_vars

\* A run stays within its row budget, and succeeds only when its work is done
\* (engine.go:126-179).
SucceededMeansDone == [][Done /\ WithinRowBudget']_vars
=============================================================================
