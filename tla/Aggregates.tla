----------------------------- MODULE Aggregates -----------------------------
(***************************************************************************)
(* One aggregated_snapshot job of one symbol: the executor, the queries    *)
(* that build the cross-exchange snapshot, its window metrics and its      *)
(* analytics, and the statements that store them.  No transaction spans    *)
(* two queries, so collectors write between any two steps.                 *)
(*                                                                         *)
(* Abstractions.  An average is its sum and its count.  A market row       *)
(* carries the price BuildLatest would use (last price, else mark price),  *)
(* the open interest and whether rawJSONMarkedDegraded holds of its raw    *)
(* data; volume and funding are treated like open interest and are left    *)
(* out.  Taker flows stand for the liquidation aggregates too: both are    *)
(* summed over a window whatever their period, and their query is the one  *)
(* kept of the queries of a window.  Of the queries BuildAnalytics makes,  *)
(* only that for the divergence decides which rows there are, and it is    *)
(* the one kept.  What enrichAdvanced adds, a window's other columns, the  *)
(* anomaly flags and what an analytics row says are left out.              *)
(***************************************************************************)
EXTENDS Integers, Sequences, FiniteSets, FiniteSetsExt, Functions

CONSTANTS
    Exchanges,
    Rows,       \* market rows collectors write: [price, oi, degraded]
    Deltas,     \* taker deltas of one unit of time
    Periods,    \* periods taker flows are collected with
    MaxAge,     \* AggregateOptions.MaxSnapshotAge
    Windows,    \* AggregateOptions.Windows, as a sequence of durations
    Backoff,    \* delay before a retry
    MaxRetry,   \* of the job
    MaxTime, MaxRows, MaxFaults  \* bounds: clock, market writes, failures and crashes

AggregatesAssumption ==
    /\ MaxTime \in Nat \ {0} /\ MaxAge \in Nat /\ Backoff \in Nat /\ MaxRetry \in Nat
    /\ Windows \in Seq(Nat) /\ Windows # <<>> /\ Periods \subseteq Nat \ {0}
    /\ MaxRows \in Nat /\ MaxFaults \in Nat

VARIABLES
    now,
    market,      \* derivative_market_snapshots: <<exchange, time>> -> row
    trades,      \* taker delta of each unit of time gone by
    job,         \* [status, scheduledAt, retryCount]
    pc,          \* the executor's step
    draft,       \* what the executor has built and not stored
    aggregates,  \* derivative_aggregated_snapshots: time -> snapshot
    analytics,   \* keys in the three analytics tables
    touched,     \* snapshots a market row at or before their time changed after
    torn,        \* one did so since the draft was begun
    writes, faults

source == <<market, trades, writes>>
stores == <<aggregates, analytics, touched>>
local == <<draft, torn>>
vars == <<now, source, job, pc, local, stores, faults>>

Null == -1
None == [at |-> Null]

-----------------------------------------------------------------------------
(* The queries. *)

Times(ex, at) == {t \in (at - MaxAge)..at : <<ex, t>> \in DOMAIN market}
Fresh(at) == {ex \in Exchanges : Times(ex, at) # {}}
latest(at) == [ex \in Fresh(at) |-> market[<<ex, Max(Times(ex, at))>>]]

Healthy(at) == {ex \in Fresh(at) : ~latest(at)[ex].degraded}

priced(at) == {ex \in Healthy(at) : latest(at)[ex].price > 0}
withOI(at) == {ex \in Healthy(at) : latest(at)[ex].oi >= 0}
Total(f) == FoldFunction(+, 0, f)

\* Mutant: prices are read as of the time of the query.
PriceOfNow(at) ==
    [sum |-> Total([ex \in priced(now) |-> latest(now)[ex].price]),
     count |-> Cardinality(priced(now))]

Price(at) ==
    [sum |-> Total([ex \in priced(at) |-> latest(at)[ex].price]),
     count |-> Cardinality(priced(at))]
OpenInterest(at) == Total([ex \in withOI(at) |-> latest(at)[ex].oi])

\* The snapshot without its window metrics.
snapshot(at) ==
    LET valued == priced(at) \cap withOI(at)
    IN  [at |-> at,
         included |-> Healthy(at), skipped |-> Fresh(at) \ Healthy(at),
         invalid |-> {ex \in Healthy(at) : latest(at)[ex].price = 0},
         price |-> Price(at),
         oi |-> OpenInterest(at),
         oiValue |-> IF valued = {} THEN Null
                     ELSE Total([ex \in valued |-> latest(at)[ex].price * latest(at)[ex].oi]),
         windows |-> <<>>]

\* A taker flow row is stored once its period is over, at the period's start.
Flows == {r \in Periods \X (0..MaxTime) : r[2] % r[1] = 0 /\ r[1] + r[2] <= now}
Flow(p, t) == Total([u \in t..(t + p - 1) |-> trades[u]])

\* Mutant: the window includes the row at its start.
windowTakerDeltaClosed(start, end) ==
    Total([r \in {f \in Flows : start <= f[2] /\ f[2] <= end} |-> Flow(r[1], r[2])])

windowTakerDelta(start, end) ==
    Total([r \in {f \in Flows : start < f[2] /\ f[2] <= end} |-> Flow(r[1], r[2])])

\* The next window's metric.
WindowMetric(at) ==
    LET window == Windows[Len(draft.windows) + 1]
    IN  [window |-> window, takerDelta |-> windowTakerDelta(at - window, at)]

\* Keys of the rows UpsertAnalytics writes, in its order.
BuildAnalytics(at) ==
    [i \in DOMAIN Windows |-> <<"structure", Windows[i], at>>]
    \o [i \in DOMAIN Windows |-> <<"volatility", Windows[i], at>>]
    \o (IF Cardinality(Healthy(at)) < 2 THEN <<>> ELSE << <<"divergence", 0, at>> >>)

-----------------------------------------------------------------------------
Init ==
    /\ now = 0 /\ market = << >> /\ trades = << >>
    /\ job = [status |-> "pending", scheduledAt |-> 1, retryCount |-> 0]
    /\ pc = "idle" /\ draft = None
    /\ aggregates = << >> /\ analytics = {} /\ touched = {} /\ torn = FALSE
    /\ writes = 0 /\ faults = 0

\* A collector writes a row with the exchange's timestamp, now or a little earlier.
Collect(ex, row, at) ==
    /\ writes < MaxRows
    /\ market' = [k \in DOMAIN market \cup {<<ex, at>>} |->
                    IF k = <<ex, at>> THEN row ELSE market[k]]
    /\ writes' = writes + 1
    /\ touched' = touched \cup {t \in DOMAIN aggregates : t >= at}
    /\ torn' = (torn \/ draft.at >= at)
    /\ UNCHANGED <<now, trades, job, pc, draft, aggregates, analytics, faults>>

Tick(delta) ==
    /\ now < MaxTime
    /\ trades' = [t \in 0..now |-> IF t = now THEN delta ELSE trades[t]]
    /\ now' = now + 1
    /\ UNCHANGED <<market, writes, job, pc, local, stores, faults>>

Claim ==
    /\ job.status = "pending" /\ job.scheduledAt <= now
    /\ job' = [job EXCEPT !.status = "running"]
    /\ pc' = "build"
    /\ UNCHANGED <<now, source, local, stores, faults>>

Running == job.status = "running"
at == job.scheduledAt

\* RetryJobLater moves scheduled_at, and with it the time of the next snapshot.
Fail ==
    /\ job' = IF job.retryCount + 1 < MaxRetry
              THEN [status |-> "pending", scheduledAt |-> now + Backoff,
                    retryCount |-> job.retryCount + 1]
              ELSE [job EXCEPT !.status = "dead_letter"]
    /\ pc' = "idle" /\ draft' = None /\ torn' = FALSE

BuildLatest ==
    /\ Running /\ pc = "build"
    /\ draft' = snapshot(at)
    /\ torn' = FALSE
    /\ pc' = "windows"
    /\ UNCHANGED <<now, source, job, stores, faults>>

\* One window of the loop.
BuildWindowMetrics ==
    /\ Running /\ pc = "windows"
    /\ draft' = [draft EXCEPT !.windows = Append(@, WindowMetric(at))]
    /\ pc' = IF Len(draft.windows) + 1 < Len(Windows) THEN "windows" ELSE "check"
    /\ UNCHANGED <<now, source, job, torn, stores, faults>>

NoExchange ==
    /\ Running /\ pc = "check" /\ draft.included = {}
    /\ Fail
    /\ UNCHANGED <<now, source, stores, faults>>

Upsert ==
    /\ Running /\ pc = "check" /\ draft.included # {}
    /\ aggregates' = [t \in DOMAIN aggregates \cup {at} |->
                        IF t = at THEN draft ELSE aggregates[t]]
    /\ touched' = IF torn THEN touched \cup {at} ELSE touched \ {at}
    /\ pc' = "analytics"
    /\ UNCHANGED <<now, source, job, local, analytics, faults>>

Analytics ==
    /\ Running /\ pc = "analytics"
    /\ draft' = [at |-> at, rows |-> BuildAnalytics(at)]
    /\ pc' = "write"
    /\ UNCHANGED <<now, source, job, torn, stores, faults>>

\* Mutant: the job succeeds once the structures are stored.
UpsertAnalyticsStructures ==
    /\ Running /\ pc = "write" /\ draft.rows # <<>>
    /\ analytics' = analytics \cup {Head(draft.rows)}
    /\ draft' = [draft EXCEPT !.rows =
                   SelectSeq(Tail(@), LAMBDA r : r[1] = "structure")]
    /\ UNCHANGED <<now, source, job, pc, torn, aggregates, touched, faults>>

UpsertAnalytics ==
    /\ Running /\ pc = "write" /\ draft.rows # <<>>
    /\ analytics' = analytics \cup {Head(draft.rows)}
    /\ draft' = [draft EXCEPT !.rows = Tail(@)]
    /\ UNCHANGED <<now, source, job, pc, torn, aggregates, touched, faults>>

Succeed ==
    /\ Running /\ pc = "write" /\ draft.rows = <<>>
    /\ job' = [job EXCEPT !.status = "succeeded"]
    /\ pc' = "idle" /\ draft' = None /\ torn' = FALSE
    /\ UNCHANGED <<now, source, stores, faults>>

\* A query or a statement fails.
StepFails ==
    /\ Running /\ pc \in {"build", "windows", "check", "analytics", "write"}
    /\ faults < MaxFaults /\ faults' = faults + 1
    /\ Fail
    /\ UNCHANGED <<now, source, stores>>

Crash ==
    /\ Running /\ pc # "crashed"
    /\ faults < MaxFaults /\ faults' = faults + 1
    /\ pc' = "crashed" /\ draft' = None /\ torn' = FALSE
    /\ UNCHANGED <<now, source, job, stores>>

RecoverInterrupted ==
    /\ Running /\ pc = "crashed"
    /\ job' = [status |-> "pending", scheduledAt |-> Min({now, job.scheduledAt}),
               retryCount |-> job.retryCount + 1]
    /\ pc' = "idle"
    /\ UNCHANGED <<now, source, local, stores, faults>>

Step ==
    \/ Claim \/ BuildLatest \/ BuildWindowMetrics \/ NoExchange \/ Upsert
    \/ Analytics \/ UpsertAnalytics \/ Succeed \/ RecoverInterrupted

Next ==
    \/ Step \/ StepFails \/ Crash
    \/ \E ex \in Exchanges, row \in Rows, t \in {now - 1, now} \cap Nat : Collect(ex, row, t)
    \/ \E delta \in Deltas : Tick(delta)

Spec == Init /\ [][Next]_vars

-----------------------------------------------------------------------------
(* Properties. *)

\* Every stored snapshot has a time the job was scheduled for, and every
\* analytics row belongs to one of the configured windows.
TypeOK ==
    /\ now \in 0..MaxTime
    /\ DOMAIN market \subseteq Exchanges \X (0..MaxTime)
    /\ job.status \in {"pending", "running", "succeeded", "dead_letter"}
    /\ job.scheduledAt \in 0..(MaxTime + Backoff) /\ job.retryCount \in Nat
    /\ pc \in {"idle", "build", "windows", "check", "analytics", "write", "crashed"}
    /\ \A t \in DOMAIN aggregates : aggregates[t].at = t /\ t <= now
    /\ \A r \in analytics : r[2] \in Range(Windows) \cup {0} /\ r[3] \in DOMAIN aggregates

\* A stored snapshot is what the same query gives of the market rows there are now,
\* unless a row at or before its time was written after it was built
\* (BuildLatest, aggregate.go:26-195).
SameQueryAgain ==
    \A t \in DOMAIN aggregates \ touched :
        snapshot(t) = [aggregates[t] EXCEPT !.windows = <<>>]

\* The exchanges of a stored snapshot are those whose newest row in
\* [time - MaxAge, time] is healthy: an exchange marked degraded is reported as
\* skipped, never represented by the row before (aggregate.go:88-99).
DegradedIsSkipped ==
    \A t \in DOMAIN aggregates \ touched : \A ex \in Exchanges :
        LET rows == {u \in DOMAIN market : u[1] = ex /\ u[2] <= t /\ u[2] >= t - MaxAge}
            newest == CHOOSE u \in rows : \A v \in rows : v[2] <= u[2]
        IN  /\ ex \in aggregates[t].included <=> (rows # {} /\ ~market[newest].degraded)
            /\ ex \in aggregates[t].skipped <=> (rows # {} /\ market[newest].degraded)

\* A stored snapshot can be computed again from the market rows, whatever has been
\* collected since with later timestamps: the same exchanges, prices and open
\* interest, each exchange by its newest row only (aggregate.go:26-195).
Recalculable == SameQueryAgain /\ DegradedIsSkipped

\* When the job has succeeded, the snapshot of its last execution is stored with
\* all of its analytics (Execute, executor.go:57-71).
SucceededIsComplete ==
    job.status = "succeeded" =>
        /\ at \in DOMAIN aggregates
        /\ \A i \in DOMAIN Windows : \A table \in {"structure", "volatility"} :
               <<table, Windows[i], at>> \in analytics

\* A trade counts in a window's taker delta once for each period its flows are
\* collected with, and only if the row that holds it starts inside the window: no
\* row counts twice, and none that starts outside counts at all
\* (windowTakerDelta, aggregate_analytics.go:363-385).
TradesCountPerPeriod ==
    \A t \in DOMAIN aggregates : \A i \in DOMAIN aggregates[t].windows :
        LET m == aggregates[t].windows[i]
            Counting(u) == {p \in Periods : LET start == u - (u % p)
                                            IN  t - m.window < start /\ start <= t}
        IN  m.takerDelta <= Total([u \in DOMAIN trades |-> trades[u] * Cardinality(Counting(u))])
=============================================================================
