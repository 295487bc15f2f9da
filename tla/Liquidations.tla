---------------------------- MODULE Liquidations ----------------------------
(***************************************************************************)
(* Liquidations of one symbol on one exchange: a poll answers with the     *)
(* last events, the adapter adds them up into one 5m aggregate at the time *)
(* of the answer, and the writer stores the events above a threshold, then *)
(* aggregates of its own, by the time of the events and in the period of   *)
(* the job, then the adapter's aggregate unless the filter took it out:    *)
(* up to three transactions that replace what the tables held under the    *)
(* same keys.                                                              *)
(*                                                                         *)
(* Abstractions.  Time is counted in minutes and Five minutes make a 5m    *)
(* bucket; an amount is what an event is worth in USD; of an aggregate,    *)
(* the amounts are kept and the counts left out.                           *)
(***************************************************************************)
EXTENDS Naturals, Sequences, SequencesExt, FiniteSets, FiniteSetsExt

CONSTANTS
    Amounts,     \* what an event may be worth
    MinUSD,      \* LIQUIDATION_MIN_USD
    JobPeriods,  \* a job may have, "" if it has none
    Tier,        \* of the job
    Five,        \* minutes in a 5m bucket
    Limit,       \* events in an answer
    MaxTime, MaxEvents, MaxFailures \* bounds

LiquidationsAssumption ==
    /\ Amounts \subseteq Nat /\ MinUSD \in Nat
    /\ JobPeriods \subseteq {"", "1m", "5m"} /\ Tier \in {"all", "top100", "watchlist"}
    /\ Five \in Nat \ {0} /\ Limit \in Nat \ {0}
    /\ MaxTime \in Nat /\ MaxEvents \in Nat /\ MaxFailures \in Nat

VARIABLES
    jobPeriod,  \* of the job that polls
    now,
    history,    \* events of the exchange, oldest first
    answer,     \* events of the answer at hand, first is its index in history
    capturedAt,
    pc,         \* "idle", or the table written next
    events,     \* table: <<side, time>> -> amount
    aggregates, \* table: <<period, bucket>> -> [long, short, total, largest]
    failures

tables == <<events, aggregates>>
vars == <<jobPeriod, now, history, answer, capturedAt, pc, tables, failures>>

Put(f, k, v) == [i \in DOMAIN f \cup {k} |-> IF i = k THEN v ELSE f[i]]
NoAnswer == [first |-> 1, items |-> <<>>]

Init ==
    /\ jobPeriod \in JobPeriods
    /\ now = 0
    /\ history = <<>>
    /\ answer = NoAnswer /\ capturedAt = 0
    /\ pc = "idle"
    /\ events = <<>> /\ aggregates = <<>>
    /\ failures = 0

Tick ==
    /\ now < MaxTime
    /\ now' = now + 1
    /\ UNCHANGED <<jobPeriod, history, answer, capturedAt, pc, tables, failures>>

Liquidate ==
    /\ Len(history) < MaxEvents
    /\ \E side \in {"SELL", "BUY"}, usd \in Amounts :
          history' = Append(history, [time |-> now, side |-> side, usd |-> usd])
    /\ UNCHANGED <<jobPeriod, now, answer, capturedAt, pc, tables, failures>>

Poll ==
    /\ pc = "idle" /\ history # <<>>
    /\ LET first == IF Len(history) > Limit THEN Len(history) - Limit + 1 ELSE 1
       IN  answer' = [first |-> first, items |-> SubSeq(history, first, Len(history))]
    /\ capturedAt' = now
    /\ pc' = "events"
    /\ UNCHANGED <<jobPeriod, now, history, tables, failures>>

-----------------------------------------------------------------------------
Sum(items) == FoldLeft(LAMBDA total, e : total + e.usd, 0, items)

\* The aggregate of a sequence of events.
AddUp(items) ==
    LET long == Sum(SelectSeq(items, LAMBDA e : e.side = "SELL"))
        short == Sum(SelectSeq(items, LAMBDA e : e.side # "SELL"))
    IN  [long |-> long, short |-> short, total |-> long + short,
         largest |-> Max({e.usd : e \in Range(items)})]

liquidationPeriod ==
    IF jobPeriod # "" THEN jobPeriod ELSE IF Tier = "all" THEN "5m" ELSE "1m"

liquidationBucketSize(period) == IF period = "5m" THEN Five ELSE 1

Truncate(time, size) == (time \div size) * size

InBucket(items, period, bucket) ==
    SelectSeq(items, LAMBDA e : Truncate(e.time, liquidationBucketSize(period)) = bucket)

deriveLiquidationAggregates(items) ==
    LET period == liquidationPeriod
        buckets == {Truncate(e.time, liquidationBucketSize(period)) : e \in Range(items)}
    IN  [k \in {<<period, b>> : b \in buckets} |-> AddUp(InBucket(items, period, k[2]))]

\* normalizeLiquidation: everything in the answer, in the bucket of the answer.
normalizeLiquidation(items) ==
    [k \in {<<"5m", Truncate(capturedAt, Five)>>} |-> AddUp(items)]

\* FilterNormalizedResult keeps an aggregate of the job's period only.
validateInterval(interval) == jobPeriod \in {"", interval}

AfterDerived == IF validateInterval("5m") THEN "reported" ELSE "idle"

\* INSERT ... ON CONFLICT DO UPDATE.
Upsert(table, rows) ==
    [k \in DOMAIN table \cup DOMAIN rows |-> IF k \in DOMAIN rows THEN rows[k] ELSE table[k]]

UpsertLiquidationEvents ==
    /\ pc = "events"
    /\ events' = FoldLeft(LAMBDA table, e : IF e.usd < MinUSD THEN table
                                            ELSE Put(table, <<e.side, e.time>>, e.usd),
                          events, answer.items)
    /\ pc' = "derived"
    /\ UNCHANGED <<jobPeriod, now, history, answer, capturedAt, aggregates, failures>>

\* Mutant: a bucket that exists takes the last event only.
UpsertDerivedLast ==
    /\ pc = "derived"
    /\ LET rows == deriveLiquidationAggregates(answer.items)
       IN  aggregates' = Upsert(aggregates, [k \in DOMAIN rows |->
                            IF k \in DOMAIN aggregates
                            THEN AddUp(<<Last(InBucket(answer.items, k[1], k[2]))>>)
                            ELSE rows[k]])
    /\ pc' = AfterDerived
    /\ UNCHANGED <<jobPeriod, now, history, answer, capturedAt, events, failures>>

UpsertDerived ==
    /\ pc = "derived"
    /\ aggregates' = Upsert(aggregates, deriveLiquidationAggregates(answer.items))
    /\ pc' = AfterDerived
    /\ UNCHANGED <<jobPeriod, now, history, answer, capturedAt, events, failures>>

UpsertReported ==
    /\ pc = "reported"
    /\ aggregates' = Upsert(aggregates, normalizeLiquidation(answer.items))
    /\ pc' = "idle"
    /\ UNCHANGED <<jobPeriod, now, history, answer, capturedAt, events, failures>>

\* A transaction fails or the collector dies; what was written stays.
Fail ==
    /\ pc # "idle" /\ failures < MaxFailures
    /\ failures' = failures + 1
    /\ pc' = "idle"
    /\ answer' = NoAnswer
    /\ UNCHANGED <<jobPeriod, now, history, capturedAt, tables>>

Next ==
    \/ Tick \/ Liquidate \/ Poll
    \/ UpsertLiquidationEvents \/ UpsertDerived \/ UpsertReported \/ Fail

Spec == Init /\ [][Next]_vars

-----------------------------------------------------------------------------
Total(period, bucket) == Sum(InBucket(history, period, bucket))

\* Every variable has its type, and the aggregates are of buckets that exist.
TypeOK ==
    /\ pc \in {"idle", "events", "derived", "reported"}
    /\ answer.first \in 1..(MaxEvents + 1)
    /\ \A k \in DOMAIN aggregates : /\ k[1] \in {"1m", "5m"} /\ k[2] \in 0..now
                                    /\ aggregates[k].largest <= aggregates[k].total
                                    /\ aggregates[k].total = aggregates[k].long + aggregates[k].short

\* Once an answer has been written, every bucket of the job's period whose events it
\* contained from the first to the last has exactly their total, however often they
\* were polled, failed and polled again.  Of a job that keeps the adapter's
\* aggregate, the bucket the answer was captured in is left out: it got the total
\* of the whole answer (writer.go:108-129, 202-258).
WholeBucketsExact ==
    (pc = "idle" /\ answer # NoAnswer) =>
       LET period == liquidationPeriod
           size == liquidationBucketSize(period)
           answered == answer.first..(answer.first + Len(answer.items) - 1)
           Of(bucket) == {i \in DOMAIN history : Truncate(history[i].time, size) = bucket}
       IN  \A b \in {Truncate(e.time, size) : e \in Range(answer.items)} :
              (Of(b) \subseteq answered /\ (period = "5m" => b # Truncate(capturedAt, Five)))
              => aggregates[<<period, b>>].total = Total(period, b)

\* The total of a 1m bucket shrinks only when an answer begins inside the bucket,
\* after its first event (writer.go:202-258).
ShrinksWhenCut ==
    \A k \in DOMAIN aggregates :
       (k[1] = "1m" /\ aggregates'[k].total < aggregates[k].total)
       => \E i \in 1..(answer.first - 1) : history[i].time = k[2]
=============================================================================
