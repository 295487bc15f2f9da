----------------------------- MODULE MCSeries -----------------------------
(* The time series and what is computed from them: the running CVD, the      *)
(* liquidation buckets, the aggregated snapshots (their prices, or their     *)
(* taker deltas) and the gap detectors.  Each works on tables of its own, so *)
(* each is explored while the others rest: scene says which one acts.        *)
EXTENDS Aggregates, DataGaps

CONSTANT Nil

VARIABLES
    scene,
    exchange, revisions, takerFlows, cvd, todo, place, previous, deaths,  \* TakerFlows
    behind,
    jobPeriod, minute, history, answer, capturedAt, step, events, buckets, failures  \* Liquidations

flowVars   == <<exchange, revisions, takerFlows, cvd, todo, place, previous, deaths, behind>>
bucketVars == <<jobPeriod, minute, history, answer, capturedAt, step, events, buckets, failures>>
allVars == <<scene, flowVars, bucketVars, vars, gapVars>>

-----------------------------------------------------------------------------
Cumulated == INSTANCE TakerFlows WITH
    Collectors <- {"c1"}, Flows <- {[buy |-> 2, sell |-> 1], [buy |-> Nil, sell |-> 1]},
    Periods <- 4, Window <- 3, Orders <- {"asc", "desc"}, MaxRevisions <- 1, MaxDeaths <- 2,
    at <- place

InFlows ==
    /\ scene = "cvd" /\ Cumulated!Next
    /\ UNCHANGED <<scene, bucketVars, vars, gapVars>>

Bucketed == INSTANCE Liquidations WITH
    Amounts <- {1, 3}, MinUSD <- 2, JobPeriods <- {"1m", "5m"}, Tier <- "top100", Five <- 2,
    Limit <- 2, MaxTime <- 2, MaxEvents <- 3, MaxFailures <- 1,
    now <- minute, pc <- step, aggregates <- buckets

InBuckets ==
    /\ scene = "liquidations" /\ Bucketed!Next
    /\ UNCHANGED <<scene, flowVars, vars, gapVars>>

-----------------------------------------------------------------------------
\* A ticker, with open interest; a zero price, which is what parseFloatSafe
\* makes of garbage; and an exchange that was marked degraded.
Ticker   == [price |-> 2, oi |-> 1, degraded |-> FALSE]
Zero     == [price |-> 0, oi |-> -1, degraded |-> FALSE]
Degraded == [price |-> 1, oi |-> -1, degraded |-> TRUE]
Answers == {Ticker, Zero, Degraded}
TwoWindows == <<1, 3>>

\* Two exchanges without trades or failures, for three units of time; the one of
\* the first row is called okx.
Quotes ==
    /\ now' <= 3 /\ faults' = 0 /\ \A t \in DOMAIN trades' : trades'[t] = 0
    /\ writes = 0 => \A k \in DOMAIN market' : k[1] = "okx"

\* One exchange with trades, two rows and a failure.
Trading == writes' <= 2 /\ \A k \in DOMAIN market' : k[1] = "okx" /\ market'[k] # Zero

InAggregates ==
    /\ Next
    /\ \/ scene = "prices" /\ Quotes
       \/ scene = "volume" /\ Trading
    /\ UNCHANGED <<scene, flowVars, bucketVars, gapVars>>

-----------------------------------------------------------------------------
InGaps ==
    /\ scene = "gaps" /\ GapsNext
    /\ UNCHANGED <<scene, flowVars, bucketVars, vars>>

ASSUME
    /\ Cumulated!TakerFlowsAssumption /\ Bucketed!LiquidationsAssumption
    /\ AggregatesAssumption /\ DataGapsAssumption

AllInit ==
    /\ scene \in {"cvd", "liquidations", "prices", "volume", "gaps"}
    /\ Cumulated!Init /\ Bucketed!Init /\ Init /\ GapsInit
    /\ scene # "cvd" => exchange = <<>>
    /\ scene # "liquidations" => jobPeriod = "1m"

AllNext == InFlows \/ InBuckets \/ InAggregates \/ InGaps

AllSpec == AllInit /\ [][AllNext]_allVars

-----------------------------------------------------------------------------
(* Properties of components that are instantiated here; see there. *)

\* The variables of every component have their types.
SeriesTypeOK == Cumulated!TypeOK /\ Bucketed!TypeOK /\ TypeOK /\ GapsTypeOK

\* No CVD row is there before the flow it is derived from, and every CVD row with
\* no period behind at or before it is the sum of the deltas of the flows up to it,
\* whatever the order of the answers, although flows are revised, periods missed
\* and polls fail between two statements (writer.go:99-106, advanced.go:171-210,
\* 667-690).
CVDIsRunningSum == Cumulated!CVDIsRunningSum

\* A liquidation total is lost only to a cut answer: a bucket of the job's period
\* whose events were all in the last answer has exactly their total, however often
\* they were polled, failed and polled again, but for the 5m bucket of the answer
\* itself, and the total of a 1m bucket shrinks only when an answer begins inside
\* it, after its first event (writer.go:108-129, 202-258).
TotalsLoseOnlyToCuts == [][Bucketed!ShrinksWhenCut /\ Bucketed!WholeBucketsExact']_allVars
=============================================================================
