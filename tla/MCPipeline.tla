---------------------------- MODULE MCPipeline ----------------------------
(* The two ends of what a job passes through: the planner (with failing runs *)
(* and a backfill, or with an operator's edits) and the rows of an answer.   *)
(* They share no variable but the jobs table, of which each module has its   *)
(* own view, so that each is explored while the other rests: scene says      *)
(* which one acts.                                                           *)
EXTENDS Planner, Ingest

VARIABLE scene

pipelineVars == <<scene, plannerVars, ingestVars>>

-----------------------------------------------------------------------------
(* The planner: the same work asked for by two tiers, and two policies of    *)
(* one tier.                                                                 *)

Pol(type, tier, interval, priority) ==
    [dataType |-> type, tier |-> tier, period |-> "", interval |-> interval,
     priority |-> priority, enabled |-> TRUE]

Overlapping == <<Pol("ticker", "watchlist", 1, 10), Pol("open_interest", "watchlist", 2, 10),
                 Pol("ticker", "top100", 2, 50), Pol("ticker", "all", 2, 100)>>

ASSUME PlannerAssumption

InPlanner ==
    /\ scene \in {"plan", "edit"} /\ PlannerNext
    /\ scene = "plan" => changes' = 0
    /\ scene = "edit" => now' <= 1 /\ failures' <= 1 /\ asked' = {}
    /\ UNCHANGED <<scene, ingestVars>>

-----------------------------------------------------------------------------
(* The rows of an answer.  Everything that an adapter normalizes; open       *)
(* interest comes as the policies have it, without a period, and with one.   *)

Of(exchanges, type, period) == {[ex |-> ex, type |-> type, period |-> period] : ex \in exchanges}

Everything ==
    Of(Exchanges, "ticker", "") \cup Of({"okx", "mexc", "gate"}, "funding", "")
    \cup Of(Exchanges, "kline", "5m")
    \cup Of(Exchanges, "open_interest", "") \cup Of({"gate"}, "open_interest", "5m")
    \cup Of(Exchanges \ {"mexc"}, "long_short_ratio", "5m")
    \cup Of({"binance", "gate"}, "basis", "5m")
    \cup Of(Exchanges, "orderbook", "")

Items(times, nums, rates) == [at : times, num : nums, rate : rates]

Refusal == [refused |-> TRUE, items |-> <<>>]

\* Refusals, and up to two items: past, without a time, from the future.
AnyAnswer ==
    {Refusal} \cup
    [refused : {FALSE},
     items : {<<>>} \cup {<<i>> : i \in Items({0, 1, 4},
                                              {"pos", "neg", "missing", "junk", "nan", "inf"},
                                              {"none", "in", "out", "wild", "nan"})}
                    \cup {<<i, k>> : i, k \in Items({1, 4}, {"pos", "neg"}, {"none", "out"})}]

\* The answers to the attempts after the first: a refusal, the same time with
\* another number, a later time too.
Later ==
    {Refusal} \cup
    [refused : {FALSE}, items : {<<[at |-> 1, num |-> "nan", rate |-> "in"]>>,
                                 <<[at |-> 1, num |-> "pos", rate |-> "in"],
                                   [at |-> 2, num |-> "neg", rate |-> "none"]>>}]

InIngest ==
    /\ scene = "rows"
    /\ \/ \E a \in IF retryCount = 0 THEN Answers ELSE Later : Fetch(a)
       \/ Proceed \/ IngestTick \/ Fault
    /\ UNCHANGED <<scene, plannerVars>>

-----------------------------------------------------------------------------
PipelineInit ==
    /\ scene \in {"plan", "edit", "rows"}
    /\ PlannerInit /\ IngestInit
    /\ scene # "rows" => job = [ex |-> "okx", type |-> "ticker", period |-> ""]

PipelineNext == InPlanner \/ InIngest

PipelineSpec == PipelineInit /\ [][PipelineNext]_pipelineVars

\* The variables of both have their types (the columns of collection_jobs and of
\* the tables of rows).
PipelineTypeOK == PlannerTypeOK /\ IngestTypeOK
=============================================================================
