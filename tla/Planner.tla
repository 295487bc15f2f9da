------------------------------ MODULE Planner ------------------------------
(***************************************************************************)
(* scheduler-service: the planner cron starts, which turns policies,       *)
(* endpoints and symbol tiers into jobs, and PlanBackfillJobs, which turns *)
(* a gap into jobs of the same table.  Runs may overlap, each reads the    *)
(* policies, the endpoints and the tiers one query after the other while   *)
(* an operator changes them, and inserts its jobs in one transaction that  *)
(* keeps the row already there.                                            *)
(*                                                                         *)
(* Abstractions.  One exchange; time is counted in the shortest interval;  *)
(* a symbol is its rank, so that a list by rank is a set, and its source   *)
(* symbol is left out: every symbol has one, since ParseMarketMappings     *)
(* drops the mappings without.  Of a job, what tells its makers apart is   *)
(* kept.  The jobs of one policy have different keys, so that only the     *)
(* order of the policies matters to the inserts.  The symbols and the      *)
(* watchlist, which ListSymbolMarketsByTier reads one after the other, are *)
(* read together.                                                          *)
(***************************************************************************)
EXTENDS Integers, Sequences, FiniteSets, FiniteSetsExt

CONSTANTS
    Planners,     \* runs that may overlap
    Policies,     \* [dataType, tier, period, interval, priority, enabled], as sorted by the query
    Endpoints,    \* data types with an active endpoint at the start
    Symbols,      \* symbols, each its rank
    Listed,       \* symbols with an active market on the exchange
    Watched,      \* the watchlist at the start
    TopLimit,     \* 100
    CronEvery,    \* time between two runs
    BackfillInterval, MaxJobs, \* of a backfill request; MaxJobs is 1000 by default
    MaxTime, MaxChanges, MaxFailures, MaxBackfills \* bounds

Tiers == {"all", "top100", "watchlist"}

PlannerAssumption ==
    /\ Planners # {}
    /\ Policies \in Seq([dataType : STRING, tier : Tiers, period : STRING, interval : Int,
                         priority : Int, enabled : BOOLEAN])
    /\ \A i, j \in DOMAIN Policies : i < j => Policies[i].priority <= Policies[j].priority
    /\ Symbols \subseteq Nat /\ Listed \subseteq Symbols /\ Watched \subseteq Symbols
    /\ CronEvery \in Nat \ {0} /\ TopLimit \in Nat \ {0}
    /\ BackfillInterval \in Nat \ {0} /\ MaxJobs \in Nat \ {0}
    /\ MaxTime \in Nat

VARIABLES
    now,
    active,      \* symbols with is_active
    watchlist,   \* symbols in symbol_collection_tiers
    endpoints,   \* data types with an active endpoint
    run,         \* planner -> [pc, at, batch, found, tiers]
    due,         \* runs cron still has to start now
    jobs,        \* table: key -> [tier, priority, mode]
    failedAt,    \* history: times of runs that failed
    changedAt,   \* history: times at which an operator changed something
    asked,       \* history: ranges of backfill requests
    changes, failures

config == <<active, watchlist, endpoints>>
plannerVars == <<now, config, run, due, jobs, failedAt, changedAt, asked, changes, failures>>

NoRun == [pc |-> 0, at |-> 0, batch |-> <<>>, found |-> {}, tiers |-> <<>>]

PlannerInit ==
    /\ now = 0
    /\ active = Symbols /\ watchlist = Watched
    /\ endpoints = Endpoints
    /\ run = [p \in Planners |-> NoRun]
    /\ due = Planners
    /\ jobs = <<>>
    /\ failedAt = {} /\ changedAt = {} /\ asked = {}
    /\ changes = 0 /\ failures = 0

\* A run is over before the next one of the same cron entry.
PlannerTick ==
    /\ now < MaxTime /\ due = {}
    /\ \A p \in Planners : run[p].pc = 0
    /\ now' = now + 1
    /\ due' = IF (now + 1) % CronEvery = 0 THEN Planners ELSE {}
    /\ UNCHANGED <<config, run, jobs, failedAt, changedAt, asked, changes, failures>>

\* An operator (de)activates a symbol or an endpoint, or edits the watchlist.
Change ==
    /\ changes < MaxChanges
    /\ changes' = changes + 1
    /\ changedAt' = changedAt \cup {now}
    /\ \/ /\ \E s \in Symbols : active' = SymDiff(active, {s})
          /\ UNCHANGED <<watchlist, endpoints>>
       \/ /\ \E s \in Symbols : watchlist' = SymDiff(watchlist, {s})
          /\ UNCHANGED <<active, endpoints>>
       \/ /\ \E d \in Endpoints : endpoints' = SymDiff(endpoints, {d})
          /\ UNCHANGED <<active, watchlist>>
    /\ UNCHANGED <<now, run, due, jobs, failedAt, asked, failures>>

-----------------------------------------------------------------------------
EndpointDataType(dataType) ==
    CASE dataType = "orderbook_imbalance" -> "orderbook"
      [] dataType = "liquidation_aggregate" -> "liquidation"
      [] OTHER -> dataType

RequiresEndpoint(dataType) == dataType # "aggregated_snapshot"

\* Active symbols with a market.
ListSymbolsByExchange == active \cap Listed

\* The first n of a set of ranks or times.
FirstOf(n, S) == {s \in S : Cardinality({r \in S : r < s}) < n}

ListSymbolMarketsByTier(tier) ==
    CASE tier = "watchlist" -> ListSymbolsByExchange \cap watchlist
      [] tier = "top100" -> FirstOf(TopLimit, ListSymbolsByExchange)
      [] tier = "all" -> ListSymbolsByExchange

ScheduledBucket(at, interval) == (at \div interval) * interval

\* Neither the tier nor the mode is part of the key.
IdempotencyKey(dataType, symbol, period, bucket) == <<dataType, symbol, period, bucket>>

JobsFor(policy, symbols, at) ==
    {[key |-> IdempotencyKey(policy.dataType, s, policy.period, ScheduledBucket(at, policy.interval)),
      tier |-> policy.tier, priority |-> policy.priority, mode |-> "realtime"] : s \in symbols}

Start(p) ==
    /\ p \in due /\ run[p].pc = 0
    /\ due' = due \ {p}
    /\ run' = [run EXCEPT ![p] = [NoRun EXCEPT !.pc = 1, !.at = now]]
    /\ UNCHANGED <<now, config, jobs, failedAt, changedAt, asked, changes, failures>>

\* Mutant: the tier is read for every policy.
CachedTierNot(r, tier) == ListSymbolMarketsByTier(tier)

\* Mutant: the cache has one entry.
CachedTierSingle(r, tier) ==
    IF r.tiers # <<>> THEN r.tiers[CHOOSE t \in DOMAIN r.tiers : TRUE] ELSE ListSymbolMarketsByTier(tier)

\* symbolCache.
CachedTier(r, tier) ==
    IF tier \in DOMAIN r.tiers THEN r.tiers[tier] ELSE ListSymbolMarketsByTier(tier)

On(policy) == policy.enabled /\ policy.interval > 0

\* endpointCache, which an empty answer leaves as it was.
HasEndpoint(r, dataType) == ~RequiresEndpoint(dataType) \/ EndpointDataType(dataType) \in r.found

\* The first query of RunAt's loop, for a data type that is not in endpointCache: with
\* no active endpoint the policy is skipped.
ListEndpoints(p) ==
    LET r == run[p]
        policy == Policies[r.pc]
        type == EndpointDataType(policy.dataType)
    IN  /\ r.pc \in DOMAIN Policies /\ On(policy) /\ ~HasEndpoint(r, policy.dataType)
        /\ run' = [run EXCEPT ![p] = IF type \in endpoints
                      THEN [r EXCEPT !.found = @ \cup {type}]
                      ELSE [r EXCEPT !.pc = @ + 1, !.batch = Append(@, {})]]
        /\ UNCHANGED <<now, config, due, jobs, failedAt, changedAt, asked, changes, failures>>

\* The rest of a turn of the loop: symbolCache or the second query, and the jobs; or
\* a policy that is off is skipped.
PlanPolicy(p) ==
    LET r == run[p]
        policy == Policies[r.pc]
    IN  /\ r.pc \in DOMAIN Policies
        /\ On(policy) => HasEndpoint(r, policy.dataType)
        /\ run' = [run EXCEPT ![p] =
              [pc |-> r.pc + 1, at |-> r.at,
               batch |-> Append(r.batch, IF On(policy) THEN JobsFor(policy, CachedTier(r, policy.tier), r.at)
                                         ELSE {}),
               found |-> r.found,
               tiers |-> IF On(policy)
                         THEN [t \in DOMAIN r.tiers \cup {policy.tier} |-> CachedTier(r, t)]
                         ELSE r.tiers]]
        /\ UNCHANGED <<now, config, due, jobs, failedAt, changedAt, asked, changes, failures>>

JobsOf(batch) == UNION {batch[i] : i \in DOMAIN batch}
KeysOf(batch) == {job.key : job \in JobsOf(batch)}

\* Of the jobs with one key, the first to be inserted.
FirstWith(batch, key) ==
    LET i == Min({i \in DOMAIN batch : \E job \in batch[i] : job.key = key})
    IN  CHOOSE job \in batch[i] : job.key = key

RowOf(job) == [tier |-> job.tier, priority |-> job.priority, mode |-> job.mode]

\* Mutant: ON CONFLICT DO UPDATE.
InsertAllOver(table, batch) ==
    [k \in DOMAIN table \cup KeysOf(batch) |->
        IF k \in KeysOf(batch) THEN RowOf(FirstWith(batch, k)) ELSE table[k]]

\* ON CONFLICT (idempotency_key) DO NOTHING: the row already there is kept.
InsertAll(table, batch) ==
    [k \in DOMAIN table \cup KeysOf(batch) |->
        IF k \in DOMAIN table THEN table[k] ELSE RowOf(FirstWith(batch, k))]

InsertJobs(p) ==
    /\ run[p].pc = Len(Policies) + 1
    /\ jobs' = InsertAll(jobs, run[p].batch)
    /\ run' = [run EXCEPT ![p] = NoRun]
    /\ UNCHANGED <<now, config, due, failedAt, changedAt, asked, changes, failures>>

\* A query or the transaction fails: nothing of the run is left.
Fail(p) ==
    /\ run[p].pc # 0 /\ failures < MaxFailures
    /\ failures' = failures + 1
    /\ failedAt' = failedAt \cup {run[p].at}
    /\ run' = [run EXCEPT ![p] = NoRun]
    /\ UNCHANGED <<now, config, due, jobs, changedAt, asked, changes>>

-----------------------------------------------------------------------------
\* Buckets of a backfill: those that begin in the range, the first MaxJobs of them.
BackfillBuckets(start, end) == FirstOf(MaxJobs, {b \in start..(end - 1) : b % BackfillInterval = 0})

\* lagging: the realtime collection is later than RealtimeLagPauseAfter.
PlanBackfillJobs(lagging, dataType, symbol, period, start, end) ==
    {[key |-> IdempotencyKey(dataType, symbol, period, b),
      tier |-> "all", priority |-> 1000, mode |-> "backfill"] :
         b \in IF lagging THEN {} ELSE BackfillBuckets(start, end)}

\* A backfill of a range of a policy's data, for a symbol, inserted as the planner's are.
Backfill ==
    /\ Cardinality(asked) < MaxBackfills
    /\ \E lagging \in BOOLEAN, i \in DOMAIN Policies, s \in Listed, start \in 0..now, end \in 0..now :
          /\ start < end
          /\ jobs' = InsertAll(jobs, <<PlanBackfillJobs(lagging, Policies[i].dataType, s,
                                                       Policies[i].period, start, end)>>)
          /\ asked' = asked \cup {[dataType |-> Policies[i].dataType, symbol |-> s,
                                   period |-> Policies[i].period, start |-> start, end |-> end]}
    /\ UNCHANGED <<now, config, run, due, failedAt, changedAt, changes, failures>>

PlannerNext ==
    \/ PlannerTick \/ Change \/ Backfill
    \/ \E p \in Planners : Start(p) \/ ListEndpoints(p) \/ PlanPolicy(p) \/ InsertJobs(p) \/ Fail(p)

PlannerSpec == PlannerInit /\ [][PlannerNext]_plannerVars

-----------------------------------------------------------------------------
\* Every variable has its type; no job is planned for the future.
PlannerTypeOK ==
    /\ now \in 0..MaxTime /\ active \subseteq Symbols /\ watchlist \subseteq Symbols
    /\ endpoints \subseteq Endpoints /\ due \subseteq Planners
    /\ \A p \in Planners : run[p].pc \in 0..(Len(Policies) + 1) /\ run[p].at \in 0..now
    /\ \A k \in DOMAIN jobs : /\ k[2] \in Listed /\ k[4] \in 0..now
                              /\ jobs[k].tier \in Tiers /\ jobs[k].mode \in {"realtime", "backfill"}

\* The policies that ask for work on a symbol.
PlansFor(s) == {i \in DOMAIN Policies : /\ Policies[i].enabled /\ Policies[i].interval > 0
                                        /\ s \in ListSymbolMarketsByTier(Policies[i].tier)
                                        /\ EndpointDataType(Policies[i].dataType) \in endpoints
                                           \/ ~RequiresEndpoint(Policies[i].dataType)}

\* Where several policies ask for the same work, the job is that of the policy with
\* the best priority, although the key does not tell them apart and the first insert
\* wins, and however runs overlap, provided that cron starts a run at the beginning of
\* the bucket, which all of them share, and that it does not fail
\* (planner.go:59-118, repository.go:23-31, 101-156).
BestPriorityWins ==
    changedAt = {} =>
       \A k \in DOMAIN jobs :
          (jobs[k].mode = "realtime" /\ k[4] % CronEvery = 0 /\ k[4] \notin failedAt) =>
          \A i \in PlansFor(k[2]) :
             (Policies[i].dataType = k[1] /\ Policies[i].period = k[3] /\ k[4] % Policies[i].interval = 0)
             => jobs[k].priority <= Policies[i].priority

\* Every interval that has passed has its job for every symbol of the tier, provided
\* that cron started a run in it, that none failed and that no one edits the tiers
\* (planner.go:59-118).
EveryBucketPlanned ==
    changedAt = {} =>
       \A s \in Listed : \A i \in PlansFor(s) :
          LET policy == Policies[i] IN
          \A b \in 0..now :
             (/\ b % policy.interval = 0 /\ b + policy.interval <= now
              /\ \E t \in b..(b + policy.interval - 1) : t % CronEvery = 0
              /\ failedAt \cap b..(b + policy.interval - 1) = {})
             => IdempotencyKey(policy.dataType, s, policy.period, b) \in DOMAIN jobs

View(p, tier, dataType) ==
    {job.key[2] : job \in {j \in JobsOf(run[p].batch) : j.tier = tier /\ j.key[1] = dataType}}

\* One run plans the same symbols for all policies of a tier, although it reads the
\* tiers between the policies while an operator edits them (planner.go:84-93).
OneViewPerTier ==
    \A p \in Planners : \A a, b \in JobsOf(run[p].batch) :
       a.tier = b.tier => View(p, a.tier, a.key[1]) = View(p, b.tier, b.key[1])
=============================================================================
