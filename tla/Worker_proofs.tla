--------------------------- MODULE Worker_proofs ---------------------------
(***************************************************************************)
(* Proofs about what a worker rests on: the circuit breaker, for any       *)
(* callers, threshold, cooldown and number of half-open passes, and the    *)
(* execution of a job, for any executors, data types and answers, any      *)
(* number of retries, deaths of the process and failed writes.             *)
(***************************************************************************)
EXTENDS CircuitBreaker, Collector, TLAPS

-----------------------------------------------------------------------------
(* The circuit breaker. *)

\* While the circuit is open the rest of the cooldown has still to pass since
\* it opened, because late failures only push openUntil back; when it is not
\* open the cooldown is over.
CooldownCovers ==
    /\ state = "open" => openFor + sinceTrip >= Cooldown
    /\ state # "open" => sinceTrip = Cooldown

BreakerInv == TypeOK /\ StateConsistent /\ CooldownCovers

\* A new circuit is closed and has no failures.
LEMMA BreakerInit == Init => BreakerInv
  BY BreakerAssumption
     DEF Init, BreakerInv, TypeOK, StateConsistent, CooldownCovers

\* Every method, in any interleaving of the callers, keeps the invariant.
LEMMA BreakerStep == BreakerInv /\ [Next]_vars => BreakerInv'
<1> SUFFICES ASSUME BreakerInv, [Next]_vars PROVE BreakerInv'
  BY Zenon
<1> USE BreakerAssumption
    DEF BreakerInv, TypeOK, StateConsistent, CooldownCovers, AtMost
<1>1. ASSUME NEW c \in Callers, Allow(c) PROVE BreakerInv'
  BY <1>1 DEF Allow
<1>2. ASSUME NEW c \in Callers, RecordSuccess(c) PROVE BreakerInv'
  BY <1>2 DEF RecordSuccess
<1>3. ASSUME NEW c \in Callers, RecordFailure(c) PROVE BreakerInv'
  BY <1>3 DEF RecordFailure
<1>4. ASSUME NEW c \in Callers, NoVerdict(c) PROVE BreakerInv'
  BY <1>4, Zenon DEF NoVerdict
<1>5. CASE Tick
  BY <1>5 DEF Tick
<1>6. CASE UNCHANGED vars
  BY <1>6, Zenon DEF vars
<1> QED BY <1>1, <1>2, <1>3, <1>4, <1>5, <1>6, Zenon DEF Next, Verdict

\* TypeOK is an invariant of the breaker.
THEOREM BreakerTypeCorrect == Spec => []TypeOK
<1>1. BreakerInv => TypeOK
  BY Zenon DEF BreakerInv
<1> QED BY <1>1, BreakerInit, BreakerStep, PTL DEF Spec

\* A closed circuit is below its threshold, a half-open one is undecided, and
\* only an open one has a cooldown left, whatever the callers report when.
THEOREM BreakerConsistent == Spec => []StateConsistent
<1>1. BreakerInv => StateConsistent
  BY Zenon DEF BreakerInv
<1> QED BY <1>1, BreakerInit, BreakerStep, PTL DEF Spec

\* No call is let through within a cooldown of the circuit's opening.
THEOREM BreakerQuiet == Spec => QuietAfterTrip
<1>1. ASSUME BreakerInv, [Next]_vars
      PROVE  calling' \subseteq calling \/ sinceTrip = Cooldown
  <2> USE BreakerAssumption DEF BreakerInv, TypeOK, CooldownCovers
  <2>1. ASSUME NEW c \in Callers, Allow(c) PROVE sinceTrip = Cooldown
    BY <1>1, <2>1 DEF Allow
  <2>2. ASSUME NEW c \in Callers, Verdict(c) PROVE calling' \subseteq calling
    BY <2>2, Zenon DEF Verdict, RecordSuccess, RecordFailure, NoVerdict
  <2>3. CASE Tick \/ UNCHANGED vars
    BY <2>3, Zenon DEF Tick, vars
  <2> QED BY <1>1, <2>1, <2>2, <2>3, Zenon DEF Next
<1>2. BreakerInv /\ [Next]_vars => calling' \subseteq calling \/ sinceTrip = Cooldown
  BY <1>1, Zenon
<1> QED BY <1>2, BreakerInit, BreakerStep, PTL DEF Spec, QuietAfterTrip

-----------------------------------------------------------------------------
(* What the writers write. *)

\* The records of a result that the filter keeps, and their buckets.
Kept(result) ==
    UNION {{r.id : r \in Valid(result[k])} \cup {r.bucket : r \in Valid(result[k])} : k \in Kinds}

\* What Postgres is told to write.
LEMMA PostgresWrites ==
    ASSUME NEW result, NEW w \in RepositoryWriter(result)
    PROVE  /\ w.table = "issues" => w.ids = Issues(result)
           /\ w.table # "issues" => w.turn[1] > 1 /\ w.ids \subseteq Kept(result)
<1> DEFINE r == FilterNormalizedResult(result)
           One(v) == /\ v.table = "issues" => v.ids = Issues(result)
                     /\ v.table # "issues" => v.turn[1] > 1 /\ v.ids \subseteq Kept(result)
<1>1. ASSUME NEW k \in Kinds, NEW R \in SUBSET r[k]
      PROVE  Ids(R) \subseteq Kept(result) /\ {e.bucket : e \in R} \subseteq Kept(result)
  BY <1>1 DEF Ids, Kept, FilterNormalizedResult
<1>2. \A k \in Kinds : Ids(r[k]) \subseteq Kept(result)
  BY <1>1, Zenon
<1>3. /\ deriveOpenInterest(r["market"]) \subseteq Kept(result)
      /\ deriveFunding(r["market"]) \subseteq Kept(result)
      /\ Ids({e \in r["liquidation"] : "large" \in e.has}) \subseteq Kept(result)
      /\ {e.bucket : e \in r["liquidation"]} \subseteq Kept(result)
      /\ Ids({f \in r["taker_flow"] : "delta" \in f.has}) \subseteq Kept(result)
  BY <1>1, Zenon DEF deriveOpenInterest, deriveFunding, Kinds
<1>4. One(Transaction(1, "issues", Issues(result)))
  BY Zenon DEF Transaction, TransactionFor
<1>5. ASSUME NEW stage \in 2..18, NEW table, table # "issues", NEW ids, ids \subseteq Kept(result)
      PROVE  One(Transaction(stage, table, ids))
  BY <1>5 DEF Transaction, TransactionFor
<1>6. ASSUME NEW v \in UpsertCVDFromTakerFlows(r["taker_flow"])
      PROVE  One(v)
  <2>1. PICK i \in Ids({f \in r["taker_flow"] : "delta" \in f.has}) :
           v = TransactionFor(11, i, "cvd", {i})
    BY Zenon DEF UpsertCVDFromTakerFlows
  <2>2. {i} \subseteq Kept(result)
    BY <1>3, <2>1, Zenon
  <2> QED
    BY <2>1, <2>2 DEF TransactionFor
<1>7. ASSUME NEW v \in Statements(result)
      PROVE  One(v)
  <2> HIDE DEF One
  <2>1. /\ One(Transaction(2, "market", Ids(r["market"])))
        /\ One(Transaction(3, "kline", Ids(r["kline"])))
        /\ One(Transaction(4, IF dataType = "open_interest_history" THEN "oi_history" ELSE "oi", Ids(r["oi"])))
        /\ One(Transaction(5, "oi", IF dataType = "open_interest" THEN deriveOpenInterest(r["market"]) ELSE {}))
        /\ One(Transaction(6, "funding", Ids(r["funding"])))
        /\ One(Transaction(7, "funding_history", Ids(r["funding_history"])))
        /\ One(Transaction(8, "funding", IF dataType = "funding" THEN deriveFunding(r["market"]) ELSE {}))
        /\ One(Transaction(9, "long_short", Ids(r["long_short"])))
        /\ One(Transaction(10, "taker_flow", Ids(r["taker_flow"])))
    BY <1>2, <1>3, <1>5 DEF Kinds
  <2>2. /\ One(Transaction(12, "cvd", Ids(r["cvd"])))
        /\ One(Transaction(13, "liquidation", Ids({e \in r["liquidation"] : "large" \in e.has})))
        /\ One(Transaction(14, "liquidation_aggregate", {e.bucket : e \in r["liquidation"]}))
        /\ One(Transaction(15, "liquidation_aggregate", Ids(r["liquidation_aggregate"])))
        /\ One(Transaction(16, "basis", Ids(r["basis"])))
        /\ One(Transaction(17, "imbalance", Ids(r["imbalance"])))
        /\ One(Transaction(18, "divergence", Ids(r["divergence"])))
    BY <1>2, <1>3, <1>5 DEF Kinds
  <2> QED
    BY <1>4, <2>1, <2>2 DEF Statements
<1> QED
  BY <1>6, <1>7, Zenon DEF RepositoryWriter

\* What a result has in Postgres once all of it is written.
AllStored(result) ==
    /\ Stored("issues", Issues(result))
    /\ \A k \in Kinds \ {"oi", "liquidation"} : Stored(k, Ids(Valid(result[k])))
    /\ Stored(IF dataType = "open_interest_history" THEN "oi_history" ELSE "oi", Ids(Valid(result["oi"])))
    /\ dataType = "open_interest" => Stored("oi", deriveOpenInterest(Valid(result["market"])))
    /\ dataType = "funding" => Stored("funding", deriveFunding(Valid(result["market"])))
    /\ Stored("cvd", Ids({f \in Valid(result["taker_flow"]) : "delta" \in f.has}))
    /\ Stored("liquidation", Ids({e \in Valid(result["liquidation"]) : "large" \in e.has}))
    /\ Stored("liquidation_aggregate", {e.bucket : e \in Valid(result["liquidation"])})

\* When its transactions are done, all of a result is stored.
LEMMA PostgresComplete ==
    ASSUME NEW result,
           \A w \in RepositoryWriter(result) : Stored(w.table, w.ids)
    PROVE  AllStored(result)
<1> DEFINE r == FilterNormalizedResult(result)
<1>1. \A k \in Kinds : r[k] = Valid(result[k])
  BY Zenon DEF FilterNormalizedResult
<1>2. ASSUME NEW v \in Statements(result) \cup UpsertCVDFromTakerFlows(r["taker_flow"])
      PROVE  Stored(v.table, v.ids)
  BY <1>2, Zenon DEF RepositoryWriter, Stored
<1>3. ASSUME NEW stage, NEW table, NEW ids, Transaction(stage, table, ids) \in Statements(result)
      PROVE  Stored(table, ids)
  <2>1. Transaction(stage, table, ids).table = table /\ Transaction(stage, table, ids).ids = ids
    BY Zenon DEF Transaction, TransactionFor
  <2> QED
    BY <1>2, <1>3, <2>1, Zenon
<1>4. ASSUME NEW i \in Ids({f \in r["taker_flow"] : "delta" \in f.has})
      PROVE  <<"cvd", i>> \in tables
  <2> DEFINE v == TransactionFor(11, i, "cvd", {i})
  <2>1. v \in UpsertCVDFromTakerFlows(r["taker_flow"]) /\ v.table = "cvd" /\ v.ids = {i}
    BY Zenon DEF UpsertCVDFromTakerFlows, TransactionFor
  <2> QED
    BY <1>2, <2>1, Zenon DEF Stored
<1>5. Stored("cvd", Ids({f \in r["taker_flow"] : "delta" \in f.has}))
  BY <1>4, Zenon DEF Stored
<1>6. /\ Stored("issues", Issues(result)) /\ Stored("market", Ids(r["market"]))
      /\ Stored("kline", Ids(r["kline"])) /\ Stored("funding", Ids(r["funding"]))
      /\ Stored("funding_history", Ids(r["funding_history"]))
      /\ Stored("long_short", Ids(r["long_short"])) /\ Stored("taker_flow", Ids(r["taker_flow"]))
      /\ Stored("cvd", Ids(r["cvd"])) /\ Stored("basis", Ids(r["basis"]))
      /\ Stored("imbalance", Ids(r["imbalance"])) /\ Stored("divergence", Ids(r["divergence"]))
      /\ Stored("liquidation_aggregate", Ids(r["liquidation_aggregate"]))
  <2> DEFINE S == Statements(result)
  <2>1. /\ Transaction(1, "issues", Issues(result)) \in S
        /\ Transaction(2, "market", Ids(r["market"])) \in S
        /\ Transaction(3, "kline", Ids(r["kline"])) \in S
        /\ Transaction(6, "funding", Ids(r["funding"])) \in S
        /\ Transaction(7, "funding_history", Ids(r["funding_history"])) \in S
        /\ Transaction(9, "long_short", Ids(r["long_short"])) \in S
    BY Zenon DEF Statements
  <2>2. /\ Transaction(10, "taker_flow", Ids(r["taker_flow"])) \in S
        /\ Transaction(12, "cvd", Ids(r["cvd"])) \in S
        /\ Transaction(15, "liquidation_aggregate", Ids(r["liquidation_aggregate"])) \in S
        /\ Transaction(16, "basis", Ids(r["basis"])) \in S
        /\ Transaction(17, "imbalance", Ids(r["imbalance"])) \in S
        /\ Transaction(18, "divergence", Ids(r["divergence"])) \in S
    BY Zenon DEF Statements
  <2> HIDE DEF r
  <2> QED
    BY <1>3, <2>1, <2>2
<1>7. /\ Stored(IF dataType = "open_interest_history" THEN "oi_history" ELSE "oi", Ids(r["oi"]))
      /\ dataType = "open_interest" => Stored("oi", deriveOpenInterest(r["market"]))
      /\ dataType = "funding" => Stored("funding", deriveFunding(r["market"]))
      /\ Stored("liquidation", Ids({e \in r["liquidation"] : "large" \in e.has}))
      /\ Stored("liquidation_aggregate", {e.bucket : e \in r["liquidation"]})
  <2> DEFINE S == Statements(result)
  <2>1. /\ Transaction(4, IF dataType = "open_interest_history" THEN "oi_history" ELSE "oi",
                       Ids(r["oi"])) \in S
        /\ Transaction(13, "liquidation", Ids({e \in r["liquidation"] : "large" \in e.has})) \in S
        /\ Transaction(14, "liquidation_aggregate", {e.bucket : e \in r["liquidation"]}) \in S
    BY Zenon DEF Statements
  <2>2. /\ dataType = "open_interest"
              => Transaction(5, "oi", deriveOpenInterest(r["market"])) \in S
        /\ dataType = "funding" => Transaction(8, "funding", deriveFunding(r["market"])) \in S
    BY Zenon DEF Statements
  <2> HIDE DEF r, S
  <2> QED
    BY <1>3, <2>1, <2>2, Zenon DEF S
<1> HIDE DEF r
<1>8. ASSUME NEW k \in Kinds \ {"oi", "liquidation"}
      PROVE  Stored(k, Ids(r[k]))
  BY <1>6, Zenon DEF Kinds
<1>9. /\ r["oi"] = Valid(result["oi"]) /\ r["market"] = Valid(result["market"])
      /\ r["liquidation"] = Valid(result["liquidation"]) /\ r["taker_flow"] = Valid(result["taker_flow"])
  BY <1>1, Zenon DEF Kinds
<1> QED
  BY <1>1, <1>5, <1>6, <1>7, <1>8, <1>9, Zenon DEF AllStored

-----------------------------------------------------------------------------
(* One job through its executions. *)

Done(w) == Stored(w.table, w.ids)

\* What the response asks to be written is written or still to do.
WritesInv ==
    (pc = "write" \/ status = "succeeded") => \A w \in RepositoryWriter(response) : w \in todo \/ Done(w)

\* What is in a table, the issues apart, is of a kept record of an answer whose
\* rejected records are in quarantine.
TablesInv ==
    \A t, i : (<<t, i>> \in tables /\ t # "issues") =>
        \E result \in Responses : i \in Kept(result) /\ Stored("issues", Issues(result))

ExecutionInv == CollectorTypeOK /\ WritesInv /\ TablesInv /\ TransientKeepsRetries

\* Nothing is written at the beginning.
LEMMA ExecutionInit == CollectorInit => ExecutionInv
  BY DEF CollectorInit, ExecutionInv, CollectorTypeOK, WritesInv, TablesInv, TransientKeepsRetries

\* What is written depends on the data type of the job and on nothing else.
LEMMA WritersStay ==
    ASSUME dataType' = dataType, NEW result
    PROVE  RepositoryWriter(result)' = RepositoryWriter(result)
<1>1. Statements(result)' = Statements(result)
  BY DEF Statements
<1> QED
  BY <1>1, Zenon DEF RepositoryWriter

\* A step that moves on, or gives up, and leaves the stores alone.
LEMMA MovesKeep ==
    ASSUME ExecutionInv,
           dataType' = dataType, tables' = tables,
           response' \in {response, NoResult},
           (pc' = "write" \/ status' = "succeeded") => response' = response /\ todo' = todo
                                                       /\ (pc = "write" \/ status = "succeeded")
    PROVE  WritesInv' /\ TablesInv'
<1>1. WritesInv /\ TablesInv
  BY Zenon DEF ExecutionInv
<1>2. \A w : Done(w)' = Done(w)
  BY Zenon DEF Done, Stored
<1>3. \A result : RepositoryWriter(result)' = RepositoryWriter(result)
  BY WritersStay, Zenon
<1>4. WritesInv'
  BY <1>1, <1>2, <1>3, Zenon DEF WritesInv
<1>5. TablesInv'
  BY <1>1, Zenon DEF TablesInv, Stored
<1> QED
  BY <1>4, <1>5, Zenon

\* Execute gives up.
LEMMA ExitKeeps ==
    ASSUME ExecutionInv, pc # "idle", NEW at, NEW cause, NEW verdict,
           NEW report \in {health, "degraded", "unhealthy"}, Exit(at, cause, verdict, report),
           (at = "execute" \/ cause \in {"busy", "write"}) => verdict.recoverable
    PROVE  ExecutionInv'
<1>1. CollectorTypeOK /\ status = "running"
  BY Zenon DEF ExecutionInv, CollectorTypeOK
<1>2. /\ ended'.at = at /\ ended'.cause = cause /\ health' \in {health, report}
      /\ status' = IF retryOrDeadLetter(verdict.recoverable) THEN "dead_letter" ELSE "pending"
      /\ retryCount' = retryCount + 1 /\ pc' = "idle" /\ response' = NoResult /\ todo' = {}
      /\ dataType' = dataType /\ tables' = tables
  BY Zenon DEF Exit, End
<1>3. retryCount \in Nat /\ retryCount' \in Nat /\ JobMaxRetry \in Nat
  BY <1>1, <1>2, CollectorAssumption DEF CollectorTypeOK
<1>4. CollectorTypeOK'
  BY <1>1, <1>2, <1>3, Zenon DEF CollectorTypeOK
<1>5. WritesInv' /\ TablesInv'
  BY <1>1, <1>2, MovesKeep, Zenon
<1>6. TransientKeepsRetries'
  BY <1>2, <1>3, Zenon DEF TransientKeepsRetries, retryOrDeadLetter
<1> QED
  BY <1>4, <1>5, <1>6, Zenon DEF ExecutionInv

\* Execute goes on to its next step before the writes.
LEMMA GoKeeps ==
    ASSUME ExecutionInv, pc \notin {"idle", "write"},
           NEW to \in {"symbol", "endpoint", "adapter", "build", "execute", "normalize"}, Go(to)
    PROVE  ExecutionInv'
<1>1. CollectorTypeOK /\ status = "running" /\ TransientKeepsRetries
  BY Zenon DEF ExecutionInv, CollectorTypeOK
<1>2. /\ pc' = to /\ status' = status /\ retryCount' = retryCount /\ response' = response /\ todo' = todo
      /\ health' = health /\ ended' = ended
      /\ dataType' = dataType /\ tables' = tables
  BY Zenon DEF Go, data
<1>3. todo = {}
  BY <1>1, Zenon DEF CollectorTypeOK
<1>4. CollectorTypeOK'
  BY <1>1, <1>2, <1>3, Zenon DEF CollectorTypeOK
<1>5. WritesInv' /\ TablesInv'
  BY <1>1, <1>2, MovesKeep, Zenon
<1>6. TransientKeepsRetries'
  BY <1>1, <1>2, Zenon DEF TransientKeepsRetries
<1> QED
  BY <1>4, <1>5, <1>6, Zenon DEF ExecutionInv

\* The steps up to the request.
LEMMA AskingKeeps ==
    ASSUME ExecutionInv, Route \/ Lookup \/ BuildRequest
    PROVE  ExecutionInv'
<1>1. ASSUME Route
      PROVE  ExecutionInv'
  <2>1. pc = "route" /\ (Go("symbol") \/ Exit("route", "no executor", Classification("parse", FALSE), health))
    BY <1>1, Zenon DEF Route
  <2> QED
    BY <2>1, GoKeeps, ExitKeeps, Zenon
<1>2. ASSUME Lookup
      PROVE  ExecutionInv'
  <2>1. pc \in {"symbol", "endpoint", "adapter"}
    BY <1>2, Zenon DEF Lookup, NextStep
  <2>2. NextStep[pc] \in {"endpoint", "adapter", "build"}
    BY <2>1 DEF NextStep
  <2>3. CASE Go(NextStep[pc])
    BY <2>1, <2>2, <2>3, GoKeeps, Zenon
  <2>4. ASSUME NEW cause \in {"missing", "deadline"},
               Exit(pc, cause, lookupFailed(cause), IF pc = "endpoint" THEN "degraded" ELSE "unhealthy")
        PROVE  ExecutionInv'
    BY <2>1, <2>4, ExitKeeps, Zenon
  <2> QED
    BY <1>2, <2>3, <2>4, Zenon DEF Lookup
<1>3. ASSUME BuildRequest
      PROVE  ExecutionInv'
  <2>1. pc = "build"
    BY <1>3, Zenon DEF BuildRequest
  <2>2. CASE Go("execute")
    BY <2>1, <2>2, GoKeeps, Zenon
  <2>3. ASSUME NEW err \in [cause : {"inactive", "template"}, says : Texts],
               Exit("build", err.cause, classifyCollectorError(err), "degraded")
        PROVE  ExecutionInv'
    <3>1. err.cause \notin {"busy", "write"}
      BY Zenon
    <3> QED
      BY <2>1, <2>3, <3>1, ExitKeeps, Zenon
  <2> QED
    BY <1>3, <2>2, <2>3, Zenon DEF BuildRequest
<1> QED
  BY <1>1, <1>2, <1>3, Zenon

\* The request.
LEMMA RequestKeeps ==
    ASSUME ExecutionInv, ExecuteRequest
    PROVE  ExecutionInv'
<1>1. pc = "execute"
  BY Zenon DEF ExecuteRequest
<1>2. CASE Go("normalize")
  BY <1>1, <1>2, GoKeeps, Zenon
<1>3. ASSUME NEW cause \in {"deadline", "canceled", "net_timeout", "net"}, RequestFails(cause)
      PROVE  ExecutionInv'
  <2> DEFINE verdict == classifyCollectorError([cause |-> cause, says |-> {}])
  <2>1. verdict.recoverable
    BY Zenon DEF classifyCollectorError, ClassifyError, Classification
  <2>2. Exit("execute", cause, verdict, "degraded")
    BY <1>3, Zenon DEF RequestFails
  <2> QED
    BY <1>1, <2>1, <2>2, ExitKeeps, Zenon
<1>4. ASSUME NEW code \in StatusCodes, NEW body, StatusFails(code, body)
      PROVE  ExecutionInv'
  <2> DEFINE verdict == ClassifyHTTPStatus(code, body)
  <2>1. CASE code = 429 \/ code >= 500
    <3>1. verdict.recoverable
      <4>1. ClassifyHTTPStatus(429, body) = Classification("rate_limited", TRUE)
        BY DEF ClassifyHTTPStatus
      <4>2. ClassifyHTTPStatus(503, body) = Classification("server_error", TRUE)
        BY DEF ClassifyHTTPStatus
      <4>3. code \in {429, 503}
        BY <2>1 DEF StatusCodes
      <4> QED
        BY <4>1, <4>2, <4>3 DEF Classification
    <3>2. Exit("status", "busy", verdict, "degraded")
      BY <1>4, <2>1, Zenon DEF StatusFails
    <3> QED
      BY <1>1, <3>1, <3>2, ExitKeeps, Zenon
  <2>2. CASE ~(code = 429 \/ code >= 500)
    <3>1. Exit("status", "refused", verdict, "unhealthy")
      BY <1>4, <2>2, Zenon DEF StatusFails
    <3> QED
      BY <1>1, <3>1, ExitKeeps, Zenon
  <2> QED
    BY <2>1, <2>2, Zenon
<1> QED
  BY <1>2, <1>3, <1>4, Zenon DEF ExecuteRequest

\* An answer is normalized, or is not.
LEMMA NormalizeKeeps ==
    ASSUME ExecutionInv, Normalize
    PROVE  ExecutionInv'
<1>1. pc = "normalize" /\ CollectorTypeOK /\ TablesInv /\ TransientKeepsRetries
  BY Zenon DEF Normalize, ExecutionInv
<1>2. ASSUME NEW result \in Responses, response' = result, todo' = RepositoryWriter(result), pc' = "write",
             UNCHANGED <<dataType, status, retryCount, tables, health, ended, limits>>
      PROVE  ExecutionInv'
  <2>1. /\ dataType' = dataType /\ status' = status /\ retryCount' = retryCount
        /\ tables' = tables /\ health' = health /\ ended' = ended
    BY <1>2, Zenon
  <2>2. todo' = RepositoryWriter(response)'
    <3>1. RepositoryWriter(result)' = RepositoryWriter(result)
      BY <2>1, WritersStay
    <3>2. RepositoryWriter(response)' = RepositoryWriter(result)'
      BY <1>2, Zenon
    <3> QED
      BY <1>2, <3>1, <3>2, Zenon
  <2>3. CollectorTypeOK'
    BY <1>1, <1>2, <2>1, <2>2, Zenon DEF CollectorTypeOK
  <2>4. WritesInv'
    BY <2>2, Zenon DEF WritesInv
  <2>5. TablesInv'
    BY <1>1, <2>1, Zenon DEF TablesInv, Stored
  <2>6. TransientKeepsRetries'
    BY <1>1, <2>1, Zenon DEF TransientKeepsRetries
  <2> QED
    BY <2>3, <2>4, <2>5, <2>6, Zenon DEF ExecutionInv
<1>3. ASSUME NEW err \in [cause : {"unsupported", "payload"}, says : Texts],
             Exit("normalize", err.cause, classifyCollectorError(err), "unhealthy")
      PROVE  ExecutionInv'
  <2>1. err.cause \notin {"busy", "write"}
    BY Zenon
  <2> QED
    BY <1>1, <1>3, <2>1, ExitKeeps, Zenon
<1> QED
  BY <1>2, <1>3, Zenon DEF Normalize

\* A transaction, when it is due, comes after the quarantine.
LEMMA QuarantineIsFirst ==
    ASSUME ExecutionInv, pc = "write", NEW w \in todo, DueWrite(w), w.table # "issues"
    PROVE  w.ids \subseteq Kept(response) /\ Stored("issues", Issues(response))
<1>1. CollectorTypeOK /\ WritesInv
  BY Zenon DEF ExecutionInv
<1>2. w \in RepositoryWriter(response) /\ \A v \in RepositoryWriter(response) : v \in todo \/ Done(v)
  BY <1>1, Zenon DEF CollectorTypeOK, WritesInv
<1>3. w.turn[1] > 1 /\ w.ids \subseteq Kept(response)
  BY <1>2, PostgresWrites, Zenon
<1>4. Stored("issues", Issues(response))
  <2> DEFINE v == Transaction(1, "issues", Issues(response))
  <2>1. v.turn = <<1, 0>> /\ v.table = "issues" /\ v.ids = Issues(response) /\ v \in Statements(response)
    BY Zenon DEF Transaction, TransactionFor, Statements
  <2> HIDE DEF v
  <2>2. CASE Issues(response) = {}
    BY <2>2, Zenon DEF Stored
  <2>3. CASE Issues(response) # {}
    <3>1. v \in RepositoryWriter(response)
      BY <2>1, <2>3, Zenon DEF RepositoryWriter
    <3>2. v.turn[1] < w.turn[1]
      BY <1>3, <2>1
    <3>3. Done(v)
      BY <1>2, <3>1, <3>2, Zenon DEF DueWrite, Before
    <3> QED
      BY <2>1, <3>3, Zenon DEF Done
  <2> QED
    BY <2>2, <2>3, Zenon
<1> QED
  BY <1>3, <1>4, Zenon

\* One write is done.
LEMMA WriteKeeps ==
    ASSUME ExecutionInv, WriteOne
    PROVE  ExecutionInv'
<1>1. CollectorTypeOK /\ WritesInv /\ TablesInv /\ TransientKeepsRetries /\ pc = "write"
  BY Zenon DEF ExecutionInv, WriteOne
<1>2. PICK w \in todo :
         /\ DueWrite(w) /\ todo' = todo \ {w}
         /\ tables' = tables \cup {<<w.table, i>> : i \in w.ids}
  BY Zenon DEF WriteOne
<1>3. /\ pc' = pc /\ status' = status /\ retryCount' = retryCount /\ response' = response
      /\ health' = health /\ ended' = ended /\ dataType' = dataType
  BY Zenon DEF WriteOne
<1>4. RepositoryWriter(response)' = RepositoryWriter(response)
  BY <1>3, WritersStay, Zenon
<1>5. tables \subseteq tables'
  BY <1>2, Zenon
<1>6. CollectorTypeOK'
  BY <1>1, <1>2, <1>3, <1>4, Zenon DEF CollectorTypeOK
<1>7. WritesInv'
  <2>1. \A v : Done(v) => Done(v)'
    BY <1>5, Zenon DEF Done, Stored
  <2>2. Done(w)'
    BY <1>2, Zenon DEF Done, Stored
  <2>3. \A v \in RepositoryWriter(response) : v \in todo \/ Done(v)
    BY <1>1, Zenon DEF WritesInv
  <2> QED
    BY <1>2, <1>4, <2>1, <2>2, <2>3, Zenon DEF WritesInv
<1>8. TablesInv'
  <2> SUFFICES ASSUME NEW t, NEW i, <<t, i>> \in tables', t # "issues"
               PROVE  \E result \in Responses : i \in Kept(result) /\ Stored("issues", Issues(result))'
    BY Zenon DEF TablesInv
  <2>1. \A ids : Stored("issues", ids) => Stored("issues", ids)'
    BY <1>5, Zenon DEF Stored
  <2>2. CASE <<t, i>> \in tables
    BY <1>1, <2>1, <2>2, Zenon DEF TablesInv
  <2>3. CASE <<t, i>> \notin tables
    <3>1. t = w.table /\ i \in w.ids
      BY <1>2, <2>3
    <3>2. i \in Kept(response) /\ Stored("issues", Issues(response))
      BY <1>1, <1>2, <3>1, QuarantineIsFirst, Zenon
    <3>3. response \in Responses
      BY <1>1, Zenon DEF CollectorTypeOK
    <3> QED
      BY <2>1, <3>2, <3>3, Zenon
  <2> QED
    BY <2>2, <2>3, Zenon
<1>9. TransientKeepsRetries'
  BY <1>1, <1>3, Zenon DEF TransientKeepsRetries
<1> QED
  BY <1>6, <1>7, <1>8, <1>9, Zenon DEF ExecutionInv

\* The other steps leave the stores alone.
LEMMA OthersKeep ==
    ASSUME ExecutionInv, Claim \/ WriteFails \/ Succeed \/ Recover \/ Crash \/ UNCHANGED collectorVars
    PROVE  ExecutionInv'
<1>1. CollectorTypeOK /\ TransientKeepsRetries
  BY Zenon DEF ExecutionInv
<1>2. ASSUME Claim
      PROVE  ExecutionInv'
  <2>1. /\ pc = "idle" /\ status = "pending" /\ status' = "running" /\ pc' = "route"
        /\ retryCount' = retryCount /\ response' = response /\ todo' = todo /\ tables' = tables
        /\ health' = health /\ ended' = ended /\ dataType' = dataType
    BY <1>2, Zenon DEF Claim, data
  <2>2. CollectorTypeOK'
    BY <1>1, <2>1, Zenon DEF CollectorTypeOK
  <2>3. WritesInv' /\ TablesInv'
    BY <2>1, MovesKeep, Zenon
  <2> QED
    BY <2>1, <2>2, <2>3, Zenon DEF ExecutionInv, TransientKeepsRetries
<1>3. ASSUME WriteFails
      PROVE  ExecutionInv'
  <2>1. Classification("server_error", TRUE).recoverable
    BY Zenon DEF Classification
  <2>2. pc = "write" /\ Exit("write", "write", Classification("server_error", TRUE), "unhealthy")
    BY <1>3, Zenon DEF WriteFails
  <2> QED
    BY <2>1, <2>2, ExitKeeps, Zenon
<1>4. ASSUME Succeed
      PROVE  ExecutionInv'
  <2>1. /\ pc = "write" /\ todo = {} /\ health' \in {health, "healthy"} /\ status' = "succeeded" /\ pc' = "idle"
        /\ retryCount' = retryCount /\ response' = response /\ todo' = todo /\ tables' = tables
        /\ dataType' = dataType
    BY <1>4, Zenon DEF Succeed, data
  <2>2. CollectorTypeOK'
    BY <1>1, <2>1, Zenon DEF CollectorTypeOK
  <2>3. WritesInv' /\ TablesInv'
    BY <2>1, MovesKeep, Zenon
  <2> QED
    BY <2>1, <2>2, <2>3, Zenon DEF ExecutionInv, TransientKeepsRetries
<1>5. ASSUME Recover
      PROVE  ExecutionInv'
  <2>1. /\ pc = "idle" /\ status = "running" /\ status' = "pending" /\ pc' = pc
        /\ retryCount' = retryCount + 1 /\ response' = response /\ todo' = todo /\ tables' = tables
        /\ health' = health /\ dataType' = dataType
    BY <1>5, Zenon DEF Recover, data
  <2>2. CollectorTypeOK'
    BY <1>1, <2>1 DEF CollectorTypeOK
  <2>3. WritesInv' /\ TablesInv'
    BY <2>1, MovesKeep, Zenon
  <2> QED
    BY <2>1, <2>2, <2>3, Zenon DEF ExecutionInv, TransientKeepsRetries
<1>6. ASSUME Crash
      PROVE  ExecutionInv'
  <2>1. /\ pc # "idle" /\ status' = status /\ pc' = "idle"
        /\ retryCount' = retryCount /\ response' = NoResult /\ todo' = {} /\ tables' = tables
        /\ health' = health /\ dataType' = dataType
    BY <1>6, Zenon DEF Crash
  <2>2. status = "running"
    BY <1>1, <2>1, Zenon DEF CollectorTypeOK
  <2>3. CollectorTypeOK'
    BY <1>1, <2>1, <2>2, Zenon DEF CollectorTypeOK
  <2>4. WritesInv' /\ TablesInv'
    BY <2>1, <2>2, MovesKeep, Zenon
  <2> QED
    BY <2>1, <2>2, <2>3, <2>4, Zenon DEF ExecutionInv, TransientKeepsRetries
<1>7. ASSUME UNCHANGED collectorVars
      PROVE  ExecutionInv'
  <2>1. /\ status' = status /\ pc' = pc /\ retryCount' = retryCount /\ response' = response /\ todo' = todo
        /\ tables' = tables /\ health' = health /\ ended' = ended
        /\ dataType' = dataType
    BY <1>7, Zenon DEF collectorVars, data
  <2>2. RepositoryWriter(response)' = RepositoryWriter(response)
    BY <2>1, WritersStay, Zenon
  <2>3. CollectorTypeOK'
    BY <1>1, <2>1, <2>2, Zenon DEF CollectorTypeOK
  <2>4. WritesInv' /\ TablesInv'
    BY <2>1, MovesKeep, Zenon
  <2>5. TransientKeepsRetries'
    BY <1>1, <2>1, Zenon DEF TransientKeepsRetries
  <2> QED
    BY <2>3, <2>4, <2>5, Zenon DEF ExecutionInv
<1> QED
  BY <1>2, <1>3, <1>4, <1>5, <1>6, <1>7, Zenon

\* Every step keeps the invariant.
LEMMA ExecutionStep ==
    ASSUME ExecutionInv, [CollectorNext]_collectorVars
    PROVE  ExecutionInv'
  BY AskingKeeps, RequestKeeps, NormalizeKeeps, WriteKeeps, OthersKeep, Zenon
     DEF CollectorNext, CollectorStep

\* The invariant is one.
LEMMA ExecutionAlways == CollectorSpec => []ExecutionInv
  BY ExecutionInit, ExecutionStep, PTL DEF CollectorSpec

\* What the invariant says of a job that ended.
LEMMA EndingEarned == ExecutionInv => EndingIsEarned
<1> SUFFICES ASSUME ExecutionInv
             PROVE  EndingIsEarned
  BY Zenon
<1>1. CollectorTypeOK /\ WritesInv /\ TransientKeepsRetries
  BY Zenon DEF ExecutionInv
<1>2. ASSUME status = "succeeded"
      PROVE  \A w \in RepositoryWriter(response) : Done(w)
  <2>1. pc # "write"
    BY <1>1, <1>2, Zenon DEF CollectorTypeOK
  <2> QED
    BY <1>1, <1>2, <2>1, Zenon DEF CollectorTypeOK, WritesInv
<1>3. SucceededMeansWritten
  <2> SUFFICES ASSUME status = "succeeded"
               PROVE  AllStored(response)
    BY Zenon DEF SucceededMeansWritten, AllStored
  <2>1. \A w \in RepositoryWriter(response) : Stored(w.table, w.ids)
    BY <1>2, Zenon DEF Done
  <2> QED
    BY <2>1, PostgresComplete, Zenon
<1> QED
  BY <1>1, <1>3, Zenon DEF EndingIsEarned

\* What the invariant says of rejected records.
LEMMA RejectedQuarantined == ExecutionInv => RejectedAreQuarantined
<1> SUFFICES ASSUME ExecutionInv
             PROVE  RejectedAreQuarantined
  BY Zenon
<1>1. TablesInv
  BY Zenon DEF ExecutionInv
<1>2. \A t \in Tables : t # "issues"
  BY Zenon DEF Tables, Kinds
<1>3. ASSUME NEW x \in Responses, NEW k \in Kinds, NEW r \in x[k], NEW y \in Responses, r.id \in Kept(y)
      PROVE  x = y /\ r \in Valid(x[k])
  <2>1. PICK l \in Kinds : \E s \in Valid(y[l]) : r.id = s.id \/ r.id = s.bucket
    BY <1>3, Zenon DEF Kept
  <2>2. PICK s \in y[l] : s \in Valid(y[l]) /\ (r.id = s.id \/ r.id = s.bucket)
    BY <2>1, Zenon DEF Valid
  <2>3. (r.id = s.id => x = y /\ k = l /\ r = s) /\ r.id # s.bucket
    BY CollectorAssumption
  <2> QED
    BY <2>2, <2>3, Zenon
<1>4. QuarantineFirst
  <2> SUFFICES ASSUME NEW x \in Responses, NEW k \in Kinds, NEW r \in Valid(x[k]), NEW t \in Tables,
                      <<t, r.id>> \in tables
               PROVE  Stored("issues", Issues(x))
    BY Zenon DEF QuarantineFirst
  <2>1. PICK y \in Responses : r.id \in Kept(y) /\ Stored("issues", Issues(y))
    BY <1>1, <1>2, Zenon DEF TablesInv
  <2>2. r \in x[k]
    BY Zenon DEF Valid
  <2> QED
    BY <1>3, <2>1, <2>2, Zenon
<1>5. RejectedNotStored
  <2> SUFFICES ASSUME NEW x \in Responses, NEW k \in Kinds, NEW r \in x[k] \ Valid(x[k]), NEW t \in Tables,
                      <<t, r.id>> \in tables
               PROVE  FALSE
    BY Zenon DEF RejectedNotStored
  <2>1. PICK y \in Responses : r.id \in Kept(y)
    BY <1>1, <1>2, Zenon DEF TablesInv
  <2> QED
    BY <1>3, <2>1, Zenon
<1> QED
  BY <1>4, <1>5, Zenon DEF RejectedAreQuarantined

\* The state of a job's execution stays well formed: a response is at hand while
\* it is written and what is left to write is part of it (collector.go:40-118).
THEOREM CollectorTypeCorrect == CollectorSpec => []CollectorTypeOK
<1>1. ExecutionInv => CollectorTypeOK
  BY Zenon DEF ExecutionInv
<1> QED
  BY <1>1, ExecutionAlways, PTL

\* Whatever fails in the executions before, a job that succeeded has written all of
\* its last response, and neither a request that fails on the wire, nor a 429 or
\* 5xx, nor a failed write dead-letters a job before it makes retry_count reach
\* max_retry (collector.go:105-117, writer.go:33-145, worker.go:152-170).
THEOREM CollectorEndingEarned == CollectorSpec => []EndingIsEarned
  BY ExecutionAlways, EndingEarned, PTL

\* No crash and no failed write leaves a record of a response stored whose rejected
\* records are not in quarantine, or a rejected record in a table (writer.go:34-41).
THEOREM CollectorQuarantines == CollectorSpec => []RejectedAreQuarantined
  BY ExecutionAlways, RejectedQuarantined, PTL
=============================================================================
