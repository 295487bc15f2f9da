----------------------------- MODULE Collector -----------------------------
(***************************************************************************)
(* One collection job through its executions: the router, Collector's      *)
(* Execute with every exit and the failure it reports, RepositoryWriter    *)
(* with one transaction after the other, and the worker's decision to      *)
(* retry or to give up.  Any lookup, request, transaction or report can    *)
(* fail, and the process can die between any two of them.  The service is  *)
(* wired as main.go wires it: one writer, and an executor for the rest.    *)
(*                                                                         *)
(* Abstractions.  A failure is its cause and the phrases of ClassifyError  *)
(* its text contains.  A normalized record is an identifier (its place in  *)
(* the answers), whether FilterNormalizedResult keeps it, and what else it *)
(* carries; what a row says is left out, so that a table is the set of     *)
(* records written to it.  Wording, durations and the payload of logs and  *)
(* health rows are left out.                                               *)
(***************************************************************************)
EXTENDS Naturals, Sequences, FiniteSets, FiniteSetsExt

CONSTANTS
    DataTypes,    \* data types jobs ask for
    Executors,    \* the keys of the service's DataTypeExecutor
    Responses,    \* results Normalize may return: kind -> set of records
    Texts,        \* sets of phrases an error text may contain
    JobMaxRetry,  \* max_retry of the job
    MaxDeaths, MaxWriteFailures  \* bounds: of the process, of transactions

VARIABLES
    dataType,
    status, retryCount,   \* of the job's row
    pc,        \* the step Execute is at
    response,  \* the normalized result at hand
    todo,      \* the writes left
    tables,    \* Postgres: set of <<table, id>>
    health,    \* status of the collector's health row
    requestLog, \* the error types in the rows logged for the job
    ended,     \* where the last execution ended, and why
    deaths, writeFailures

data == <<response, todo, tables>>
limits == <<deaths, writeFailures>>
collectorVars == <<dataType, status, retryCount, pc, data, health, requestLog, ended, limits>>

Kinds == {"market", "kline", "oi", "funding", "funding_history", "long_short",
          "taker_flow", "cvd", "liquidation", "liquidation_aggregate",
          "basis", "imbalance", "divergence"}
Tables == Kinds \cup {"oi_history"}   \* and the issues
NoResult == [k \in Kinds |-> {}]
Result(records) == [k \in Kinds |-> {r \in records : r.kind = k}]

\* An identifier names one record of one answer, and no bucket.
ASSUME CollectorAssumption ==
    /\ JobMaxRetry \in Nat
    /\ \A x \in Responses : \A k \in Kinds : \A r \in x[k] :
          /\ r.id \in Nat
          /\ \A y \in Responses : \A l \in Kinds : \A s \in y[l] :
                /\ r.id = s.id => x = y /\ k = l /\ r = s
                /\ r.id # s.bucket

-----------------------------------------------------------------------------
(* Classification. *)

Classification(kind, recoverable) == [kind |-> kind, recoverable |-> recoverable]

ClassifyHTTPStatus(code, body) ==
    CASE code = 429 -> Classification("rate_limited", TRUE)
      [] code \in {401, 403} -> Classification("unauthorized", FALSE)
      [] code = 404 -> Classification("not_found", FALSE)
      [] code = 400 /\ "invalid symbol" \in body -> Classification("invalid_symbol", FALSE)
      [] code >= 500 -> Classification("server_error", TRUE)
      [] code \in 400..499 \ {401, 403, 404, 429}
         /\ ~(code = 400 /\ "invalid symbol" \in body) -> Classification("bad_request", FALSE)
      [] code < 400 -> Classification("unknown", FALSE)

Phrases ==
    << <<"rate limit", Classification("rate_limited", TRUE)>>,
       <<"invalid symbol", Classification("invalid_symbol", FALSE)>>,
       <<"unauthorized", Classification("unauthorized", FALSE)>>,
       <<"not found", Classification("not_found", FALSE)>>,
       <<"placeholder", Classification("bad_request", FALSE)>>,
       <<"normalize", Classification("normalizer_error", FALSE)>>,
       <<"parse", Classification("invalid_response", FALSE)>> >>

\* The first phrase of the list that the text contains decides.
ClassifyText(says) ==
    LET hits == {i \in DOMAIN Phrases : Phrases[i][1] \in says}
    IN  IF hits = {} THEN Classification("unknown", TRUE) ELSE Phrases[Min(hits)][2]

ClassifyError(err) ==
    CASE err.cause \in {"deadline", "canceled", "net_timeout"} -> Classification("timeout", TRUE)
      [] err.cause = "net" -> Classification("network_error", TRUE)
      [] OTHER -> ClassifyText(err.says)

classifyCollectorError(err) ==
    IF err.cause \in {"endpoint_unavailable", "inactive", "unsupported"}
    THEN Classification("bad_request", FALSE)
    ELSE ClassifyError(err)

-----------------------------------------------------------------------------
(* What a result writes. *)

Valid(records) == {r \in records : r.valid}
Ids(records) == {r.id : r \in records}

\* One transaction.  Its turn is the place of its statement in Write, and of its
\* record there.
TransactionFor(stage, part, table, ids) == [turn |-> <<stage, part>>, table |-> table, ids |-> ids]

Before(v, w) == v.turn[1] < w.turn[1] \/ (v.turn[1] = w.turn[1] /\ v.turn[2] < w.turn[2])

FilterNormalizedResult(result) == [k \in Kinds |-> Valid(result[k])]
Issues(result) == UNION {Ids(result[k] \ Valid(result[k])) : k \in Kinds}

deriveOpenInterest(snapshots) == Ids({r \in snapshots : "oi" \in r.has})
deriveFunding(snapshots) == Ids({r \in snapshots : "funding" \in r.has})

Transaction(stage, table, ids) == TransactionFor(stage, 0, table, ids)

\* The statements of the writer.  Liquidations below the threshold are not stored
\* but count in the aggregates, which are keyed by bucket.
Statements(result) ==
    LET r == FilterNormalizedResult(result)
    IN  {Transaction(1, "issues", Issues(result)),
         Transaction(2, "market", Ids(r["market"])),
         Transaction(3, "kline", Ids(r["kline"])),
         Transaction(4, IF dataType = "open_interest_history" THEN "oi_history" ELSE "oi", Ids(r["oi"])),
         Transaction(5, "oi", IF dataType = "open_interest" THEN deriveOpenInterest(r["market"]) ELSE {}),
         Transaction(6, "funding", Ids(r["funding"])),
         Transaction(7, "funding_history", Ids(r["funding_history"])),
         Transaction(8, "funding", IF dataType = "funding" THEN deriveFunding(r["market"]) ELSE {}),
         Transaction(9, "long_short", Ids(r["long_short"])),
         Transaction(10, "taker_flow", Ids(r["taker_flow"])),
         Transaction(12, "cvd", Ids(r["cvd"])),
         Transaction(13, "liquidation", Ids({e \in r["liquidation"] : "large" \in e.has})),
         Transaction(14, "liquidation_aggregate", {e.bucket : e \in r["liquidation"]}),
         Transaction(15, "liquidation_aggregate", Ids(r["liquidation_aggregate"])),
         Transaction(16, "basis", Ids(r["basis"])),
         Transaction(17, "imbalance", Ids(r["imbalance"])),
         Transaction(18, "divergence", Ids(r["divergence"]))}

\* One transaction for each flow that says a delta.
UpsertCVDFromTakerFlows(flows) ==
    {TransactionFor(11, i, "cvd", {i}) : i \in Ids({f \in flows : "delta" \in f.has})}

\* Mutant: nothing is derived.
RepositoryWriterAsSent(result) ==
    LET r == FilterNormalizedResult(result)
    IN  {w \in {Transaction(1, "issues", Issues(result))}
               \cup {Transaction(2, k, Ids(r[k])) : k \in Kinds} : w.ids # {}}

\* A statement with nothing to write is not begun.
RepositoryWriter(result) ==
    {w \in Statements(result)
           \cup UpsertCVDFromTakerFlows(FilterNormalizedResult(result)["taker_flow"]) :
     w.ids # {}}

-----------------------------------------------------------------------------
(* Execute and the worker around it. *)

End(at, cause) == [at |-> at, cause |-> cause]

CollectorInit ==
    /\ dataType \in DataTypes
    /\ status = "pending" /\ retryCount = 0
    /\ pc = "idle"
    /\ response = NoResult /\ todo = {}
    /\ tables = {}
    /\ health = "none"
    /\ requestLog = {}
    /\ ended = End("none", "none")
    /\ deaths = 0 /\ writeFailures = 0

Claim ==
    /\ pc = "idle" /\ status = "pending"
    /\ status' = "running"
    /\ pc' = "route"
    /\ UNCHANGED <<dataType, retryCount, data, health, requestLog, ended, limits>>

retryOrDeadLetter(recoverable) == ~recoverable \/ retryCount + 1 >= JobMaxRetry

\* An exit of Execute with an error: the health report, which may get lost, and
\* the worker's update of the job.
Exit(at, cause, verdict, report) ==
    /\ ended' = End(at, cause)
    /\ health' \in {health, report}
    /\ status' = IF retryOrDeadLetter(verdict.recoverable) THEN "dead_letter" ELSE "pending"
    /\ retryCount' = retryCount + 1
    /\ pc' = "idle"
    /\ response' = NoResult /\ todo' = {}
    /\ UNCHANGED <<dataType, tables, deaths>>

Go(to) ==
    /\ pc' = to
    /\ UNCHANGED <<dataType, status, retryCount, data, health, ended, limits>>

\* DataTypeExecutor.Execute.
Route ==
    /\ pc = "route"
    /\ IF {dataType, "*"} \cap Executors # {}
       THEN Go("symbol")
       ELSE Exit("route", "no executor", Classification("parse", FALSE), health) /\ UNCHANGED writeFailures
    /\ UNCHANGED requestLog

\* The verdict on every lookup that fails.
lookupFailed(cause) == Classification("parse", FALSE)

NextStep == [symbol |-> "endpoint", endpoint |-> "adapter", adapter |-> "build"]

\* GetSymbolByID and the source symbol, endpointForJob, Adapters.Get.
Lookup ==
    /\ pc \in DOMAIN NextStep
    /\ \/ Go(NextStep[pc])
       \/ \E cause \in {"missing"} \cup (IF pc = "adapter" THEN {} ELSE {"deadline"}) :
             /\ Exit(pc, cause, lookupFailed(cause), IF pc = "endpoint" THEN "degraded" ELSE "unhealthy")
             /\ UNCHANGED writeFailures
    /\ UNCHANGED requestLog

BuildRequest ==
    /\ pc = "build"
    /\ \/ Go("execute")
       \/ \E err \in [cause : {"inactive", "template"}, says : Texts] :
             /\ Exit("build", err.cause, classifyCollectorError(err), "degraded")
             /\ UNCHANGED writeFailures
    /\ UNCHANGED requestLog

\* logRequest; a row that cannot be inserted is given up.
logRequest(errorType) == requestLog' \in {requestLog, requestLog \cup {errorType}}

StatusCodes == {400, 401, 404, 418, 429, 503}

\* adapter.Execute returned an error.
RequestFails(cause) ==
    LET verdict == classifyCollectorError([cause |-> cause, says |-> {}])
    IN  /\ logRequest(verdict.kind)
        /\ Exit("execute", cause, verdict, "degraded")
        /\ UNCHANGED writeFailures

\* The exchange answered with an error status.
StatusFails(code, body) ==
    LET verdict == ClassifyHTTPStatus(code, body)
        busy == code = 429 \/ code >= 500
    IN  /\ logRequest(verdict.kind)
        /\ Exit("status", IF busy THEN "busy" ELSE "refused", verdict,
                IF busy THEN "degraded" ELSE "unhealthy")
        /\ UNCHANGED writeFailures

\* adapter.Execute, logRequest and the checks of the status.
ExecuteRequest ==
    /\ pc = "execute"
    /\ \/ \E cause \in {"deadline", "canceled", "net_timeout", "net"} : RequestFails(cause)
       \/ \E code \in StatusCodes, body \in {{}, {"invalid symbol"}} : StatusFails(code, body)
       \/ logRequest("") /\ Go("normalize")

Normalize ==
    /\ pc = "normalize"
    /\ \/ \E result \in Responses :
             /\ response' = result
             /\ todo' = RepositoryWriter(result)
             /\ pc' = "write"
             /\ UNCHANGED <<dataType, status, retryCount, tables, health, ended, limits>>
       \/ \E err \in [cause : {"unsupported", "payload"}, says : Texts] :
             /\ Exit("normalize", err.cause, classifyCollectorError(err), "unhealthy")
             /\ UNCHANGED writeFailures
    /\ UNCHANGED requestLog

\* The next write: nothing that is left comes before it.
DueWrite(w) == \A v \in todo : ~Before(v, w)

WriteOne ==
    /\ pc = "write"
    /\ \E w \in todo :
          LET rows == {<<w.table, i>> : i \in w.ids}
          IN  /\ DueWrite(w)
              /\ todo' = todo \ {w}
              /\ tables' = tables \cup rows
    /\ UNCHANGED <<dataType, status, retryCount, pc, response, health, requestLog, ended, limits>>

\* Mutant: a failed write is skipped.
WriteFailsSkipped ==
    /\ pc = "write" /\ todo # {}
    /\ writeFailures < MaxWriteFailures
    /\ writeFailures' = writeFailures + 1
    /\ todo' = {w \in todo : ~DueWrite(w)}
    /\ UNCHANGED <<dataType, status, retryCount, pc, response, tables, health,
                   requestLog, ended, deaths>>

\* The transaction under way fails and leaves nothing.
WriteFails ==
    /\ pc = "write" /\ todo # {}
    /\ writeFailures < MaxWriteFailures
    /\ writeFailures' = writeFailures + 1
    /\ Exit("write", "write", Classification("server_error", TRUE), "unhealthy")
    /\ UNCHANGED requestLog

\* Everything is written: the health report and MarkJobSucceeded.
Succeed ==
    /\ pc = "write" /\ todo = {}
    /\ health' \in {health, "healthy"}
    /\ status' = "succeeded"
    /\ pc' = "idle"
    /\ ended' = End("success", "none")
    /\ UNCHANGED <<dataType, retryCount, data, requestLog, limits>>

\* The process dies, or its last update of the job fails.
Crash ==
    /\ pc # "idle"
    /\ deaths < MaxDeaths
    /\ deaths' = deaths + 1
    /\ pc' = "idle"
    /\ response' = NoResult /\ todo' = {}
    /\ UNCHANGED <<dataType, status, retryCount, tables, health, requestLog, ended, writeFailures>>

\* RecoverInterrupted, once the job has been running for the timeout.
Recover ==
    /\ pc = "idle" /\ status = "running"
    /\ status' = "pending"
    /\ retryCount' = retryCount + 1
    /\ UNCHANGED <<dataType, pc, data, health, requestLog, ended, limits>>

\* Mutant: an interrupted job stays as it is.
CollectorStepNoRecovery ==
    \/ Claim \/ Route \/ Lookup \/ BuildRequest \/ ExecuteRequest \/ Normalize
    \/ WriteOne \/ WriteFails \/ Succeed

CollectorStep ==
    \/ Claim \/ Route \/ Lookup \/ BuildRequest \/ ExecuteRequest \/ Normalize
    \/ WriteOne \/ WriteFails \/ Succeed \/ Recover

CollectorNext == CollectorStep \/ Crash

CollectorSpec == CollectorInit /\ [][CollectorNext]_collectorVars

\* cron starts the collector and the scheduler, which recovers, for ever.
FairCollector == CollectorSpec /\ WF_collectorVars(CollectorStep)

-----------------------------------------------------------------------------
\* Every variable has its type, and a response is at hand exactly while it is
\* written and once the job has succeeded with it.
CollectorTypeOK ==
    /\ dataType \in DataTypes
    /\ status \in {"pending", "running", "succeeded", "dead_letter"}
    /\ pc \in {"idle", "route", "symbol", "endpoint", "adapter", "build", "execute", "normalize", "write"}
    /\ pc # "idle" => status = "running"
    /\ response \in Responses \cup {NoResult}
    /\ (pc = "write" \/ status = "succeeded") => response \in Responses
    /\ todo \subseteq RepositoryWriter(response) /\ (pc # "write" => todo = {})
    /\ retryCount \in Nat
    /\ health \in {"none", "healthy", "degraded", "unhealthy"}

Stored(table, ids) == \A i \in ids : <<table, i>> \in tables

\* A job that succeeded has written everything its last response contained, after
\* whatever partial executions came before: its valid records, the records derived
\* from them and the quarantine of the others (collector.go:105-117, writer.go:33-145).
SucceededMeansWritten ==
    status = "succeeded" =>
       /\ Stored("issues", Issues(response))
       /\ \A k \in Kinds \ {"oi", "liquidation"} : Stored(k, Ids(Valid(response[k])))
       /\ Stored(IF dataType = "open_interest_history" THEN "oi_history" ELSE "oi",
                 Ids(Valid(response["oi"])))
       /\ dataType = "open_interest" => Stored("oi", deriveOpenInterest(Valid(response["market"])))
       /\ dataType = "funding" => Stored("funding", deriveFunding(Valid(response["market"])))
       /\ Stored("cvd", Ids({f \in Valid(response["taker_flow"]) : "delta" \in f.has}))
       /\ Stored("liquidation", Ids({e \in Valid(response["liquidation"]) : "large" \in e.has}))
       /\ Stored("liquidation_aggregate", {e.bucket : e \in Valid(response["liquidation"])})

\* A request that fails on the wire, a busy exchange (429, 5xx) and a failed write
\* are retried: they end a job only at the attempt that makes retry_count reach
\* max_retry.  A failed lookup is not in the list: it ends the job at once, even
\* when it only timed out (worker.go:152-170, errors.go:33-69, collector.go:58).
TransientKeepsRetries ==
    (status = "dead_letter" /\ (ended.at = "execute" \/ ended.cause \in {"busy", "write"}))
       => retryCount >= JobMaxRetry

\* A job's ending is earned.  One that succeeded has written all its last response
\* contained, derived records and quarantine included, although earlier
\* executions left parts of other responses; and no request that fails on the
\* wire, no 429 or 5xx and no failed write dead-letters a job before it makes
\* retry_count reach max_retry (collector.go:105-117, writer.go:33-145,
\* worker.go:152-170, errors.go:33-69).
EndingIsEarned == SucceededMeansWritten /\ TransientKeepsRetries

\* At no moment, a crash or a failed transaction included, is a record of a
\* response in a table while a rejected record of it is not yet quarantined
\* (writer.go:34-41).
QuarantineFirst ==
    \A result \in Responses :
       (\E k \in Kinds : \E r \in Valid(result[k]) : \E t \in Tables : <<t, r.id>> \in tables)
       => Stored("issues", Issues(result))

\* A record that does not pass the filter is in no table but the issues.
RejectedNotStored ==
    \A result \in Responses : \A k \in Kinds :
       \A r \in result[k] \ Valid(result[k]) : \A t \in Tables : <<t, r.id>> \notin tables

\* A record that does not pass the filter is in no table but the issues, and no
\* record of a response is stored while a rejected one is not yet quarantined,
\* crashes and failed writes included (writer.go:34-41).
RejectedAreQuarantined == QuarantineFirst /\ RejectedNotStored

\* Every job comes to an end.
EveryJobEnds == <>(status \in {"succeeded", "dead_letter"})
=============================================================================
