------------------------------ MODULE Ingest ------------------------------
(***************************************************************************)
(* Answers on their way into the database: a worker asks the exchange,     *)
(* normalizes the answer, filters its rows, writes the quality issues of   *)
(* the rejected ones, then the accepted ones table by table, each table in *)
(* a transaction of its own, and marks the job.  The database may refuse   *)
(* any of these writes, and the process may die between two of them; the   *)
(* job is then run again, from the request on.                             *)
(*                                                                         *)
(* Abstractions.  One symbol.  Every attempt asks again, and the exchange  *)
(* may answer otherwise.  Columns that the validators do not read are left *)
(* out, so an upsert replaces its row.                                     *)
(***************************************************************************)
EXTENDS Normalizers, Functions

CONSTANTS
    Catalogue,   \* the jobs there may be: [ex, type, period]
    Answers,     \* what an exchange may answer: [refused, items]
    FirstRequest,  \* the time of the first request
    MaxRetry,    \* max_retry of the job
    MaxClock, MaxFaults  \* bounds: the clock, failed writes and deaths of the process

ASSUME IngestAssumption ==
    /\ Catalogue \subseteq [ex : Exchanges, type : STRING, period : STRING]
    /\ Answers \subseteq [refused : BOOLEAN, items : Seq(Item)]
    /\ MaxClock \in Nat /\ FirstRequest \in 1..MaxClock
    /\ MaxRetry \in Nat \ {0} /\ MaxFaults \in Nat /\ Skew \in Nat

VARIABLES
    clock,
    job,         \* the job, a member of Catalogue
    status,      \* of the job: "pending", "running", "succeeded", "dead_letter"
    pc,          \* of the worker: "idle", or the write under way: "issues", "rows", "derived", "mark"
    retryCount,
    held,        \* the rows in the worker's hands
    table,       \* unique key -> row
    issues,      \* keys of data_quality_issues
    faults,
    sent,        \* history: rows the last attempt's normalizer returned
    raised,      \* history: of these, the ones an issue was written for
    wrote,       \* history: rows the last attempt wrote
    reported     \* history: times of the items of all answers

bounds == <<job, faults>>
ingestVars == <<clock, job, status, pc, retryCount, held, table, issues, faults, sent, raised,
                wrote, reported>>

-----------------------------------------------------------------------------
\* The filter: the issue type of the first check a row fails, or "".

Check(passes, issue) == IF passes THEN "" ELSE issue

Verdict(checks) ==
    LET failed == {i \in DOMAIN checks : checks[i] # ""}
    IN  IF failed = {} THEN "" ELSE checks[Min(failed)]

validateSourceAndTime(r) == r.at # Zero /\ r.at <= clock + Skew

validateInterval(r) == job.period = "" \/ r.period = job.period

\* Not a number is neither below the one bound nor above the other.
validateFundingOptional(r) == r.rate \notin {"out", "wild"}

\* Mutant: the sanity bounds are not looked at.
filterMarketSnapshotUnbounded(r) ==
    Verdict(<<Check(validateSourceAndTime(r), "market_snapshot_invalid"),
              Check(ValidateMarketSnapshot(r), "market_snapshot_invalid")>>)

filterMarketSnapshot(r) ==
    Verdict(<<Check(validateSourceAndTime(r), "market_snapshot_invalid"),
              Check(validateFundingOptional(r), "funding_out_of_range"),
              Check(ValidateMarketSnapshot(r), "market_snapshot_invalid")>>)

filterKline(r) ==
    Verdict(<<Check(validateSourceAndTime(r), "kline_invalid"),
              Check(validateInterval(r), "interval_mismatch"),
              Check(ValidateKline(r), "kline_invalid")>>)

filterOpenInterest(r) ==
    Verdict(<<Check(validateSourceAndTime(r), "open_interest_invalid"),
              Check(ValidateOpenInterest(r, FALSE), "open_interest_invalid")>>)

filterLongShortRatio(r) ==
    Verdict(<<Check(validateSourceAndTime(r), "long_short_ratio_invalid"),
              Check(validateInterval(r), "interval_mismatch"),
              Check(ValidateLongShortRatio(r), "long_short_ratio_invalid")>>)

filterBasisPremium(r) ==
    Verdict(<<Check(validateSourceAndTime(r), "basis_invalid"),
              Check(validateFundingOptional(r), "funding_out_of_range"),
              Check(ValidateBasisPremium(r), "basis_invalid")>>)

filterOrderbookImbalance(r) ==
    Verdict(<<Check(validateSourceAndTime(r), "orderbook_imbalance_invalid"),
              Check(ValidateOrderbookImbalance(r), "orderbook_imbalance_invalid")>>)

IssueType(r) ==
    CASE r.kind = "market_snapshot"  -> filterMarketSnapshot(r)
      [] r.kind = "kline"            -> filterKline(r)
      [] r.kind = "open_interest"    -> filterOpenInterest(r)
      [] r.kind = "long_short_ratio" -> filterLongShortRatio(r)
      [] r.kind = "basis"            -> filterBasisPremium(r)
      [] r.kind = "orderbook"        -> filterOrderbookImbalance(r)

\* The key carries the error text, and that of a future row its time.
qualityIssue(r) ==
    <<IssueType(r), job.ex, job.type, IF r.at > clock + Skew THEN r.at ELSE 0>>

\* The rows that a condition keeps, where they were.
Kept(rows, positions) == [i \in positions |-> rows[i]]

\* Mutant: rows out of the sanity bounds are dropped without a word.
FilterNormalizedResultQuiet(rows) ==
    [valid    |-> Kept(rows, {i \in DOMAIN rows : IssueType(rows[i]) = ""}),
     rejected |-> {r \in Range(rows) : IssueType(r) \notin {"", "funding_out_of_range"}}]

FilterNormalizedResult(rows) ==
    [valid    |-> Kept(rows, {i \in DOMAIN rows : IssueType(rows[i]) = ""}),
     rejected |-> {r \in Range(rows) : IssueType(r) # ""}]

-----------------------------------------------------------------------------
\* The repositories: every row is validated again, and one invalid row rolls
\* the transaction back; a row with a known key replaces the row that has it.
\* What each makes of a row: whether it passes, and its unique key.

Upsert(valid, key) == [valid |-> valid, key |-> key]

UpsertMarketSnapshots(r) == Upsert(ValidateMarketSnapshot(r), <<"market_snapshots", r.ex, r.at>>)
UpsertKlines(r) == Upsert(ValidateKline(r), <<"klines", r.ex, r.period, r.at>>)
UpsertOpenInterest(r) == Upsert(ValidateOpenInterest(r, FALSE), <<"open_interest", r.ex, r.at>>)
UpsertFundingSnapshots(r) == Upsert(ValidateFundingSnapshot(r), <<"funding_rates", r.ex, r.at>>)
UpsertLongShortRatios(r) ==
    Upsert(ValidateLongShortRatio(r), <<"long_short_ratios", r.ex, r.period, r.at>>)
UpsertBasisPremiums(r) == Upsert(ValidateBasisPremium(r), <<"basis_premiums", r.ex, r.at>>)
UpsertOrderbookImbalances(r) ==
    Upsert(ValidateOrderbookImbalance(r), <<"orderbook_imbalances", r.ex, r.at>>)

UpsertOf(r) ==
    CASE r.kind = "market_snapshot"  -> UpsertMarketSnapshots(r)
      [] r.kind = "kline"            -> UpsertKlines(r)
      [] r.kind = "open_interest"    -> UpsertOpenInterest(r)
      [] r.kind = "funding"          -> UpsertFundingSnapshots(r)
      [] r.kind = "long_short_ratio" -> UpsertLongShortRatios(r)
      [] r.kind = "basis"            -> UpsertBasisPremiums(r)
      [] r.kind = "orderbook"        -> UpsertOrderbookImbalances(r)

Accepted(rows) == \A i \in DOMAIN rows : UpsertOf(rows[i]).valid

\* The columns are NUMERIC(p, s): they hold "nan", and refuse "inf".
Fits(rows) == \A i \in DOMAIN rows : rows[i].num # "inf"

\* ON CONFLICT DO UPDATE: of the rows with one key the last stays.
Upserted(rows) ==
    LET at(k) == {i \in DOMAIN rows : UpsertOf(rows[i]).key = k}
    IN  [k \in DOMAIN table \cup {UpsertOf(rows[i]).key : i \in DOMAIN rows} |->
            IF at(k) = {} THEN table[k] ELSE rows[Max(at(k))]]

FundingOf(r) == Row("funding", r.ex, r.at, r.period, r.num, r.rate)

deriveFunding(rows) == [i \in {i \in DOMAIN rows : rows[i].rate # "none"} |-> FundingOf(rows[i])]

-----------------------------------------------------------------------------

IngestInit ==
    /\ clock = FirstRequest
    /\ job \in Catalogue
    /\ status = "pending" /\ pc = "idle" /\ retryCount = 0 /\ held = <<>>
    /\ table = <<>> /\ issues = {} /\ faults = 0
    /\ sent = {} /\ raised = {} /\ wrote = {} /\ reported = {}

IngestTick ==
    /\ clock < MaxClock /\ clock' = clock + 1
    /\ UNCHANGED <<bounds, status, pc, retryCount, held, table, issues, sent, raised, wrote, reported>>

\* retry_count is only ever compared with max_retry: it stops there.
Retried == Min({retryCount + 1, MaxRetry})

retryOrDeadLetter(recoverable) ==
    /\ status' = IF recoverable /\ retryCount + 1 < MaxRetry THEN "pending" ELSE "dead_letter"
    /\ retryCount' = Retried
    /\ pc' = "idle"

\* The claim, the request and the normalizer.  What an error's text says of
\* retries is in Collector; a panic takes the process down, as no one recovers it.
Fetch(answer) ==
    LET result == Normalize(job.ex, job.type, answer, clock, job.period)
    IN  /\ status = "pending"
        /\ held' = result.rows
        /\ sent' = Range(result.rows) /\ raised' = {} /\ wrote' = {}
        /\ reported' = reported \cup {answer.items[i].at : i \in DOMAIN answer.items}
        /\ \/ result.out = "rows" /\ status' = "running" /\ pc' = "issues" /\ UNCHANGED retryCount
           \/ result.out = "error" /\ \E recoverable \in BOOLEAN : retryOrDeadLetter(recoverable)
           \/ result.out = "panic" /\ status' = "running" /\ UNCHANGED <<pc, retryCount>>
        /\ UNCHANGED <<clock, bounds, table, issues>>

\* RepositoryWriter.Write up to the quality issues.
UpsertIssues ==
    LET filtered == FilterNormalizedResult(held)
    IN  /\ pc = "issues"
        /\ issues' = issues \cup {qualityIssue(r) : r \in filtered.rejected}
        /\ raised' = filtered.rejected
        /\ held' = filtered.valid
        /\ pc' = IF DOMAIN filtered.valid = {} THEN "mark" ELSE "rows"
        /\ UNCHANGED <<clock, bounds, status, retryCount, table, sent, wrote, reported>>

Store(rows, next) ==
    /\ IF Accepted(rows) /\ Fits(rows)
       THEN /\ table' = Upserted(rows) /\ wrote' = wrote \cup Range(rows)
            /\ pc' = next /\ UNCHANGED <<status, retryCount>>
       ELSE retryOrDeadLetter(TRUE) /\ UNCHANGED <<table, wrote>>
    /\ UNCHANGED <<clock, bounds, held, issues, sent, raised, reported>>

WriteRows ==
    /\ pc = "rows"
    /\ Store(held, IF job.type = "funding" /\ DOMAIN deriveFunding(held) # {}
                   THEN "derived" ELSE "mark")

WriteDerived ==
    /\ pc = "derived"
    /\ Store(deriveFunding(held), "mark")

MarkJobSucceeded ==
    /\ pc = "mark" /\ pc' = "idle" /\ status' = "succeeded"
    /\ UNCHANGED <<clock, bounds, retryCount, held, table, issues, sent, raised, wrote, reported>>

\* The database refuses the transaction under way.
WriteFails ==
    /\ pc \in {"issues", "rows", "derived"}
    /\ faults < MaxFaults /\ faults' = faults + 1
    /\ retryOrDeadLetter(TRUE)
    /\ UNCHANGED <<clock, job, held, table, issues, sent, raised, wrote, reported>>

\* The process dies.
Crash ==
    /\ pc # "idle" /\ pc' = "idle"
    /\ faults < MaxFaults /\ faults' = faults + 1
    /\ UNCHANGED <<clock, job, status, retryCount, held, table, issues, sent, raised, wrote, reported>>

\* RecoverInterrupted finds the job running and no one at it.
Recover ==
    /\ status = "running" /\ pc = "idle"
    /\ status' = "pending" /\ retryCount' = Retried
    /\ UNCHANGED <<clock, bounds, pc, held, table, issues, sent, raised, wrote, reported>>

\* What goes on without the exchange.
Proceed == UpsertIssues \/ WriteRows \/ WriteDerived \/ MarkJobSucceeded \/ Recover

Fault == WriteFails \/ Crash

IngestStep == (\E answer \in Answers : Fetch(answer)) \/ Proceed

IngestNext == IngestStep \/ IngestTick \/ Fault

IngestSpec == IngestInit /\ [][IngestNext]_ingestVars

\* cron starts the collector and the scheduler, which recovers, for ever.
FairIngest == IngestSpec /\ WF_ingestVars(IngestStep)

-----------------------------------------------------------------------------
\* Every variable has its type, the idle worker's job is not half done, and every
\* row is of the job's exchange and has a time or Go's zero time, never what a
\* failed parse left.
IngestTypeOK ==
    /\ clock \in FirstRequest..MaxClock /\ job \in Catalogue
    /\ status \in {"pending", "running", "succeeded", "dead_letter"}
    /\ pc \in {"idle", "issues", "rows", "derived", "mark"} /\ (pc # "idle" => status = "running")
    /\ retryCount \in 0..MaxRetry /\ faults \in 0..MaxFaults
    /\ \A r \in sent \cup wrote \cup Range(held) : r.ex = job.ex /\ r.at \in Int /\ r.at >= Zero
    /\ raised \subseteq sent /\ reported \subseteq Nat

\* Whichever clock stamped the row, however often the attempt was cut off and
\* whatever the next answer was, no table holds a row without a time (an absent
\* number is one: 1970) or from the future, a negative or infinite quantity, or a
\* funding rate that lies out of the sanity bounds; what is not a number lies
\* nowhere, passes every check and is stored.  And what the filter accepts every
\* Upsert accepts, so that no attempt ends on a validation error after its issues
\* are written (hardening/validation.go:43-255, in front of the validators of
\* repositories/*.go).
OnlyValidStored ==
    /\ \A k \in DOMAIN table :
          /\ table[k].at \in Absent..(clock + Skew)
          /\ table[k].num # "neg" \/ table[k].kind = "long_short_ratio"
          /\ table[k].num # "inf"
          /\ table[k].rate \notin {"out", "wild"}
    /\ pc = "rows" => Accepted(held)
    /\ pc = "derived" => Accepted(deriveFunding(held))

\* A job that succeeded accounts for every row its normalizer returned: the row
\* was written, or an issue was (core/writer.go:33-38); and a funding job
\* also wrote the rate of each snapshot that has one (writer.go:83-90).
SucceededAccounted ==
    status = "succeeded" =>
        /\ sent \subseteq wrote \cup raised
        /\ job.type = "funding" => \A r \in sent \ raised : r.rate # "none" => FundingOf(r) \in wrote

\* The jobs whose rows carry the times of the exchange's items, and neither the
\* clock of the worker nor the time of the response (bybit's time, bitget's
\* requestTime), which are others at every attempt.
Stamped(j) ==
    \/ j.type \in {"ticker", "funding"} /\ j.ex \in {"okx", "mexc"}
    \/ j.type \in {"kline", "basis"}
    \/ j.type = "open_interest" /\ j.ex \in {"okx", "gate"}
    \/ j.type = "long_short_ratio" /\ j.ex # "bitget"

\* What the last answer said of a key is what the tables hold for it.
LastAnswerKept ==
    LET accepted == sent \ raised
        Holds(r, rows) == LET key == UpsertOf(r).key IN key \in DOMAIN table /\ table[key] \in rows
    IN  \A r \in accepted :
            /\ Holds(r, accepted)
            /\ (job.type = "funding" /\ r.rate # "none")
                   => Holds(FundingOf(r), {FundingOf(s) : s \in accepted})

\* Ingestion may be repeated: however often an attempt was cut off and run again
\* on another answer, a stamped job has rows at times the exchange reported and at
\* no other, and once a job succeeded the tables hold the last answer's row for
\* every key of that answer, the derived one too, whatever earlier attempts had
\* written there (the unique keys and ON CONFLICT clauses of repositories/*.go).
IdempotentIngestion ==
    /\ Stamped(job) => \A k \in DOMAIN table : table[k].at \in reported
    /\ status = "succeeded" => LastAnswerKept

\* docs/scheduler.md: after max_retry failures a job is dead-lettered, so every
\* job comes to an end, one that takes its worker down too.
EveryJobEnds == <>(status \in {"succeeded", "dead_letter"})
=============================================================================
