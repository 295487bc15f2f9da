# Verification of the derivatives aggregator

TLA+ models of the services under `src/`, model-checked with TLC. What the runs
check of safety is also proved with TLAPS, for every value of the constants, but
for the properties about sums. `PROJECT.json` maps every definition to the lines
it models and lists runs, mutants, findings, hazards and theorems.

## The system

The scheduler-service recovers interrupted jobs, turns policies, endpoints and
symbol tiers into jobs, and exits. The collector-service claims a batch, and for
each job asks the breaker, waits for the limiter, executes and reports, and
exits. Executing means: find the symbol and the endpoint, build a request, ask
the exchange, normalize the answer, filter its rows, write them table by table.
Aggregate jobs read those tables back and write cross-exchange snapshots. The
retention-service rolls candles up and deletes expired rows. All of these are
started from outside, overlap, and may die anywhere; they share only the
database. A realtime layer (latest-value store, snapshot buffer, reconnect
manager) serves the API.

| part | code | module |
|---|---|---|
| job queue | `internal/scheduler/{repository,recovery,worker,models}.go` | `JobQueue`, abstractly `JobLifecycle` |
| planner, backfill, symbol tiers | `internal/scheduler/{planner,backfill,policies,idempotency}.go`, `internal/symbols` | `Planner` |
| circuit breaker | `internal/ratelimit/circuit_breaker.go` | `CircuitBreaker` |
| rate limiter | `internal/ratelimit/limiter.go` | `RateLimiter` |
| collector, writer, error classes | `internal/collectors/core`, `internal/hardening/errors.go` | `Collector` |
| adapters, validators | `internal/exchanges`, `internal/normalizers` | `Normalizers` |
| filter, upserts | `internal/hardening/validation.go`, `internal/repositories` | `Ingest` |
| taker flows and CVD | `internal/repositories/advanced.go` | `TakerFlows` |
| liquidations | `internal/collectors/core/writer.go`, `internal/repositories/advanced.go` | `Liquidations` |
| aggregate snapshots | `internal/collectors/aggregate`, `internal/repositories/aggregate*.go` | `Aggregates` |
| gap detectors | `internal/repositories/data_gaps.go` | `DataGaps` |
| latest-value store | `internal/realtime/{store,redis,keys,events,fallback}.go` | `LatestStore` |
| snapshot buffer | `internal/realtime/snapshot.go` | `SnapshotWorker` |
| reconnect manager | `internal/realtime/reconnect.go` | `ReconnectManager` |
| retention | `internal/retention` | `Retention` |

## Modules

Each module opens with what it abstracts. An action is one committed statement
or transaction, one section under a mutex, or one call to the outside, so that
everything the code leaves open between two of them is an interleaving.

**JobQueue.** `jobs` is the table by idempotency key; a key is a target
(exchange, data type, symbol and period) with its time bucket. The claim is two
actions (`SelectForUpdate`, `CommitClaim`), since its row locks last from the
select to the commit. `held` is what a collector remembers of the rows it
claimed: the retry decision (`DeadLetter`) uses that copy, the statements count
on the row. `Abandon` is a process death, or `RunOnce` returning because a
statement failed; both leave the claimed jobs `running`. Breaker, limiter and
executor are the choice of an outcome. `recoveries` and `overran` are history:
how often recovery reset a job, and the jobs it took from a live collector.

**JobLifecycle.** The promise to one job: queued once, one lease at a time, one
ending, re-queued after a failure only while it has failed fewer times than
`max_retry`, which is the rule of `docs/scheduler.md`. A queue may give up sooner, and
this one does (`doc_retries`). A job whose lease is taken from a live collector is
`contested`, and nothing is promised of it any more.

**Planner.** `RunAt` query by query: the policies, then for each policy the
endpoints (`ListEndpoints`) and the symbols of its tier (`PlanPolicy`), each asked for
once a run and then taken from a cache; an operator may edit symbols, watchlist and
endpoints between any two of them. One insert transaction keeps rows already there.
`PlanBackfillJobs`, with its pause while realtime lags, inserts into the same key
space.

**CircuitBreaker, RateLimiter.** One circuit and one exchange's pair of buckets
under concurrent callers. In the limiter a tick is the finest unit a `Duration`
holds, so `DelayFor` truncates as the code does; `credit` is history, an ideal
bucket refilled at every tick on which every admission draws.

**Collector.** One job through every exit of `Execute`, with the failure each
reports. A failure is its cause and the phrases `ClassifyError` finds in its
text, because that is what the code decides by. The writer is the one that
`cmd/collector-service/main.go:94` wires, `RepositoryWriter`: what an answer makes it do
is a set of `Write`s, and `DueWrite` is the one whose turn it is. `docs/architecture.md:40`
says "**Multi-Writer**: Collector writes to both Postgres (persistent) and Redis/Memory
(realtime latest)"; no service constructs the `MultiWriter`, so there is nothing to
model of it.

**Normalizers, Ingest.** What the six adapters make of items whose time, number
and rate are whole, missing, unparsable, negative, out of bounds, or the texts that
`strconv.ParseFloat` reads as NaN and Inf: which clock stamps a row, what junk turns
into, whether an invalid row fails the job, and when the adapter panics. `Ingest`
takes the rows through filter, issues and upserts, with refused writes, deaths
and retries. Every attempt asks the exchange again and gets a new answer. NaN passes
every comparison of the filter and the validators, and Postgres stores it. Inf passes
them too, but the NUMERIC column refuses it (`Fits`), so that the attempt fails.

**TakerFlows.** Flows in one transaction, then per flow a read of the CVD before
it and a write of the CVD at it, with nothing around the two, in the order of the
answer, which may be either. Trading does not wait for polls, so periods are missed.
`behind` is history: the periods whose CVD is not up to date with the flows.
**Liquidations.** Events, derived aggregates, the adapter's aggregate: three
transactions, from answers that are windows of the history. The filter's interval
check drops the adapter's 5m aggregate of a job with another period; of a 5m job, or
of one without a period, it is kept, and puts the total of the whole answer into the
bucket in which the answer was captured. **Aggregates.** The executor's queries with
collectors writing in between. Of the queries of a window the taker delta is kept;
of `BuildAnalytics` the query that decides which rows there are. **DataGaps.** Both
detectors over rows that arrive late.

**LatestStore.** Processes with a memory store each behind one Redis that fails,
times out and loses keys; TTLs rounded as `RedisStore.SetRaw` rounds them; names
normalised as in `keys.go`; the resolver's REST fallback in two steps.
A caller whose own context has ended is refused by the memory store too, so a failed
write may have reached neither, one or both.
**SnapshotWorker.** `Observe` racing `Flush`: the buffer is taken under the lock, the
bucket is computed after it (`Stamp`), and the sink fails before or after it applied.
`written`, `dropped` and `raced` are history: the newest event of a key the sink took,
the newest one an older event was put back over, and the keys two flushes held at
once. **ReconnectManager.** Its methods, driven by a stream loop, which the
repository does not contain.

**Retention.** Every statement of a run: plan, run rows, count, rollup, partition
drop, chunks, finish. A candle is the set of finest periods it accounts for, so
a rollup is a union and a lost period is visible. A run works from the policy table
as it was when read, one of `Tables`: it may be edited between runs. `Orders` has the
enabled policies in the order of the planner's sort; ids differ, so there is one.

`*_proofs` hold the theorems. The `MC*` modules set constants. `MCPipeline`,
`MCSeries`, `MCRealtime`, `MCRetention`, `MCWorker` and `MCProgress` put several
instances side by side: their components share no variable in the code either
(they meet in the database, of which each module has the tables it uses, or not at
all), so one of them acts while the others rest, and the variable
`scene`, chosen in `Init`, says which. Where a proved property is checked its
component is extended, not instantiated, so that TLC checks the very definition
that is proved; modules that meet in one run have names of their own for the
clock, `Init` and `Next` for that reason. A scene may bound its component
further than the constants do; the module says how.

## Runs

| run | instance | shows |
|---|---|---|
| `worker` | a circuit with 3 callers, threshold 2, cooldown 3; the queue (max_retry 2 and 0) with 2 collectors on one job, one with a batch of 2, both with 2 crashes, or both collectors on both jobs without a crash; `Execute` with a failing write and a crash | `ExclusiveClaim`, `TerminalIsFinal`, `DeadLetterRecorded`, the refinement `ImplementsLifecycle`, `EventuallyTerminal`; `QuietAfterTrip`, `OpenIsProbed`; `EndingIsEarned`, `RejectedAreQuarantined`, `ExecutionEnds` |
| `pipeline` | 2 planners, 4 policies of 3 tiers, failures, a backfill and edits; every data type of 6 adapters with items of every class, and other answers to the attempts after the first | `BestPriorityWins`, `EveryBucketPlanned`, `OneViewPerTier`, `OnlyValidStored`, `SucceededAccounted`, `IdempotentIngestion` |
| `series` | 4 periods answered 3 at a time in either order, with a revision and 2 failures; 3 liquidations polled 2 at a time by a 1m or a 5m job; 2 exchanges, 3 market rows, flows of two periods, retries; candles over 4 intervals | `CVDIsRunningSum`, `TotalsLoseOnlyToCuts`, `Recalculable`, `SucceededIsComplete`, `TradesCountPerPeriod`, `GapsAreExact` |
| `realtime` | 2 keys, 2 flushers, 4 events, 2 sink failures; 2 processes, 2 writes, an outage; a stream with a loss | `NeverForgotten`, `LatestReachesSink`, `OutageExpires`, `RESTOnlyWhenStale`, `StreamStateIsTrue` |
| `retention` | 2 runs of one policy with a rollup, a budget of 3 and a failing statement; one run of 4 policies (dry run, partition drop, rollup without target) with a budget of 1 | `PolicyScoped`, `CountedWhenRemoved`, `SucceededMeansDone` |
| `progress` | 2 callers of a limiter without jitter, weights below and above the burst; 2 collectors on 3 periods; 2 flushers, 3 events; one retention run with a failing statement | `NeverOverdrawn`, `ChargedOnce`, `WaitReturns`, `Settles`, `EventuallyWritten`, `RunEnds` |

`pipeline`, `series`, `realtime` and `retention` also check the type invariants
of their modules. Every property has a mutant of the code, listed in
`PROJECT.json`, that breaks it.

Expected violations, each a disagreement between the code and what a document of
the repository says:

| run | what happens |
|---|---|
| `doc_status_flow` | reports are guarded by the id alone, so an overtaken collector changes a finished job (`docs/scheduler.md:20`) |
| `limiter_jitter` | a jittered `Wait` takes the tokens again at every turn of its loop, and returns only when the jitter is 0 (`docs/architecture.md:42`) |
| `doc_rollup` | a 5m candle holds both of its periods; the first run deletes one source candle and stops at its row budget; the second replaces the 5m candle by one of the other period alone (`docs/retention.md:13`) |
| `doc_poison` | an answer without a long ratio ends the collector; recovery requeues the job, incrementing `retry_count` but never comparing it with `max_retry`, as long as the exchange sends such an answer (`docs/scheduler.md:20`) |
| `doc_retries` | a recoverable failure dead-letters a job whose `retry_count` is still below `max_retry`: the code compares `RetryCount+1` (`docs/scheduler.md:71`) |
| `doc_cvd` | an answer that lists the newest period first, as OKX's does, leaves CVD values that are not the sums of the stored flows (`README.md:24`) |

**What the properties exempt.** Jobs in `overran`, as `doc_status_flow` shows
why. The limiter's jitter, for `ChargedOnce` and `WaitReturns`, and weights the rate
does not divide: a shortage worth less than one nanosecond gives delay 0, which admits
without taking tokens. `LatestReachesSink` names the two losses that do happen: a
failed flush puts its events back over a newer one (`dropped`), and of two flushes
that hold a key at once the older may write last (`raced`). `OnlyValidStored` leaves NaN
in the tables, as the code does. `IdempotentIngestion` demands reported times only of
rows that carry the time of the exchange's item: of tickers and funding those of OKX
and MEXC. The other exchanges' rows have the time of the request or of the response,
and a retry stores a second row; of those it demands that the last answer is
there. Rows an adapter skips with `continue` are in no answer of `SucceededAccounted`.
`CVDIsRunningSum` speaks of rows with no period behind them, in either order of the
answers; that a descending answer leaves periods behind is `doc_cvd`. `Settles` speaks of the
periods the exchange still answers with: each continues the row before it, which may
itself be off. `TotalsLoseOnlyToCuts` leaves out the 5m bucket an answer was captured in.
`TradesCountPerPeriod` lets a trade count once for each period collected: the seeded
policies collect 1m and 5m, and each trade counts in both. `Recalculable` exempts
snapshots one of whose rows arrived while they were built or later.
`BestPriorityWins` is about policies: a backfill that came first keeps its row.
`EveryBucketPlanned` assumes that cron is no slower than the shortest interval.
`GapsAreExact` demands a gap for two missing candles, since the code's threshold
ignores one. `OutageExpires` allows an older event for one TTL after a fault, since the
halves of the fallback store drift apart. `StreamStateIsTrue` says nothing of the stored
state after a publication was missed. `PolicyScoped` lets a dropped partition take rows of
other intervals with it. `CountedWhenRemoved` speaks of closed candles that were there when
the run rolled up, at the moment they go. `EndingIsEarned` speaks of failures that reach
`ClassifyError`: an error of the symbol or endpoint lookup, a timeout included, is
final at once. `ExecutionEnds` knows no panics, which are `doc_poison`'s: besides the
missing ratio, an order book whose best level is empty makes each adapter panic.

**Bounds.** They limit faults, events and the clock, never the steps between.
Queue: `Horizon` 0, one bucket per target; jobs of different buckets meet only in
the claim order, which two targets of different priority exercise. `max_retry` 2
is the smallest with a retry, 0 the boundary. In the queue the clock ticks only
while a timer is outstanding, which keeps it finite without a bound. Two planners
are enough for one insert to meet another, four policies for one tier asked twice
and one key wanted by three tiers. Items come one at a time or two, one of each
class, since adapters treat rows one by one. A chunk of 2 with a budget of 3 cuts
the last chunk; a 5m candle of two periods has a cutoff inside it. TTL, maximal
age, heartbeat, staleness and back-off are small, and different where the code
compares them.
Deadlock is not checked where the system stops by itself: when all jobs are
finished or the bounded clock has run out.

**Fairness.** Queue: time passes, recovery and each collector run again and
again (they are started periodically), and a collector that does not die gets
through its batch; nothing on the planner or on crashes. This includes that
`Limiter.Wait` returns, which `WaitReturns` shows without jitter only: with the jitter the
collector configures it is not given. Breaker: time
passes, calls end (HTTP timeout), callers come back. Limiter: timers fire, and a
caller that can run does. Execution: a worker that is alive goes on and an
interrupted job is recovered. Flows: trading comes to its bound and collectors keep
polling. Flushers: a started flush proceeds and a further one follows; failures
are finitely many. Retention: a live process executes its next statement. In a
module with scenes fairness of a disjunction over scenes is fairness of each
disjunct, because a behaviour never leaves its scene.

## Proofs

All for every value of the constants, from the named assumption of the module.
A leaf that needs no arithmetic names `Zenon`: the translation to SMT becomes slower
with every leaf it is used for, and in modules of this length the last ones would
run into its time limit.

`JobQueue_proofs`: `TypeCorrect`, `ClaimIsExclusive`, `TerminalNeverChanges`,
`DeadLettersAgree`, `RetriesWithinBudget`, `QueueImplementsLifecycle`. The
inductive invariant `Lease` adds to the types that locked rows are pending and
locked once (`LocksPending`), that the copy of a job never overtaken is current
(`CopiesCurrent`) and the only one (`CopiesUnique`). `ExclusiveClaim` alone is not
inductive: it says nothing of open claims, which become copies at the commit.
The effect lemmas say once, pointwise, what each action does to one row; the
other theorems combine them with `Lease`. The refinement also needs that an
absent row has no history (`AbsentFresh`).

`Worker_proofs`: `BreakerTypeCorrect`, `BreakerConsistent`, `BreakerQuiet` of the
circuit. `CooldownCovers` says that an open circuit has at least as much cooldown
left as is missing since it opened; late failures only extend it. And
`CollectorTypeCorrect`, `CollectorEndingEarned`, `CollectorQuarantines` of an
execution, for any answers and retry limit. The writer is known by what
it asks for: `PostgresWrites` says that nothing but kept records (or their buckets)
goes to a data table, `PostgresComplete` that doing all of it is what success promises. The invariant says
that whatever the answer asks for is done or left (`WritesInv`), and that what is in
a table is of a kept record of an answer whose rejected records are in quarantine
(`TablesInv`). The second needs the first and the order: when a data write is due
nothing is left before it, the issues included, so they are done
(`QuarantineIsFirst`). Assumed is that an identifier names one record, and no bucket.

`Planner_proofs`: `PlannerTypeCorrect`, `PlannerBestPriority`,
`PlannerMissesNothing`, `PlannerSeesTierOnce`, for any policies in the order of the
query, symbols, planners and cron period. The invariant has the batch of a run in
closed form: of each policy passed, nothing or the jobs of the tier in the run's
cache (`BatchInv`), which alone gives `PlannerSeesTierOnce`. While nothing is edited the
caches agree with the tables and no policy that asks is missing (`CacheInv`), and
runs that are over and did not fail have left all their keys (`PastInv`). For a
shared key: had its bucket begun earlier, the run of that time would have left the
key; so a key that is new at an insert begins now, all policies that share it are
in the batch, and the first of them is the best, because the query sorts by
priority (`NewKeyIsBest`). `BestPriorityWins` alone does not say that the earlier rows are
there.

`Ingest_proofs`: `IngestTypeCorrect`, `IngestStoresOnlyValid`,
`IngestAccountsForRows`, `IngestIsIdempotent`, for any catalogue of jobs, any answers
(of any length), clocks, retries and faults. One lemma per data type says what rows
the six adapters make of any answer (`RowFact`: exchange, kind, a time or Go's zero
time), and `FilterFact` which rows pass. The invariant says that the rows in hand and
the rejected ones are all of the answer's (`HeldInv`), how far the writes are
(`WrittenInv`), and that what was written may be stored and what is stored was written
(`StoredInv`). `IngestIsIdempotent` needs that a stamped job's rows have times the
exchange reported (`TimedInv`, from `StampedTimes`, one lemma per data type), and that the
tables hold the rows in hand under their keys from the moment they are written
(`KeptInv`, from `UpsertedHolds`: the last of the rows with one key is what an upsert
leaves). A row which passed the filter passes it later too, since the clock only goes on
(`PassesKept`).

`Pacing_proofs`, the buffer: `WorkerTypeCorrect`, `WorkerNeverForgets`,
`WorkerHoldsOnce`, `WorkerLatestReachesSink`, for any number of keys and flushers. The
invariant joins the types with `Bounded` (only a flush under way holds events, and
none has a number that was not given out yet), `HeldOnce`, `NeverForgotten` and
`LastEventKept`; `HeldOnce` needs `Bounded`, because a fresh observation must differ from
whatever a flusher still holds. The order of the sink's rows needs more (`OrderInv`): of
a key no two flushes held at once, whatever is still in the buffer or with a flush is no
older than what the sink has, and no row is in a bucket that has not begun
(`StampInv`).

`Pacing_proofs`, the limiter: `LimiterTypeCorrect`, `LimiterNeverOverdrawn`,
`LimiterAdmitsCharged`, for any jitter. The last two assume `Derived`: the minute's
rate is derived from the second's, so that, counted in what a tick refills, both are
1 and no delay is truncated. The run has rates of two and one, with weights they
divide. The invariant adds `Behind` (a bucket never holds more, its next refill
included, than the ideal one) and `AdmittedIsCharged`. That a call is charged only once
is not a theorem: with jitter it is false (`limiter_jitter`), and without it `progress`
checks it.

`Pacing_proofs`, the stream: `StreamTypeCorrect`, `StreamTruth`. What the loop last
heard of a peer that has gone it heard before the peer went (`HeardBefore`); the
attempts of an outage are forgotten once the stream is up (`AttemptsReset`), which
keeps them within their bound; and a published state expires a TTL after its last
update (`KeptForTTL`). The backoff is typed by its cap, whatever the exponent.

`LatestStore_proofs`: `StoreTypeCorrect`, `StoreOutageExpires`,
`StoreAsksWhenStale`, for any names, processes, TTL and freshness. The property
speaks of what a read returned; the invariant says why: while Redis answers, what
a process's memory holds is older than the last trouble (`MemoryIsOld`), what
Redis holds of an instrument is the last event written or older than that
(`RedisHasLastOrOld`), and conversely the last event is in Redis or older than
that (`LastIsInRedisOrOld`). A TTL after the trouble the old ones are gone. The
assumption says that two names with one key mean one instrument; the code does
not enforce it, and without it an event of one could be served for the other.
`StoreAsksWhenStale` needs a positive TTL: without one, Redis may lose a key that
was fresh, and nothing ever expires.

`Retention_proofs`: `RetentionTypeCorrect`, `RetentionScoped`, `RetentionCounted`,
`RetentionDone`, for any intervals, rollups, policies, partitions and budgets.
Candles lie at multiples of their interval and account for nothing outside
(`RowsOK`), so that a candle's periods lie inside its bucket; the items left are of
valid policies with cutoffs in the past (`PlanOK`); what the run has checked to
get to a step still holds there (`PlaceOK`), its deletes stay in the budget
(`BudgetOK`), from the rollup to the last chunk every closed expired candle that
was there is counted in its bucket (`RolledUp`), and a run about to be marked as
succeeded has done its work (`WorkDone`). The action properties need all of it: a
chunk deletes by what earlier steps established, and `CountedWhenRemoved` needs
`RolledUp` to survive everything from the rollup to the last chunk. What needs
induction (a first row, the size of a chunk) goes through the least element of a
set of naturals (`Least`). Assumed is what the code's tables say: a rollup goes to a
wider interval that its own divides, and the policies a run reads are finitely
many.

`Series_proofs`: `GapTableIsExact`, with the invariant that candles open at
multiples of the interval, so that two missing ones are too far apart for the
threshold (`RoomForOne`) and the row `LAG` finds is the nearest (`NothingInside`);
and `AggregatesTypeCorrect`, `AggregatesComplete`, `AggregatesRecalculable`, for any
exchanges, rows, windows, ages and retries. `SnapshotStays` is their core: a
snapshot is a function of the rows at or before its time. The invariant extends
`Recalculable` to the draft in the executor's hands, which no row may have touched
either (`DraftCurrent`), and says that while analytics are written each row is stored
or still to be (`Analysed`).

Proved and not run as well: `RetryBudget`, `StateConsistent`, `HeldOnce` and the type
invariants of the queue, the breaker, the limiter, the snapshot worker and the
collector. `PipelineTypeOK`, `StoreAndStreamTypeOK` and `SeriesTypeOK` join the
type invariants of the modules of their run; those of `Planner`, `Ingest`,
`LatestStore`, `ReconnectManager`, `Aggregates` and `DataGaps` are proved one by one (the
last inside the invariant of `GapTableIsExact`), those of
`TakerFlows` and `Liquidations` are only checked, as are the properties below.

Only model-checked: liveness, which TLAPS does not prove under fairness, and the
properties about sums (`CVDIsRunningSum`, `TotalsLoseOnlyToCuts`, `TradesCountPerPeriod`).
A sum is a fold, and what a fold computes for every input takes an induction over
data, which is out of the prover's reach; the tables of `TakerFlows` and
`Liquidations` are folds as well.

## Not modelled

- `ratelimit/allocator.go`: a pure function of float shares without a caller.
- Request building and URL templates: string handling; an outcome in `Collector`.
- `endpoints/repository.go`: lookups; an input of `Planner` and an outcome in
  `Collector`.
- The read API's queries: one SELECT each, no state. Its latest-value reads are
  in `LatestStore`.
- Of the aggregates, the floating-point content of structure, volatility and
  divergence rows, `enrichAdvanced` and the anomaly flags: arithmetic on columns,
  with no state of its own.
- The rows of `UpsertExchangeDivergences` and of the two `UpsertHistory` (no adapter
  produces them; in `Collector` they are writes like the others) and, without a caller under `src/`, `DataGapRepository.Upsert`
  and `collection_run.go`.
- `MultiWriter` and `NormalizedWriter`: constructed by no service.
- RESP framing, configuration, logging, database set-up, metrics: I/O and
  plumbing.
- A candle from its first, open version to its last, and jobs of different data
  types that share one market-snapshot row: `Ingest` follows one job. Both are in
  the hazard list.
