------------------------------ MODULE JobQueue ------------------------------
(***************************************************************************)
(* The collection-job queue: the table derivative_collection_jobs as the   *)
(* scheduler-service (planning, recovery) and any number of overlapping    *)
(* collector-service processes (claim, execute, report) change it.         *)
(*                                                                         *)
(* One atomic action is one committed database statement or transaction.   *)
(* The claim is two actions, because its row locks are held from the       *)
(* SELECT ... FOR UPDATE SKIP LOCKED to the COMMIT.                        *)
(*                                                                         *)
(* Abstractions.  A target stands for exchange, data type, symbol, source  *)
(* symbol and period: with its time bucket it is the idempotency key.      *)
(* Breaker, limiter and executor are the choice of an outcome.  The tie    *)
(* break by id in the claim order is left open.  Columns nothing in the    *)
(* queue reads (finished_at, next_retry_at, error_message) are left out.   *)
(***************************************************************************)
EXTENDS Integers, FiniteSets

CONSTANTS
    Targets,      \* what the policies can expand to
    Interval,     \* target -> interval_seconds of its policy
    Priority,     \* target -> priority, lower is more urgent
    MaxRetry,     \* target -> max_retry
    Workers,      \* collector-service processes, restarted periodically
    BatchSize,    \* WORKER_CONCURRENCY
    Timeout,      \* RECOVERY_RUNNING_JOB_TIMEOUT
    BackoffBase, BackoffMax, BackoffJitterMax,
    Horizon,      \* bound: the planner runs up to this time
    MaxCrashes    \* bound: collectors that die or give up holding jobs

ASSUME QueueAssumption ==
    /\ Interval \in [Targets -> Nat \ {0}]
    /\ Priority \in [Targets -> Int]
    /\ MaxRetry \in [Targets -> Nat]
    /\ BatchSize \in Nat \ {0}
    /\ Timeout \in Nat \ {0}
    /\ BackoffBase \in Nat \ {0}
    /\ BackoffMax \in Nat \ {0}
    /\ BackoffJitterMax \in Nat
    /\ Horizon \in Nat
    /\ MaxCrashes \in Nat

VARIABLES
    clock,        \* now(), in the database and in every process
    jobs,         \* derivative_collection_jobs, by idempotency key
    deadLetters,  \* failed_collection_jobs: retry_count by key, or NoEntry
    tx,           \* a collector's open claim transaction: locked keys, start
    held,         \* a collector's claimed jobs that it has not reported
    crashes,      \* number of crashes so far (bounded by MaxCrashes)
    recoveries,   \* history: how often recovery reset a job
    overran       \* history: jobs recovery reset under a live collector

queueVars == <<clock, jobs, deadLetters, tx, held, crashes, recoveries, overran>>
-----------------------------------------------------------------------------
ScheduledBucket(at, interval) ==
    IF interval <= 0 THEN at ELSE at - (at % interval)

\* The idempotency keys of the jobs the planner can create.
JobKeys == {k \in Targets \X (0..Horizon) : k[2] % Interval[k[1]] = 0}

Status == {"absent", "pending", "running", "succeeded", "dead_letter"}

Job == [status : Status, scheduledAt : Int, startedAt : Nat, retryCount : Nat]

NoRow == [status |-> "absent", scheduledAt |-> 0, startedAt |-> 0,
          retryCount |-> 0]

NoEntry == -1

NoTx == [keys |-> {}, at |-> 0]

\* What the worker keeps of a claimed row while it processes it.
Claimed == [key : JobKeys, retryCount : Nat]

Terminal(k) == jobs[k].status \in {"succeeded", "dead_letter"}

Holders(k) == {w \in Workers : \E c \in held[w] : c.key = k}

Locked == UNION {tx[w].keys : w \in Workers}

QueueInit ==
    /\ clock = 0
    /\ jobs = [k \in JobKeys |-> NoRow]
    /\ deadLetters = [k \in JobKeys |-> NoEntry]
    /\ tx = [w \in Workers |-> NoTx]
    /\ held = [w \in Workers |-> {}]
    /\ crashes = 0
    /\ recoveries = [k \in JobKeys |-> 0]
    /\ overran = {}
-----------------------------------------------------------------------------
(***************************************************************************)
(* scheduler-service.  A failed recovery is only logged and the process    *)
(* may die between its two transactions, so each happens on its own.       *)
(***************************************************************************)
PlannedJob(k) == [status |-> "pending", scheduledAt |-> k[2],
                  startedAt |-> 0, retryCount |-> 0]

\* One transaction; ON CONFLICT (idempotency_key) keeps the rows that exist.
InsertJobs(new) ==
    jobs' = [k \in JobKeys |-> IF k \in new /\ jobs[k].status = "absent"
                               THEN PlannedJob(k)
                               ELSE jobs[k]]

\* Planner.RunAt: one job in the current bucket for each target that policies,
\* endpoints and symbol tiers make active now.
RunAt ==
    /\ clock <= Horizon
    /\ \E active \in SUBSET Targets :
         InsertJobs({k \in JobKeys :
                       /\ k[1] \in active
                       /\ k[2] = ScheduledBucket(clock, Interval[k[1]])})
    /\ UNCHANGED <<clock, deadLetters, tx, held, crashes, recoveries, overran>>

\* Mutant: WHERE status = 'running' is missing.
InterruptedAnyStatus == {k \in JobKeys : jobs[k].startedAt < clock - Timeout}

\* Mutant: jobs without retries left are not reset.
InterruptedWithBudget ==
    {k \in JobKeys : /\ jobs[k].status = "running"
                     /\ jobs[k].startedAt < clock - Timeout
                     /\ jobs[k].retryCount < MaxRetry[k[1]]}

Interrupted == {k \in JobKeys : /\ jobs[k].status = "running"
                                /\ jobs[k].startedAt < clock - Timeout}

Recovered(j) == [j EXCEPT !.status = "pending",
                          !.scheduledAt = IF clock < @ THEN clock ELSE @,
                          !.retryCount = @ + 1]

RecoverInterrupted ==
    /\ Interrupted # {}
    /\ jobs' = [k \in JobKeys |-> IF k \in Interrupted THEN Recovered(jobs[k])
                                                       ELSE jobs[k]]
    /\ recoveries' = [k \in JobKeys |-> IF k \in Interrupted
                                        THEN recoveries[k] + 1
                                        ELSE recoveries[k]]
    /\ overran' = overran \cup {k \in Interrupted : Holders(k) # {}}
    /\ UNCHANGED <<clock, deadLetters, tx, held, crashes>>
-----------------------------------------------------------------------------
(***************************************************************************)
(* collector-service: Worker.RunOnce.                                      *)
(***************************************************************************)
Due == {k \in JobKeys : /\ jobs[k].status = "pending"
                        /\ jobs[k].scheduledAt <= clock}

\* ORDER BY priority ASC, scheduled_at ASC.
Precedes(k, l) ==
    \/ Priority[k[1]] < Priority[l[1]]
    \/ /\ Priority[k[1]] = Priority[l[1]]
       /\ jobs[k].scheduledAt < jobs[l].scheduledAt

\* Mutant: FOR UPDATE SKIP LOCKED is missing.
SelectableUnlocked == Due

Selectable == Due \ Locked

\* The LIMIT n most urgent rows of S.
FirstRows(S, n) ==
    {C \in SUBSET S : /\ Cardinality(C) <= n
                      /\ Cardinality(C) = n \/ C = S
                      /\ \A k \in C, l \in S \ C : ~Precedes(l, k)}

SelectForUpdate(w) ==
    /\ held[w] = {} /\ tx[w] = NoTx
    /\ Selectable # {}
    /\ \E C \in FirstRows(Selectable, BatchSize) :
         tx' = [tx EXCEPT ![w] = [keys |-> C, at |-> clock]]
    /\ UNCHANGED <<clock, jobs, deadLetters, held, crashes, recoveries,
                   overran>>

CommitClaim(w) ==
    /\ tx[w].keys # {}
    /\ jobs' = [k \in JobKeys |->
                  IF k \in tx[w].keys
                  THEN [jobs[k] EXCEPT !.status = "running",
                                       !.startedAt = tx[w].at]
                  ELSE jobs[k]]
    /\ held' = [held EXCEPT ![w] =
                  {[key |-> k, retryCount |-> jobs[k].retryCount] :
                     k \in tx[w].keys}]
    /\ tx' = [tx EXCEPT ![w] = NoTx]
    /\ UNCHANGED <<clock, deadLetters, crashes, recoveries, overran>>

\* The worker's last statement about a job; it waits for the row's lock.
\* None of these statements looks at the row's status, startedAt or owner.
Report(w, c) ==
    /\ c \in held[w]
    /\ c.key \notin Locked
    /\ held' = [held EXCEPT ![w] = @ \ {c}]

MarkJobSucceeded(w, c) ==
    /\ Report(w, c)
    /\ jobs' = [jobs EXCEPT ![c.key].status = "succeeded"]
    /\ UNCHANGED <<clock, deadLetters, tx, crashes, recoveries, overran>>

\* Mutant: attempts are not counted.
DeadLetterUncounted(c, recoverable) == ~recoverable

DeadLetter(c, recoverable) ==
    ~recoverable \/ c.retryCount + 1 >= MaxRetry[c.key[1]]

\* Mutant: the entry takes the count before this failure.
MarkJobFailedStaleCount(w, c) ==
    /\ Report(w, c)
    /\ jobs' = [jobs EXCEPT ![c.key].status = "dead_letter",
                            ![c.key].retryCount = @ + 1]
    /\ deadLetters' = [deadLetters EXCEPT ![c.key] =
                         IF @ = NoEntry THEN c.retryCount ELSE @]
    /\ UNCHANGED <<clock, tx, crashes, recoveries, overran>>

\* The row's own retry_count grows; the entry takes the claimed copy's count,
\* and an entry that exists is kept.
MarkJobFailedDetailed(w, c) ==
    /\ Report(w, c)
    /\ jobs' = [jobs EXCEPT ![c.key].status = "dead_letter",
                            ![c.key].retryCount = @ + 1]
    /\ deadLetters' = [deadLetters EXCEPT ![c.key] =
                         IF @ = NoEntry THEN c.retryCount + 1 ELSE @]
    /\ UNCHANGED <<clock, tx, crashes, recoveries, overran>>

BackoffDelay(retryCount) ==
    LET exponent == IF retryCount < 10 THEN retryCount ELSE 10
        delay == BackoffBase * 2^exponent
    IN  IF delay > BackoffMax THEN BackoffMax ELSE delay

\* deterministicJitter: a hash of the job modulo the maximum.
Jitters == {j \in 0..BackoffJitterMax : j = 0 \/ j < BackoffJitterMax}

RetryJobLater(w, c) ==
    /\ Report(w, c)
    /\ \E jitter \in Jitters :
         jobs' = [jobs EXCEPT
                    ![c.key].status = "pending",
                    ![c.key].scheduledAt =
                       clock + BackoffDelay(c.retryCount) + jitter,
                    ![c.key].retryCount = @ + 1]
    /\ UNCHANGED <<clock, deadLetters, tx, crashes, recoveries, overran>>

RetryOrDeadLetter(w, c, recoverable) ==
    \/ DeadLetter(c, recoverable) /\ MarkJobFailedDetailed(w, c)
    \/ ~DeadLetter(c, recoverable) /\ RetryJobLater(w, c)

\* Worker.process: success; or an error of the breaker, of the limiter (both
\* recoverable) or of the executor (recoverable or not).
Process(w, c) ==
    \/ MarkJobSucceeded(w, c)
    \/ \E recoverable \in BOOLEAN : RetryOrDeadLetter(w, c, recoverable)

\* The process dies, or RunOnce returns because a statement failed: an open
\* claim is rolled back and the claimed jobs stay 'running' in the table.
Abandon(w) ==
    /\ crashes < MaxCrashes
    /\ held[w] # {} \/ tx[w] # NoTx
    /\ crashes' = crashes + 1
    /\ held' = [held EXCEPT ![w] = {}]
    /\ tx' = [tx EXCEPT ![w] = NoTx]
    /\ UNCHANGED <<clock, jobs, deadLetters, recoveries, overran>>
-----------------------------------------------------------------------------
\* Something the clock can still change: a bucket to come, a retry that is
\* not due, a running job that is not yet old enough for recovery.
TimerPending ==
    \/ clock < Horizon
    \/ \E k \in JobKeys :
         \/ jobs[k].status = "pending" /\ jobs[k].scheduledAt > clock
         \/ jobs[k].status = "running" /\ ~(jobs[k].startedAt < clock - Timeout)

QueueTick ==
    /\ TimerPending
    /\ clock' = clock + 1
    /\ UNCHANGED <<jobs, deadLetters, tx, held, crashes, recoveries, overran>>

Collector(w) ==
    \/ SelectForUpdate(w)
    \/ CommitClaim(w)
    \/ \E c \in held[w] : Process(w, c)

QueueNext ==
    \/ RunAt
    \/ RecoverInterrupted
    \/ \E w \in Workers : Collector(w)
    \/ \E w \in Workers : Abandon(w)
    \/ QueueTick

QueueSpec == QueueInit /\ [][QueueNext]_queueVars

\* cron restarts the scheduler and the collectors for ever, a collector that
\* does not die gets through its batch, and time passes.
QueueFairness ==
    /\ WF_queueVars(QueueTick)
    /\ WF_queueVars(RecoverInterrupted)
    /\ \A w \in Workers : WF_queueVars(Collector(w))

FairQueue == QueueSpec /\ QueueFairness
-----------------------------------------------------------------------------
\* Failed attempts a job may have, and those that were not resets by recovery.
FailureBudget(k) == IF MaxRetry[k[1]] = 0 THEN 1 ELSE MaxRetry[k[1]]

Spent(k) == jobs[k].retryCount - recoveries[k]

\* Every variable has its type.
QueueTypeOK ==
    /\ clock \in Nat
    /\ jobs \in [JobKeys -> Job]
    /\ deadLetters \in [JobKeys -> Nat \cup {NoEntry}]
    /\ tx \in [Workers -> [keys : SUBSET JobKeys, at : Nat]]
    /\ held \in [Workers -> SUBSET Claimed]
    /\ crashes \in Nat
    /\ recoveries \in [JobKeys -> Nat]
    /\ overran \in SUBSET JobKeys

\* Claiming with FOR UPDATE SKIP LOCKED gives a job to one collector, and the
\* copy that collector works from is current (row running, same retry_count),
\* for every job that recovery never took from a live collector.
ExclusiveClaim ==
    \A k \in JobKeys \ overran : \A w \in Workers : \A c \in held[w] :
        c.key = k => /\ jobs[k].status = "running"
                     /\ c.retryCount = jobs[k].retryCount
                     /\ Holders(k) = {w}

\* A job that succeeded or was dead-lettered is never touched again, although
\* the report statements are guarded by the id alone (WHERE id = $1), unless
\* recovery once took it from a live collector.
TerminalIsFinal ==
    [][\A k \in JobKeys \ overran' : Terminal(k) => jobs'[k] = jobs[k]]_queueVars

\* The status update and the failed_collection_jobs insert of
\* MarkJobFailedDetailed agree: a dead-lettered job always has its entry, and
\* unless a live collector was overtaken an entry is that of a dead-lettered
\* job and carries the row's final retry_count.
DeadLetterRecorded ==
    \A k \in JobKeys :
        /\ jobs[k].status = "dead_letter" => deadLetters[k] # NoEntry
        /\ k \notin overran /\ deadLetters[k] # NoEntry =>
             /\ jobs[k].status = "dead_letter"
             /\ deadLetters[k] = jobs[k].retryCount

\* retryOrDeadLetter counts attempts on its claimed copy, the table on the
\* row; still a job gets no more failed attempts than max_retry (one if it is
\* 0) beyond the resets by recovery, and waits only with budget left.
RetryBudget ==
    \A k \in JobKeys \ overran :
        /\ Spent(k) <= FailureBudget(k)
        /\ jobs[k].status \in {"pending", "running"} => Spent(k) < FailureBudget(k)

\* With finitely many crashes every planned job is finished: nothing a dying
\* collector leaves 'running', and no retry, is lost.
EventuallyTerminal ==
    \A k \in JobKeys : jobs[k].status = "pending" ~> Terminal(k)

(***************************************************************************)
(* The queue implements the life cycle a job is promised.                  *)
(***************************************************************************)
Stage(k) ==
    IF k \in overran THEN "contested"
    ELSE CASE jobs[k].status = "absent" -> "absent"
           [] jobs[k].status = "pending" -> "queued"
           [] jobs[k].status = "running" -> "leased"
           [] jobs[k].status = "succeeded" -> "done"
           [] jobs[k].status = "dead_letter" -> "buried"

Stages == [k \in JobKeys |-> Stage(k)]

Failures == [k \in JobKeys |-> IF k \in overran THEN 0 ELSE Spent(k)]

Lifecycle == INSTANCE JobLifecycle WITH
    Jobs <- JobKeys,
    Limit <- [k \in JobKeys |-> MaxRetry[k[1]]],
    state <- Stages,
    failures <- Failures

\* Planner, overlapping collectors, crashes and recovery together give every
\* job the life cycle of JobLifecycle: one lease at a time, one ending, and no
\* retry past the documented limit of max_retry failures, until a live collector
\* is overtaken (worker.go:92-170, repository.go:98-193).
ImplementsLifecycle == Lifecycle!Spec
-----------------------------------------------------------------------------
(***************************************************************************)
(* What docs/scheduler.md says of the job model.                           *)
(***************************************************************************)
\* "status: pending -> running -> succeeded | failed | dead_letter": a
\* finished job stays finished.
DocStatusFlow ==
    [][\A k \in JobKeys : Terminal(k) => jobs'[k].status = jobs[k].status]_queueVars
=============================================================================
