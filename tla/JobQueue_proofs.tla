--------------------------- MODULE JobQueue_proofs ---------------------------
(***************************************************************************)
(* Proofs about JobQueue for any targets, policies, number of collectors,  *)
(* batch size, timeout and back-off.  The inductive invariant adds to the  *)
(* checked ones what the claim transaction's row locks protect.            *)
(***************************************************************************)
EXTENDS JobQueue, TLAPS

\* Every step is one of these, so every action is a case of its own.
LEMMA NextCases ==
    ASSUME QueueNext
    PROVE  \/ RunAt
           \/ RecoverInterrupted
           \/ \E w \in Workers : SelectForUpdate(w)
           \/ \E w \in Workers : CommitClaim(w)
           \/ \E w \in Workers : \E c \in held[w] : MarkJobSucceeded(w, c)
           \/ \E w \in Workers : \E c \in held[w] : MarkJobFailedDetailed(w, c)
           \/ \E w \in Workers : \E c \in held[w] :
                ~DeadLetter(c, TRUE) /\ RetryJobLater(w, c)
           \/ \E w \in Workers : Abandon(w)
           \/ QueueTick
<1>1. ASSUME NEW w \in Workers, NEW c \in held[w], NEW recoverable \in BOOLEAN,
             ~DeadLetter(c, recoverable)
      PROVE  ~DeadLetter(c, TRUE)
  BY <1>1, Zenon DEF DeadLetter
<1> QED BY <1>1, Zenon DEF QueueNext, Collector, Process, RetryOrDeadLetter

\* The delay before a retry is an integer.
LEMMA BackoffType ==
    ASSUME NEW r \in Nat
    PROVE  BackoffDelay(r) \in Int
  BY QueueAssumption DEF BackoffDelay

\* What recovery makes of a row.
LEMMA RecoveredFields ==
    ASSUME QueueTypeOK, NEW j \in Job
    PROVE  /\ Recovered(j) \in Job
           /\ Recovered(j).status = "pending"
           /\ Recovered(j).retryCount = j.retryCount + 1
<1> DEFINE at == IF clock < j.scheduledAt THEN clock ELSE j.scheduledAt
<1>1. at \in Int
  BY DEF QueueTypeOK, Job
<1> HIDE DEF at
<1>2. Recovered(j) = [j EXCEPT !.status = "pending",
                               !.scheduledAt = at,
                               !.retryCount = @ + 1]
  BY Zenon DEF Recovered, at
<1>3. Recovered(j) = [status |-> "pending", scheduledAt |-> at,
                      startedAt |-> j.startedAt,
                      retryCount |-> j.retryCount + 1]
  BY <1>2, Zenon DEF Job
<1> QED BY <1>1, <1>3 DEF Job, Status

-----------------------------------------------------------------------------
\* QueueTypeOK holds initially and every action of planner, recovery, collectors
\* and clock keeps it.
LEMMA TypeInit == QueueInit => QueueTypeOK
  BY QueueAssumption
     DEF QueueInit, QueueTypeOK, JobKeys, Job, NoRow, NoEntry, NoTx, Claimed, Status

\* Every operation keeps the types.
LEMMA TypeStep == QueueTypeOK /\ [QueueNext]_queueVars => QueueTypeOK'
<1> SUFFICES ASSUME QueueTypeOK, [QueueNext]_queueVars PROVE QueueTypeOK'
  BY Zenon
<1> USE QueueAssumption DEF QueueTypeOK, Job, Status
<1>1. CASE RunAt
  <2>1. \A k \in JobKeys : PlannedJob(k) \in Job
    BY DEF PlannedJob, JobKeys
  <2>2. \E new : InsertJobs(new)
    BY <1>1, Zenon DEF RunAt
  <2>3. jobs' \in [JobKeys -> Job]
    BY <2>1, <2>2 DEF InsertJobs
  <2> QED BY <1>1, <2>3, Zenon DEF RunAt
<1>2. CASE RecoverInterrupted
  <2>1. \A k \in JobKeys : Recovered(jobs[k]) \in Job
    BY RecoveredFields, Zenon
  <2>2. jobs' \in [JobKeys -> Job]
    BY <1>2, <2>1, Zenon DEF RecoverInterrupted
  <2> QED BY <1>2, <2>2 DEF RecoverInterrupted, Interrupted
<1>3. ASSUME NEW w \in Workers, SelectForUpdate(w) PROVE QueueTypeOK'
  <2>1. PICK C \in FirstRows(Selectable, BatchSize) :
          tx' = [tx EXCEPT ![w] = [keys |-> C, at |-> clock]]
    BY <1>3, Zenon DEF SelectForUpdate
  <2>2. C \in SUBSET JobKeys
    BY Zenon DEF FirstRows, Selectable, Due
  <2> QED BY <1>3, <2>1, <2>2, Zenon DEF SelectForUpdate
<1>4. ASSUME NEW w \in Workers, CommitClaim(w) PROVE QueueTypeOK'
  <2>1. jobs' \in [JobKeys -> Job]
    <3>1. ASSUME NEW k \in JobKeys
          PROVE  [jobs[k] EXCEPT !.status = "running",
                                 !.startedAt = tx[w].at] \in Job
      <4>1. jobs[k] \in Job /\ tx[w].at \in Nat
        BY Zenon
      <4> QED BY <4>1, Zenon
    <3> QED BY <1>4, <3>1, Zenon DEF CommitClaim
  <2>2. {[key |-> k, retryCount |-> jobs[k].retryCount] : k \in tx[w].keys}
          \in SUBSET Claimed
    BY DEF Claimed
  <2>3. held' \in [Workers -> SUBSET Claimed]
    BY <1>4, <2>2, Zenon DEF CommitClaim
  <2> QED BY <1>4, <2>1, <2>3, Zenon DEF CommitClaim, NoTx
<1>5. ASSUME NEW w \in Workers, NEW c \in held[w], MarkJobSucceeded(w, c)
      PROVE  QueueTypeOK'
  BY <1>5 DEF MarkJobSucceeded, Report, Claimed
<1>6. ASSUME NEW w \in Workers, NEW c \in held[w], MarkJobFailedDetailed(w, c)
      PROVE  QueueTypeOK'
  BY <1>6 DEF MarkJobFailedDetailed, Report, Claimed, NoEntry
<1>7. ASSUME NEW w \in Workers, NEW c \in held[w], RetryJobLater(w, c)
      PROVE  QueueTypeOK'
  <2>1. PICK jitter \in Jitters :
          jobs' = [jobs EXCEPT
                     ![c.key].status = "pending",
                     ![c.key].scheduledAt =
                        clock + BackoffDelay(c.retryCount) + jitter,
                     ![c.key].retryCount = @ + 1]
    BY <1>7, Zenon DEF RetryJobLater
  <2>2. clock + BackoffDelay(c.retryCount) + jitter \in Int
    BY BackoffType DEF Jitters, Claimed
  <2> QED BY <1>7, <2>1, <2>2 DEF RetryJobLater, Report, Claimed
<1>8. ASSUME NEW w \in Workers, Abandon(w) PROVE QueueTypeOK'
  BY <1>8 DEF Abandon, NoTx, Claimed
<1>9. CASE QueueTick
  BY <1>9 DEF QueueTick
<1>10. CASE UNCHANGED queueVars
  BY <1>10, Zenon DEF queueVars
<1> QED BY <1>1, <1>2, <1>3, <1>4, <1>5, <1>6, <1>7, <1>8, <1>9, <1>10,
           NextCases, Zenon

\* QueueTypeOK is an invariant of the queue for every value of the constants.
THEOREM TypeCorrect == QueueSpec => []QueueTypeOK
  BY TypeInit, TypeStep, PTL DEF QueueSpec
-----------------------------------------------------------------------------
(***************************************************************************)
(* A collector either has an open claim or works on claimed jobs; locked   *)
(* rows are pending and belong to one claim; and a claimed job that was    *)
(* not overtaken has one copy, which agrees with its running row.          *)
(***************************************************************************)
LocksPending ==
    /\ \A w \in Workers : tx[w].keys # {} => held[w] = {}
    /\ \A w \in Workers : \A k \in tx[w].keys : jobs[k].status = "pending"
    /\ \A v, w \in Workers : v # w => tx[v].keys \cap tx[w].keys = {}

CopiesCurrent ==
    \A w \in Workers : \A c \in held[w] :
        c.key \notin overran =>
            /\ jobs[c.key].status = "running"
            /\ c.retryCount = jobs[c.key].retryCount

CopiesUnique ==
    \A v, w \in Workers : \A c \in held[v], d \in held[w] :
        c.key = d.key /\ c.key \notin overran => v = w /\ c = d

Lease == QueueTypeOK /\ LocksPending /\ CopiesCurrent /\ CopiesUnique

\* No claim is open and nothing is claimed initially.
LEMMA LeaseInit == QueueInit => Lease
  BY TypeInit
     DEF QueueInit, Lease, LocksPending, CopiesCurrent, CopiesUnique, NoTx

\* Recovery takes jobs that are running, and marks the ones it takes from a live
\* collector, so that it leaves claims alone and the other copies current.
LEMMA LeaseRecover ==
    ASSUME Lease, RecoverInterrupted
    PROVE  LocksPending' /\ CopiesCurrent' /\ CopiesUnique'
<1>1. \A k \in JobKeys : k \notin Interrupted => jobs'[k] = jobs[k]
  BY Zenon DEF RecoverInterrupted
<1>2. \A k \in Interrupted : jobs[k].status = "running"
  BY Zenon DEF Interrupted
<1>3. ASSUME NEW w \in Workers, NEW c \in held[w]
      PROVE  c.key \in JobKeys /\ (c.key \notin overran' => c.key \notin Interrupted)
  <2>1. c \in Claimed
    BY Zenon DEF Lease, QueueTypeOK
  <2>2. c.key \in JobKeys
    BY <2>1 DEF Claimed
  <2>3. Holders(c.key) # {}
    BY Zenon DEF Holders
  <2> QED BY <2>2, <2>3, Zenon DEF RecoverInterrupted
<1>4. tx' = tx /\ held' = held /\ overran \subseteq overran'
  BY Zenon DEF RecoverInterrupted
<1>5. LocksPending'
  <2>1. ASSUME NEW w \in Workers, NEW k \in tx[w].keys
        PROVE  jobs'[k].status = "pending"
    <3>1. jobs[k].status = "pending" /\ k \in JobKeys
      BY Zenon DEF Lease, LocksPending, QueueTypeOK
    <3>2. k \notin Interrupted
      BY <1>2, <3>1
    <3> QED BY <1>1, <3>1, <3>2, Zenon
  <2> QED BY <1>4, <2>1, Zenon DEF Lease, LocksPending
<1>6. CopiesCurrent'
  BY <1>1, <1>3, <1>4, Zenon DEF Lease, CopiesCurrent
<1>7. CopiesUnique'
  <2>1. ASSUME NEW v \in Workers, NEW w \in Workers, NEW c \in held[v],
               NEW d \in held[w], c.key = d.key, c.key \notin overran'
        PROVE  v = w /\ c = d
    BY <1>4, <2>1 DEF Lease, CopiesUnique
  <2> QED BY <1>4, <2>1 DEF CopiesUnique
<1> QED BY <1>5, <1>6, <1>7, Zenon

\* Claims, reports, crashes and recoveries keep the lease discipline.
LEMMA LeaseStep == Lease /\ [QueueNext]_queueVars => Lease'
<1> SUFFICES ASSUME Lease, [QueueNext]_queueVars
             PROVE  LocksPending' /\ CopiesCurrent' /\ CopiesUnique'
  BY TypeStep, Zenon DEF Lease
<1> USE DEF Lease, LocksPending, CopiesCurrent, CopiesUnique
<1>0. QueueTypeOK /\ QueueTypeOK'
  BY TypeStep, Zenon
<1> USE <1>0 DEF QueueTypeOK
<1>1. CASE RunAt
  BY <1>1 DEF RunAt, InsertJobs, Claimed
<1>2. CASE RecoverInterrupted
  BY <1>2, LeaseRecover, Zenon
<1>3. ASSUME NEW w \in Workers, SelectForUpdate(w)
      PROVE  LocksPending' /\ CopiesCurrent' /\ CopiesUnique'
  <2>1. PICK C \in FirstRows(Selectable, BatchSize) :
          tx' = [tx EXCEPT ![w] = [keys |-> C, at |-> clock]]
    BY <1>3, Zenon DEF SelectForUpdate
  <2>2. C \subseteq Due \ Locked
    BY Zenon DEF FirstRows, Selectable
  <2>3. \A k \in C : jobs[k].status = "pending"
    BY <2>2, Zenon DEF Due
  <2>4. \A v \in Workers : C \cap tx[v].keys = {}
    BY <2>2 DEF Locked
  <2>5. /\ held[w] = {} /\ held' = held /\ jobs' = jobs /\ overran' = overran
        /\ tx'[w].keys = C /\ \A v \in Workers \ {w} : tx'[v] = tx[v]
    BY <1>3, <2>1, Zenon DEF SelectForUpdate
  <2>6. CopiesCurrent' /\ CopiesUnique'
    BY <2>5
  <2>7. \A v \in Workers : tx'[v].keys # {} => held'[v] = {}
    BY <2>5, Zenon
  <2>8. \A v \in Workers : \A k \in tx'[v].keys : jobs'[k].status = "pending"
    BY <2>3, <2>5
  <2>9. \A u, v \in Workers : u # v => tx'[u].keys \cap tx'[v].keys = {}
    <3> SUFFICES ASSUME NEW u \in Workers, NEW v \in Workers, u # v
                 PROVE  tx'[u].keys \cap tx'[v].keys = {}
      BY Zenon
    <3>1. CASE u = w
      BY <3>1, <2>4, <2>5, Zenon
    <3>2. CASE v = w
      BY <3>2, <2>4, <2>5
    <3>3. CASE u # w /\ v # w
      <4>1. tx'[u] = tx[u] /\ tx'[v] = tx[v]
        BY <3>3, <2>5, Zenon
      <4> QED BY <4>1, Zenon
    <3> QED BY <3>1, <3>2, <3>3, Zenon
  <2> QED BY <2>6, <2>7, <2>8, <2>9, Zenon
<1>4. ASSUME NEW w \in Workers, CommitClaim(w)
      PROVE  LocksPending' /\ CopiesCurrent' /\ CopiesUnique'
  <2>1. \A k \in JobKeys \ tx[w].keys : jobs'[k] = jobs[k]
    BY <1>4, Zenon DEF CommitClaim
  <2>2. \A k \in tx[w].keys : /\ jobs'[k].status = "running"
                              /\ jobs'[k].retryCount = jobs[k].retryCount
    <3> SUFFICES ASSUME NEW k \in tx[w].keys
                 PROVE  /\ jobs'[k].status = "running"
                        /\ jobs'[k].retryCount = jobs[k].retryCount
      BY Zenon
    <3>1. k \in JobKeys /\ jobs[k] \in Job /\ tx[w].at \in Nat
      OBVIOUS
    <3>2. jobs'[k] = [jobs[k] EXCEPT !.status = "running",
                                     !.startedAt = tx[w].at]
      BY <1>4, <3>1, Zenon DEF CommitClaim
    <3> QED BY <3>1, <3>2, Zenon DEF Job
  <2>3. /\ held'[w] = {[key |-> k, retryCount |-> jobs[k].retryCount] :
                          k \in tx[w].keys}
        /\ \A v \in Workers \ {w} : held'[v] = held[v] /\ tx'[v] = tx[v]
        /\ tx'[w].keys = {}
        /\ overran' = overran
    BY <1>4, Zenon DEF CommitClaim, NoTx
  <2>4. \A c \in held'[w] : c.key \in tx[w].keys
                            /\ c.retryCount = jobs[c.key].retryCount
    BY <2>3
  <2>5. \A v \in Workers : \A c \in held[v] :
          c.key \in JobKeys /\ (c.key \in tx[w].keys => c.key \in overran)
    BY DEF Claimed
  <2>6. LocksPending'
    <3>1. ASSUME NEW v \in Workers, NEW k \in tx'[v].keys
          PROVE  jobs'[k].status = "pending"
      <4>1. v # w /\ k \in tx[v].keys /\ k \in JobKeys
        BY <3>1, <2>3
      <4>2. k \notin tx[w].keys
        BY <4>1, Zenon
      <4> QED BY <2>1, <4>1, <4>2
    <3>2. \A u, v \in Workers : u # v => tx'[u].keys \cap tx'[v].keys = {}
      BY <2>3
    <3>3. \A v \in Workers : tx'[v].keys # {} => held'[v] = {}
      BY <2>3, Zenon
    <3> QED BY <3>1, <3>2, <3>3, Zenon
  <2>7. CopiesCurrent'
    <3> SUFFICES ASSUME NEW v \in Workers, NEW c \in held'[v],
                        c.key \notin overran
                 PROVE  /\ jobs'[c.key].status = "running"
                        /\ c.retryCount = jobs'[c.key].retryCount
      BY <2>3, Zenon
    <3>1. CASE v = w
      BY <3>1, <2>2, <2>4
    <3>2. CASE v # w
      <4>1. c \in held[v]
        BY <3>2, <2>3, Zenon
      <4> QED BY <4>1, <2>1, <2>5
    <3> QED BY <3>1, <3>2, Zenon
  <2>8. \A c, d \in held'[w] : c.key = d.key => c = d
    BY <2>3
  <2>9. CopiesUnique'
    <3> SUFFICES ASSUME NEW u \in Workers, NEW v \in Workers,
                        NEW c \in held'[u], NEW d \in held'[v],
                        c.key = d.key, c.key \notin overran
                 PROVE  u = v /\ c = d
      BY <2>3
    <3>1. CASE u = w /\ v = w
      BY <3>1, <2>8, Zenon
    <3>2. CASE u = w /\ v # w
      <4>1. d \in held[v] /\ d.key \in tx[w].keys
        BY <3>2, <2>3, <2>4
      <4> QED BY <4>1, <2>5, Zenon
    <3>3. CASE u # w /\ v = w
      <4>1. c \in held[u] /\ c.key \in tx[w].keys
        BY <3>3, <2>3, <2>4, Zenon
      <4> QED BY <4>1, <2>5, Zenon
    <3>4. CASE u # w /\ v # w
      <4>1. c \in held[u] /\ d \in held[v]
        BY <3>4, <2>3, Zenon
      <4> QED BY <4>1
    <3> QED BY <3>1, <3>2, <3>3, <3>4, Zenon
  <2> QED BY <2>6, <2>7, <2>9, Zenon
<1>5. ASSUME NEW w \in Workers, NEW c \in held[w], Report(w, c),
             \A k \in JobKeys : k # c.key => jobs'[k] = jobs[k],
             tx' = tx, overran' = overran
      PROVE  LocksPending' /\ CopiesCurrent' /\ CopiesUnique'
  <2>1. c.key \in JobKeys /\ \A v \in Workers : c.key \notin tx[v].keys
    BY <1>5 DEF Report, Locked, Claimed
  <2>2. \A v \in Workers : held'[v] \subseteq held[v]
    BY <1>5 DEF Report
  <2>3. \A v \in Workers : \A d \in held'[v] :
          d.key = c.key => c.key \in overran
    BY <1>5, <2>2 DEF Report
  <2>4. \A v \in Workers : \A d \in held'[v] : d.key \in JobKeys
    BY DEF Claimed
  <2>5. LocksPending'
    BY <1>5, <2>1, <2>2
  <2>6. CopiesCurrent'
    BY <1>5, <2>2, <2>3, <2>4
  <2>7. CopiesUnique'
    BY <1>5, <2>2
  <2> QED BY <2>5, <2>6, <2>7, Zenon
<1>6. ASSUME NEW w \in Workers, NEW c \in held[w],
             \/ MarkJobSucceeded(w, c)
             \/ MarkJobFailedDetailed(w, c)
             \/ RetryJobLater(w, c)
      PROVE  LocksPending' /\ CopiesCurrent' /\ CopiesUnique'
  <2>1. \A k \in JobKeys : k # c.key => jobs'[k] = jobs[k]
    BY <1>6, Zenon DEF MarkJobSucceeded, MarkJobFailedDetailed, RetryJobLater
  <2>2. Report(w, c) /\ tx' = tx /\ overran' = overran
    BY <1>6, Zenon DEF MarkJobSucceeded, MarkJobFailedDetailed, RetryJobLater
  <2> HIDE DEF Lease, LocksPending, CopiesCurrent, CopiesUnique, QueueTypeOK
  <2> QED BY <1>5, <2>1, <2>2, Zenon
<1>7. ASSUME NEW w \in Workers, Abandon(w)
      PROVE  LocksPending' /\ CopiesCurrent' /\ CopiesUnique'
  BY <1>7 DEF Abandon, NoTx
<1>8. CASE QueueTick
  BY <1>8 DEF QueueTick
<1>9. CASE UNCHANGED queueVars
  BY <1>9 DEF queueVars
<1> QED BY <1>1, <1>2, <1>3, <1>4, <1>6, <1>7, <1>8, <1>9, NextCases, Zenon

\* A job that recovery never took from a live collector is worked on by one
\* collector, from a copy that agrees with its running row.
THEOREM ClaimIsExclusive == QueueSpec => []ExclusiveClaim
<1>1. Lease => ExclusiveClaim
  BY DEF Lease, CopiesCurrent, CopiesUnique, ExclusiveClaim, Holders
<1> QED BY <1>1, LeaseInit, LeaseStep, PTL DEF QueueSpec
-----------------------------------------------------------------------------
(***************************************************************************)
(* What each action does to one row, without the nested EXCEPTs.           *)
(***************************************************************************)
\* The planner only creates rows, with no attempts yet.
LEMMA RunAtEffect ==
    ASSUME QueueTypeOK, RunAt, NEW k \in JobKeys
    PROVE  \/ jobs'[k] = jobs[k]
           \/ /\ jobs[k].status = "absent"
              /\ jobs'[k].status = "pending" /\ jobs'[k].retryCount = 0
  BY DEF RunAt, InsertJobs, PlannedJob, QueueTypeOK

\* Recovery only touches running rows.
LEMMA RecoverEffect ==
    ASSUME QueueTypeOK, RecoverInterrupted, NEW k \in JobKeys
    PROVE  \/ /\ k \notin Interrupted
              /\ jobs'[k] = jobs[k] /\ recoveries'[k] = recoveries[k]
              /\ (k \in overran' <=> k \in overran)
           \/ /\ k \in Interrupted /\ jobs[k].status = "running"
              /\ jobs'[k].status = "pending"
              /\ jobs'[k].retryCount = jobs[k].retryCount + 1
              /\ recoveries'[k] = recoveries[k] + 1
<1>1. CASE k \notin Interrupted
  BY <1>1, Zenon DEF RecoverInterrupted, QueueTypeOK
<1>2. CASE k \in Interrupted
  <2>1. jobs'[k] = Recovered(jobs[k]) /\ jobs[k] \in Job
    BY <1>2, Zenon DEF RecoverInterrupted, QueueTypeOK
  <2>2. jobs[k].status = "running" /\ recoveries'[k] = recoveries[k] + 1
    BY <1>2, Zenon DEF Interrupted, RecoverInterrupted
  <2> QED BY <1>2, <2>1, <2>2, RecoveredFields, Zenon
<1> QED BY <1>1, <1>2, Zenon

\* A claim only starts the rows it locked.
LEMMA CommitEffect ==
    ASSUME QueueTypeOK, NEW w \in Workers, CommitClaim(w), NEW k \in JobKeys
    PROVE  \/ k \notin tx[w].keys /\ jobs'[k] = jobs[k]
           \/ /\ k \in tx[w].keys /\ jobs'[k].status = "running"
              /\ jobs'[k].retryCount = jobs[k].retryCount
<1>1. jobs[k] \in Job /\ tx[w].at \in Nat
  BY Zenon DEF QueueTypeOK
<1>2. CASE k \in tx[w].keys
  <2>1. jobs'[k] = [jobs[k] EXCEPT !.status = "running",
                                   !.startedAt = tx[w].at]
    BY <1>2, Zenon DEF CommitClaim
  <2> QED BY <1>1, <1>2, <2>1, Zenon DEF Job
<1>3. CASE k \notin tx[w].keys
  BY <1>3, Zenon DEF CommitClaim
<1> QED BY <1>2, <1>3, Zenon

\* A claimed copy is of a job the planner can create.
LEMMA ClaimedType ==
    ASSUME QueueTypeOK, NEW w \in Workers, NEW c \in held[w]
    PROVE  c.key \in JobKeys /\ c.retryCount \in Nat
  BY DEF QueueTypeOK, Claimed

\* A report changes the row of the reported job and no other.
LEMMA ReportEffect ==
    ASSUME QueueTypeOK, NEW w \in Workers, NEW c \in held[w]
    PROVE  /\ c.key \in JobKeys /\ c.retryCount \in Nat
           /\ MarkJobSucceeded(w, c) =>
                /\ jobs'[c.key].status = "succeeded"
                /\ jobs'[c.key].retryCount = jobs[c.key].retryCount
           /\ MarkJobFailedDetailed(w, c) =>
                /\ jobs'[c.key].status = "dead_letter"
                /\ jobs'[c.key].retryCount = jobs[c.key].retryCount + 1
           /\ RetryJobLater(w, c) =>
                /\ jobs'[c.key].status = "pending"
                /\ jobs'[c.key].retryCount = jobs[c.key].retryCount + 1
           /\ \/ MarkJobSucceeded(w, c)
              \/ MarkJobFailedDetailed(w, c)
              \/ RetryJobLater(w, c)
              => /\ \A k \in JobKeys : k # c.key => jobs'[k] = jobs[k]
                 /\ overran' = overran /\ recoveries' = recoveries
<1> USE DEF QueueTypeOK
<1>1. c.key \in JobKeys /\ c.retryCount \in Nat /\ jobs[c.key] \in Job
  BY DEF Claimed
<1>2. ASSUME MarkJobSucceeded(w, c)
      PROVE  /\ jobs'[c.key].status = "succeeded"
             /\ jobs'[c.key].retryCount = jobs[c.key].retryCount
  BY <1>1, <1>2, Zenon DEF MarkJobSucceeded, Job
<1>3. ASSUME MarkJobFailedDetailed(w, c)
      PROVE  /\ jobs'[c.key].status = "dead_letter"
             /\ jobs'[c.key].retryCount = jobs[c.key].retryCount + 1
  BY <1>1, <1>3, Zenon DEF MarkJobFailedDetailed, Job
<1>4. ASSUME RetryJobLater(w, c)
      PROVE  /\ jobs'[c.key].status = "pending"
             /\ jobs'[c.key].retryCount = jobs[c.key].retryCount + 1
  BY <1>1, <1>4 DEF RetryJobLater, Job
<1>5. ASSUME \/ MarkJobSucceeded(w, c)
             \/ MarkJobFailedDetailed(w, c)
             \/ RetryJobLater(w, c)
      PROVE  /\ \A k \in JobKeys : k # c.key => jobs'[k] = jobs[k]
             /\ overran' = overran /\ recoveries' = recoveries
  BY <1>5, Zenon DEF MarkJobSucceeded, MarkJobFailedDetailed, RetryJobLater
<1> QED BY <1>1, <1>2, <1>3, <1>4, <1>5, Zenon
-----------------------------------------------------------------------------
\* From the lease discipline: a finished job that was never overtaken has no
\* copy left that a report could be made from.
THEOREM TerminalNeverChanges == QueueSpec => TerminalIsFinal
<1>1. ASSUME Lease, [QueueNext]_queueVars, NEW k \in JobKeys \ overran', Terminal(k)
      PROVE  jobs'[k] = jobs[k]
  <2> USE DEF Lease, Terminal
  <2>0. k \in JobKeys /\ k \notin overran'
    BY <1>1, Zenon
  <2>1. CASE RunAt
    BY <1>1, <2>0, <2>1, RunAtEffect, Zenon
  <2>2. CASE RecoverInterrupted
    BY <1>1, <2>0, <2>2, RecoverEffect, Zenon
  <2>3. ASSUME NEW w \in Workers, CommitClaim(w) PROVE jobs'[k] = jobs[k]
    BY <1>1, <2>0, <2>3, CommitEffect, Zenon DEF LocksPending
  <2>4. ASSUME NEW w \in Workers, NEW c \in held[w],
               \/ MarkJobSucceeded(w, c)
               \/ MarkJobFailedDetailed(w, c)
               \/ RetryJobLater(w, c)
        PROVE  jobs'[k] = jobs[k]
    <3>1. /\ \A l \in JobKeys : l # c.key => jobs'[l] = jobs[l]
          /\ overran' = overran
      BY <1>1, <2>4, ReportEffect, Zenon
    <3>2. c.key # k
      BY <1>1, <2>0, <3>1, Zenon DEF CopiesCurrent
    <3> QED BY <2>0, <3>1, <3>2, Zenon
  <2>5. ASSUME NEW w \in Workers, SelectForUpdate(w) \/ Abandon(w)
        PROVE  jobs'[k] = jobs[k]
    BY <2>5, Zenon DEF SelectForUpdate, Abandon
  <2>6. CASE QueueTick \/ UNCHANGED queueVars
    BY <2>6, Zenon DEF QueueTick, queueVars
  <2> QED BY <1>1, <2>1, <2>2, <2>3, <2>4, <2>5, <2>6, NextCases, Zenon
<1>2. Lease /\ [QueueNext]_queueVars =>
        \A k \in JobKeys \ overran' : Terminal(k) => jobs'[k] = jobs[k]
  BY <1>1, Zenon
<1> QED BY <1>2, LeaseInit, LeaseStep, PTL DEF QueueSpec, TerminalIsFinal
-----------------------------------------------------------------------------
\* Initially there are neither rows with attempts nor entries.
LEMMA RecordsInit == QueueInit => DeadLetterRecorded /\ RetryBudget
<1> SUFFICES ASSUME QueueInit PROVE DeadLetterRecorded /\ RetryBudget
  BY Zenon
<1>1. \A k \in JobKeys : /\ jobs[k].status = "absent" /\ jobs[k].retryCount = 0
                         /\ recoveries[k] = 0 /\ deadLetters[k] = NoEntry
  BY Zenon DEF QueueInit, NoRow
<1>2. \A k \in JobKeys : MaxRetry[k[1]] \in Nat
  BY QueueAssumption, Zenon DEF JobKeys
<1>3. DeadLetterRecorded
  BY <1>1, Zenon DEF DeadLetterRecorded
<1>4. RetryBudget
  BY <1>1, <1>2 DEF RetryBudget, Spent, FailureBudget
<1> QED BY <1>3, <1>4, Zenon

\* The dead-letter entry is written in the transaction that ends the job.
LEMMA DeadLetterStep ==
    Lease /\ DeadLetterRecorded /\ [QueueNext]_queueVars => DeadLetterRecorded'
<1> SUFFICES ASSUME Lease, DeadLetterRecorded, [QueueNext]_queueVars, NEW k \in JobKeys
             PROVE  /\ jobs'[k].status = "dead_letter"
                         => deadLetters'[k] # NoEntry
                    /\ k \notin overran' /\ deadLetters'[k] # NoEntry =>
                         /\ jobs'[k].status = "dead_letter"
                         /\ deadLetters'[k] = jobs'[k].retryCount
  BY Zenon DEF DeadLetterRecorded
<1> USE DEF Lease, DeadLetterRecorded
<1>1. CASE RunAt
  BY <1>1, RunAtEffect, Zenon DEF RunAt
<1>2. CASE RecoverInterrupted
  <2>1. deadLetters' = deadLetters /\ overran \subseteq overran'
    BY <1>2, Zenon DEF RecoverInterrupted
  <2> QED BY <1>2, <2>1, RecoverEffect, Zenon
<1>3. ASSUME NEW w \in Workers, CommitClaim(w)
      PROVE  /\ jobs'[k].status = "dead_letter" => deadLetters'[k] # NoEntry
             /\ k \notin overran' /\ deadLetters'[k] # NoEntry =>
                  /\ jobs'[k].status = "dead_letter"
                  /\ deadLetters'[k] = jobs'[k].retryCount
  <2>1. deadLetters' = deadLetters /\ overran' = overran
    BY <1>3, Zenon DEF CommitClaim
  <2> QED BY <1>3, <2>1, CommitEffect DEF LocksPending
<1>4. ASSUME NEW w \in Workers, NEW c \in held[w],
             MarkJobSucceeded(w, c) \/ RetryJobLater(w, c)
      PROVE  /\ jobs'[k].status = "dead_letter" => deadLetters'[k] # NoEntry
             /\ k \notin overran' /\ deadLetters'[k] # NoEntry =>
                  /\ jobs'[k].status = "dead_letter"
                  /\ deadLetters'[k] = jobs'[k].retryCount
  <2>1. deadLetters' = deadLetters
    BY <1>4, Zenon DEF MarkJobSucceeded, RetryJobLater
  <2> QED BY <1>4, <2>1, ReportEffect DEF CopiesCurrent
<1>5. ASSUME NEW w \in Workers, NEW c \in held[w], MarkJobFailedDetailed(w, c)
      PROVE  /\ jobs'[k].status = "dead_letter" => deadLetters'[k] # NoEntry
             /\ k \notin overran' /\ deadLetters'[k] # NoEntry =>
                  /\ jobs'[k].status = "dead_letter"
                  /\ deadLetters'[k] = jobs'[k].retryCount
  <2>1. deadLetters' = [deadLetters EXCEPT ![c.key] =
                          IF @ = NoEntry THEN c.retryCount + 1 ELSE @]
    BY <1>5, Zenon DEF MarkJobFailedDetailed
  <2>2. CASE k # c.key
    <3>1. deadLetters'[k] = deadLetters[k]
      BY <2>1, <2>2, Zenon DEF QueueTypeOK
    <3>2. jobs'[k] = jobs[k] /\ overran' = overran
      BY <1>5, <2>2, ReportEffect, Zenon
    <3> QED BY <3>1, <3>2, Zenon
  <2>3. CASE k = c.key
    <3>1. deadLetters'[k] = IF deadLetters[k] = NoEntry
                            THEN c.retryCount + 1 ELSE deadLetters[k]
      BY <2>1, <2>3, Zenon DEF QueueTypeOK
    <3>2. c.retryCount + 1 # NoEntry
      BY ClaimedType DEF NoEntry
    <3> QED BY <1>5, <2>3, <3>1, <3>2, ReportEffect DEF CopiesCurrent
  <2> QED BY <2>2, <2>3, Zenon
<1>6. ASSUME NEW w \in Workers, SelectForUpdate(w) \/ Abandon(w)
      PROVE  jobs' = jobs /\ deadLetters' = deadLetters /\ overran' = overran
  BY <1>6, Zenon DEF SelectForUpdate, Abandon
<1>7. CASE QueueTick \/ UNCHANGED queueVars
  BY <1>7, Zenon DEF QueueTick, queueVars
<1> QED BY <1>1, <1>2, <1>3, <1>4, <1>5, <1>6, <1>7, NextCases, Zenon

\* A dead-lettered job has its failed_collection_jobs entry, and the entry of
\* a job that was never overtaken carries the row's final retry_count.
THEOREM DeadLettersAgree == QueueSpec => []DeadLetterRecorded
  BY LeaseInit, LeaseStep, RecordsInit, DeadLetterStep, PTL DEF QueueSpec

\* A retry is granted on the claimed copy, which the lease keeps current.
LEMMA RetryBudgetStep == Lease /\ RetryBudget /\ [QueueNext]_queueVars => RetryBudget'
<1> SUFFICES ASSUME Lease, RetryBudget, [QueueNext]_queueVars, NEW k \in JobKeys,
                    k \notin overran'
             PROVE  /\ Spent(k)' <= FailureBudget(k)
                    /\ jobs'[k].status \in {"pending", "running"}
                          => Spent(k)' < FailureBudget(k)
  BY Zenon DEF RetryBudget, FailureBudget
<1>0. /\ jobs[k].retryCount \in Nat /\ recoveries[k] \in Nat
      /\ MaxRetry[k[1]] \in Nat
  BY QueueAssumption, Zenon DEF Lease, QueueTypeOK, Job, JobKeys
<1> USE <1>0 DEF Lease, RetryBudget, Spent, FailureBudget
<1>1. CASE RunAt
  <2>1. recoveries' = recoveries /\ overran' = overran
    BY <1>1, Zenon DEF RunAt
  <2> QED BY <1>1, <2>1, RunAtEffect
<1>2. CASE RecoverInterrupted
  <2>1. overran \subseteq overran'
    BY <1>2, Zenon DEF RecoverInterrupted
  <2> QED BY <1>2, <2>1, RecoverEffect
<1>3. ASSUME NEW w \in Workers, CommitClaim(w)
      PROVE  /\ Spent(k)' <= FailureBudget(k)
             /\ jobs'[k].status \in {"pending", "running"}
                   => Spent(k)' < FailureBudget(k)
  <2>1. recoveries' = recoveries /\ overran' = overran
    BY <1>3, Zenon DEF CommitClaim
  <2>2. /\ jobs'[k].retryCount = jobs[k].retryCount
        /\ \/ jobs'[k].status = jobs[k].status
           \/ jobs[k].status = "pending"
    BY <1>3, CommitEffect DEF LocksPending
  <2> QED BY <2>1, <2>2, Zenon
<1>4. ASSUME NEW w \in Workers, NEW c \in held[w],
             \/ MarkJobSucceeded(w, c)
             \/ MarkJobFailedDetailed(w, c)
             \/ ~DeadLetter(c, TRUE) /\ RetryJobLater(w, c)
      PROVE  /\ Spent(k)' <= FailureBudget(k)
             /\ jobs'[k].status \in {"pending", "running"}
                   => Spent(k)' < FailureBudget(k)
  <2>1. /\ c.key \in JobKeys /\ recoveries' = recoveries /\ overran' = overran
        /\ k # c.key => jobs'[k] = jobs[k]
    BY <1>4, ReportEffect, Zenon
  <2>2. CASE k # c.key
    BY <2>1, <2>2, Zenon
  <2>3. CASE k = c.key
    <3>1. jobs[k].status = "running" /\ c.retryCount = jobs[k].retryCount
      BY <2>1, <2>3, Zenon DEF CopiesCurrent
    <3>2. CASE MarkJobSucceeded(w, c)
      BY <2>1, <2>3, <3>1, <3>2, ReportEffect, Zenon
    <3>a. Spent(k) < FailureBudget(k)
      BY <2>1, <3>1, Zenon
    <3>3. CASE MarkJobFailedDetailed(w, c)
      <4>1. /\ jobs'[k].status = "dead_letter"
            /\ jobs'[k].retryCount = jobs[k].retryCount + 1
        BY <2>3, <3>3, ReportEffect, Zenon
      <4> QED BY <2>1, <3>a, <4>1
    <3>4. CASE ~DeadLetter(c, TRUE) /\ RetryJobLater(w, c)
      <4>1. ~(jobs[k].retryCount + 1 >= MaxRetry[k[1]])
        BY <2>3, <3>1, <3>4, Zenon DEF DeadLetter
      <4>2. jobs'[k].retryCount = jobs[k].retryCount + 1
        BY <2>3, <3>4, ReportEffect, Zenon
      <4> QED BY <2>1, <3>a, <4>1, <4>2
    <3> QED BY <1>4, <3>2, <3>3, <3>4, Zenon
  <2> QED BY <2>2, <2>3, Zenon
<1>5. ASSUME NEW w \in Workers, SelectForUpdate(w) \/ Abandon(w)
      PROVE  jobs' = jobs /\ recoveries' = recoveries /\ overran' = overran
  BY <1>5, Zenon DEF SelectForUpdate, Abandon
<1>6. CASE QueueTick \/ UNCHANGED queueVars
  BY <1>6, Zenon DEF QueueTick, queueVars
<1> QED BY <1>1, <1>2, <1>3, <1>4, <1>5, <1>6, NextCases, Zenon

\* Resets by recovery apart, a job that was never overtaken has at most
\* max_retry failed attempts (one if max_retry is 0).
THEOREM RetriesWithinBudget == QueueSpec => []RetryBudget
  BY LeaseInit, LeaseStep, RecordsInit, RetryBudgetStep, PTL DEF QueueSpec
-----------------------------------------------------------------------------
\* Every row of a queue state has one of the stages of the life cycle, and
\* only its status and the overtaken jobs decide which.
LEMMA StageCases ==
    ASSUME QueueTypeOK, NEW k \in JobKeys
    PROVE  /\ k \in overran => Stage(k) = "contested"
           /\ k \notin overran =>
                /\ jobs[k].status = "absent" => Stage(k) = "absent"
                /\ jobs[k].status = "pending" => Stage(k) = "queued"
                /\ jobs[k].status = "running" => Stage(k) = "leased"
                /\ jobs[k].status = "succeeded" => Stage(k) = "done"
                /\ jobs[k].status = "dead_letter" => Stage(k) = "buried"
  BY Zenon DEF Stage

\* A row that a step leaves alone keeps its stage and its failures.
LEMMA StageUnchanged ==
    ASSUME QueueTypeOK, QueueTypeOK', NEW k \in JobKeys,
           jobs'[k] = jobs[k], recoveries'[k] = recoveries[k],
           k \in overran' <=> k \in overran
    PROVE  Stages'[k] = Stages[k] /\ Failures'[k] = Failures[k]
<1>1. jobs[k].status \in Status
  BY Zenon DEF QueueTypeOK, Job
<1>2. Stage(k)' = Stage(k)
  BY <1>1, Zenon DEF Stage, Status
<1> QED BY <1>2, Zenon DEF Stages, Failures, Spent

\* A row that does not exist has had no attempt.
AbsentFresh ==
    \A k \in JobKeys : jobs[k].status = "absent" => jobs[k].retryCount = 0

\* No statement deletes a row.
LEMMA AbsentStep == QueueTypeOK /\ AbsentFresh /\ [QueueNext]_queueVars => AbsentFresh'
<1> SUFFICES ASSUME QueueTypeOK, AbsentFresh, [QueueNext]_queueVars, NEW k \in JobKeys,
                    jobs'[k].status = "absent"
             PROVE  jobs'[k].retryCount = 0
  BY Zenon DEF AbsentFresh
<1> USE DEF AbsentFresh
<1>1. CASE RunAt
  BY <1>1, RunAtEffect, Zenon
<1>2. CASE RecoverInterrupted
  BY <1>2, RecoverEffect, Zenon
<1>3. ASSUME NEW w \in Workers, CommitClaim(w) PROVE jobs'[k].retryCount = 0
  BY <1>3, CommitEffect, Zenon
<1>4. ASSUME NEW w \in Workers, NEW c \in held[w],
             \/ MarkJobSucceeded(w, c)
             \/ MarkJobFailedDetailed(w, c)
             \/ RetryJobLater(w, c)
      PROVE  jobs'[k].retryCount = 0
  BY <1>4, ReportEffect, Zenon
<1>5. ASSUME NEW w \in Workers, SelectForUpdate(w) \/ Abandon(w)
      PROVE  jobs' = jobs
  BY <1>5, Zenon DEF SelectForUpdate, Abandon
<1>6. CASE QueueTick \/ UNCHANGED queueVars
  BY <1>6, Zenon DEF QueueTick, queueVars
<1> QED BY <1>1, <1>2, <1>3, <1>4, <1>5, <1>6, NextCases, Zenon

\* No job has a stage before it is planned.
LEMMA LifecycleInit == QueueInit => AbsentFresh /\ Lifecycle!Init
<1> SUFFICES ASSUME QueueInit PROVE AbsentFresh /\ Lifecycle!Init
  BY Zenon
<1>1. ASSUME NEW k \in JobKeys
      PROVE  /\ jobs[k].status = "absent" /\ jobs[k].retryCount = 0
             /\ k \notin overran /\ recoveries[k] = 0
  BY Zenon DEF QueueInit, NoRow
<1>2. QueueTypeOK
  BY TypeInit, Zenon
<1>3. \A k \in JobKeys : Stage(k) = "absent"
  BY <1>1, <1>2, StageCases, Zenon
<1>4. \A k \in JobKeys : (IF k \in overran THEN 0 ELSE Spent(k)) = 0
  BY <1>1 DEF Spent
<1> QED BY <1>1, <1>3, <1>4, Zenon
        DEF AbsentFresh, Lifecycle!Init, Stages, Failures

\* Every step of the queue is a step of the life cycle, or leaves every stage
\* alone.
LEMMA LifecycleStep ==
    /\ Lease /\ QueueTypeOK' /\ RetryBudget /\ AbsentFresh /\ [QueueNext]_queueVars
    => [Lifecycle!Next]_<<Stages, Failures>>
<1> SUFFICES ASSUME Lease, QueueTypeOK', RetryBudget, AbsentFresh, [QueueNext]_queueVars
             PROVE  Lifecycle!Next \/ UNCHANGED <<Stages, Failures>>
  BY Zenon
<1>0. QueueTypeOK /\ QueueTypeOK'
  BY Zenon DEF Lease
<1>a. /\ Stages = [k \in JobKeys |-> Stages[k]]
      /\ Failures = [k \in JobKeys |-> Failures[k]]
      /\ Stages' = [k \in JobKeys |-> Stages'[k]]
      /\ Failures' = [k \in JobKeys |-> Failures'[k]]
  BY Zenon DEF Stages, Failures
<1>b. ASSUME jobs' = jobs, recoveries' = recoveries, overran' = overran
      PROVE  UNCHANGED <<Stages, Failures>>
  BY <1>b DEF Stages, Failures, Stage, Spent
<1>c. \A k \in JobKeys : /\ Stages[k] = Stage(k) /\ Stages'[k] = Stage(k)'
                         /\ k \in overran => Failures[k] = 0
                         /\ k \in overran' => Failures'[k] = 0
                         /\ k \notin overran => Failures[k] = Spent(k)
                         /\ k \notin overran' => Failures'[k] = Spent(k)'
  BY Zenon DEF Stages, Failures
<1>d. \A k \in JobKeys : /\ jobs[k].retryCount \in Nat /\ recoveries[k] \in Nat
                         /\ jobs'[k].retryCount \in Nat /\ recoveries'[k] \in Nat
  BY <1>0, Zenon DEF QueueTypeOK, Job
<1>1. CASE RunAt
  <2> DEFINE S == {k \in JobKeys \ overran : jobs'[k] # jobs[k]}
  <2>1. recoveries' = recoveries /\ overran' = overran
    BY <1>1, Zenon DEF RunAt
  <2>2. ASSUME NEW k \in JobKeys, k \notin S
        PROVE  Stages'[k] = Stages[k] /\ Failures'[k] = Failures[k]
    <3>1. CASE k \in overran
      BY <1>c, <2>1, <3>1, Zenon DEF Stage
    <3>2. CASE k \notin overran
      BY <1>0, <2>1, <2>2, <3>2, StageUnchanged, Zenon
    <3> QED BY <3>1, <3>2, Zenon
  <2>3. ASSUME NEW k \in S
        PROVE  /\ Stages[k] = "absent" /\ Stages'[k] = "queued"
               /\ Failures'[k] = Failures[k]
    <3>1. /\ jobs[k].status = "absent" /\ jobs'[k].status = "pending"
          /\ jobs'[k].retryCount = 0 /\ jobs[k].retryCount = 0
      BY <1>0, <1>1, RunAtEffect, Zenon DEF AbsentFresh
    <3> QED BY <1>c, <2>1, <3>1 DEF Stage, Spent
  <2>4. Lifecycle!Enqueue(S)
    <3> HIDE DEF S
    <3>1. Stages' = [k \in JobKeys |-> IF k \in S THEN "queued" ELSE Stages[k]]
      BY <1>a, <2>2, <2>3, Zenon
    <3>2. Failures' = Failures
      BY <1>a, <2>2, <2>3, Zenon
    <3> QED BY <2>3, <3>1, <3>2, Zenon DEF Lifecycle!Enqueue, Lifecycle!Move
  <2> QED BY <2>4, Zenon DEF Lifecycle!Next
<1>2. CASE RecoverInterrupted
  <2> DEFINE S == Interrupted \ overran
             T == {k \in S : Holders(k) # {}}
  <2>1. /\ Interrupted \subseteq JobKeys
        /\ overran' = overran \cup {k \in Interrupted : Holders(k) # {}}
    BY <1>2, Zenon DEF RecoverInterrupted, Interrupted
  <2>2. ASSUME NEW k \in JobKeys, k \notin S
        PROVE  Stages'[k] = Stages[k] /\ Failures'[k] = Failures[k]
    <3>1. CASE k \in overran
      BY <1>c, <2>1, <3>1, Zenon DEF Stage
    <3>2. CASE k \notin overran
      BY <1>0, <1>2, <2>2, <3>2, RecoverEffect, StageUnchanged, Zenon
    <3> QED BY <3>1, <3>2, Zenon
  <2>3. ASSUME NEW k \in S
        PROVE  /\ Stages[k] = "leased"
               /\ k \in T => Stages'[k] = "contested" /\ Failures'[k] = 0
               /\ k \notin T => /\ Stages'[k] = "queued"
                               /\ Failures'[k] = Failures[k]
    <3>1. /\ k \in JobKeys /\ k \notin overran /\ k \in Interrupted
          /\ (k \in overran' <=> k \in T)
      BY <2>1, Zenon
    <3>2. /\ jobs[k].status = "running" /\ jobs'[k].status = "pending"
          /\ jobs'[k].retryCount = jobs[k].retryCount + 1
          /\ recoveries'[k] = recoveries[k] + 1
      BY <1>0, <1>2, <3>1, RecoverEffect, Zenon
    <3>3. Spent(k)' = Spent(k)
      BY <1>d, <3>1, <3>2 DEF Spent
    <3> QED BY <1>c, <3>1, <3>2, <3>3 DEF Stage
  <2>4. Lifecycle!Expire(S, T)
    <3>1. T \subseteq S
      BY Zenon
    <3> HIDE DEF S, T
    <3>2. Stages' = [k \in JobKeys |-> IF k \in T THEN "contested"
                                    ELSE IF k \in S THEN "queued"
                                    ELSE Stages[k]]
      BY <1>a, <2>2, <2>3, <3>1, Zenon
    <3>3. Failures' = [k \in JobKeys |-> IF k \in T THEN 0 ELSE Failures[k]]
      BY <1>a, <2>2, <2>3, <3>1, Zenon
    <3> QED BY <2>3, <3>2, <3>3, Zenon DEF Lifecycle!Expire
  <2>5. S \in SUBSET JobKeys /\ T \in SUBSET S
    BY <2>1, Zenon
  <2> QED BY <2>4, <2>5, Zenon DEF Lifecycle!Next
<1>3. ASSUME NEW w \in Workers, CommitClaim(w) PROVE Lifecycle!Next
  <2> DEFINE S == tx[w].keys \ overran
  <2>1. recoveries' = recoveries /\ overran' = overran /\ S \subseteq JobKeys
    BY <1>0, <1>3, Zenon DEF CommitClaim, QueueTypeOK
  <2>2. ASSUME NEW k \in JobKeys, k \notin S
        PROVE  Stages'[k] = Stages[k] /\ Failures'[k] = Failures[k]
    <3>1. CASE k \in overran
      BY <1>c, <2>1, <3>1, Zenon DEF Stage
    <3>2. CASE k \notin overran
      BY <1>0, <1>3, <2>1, <2>2, <3>2, CommitEffect, StageUnchanged, Zenon
    <3> QED BY <3>1, <3>2, Zenon
  <2>3. ASSUME NEW k \in S
        PROVE  /\ Stages[k] = "queued" /\ Stages'[k] = "leased"
               /\ Failures'[k] = Failures[k]
    <3>1. k \in JobKeys /\ k \in tx[w].keys /\ jobs[k].status = "pending"
      BY <2>1, Zenon DEF Lease, LocksPending
    <3>2. /\ jobs'[k].status = "running"
          /\ jobs'[k].retryCount = jobs[k].retryCount
      BY <1>0, <1>3, <3>1, CommitEffect, Zenon
    <3> QED BY <1>c, <2>1, <3>1, <3>2 DEF Stage, Spent
  <2>4. Lifecycle!Lease(S)
    <3> HIDE DEF S
    <3>1. Stages' = [k \in JobKeys |-> IF k \in S THEN "leased" ELSE Stages[k]]
      BY <1>a, <2>2, <2>3, Zenon
    <3>2. Failures' = Failures
      BY <1>a, <2>2, <2>3, Zenon
    <3> QED BY <2>3, <3>1, <3>2, Zenon DEF Lifecycle!Lease, Lifecycle!Move
  <2> QED BY <2>1, <2>4, Zenon DEF Lifecycle!Next
<1>4. ASSUME NEW w \in Workers, NEW c \in held[w],
             \/ MarkJobSucceeded(w, c)
             \/ MarkJobFailedDetailed(w, c)
             \/ ~DeadLetter(c, TRUE) /\ RetryJobLater(w, c)
      PROVE  Lifecycle!Next \/ UNCHANGED <<Stages, Failures>>
  <2> DEFINE j == c.key
  <2>1. /\ j \in JobKeys /\ recoveries' = recoveries /\ overran' = overran
        /\ \A k \in JobKeys : k # j => jobs'[k] = jobs[k]
    BY <1>0, <1>4, ReportEffect, Zenon
  <2>2. \A k \in JobKeys : k # j =>
          Stages'[k] = Stages[k] /\ Failures'[k] = Failures[k]
    BY <1>0, <2>1, StageUnchanged, Zenon
  <2>3. CASE j \in overran
    <3>1. Stages'[j] = Stages[j] /\ Failures'[j] = Failures[j]
      BY <1>c, <2>1, <2>3 DEF Stage
    <3> QED BY <1>a, <2>2, <3>1, Zenon
  <2>4. CASE j \notin overran
    <3>1. /\ jobs[j].status = "running" /\ c.retryCount = jobs[j].retryCount
          /\ Stages[j] = "leased"
      BY <1>c, <2>1, <2>4, Zenon DEF Lease, CopiesCurrent, Stage
    <3>2. /\ Spent(j) < FailureBudget(j) /\ Spent(j) \in Int
          /\ FailureBudget(j) \in Nat /\ MaxRetry[j[1]] \in Nat
      <4>1. MaxRetry[j[1]] \in Nat
        BY <2>1, QueueAssumption, Zenon DEF JobKeys
      <4>2. Spent(j) \in Int
        BY <1>d, <2>1 DEF Spent
      <4>3. Spent(j) < FailureBudget(j)
        BY <2>1, <2>4, <3>1, Zenon DEF RetryBudget
      <4> QED BY <4>1, <4>2, <4>3, Zenon DEF FailureBudget
    <3>3. CASE MarkJobSucceeded(w, c)
      <4>1. Stages'[j] = "done" /\ Failures'[j] = Failures[j]
        BY <1>0, <1>c, <2>1, <2>4, <3>3, ReportEffect DEF Stage, Spent
      <4>2. /\ Stages' = [k \in JobKeys |-> IF k \in {j} THEN "done" ELSE Stages[k]]
            /\ Failures' = Failures
        BY <1>a, <2>2, <4>1, Zenon
      <4> QED BY <2>1, <3>1, <4>2, Zenon
              DEF Lifecycle!Next, Lifecycle!Complete, Lifecycle!Move
    <3>4. CASE MarkJobFailedDetailed(w, c)
      <4>1. Stages'[j] = "buried" /\ Failures'[j] = Failures[j] + 1
        BY <1>0, <1>c, <1>d, <2>1, <2>4, <3>4, ReportEffect DEF Stage, Spent
      <4>2. /\ Stages' = [k \in JobKeys |->
                            IF k \in {j} THEN "buried" ELSE Stages[k]]
            /\ Failures' = [Failures EXCEPT ![j] = @ + 1]
        BY <1>a, <2>1, <2>2, <4>1, Zenon
      <4>3. Failures[j] <= MaxRetry[j[1]]
        BY <1>c, <2>1, <2>4, <3>2 DEF FailureBudget
      <4>4. Lifecycle!Bury(j)
        BY <2>1, <3>1, <4>2, <4>3, Zenon
           DEF Lifecycle!Bury, Lifecycle!Move, Lifecycle!Fail
      <4> QED BY <2>1, <4>4, Zenon DEF Lifecycle!Next
    <3>5. CASE ~DeadLetter(c, TRUE) /\ RetryJobLater(w, c)
      <4>1. Stages'[j] = "queued" /\ Failures'[j] = Failures[j] + 1
        BY <1>0, <1>c, <1>d, <2>1, <2>4, <3>5, ReportEffect DEF Stage, Spent
      <4>2. /\ Stages' = [k \in JobKeys |->
                            IF k \in {j} THEN "queued" ELSE Stages[k]]
            /\ Failures' = [Failures EXCEPT ![j] = @ + 1]
        BY <1>a, <2>1, <2>2, <4>1, Zenon
      <4>3. Failures[j] < MaxRetry[j[1]]
        <5>1. ~(jobs[j].retryCount + 1 >= MaxRetry[j[1]])
          BY <3>1, <3>5, Zenon DEF DeadLetter
        <5>2. Failures[j] = jobs[j].retryCount - recoveries[j]
          BY <1>c, <2>1, <2>4, Zenon DEF Spent
        <5>3. /\ jobs[j].retryCount \in Nat /\ recoveries[j] \in Nat
              /\ MaxRetry[j[1]] \in Nat
          BY <1>d, <2>1, <3>2, Zenon
        <5> QED BY <5>1, <5>2, <5>3
      <4>4. Lifecycle!Retry(j)
        BY <2>1, <3>1, <4>2, <4>3, Zenon
           DEF Lifecycle!Retry, Lifecycle!Move, Lifecycle!Fail
      <4> QED BY <2>1, <4>4, Zenon DEF Lifecycle!Next
    <3> QED BY <1>4, <3>3, <3>4, <3>5, Zenon
  <2> QED BY <2>3, <2>4, Zenon
<1>5. ASSUME NEW w \in Workers, SelectForUpdate(w) \/ Abandon(w)
      PROVE  UNCHANGED <<Stages, Failures>>
  BY <1>5, <1>b, Zenon DEF SelectForUpdate, Abandon
<1>6. CASE QueueTick \/ UNCHANGED queueVars
  BY <1>6, <1>b, Zenon DEF QueueTick, queueVars
<1> QED BY <1>1, <1>2, <1>3, <1>4, <1>5, <1>6, NextCases, Zenon

\* The queue implements the life cycle a job is promised, for any number of
\* targets, collectors, crashes and recoveries.
THEOREM QueueImplementsLifecycle == QueueSpec => ImplementsLifecycle
  BY LeaseInit, LeaseStep, TypeInit, TypeStep, RecordsInit, RetryBudgetStep,
     LifecycleInit, AbsentStep, LifecycleStep, PTL
     DEF QueueSpec, ImplementsLifecycle, Lifecycle!Spec
=============================================================================
