--------------------------- MODULE Planner_proofs ---------------------------
(***************************************************************************)
(* The planner, for any policies, symbols, tiers and number of overlapping *)
(* runs: a run sees a tier once, the best priority owns a shared key, and  *)
(* no bucket is passed over.                                               *)
(*                                                                         *)
(* A batch is known in closed form: the jobs of policy i are nothing or    *)
(* JobsFor the tier the run has in its cache.  All that ties different     *)
(* runs together is the table, of which the invariant says that every run  *)
(* of the past that did not fail has left all of its keys there.           *)
(***************************************************************************)
EXTENDS Planner, FiniteSetTheorems, WellFoundedInduction, TLAPS

Job == [key : STRING \X Symbols \X STRING \X Nat, tier : Tiers, priority : Int, mode : {"realtime"}]

RunType(r) ==
    /\ DOMAIN r = {"pc", "at", "batch", "found", "tiers"}
    /\ r.pc \in 0..(Len(Policies) + 1) /\ r.at \in Nat /\ r.batch \in Seq(SUBSET Job)
    /\ DOMAIN r.tiers \subseteq Tiers /\ \A t \in DOMAIN r.tiers : r.tiers[t] \subseteq Listed

\* What policy i asks for a symbol at time t.
KeyAt(i, s, t) == IdempotencyKey(Policies[i].dataType, s, Policies[i].period,
                                 ScheduledBucket(t, Policies[i].interval))

\* Policy i is not skipped, whatever the symbols.
Asks(i) == /\ Policies[i].enabled /\ Policies[i].interval > 0
           /\ EndpointDataType(Policies[i].dataType) \in endpoints \/ ~RequiresEndpoint(Policies[i].dataType)

\* The jobs of policy i that run r has in its batch, if it planned the policy.
Contribution(r, i) ==
    /\ Policies[i].interval > 0 /\ Policies[i].tier \in DOMAIN r.tiers
    /\ r.batch[i] = JobsFor(Policies[i], r.tiers[Policies[i].tier], r.at)

\* The batch of a run in closed form.
BatchOK(r) ==
    /\ r.pc = 0 => r = NoRun
    /\ r.pc # 0 => r.at = now /\ Len(r.batch) = r.pc - 1
    /\ \A i \in 1..(r.pc - 1) : r.batch[i] = {} \/ Contribution(r, i)

BatchInv == \A p \in Planners : BatchOK(run[p])

\* While no one edits anything the caches agree with the tables, and the batch has
\* the jobs of every policy that asks.
CacheOK(r) ==
    /\ r.found \subseteq endpoints
    /\ \A t \in DOMAIN r.tiers : r.tiers[t] = ListSymbolMarketsByTier(t)
    /\ \A i \in 1..(r.pc - 1) : Asks(i) => Contribution(r, i)

CacheInv == changedAt = {} => \A p \in Planners : CacheOK(run[p])

\* The keys of a run at time t are in the table.
Done(t) == \A s \in Listed : \A i \in PlansFor(s) : KeyAt(i, s, t) \in DOMAIN jobs

\* Runs that are over and did not fail have left their keys.
PastInv ==
    changedAt = {} =>
       /\ \A t \in 0..(now - 1) : (t % CronEvery = 0 /\ t \notin failedAt) => Done(t)
       /\ (now % CronEvery = 0 /\ now \notin failedAt) =>
             \A p \in Planners : p \in due \/ run[p].pc # 0 \/ Done(now)

\* The types the proofs need.
TypeInv ==
    /\ now \in 0..MaxTime /\ active \subseteq Symbols /\ watchlist \subseteq Symbols
    /\ endpoints \subseteq Endpoints /\ due \subseteq Planners
    /\ DOMAIN run = Planners /\ \A p \in Planners : RunType(run[p])
    /\ \A k \in DOMAIN jobs : /\ k[2] \in Listed /\ k[4] \in 0..now
                              /\ jobs[k].tier \in Tiers /\ jobs[k].mode \in {"realtime", "backfill"}
                              /\ jobs[k].priority \in Int

Inv == TypeInv /\ BatchInv /\ CacheInv /\ PastInv /\ BestPriorityWins

-----------------------------------------------------------------------------
(* Operators. *)

\* A bucket is not later than its time (idempotency.go:21-28).
LEMMA BucketNotLater ==
    ASSUME NEW t \in Nat, NEW n \in Nat \ {0}
    PROVE  ScheduledBucket(t, n) \in 0..t
<1>1. t = n * (t \div n) + (t % n) /\ t \div n \in Nat /\ t % n \in 0..(n - 1)
  OBVIOUS
<1>2. (t \div n) * n = n * (t \div n) /\ (t \div n) * n \in Nat
  BY <1>1
<1> QED
  BY <1>1, <1>2 DEF ScheduledBucket

\* All times of an interval have its beginning for their bucket (idempotency.go:21-28).
LEMMA BucketOfInterval ==
    ASSUME NEW b \in Nat, NEW n \in Nat \ {0}, b % n = 0, NEW t \in b..(b + n - 1)
    PROVE  ScheduledBucket(t, n) = b
<1> DEFINE q == b \div n
           c == t \div n
<1>1. \A x \in Nat, i \in Nat \ {0} : x % i = 0 => x = (x \div i) * i /\ x \div i \in Nat
  OBVIOUS
<1>2. b = q * n /\ q \in Nat
  BY <1>1, Zenon
<1>3. t \in Nat /\ c \in Nat /\ c * n <= t /\ t < c * n + n
  OBVIOUS
<1> HIDE DEF q, c
<1>4. c < q + 1
  <2>1. SUFFICES ASSUME c >= q + 1 PROVE FALSE
    BY <1>2, <1>3
  <2>2. c * n >= (q + 1) * n
    BY <1>2, <1>3, <2>1
  <2> QED
    BY <1>2, <1>3, <2>2
<1>5. q < c + 1
  <2>1. SUFFICES ASSUME q >= c + 1 PROVE FALSE
    BY <1>2, <1>3
  <2>2. q * n >= (c + 1) * n
    BY <1>2, <1>3, <2>1
  <2> QED
    BY <1>2, <1>3, <2>2
<1>6. c = q
  BY <1>2, <1>3, <1>4, <1>5
<1> QED
  BY <1>2, <1>6, Zenon DEF ScheduledBucket, c

\* A set of natural numbers has a least element.
LEMMA Least ==
    ASSUME NEW T \in SUBSET Nat, T # {}
    PROVE  \E n \in T : \A m \in T : n <= m
<1> DEFINE R == OpToRel(<, Nat)
<1>1. IsWellFoundedOn(R, Nat)
  BY NatLessThanWellFounded, Zenon
<1>2. \A x, y \in Nat : x < y => <<x, y>> \in R
  BY Zenon DEF OpToRel
<1> HIDE DEF R
<1>3. PICK x \in T : \A y \in T : ~(<<y, x>> \in R)
  BY <1>1, WFMin, Zenon
<1>4. \A y \in T : ~(y < x)
  BY <1>2, <1>3, Zenon
<1> QED BY <1>4

\* What is inserted under a key comes from the first policy that has the key
\* (repository.go:114-142).
LEMMA FirstWithFact ==
    ASSUME NEW batch, NEW n \in Nat, DOMAIN batch = 1..n, NEW key \in KeysOf(batch)
    PROVE  \E i \in 1..n : /\ FirstWith(batch, key) \in batch[i]
                           /\ FirstWith(batch, key).key = key
                           /\ \A j \in 1..n : \A job \in batch[j] : job.key = key => i <= j
<1> DEFINE S == {i \in DOMAIN batch : \E job \in batch[i] : job.key = key}
           m == Min(S)
<1>1. S \subseteq Nat /\ S # {}
  BY DEF KeysOf, JobsOf
<1>2. PICK x \in S : \A y \in S : x <= y
  BY <1>1, Least, Zenon
<1>3. m \in S /\ \A y \in S : m <= y
  BY <1>2, Zenon DEF Min
<1> HIDE DEF m
<1>4. FirstWith(batch, key) = CHOOSE job \in batch[m] : job.key = key
  BY Zenon DEF FirstWith, m
<1>5. \E job \in batch[m] : job.key = key
  BY <1>3, Zenon
<1>6. FirstWith(batch, key) \in batch[m] /\ FirstWith(batch, key).key = key
  BY <1>4, <1>5, Zenon
<1> QED
  BY <1>3, <1>6, Zenon

\* The policies as the query returns them (repository.go:23-50).
LEMMA PolicyTypes ==
    ASSUME PlannerAssumption
    PROVE  /\ Len(Policies) \in Nat /\ DOMAIN Policies = 1..Len(Policies)
           /\ \A i \in 1..Len(Policies) :
                 /\ Policies[i].dataType \in STRING /\ Policies[i].period \in STRING
                 /\ Policies[i].tier \in Tiers /\ Policies[i].interval \in Int
                 /\ Policies[i].priority \in Int /\ Policies[i].enabled \in BOOLEAN
<1> DEFINE P == [dataType : STRING, tier : Tiers, period : STRING, interval : Int,
                 priority : Int, enabled : BOOLEAN]
<1>1. Policies \in Seq(P)
  BY Zenon DEF PlannerAssumption
<1>2. \A x \in P : /\ x.dataType \in STRING /\ x.period \in STRING /\ x.tier \in Tiers
                   /\ x.interval \in Int /\ x.priority \in Int /\ x.enabled \in BOOLEAN
  BY Zenon
<1> HIDE DEF P
<1>3. Len(Policies) \in Nat /\ DOMAIN Policies = 1..Len(Policies)
  BY <1>1
<1>4. \A i \in 1..Len(Policies) : Policies[i] \in P
  BY <1>1
<1> QED
  BY <1>2, <1>3, <1>4, Zenon

\* A tier has only symbols with a market (repository.go:52-99).
LEMMA TierListed ==
    ASSUME NEW t \in Tiers
    PROVE  ListSymbolMarketsByTier(t) \subseteq Listed
  BY Zenon DEF Tiers, ListSymbolMarketsByTier, ListSymbolsByExchange, FirstOf

\* The jobs of a policy: one for each symbol, with the policy's priority and tier
\* (planner.go:98-122).
LEMMA JobsForFacts ==
    ASSUME PlannerAssumption, NEW i \in 1..Len(Policies), Policies[i].interval > 0,
           NEW S \in SUBSET Listed, NEW at \in Nat
    PROVE  /\ JobsFor(Policies[i], S, at) \subseteq Job
           /\ \A job \in JobsFor(Policies[i], S, at) :
                 /\ job.tier = Policies[i].tier /\ job.priority = Policies[i].priority
                 /\ job.mode = "realtime" /\ \E s \in S : job.key = KeyAt(i, s, at)
           /\ \A s \in S : \E job \in JobsFor(Policies[i], S, at) :
                 job.key = KeyAt(i, s, at) /\ job.tier = Policies[i].tier
<1>1. /\ Policies[i].dataType \in STRING /\ Policies[i].period \in STRING /\ Policies[i].tier \in Tiers
      /\ Policies[i].priority \in Int /\ Policies[i].interval \in Nat \ {0}
  BY PolicyTypes
<1>2. ScheduledBucket(at, Policies[i].interval) \in Nat
  <2>1. ScheduledBucket(at, Policies[i].interval) \in 0..at
    BY <1>1, BucketNotLater, Zenon
  <2> QED
    BY <2>1
<1>3. S \subseteq Symbols
  BY Zenon DEF PlannerAssumption
<1> DEFINE J(s) == [key |-> KeyAt(i, s, at), tier |-> Policies[i].tier,
                    priority |-> Policies[i].priority, mode |-> "realtime"]
<1>4. JobsFor(Policies[i], S, at) = {J(s) : s \in S}
  BY Zenon DEF JobsFor, KeyAt
<1>5. \A s \in S : KeyAt(i, s, at) \in STRING \X Symbols \X STRING \X Nat
  BY <1>1, <1>2, <1>3, Zenon DEF KeyAt, IdempotencyKey
<1>6. \A s \in S : J(s) \in Job
  BY <1>1, <1>5, Zenon DEF Job
<1>7. \A s \in S : /\ J(s).key = KeyAt(i, s, at) /\ J(s).tier = Policies[i].tier
                   /\ J(s).priority = Policies[i].priority /\ J(s).mode = "realtime"
  BY Zenon
<1> HIDE DEF J
<1> QED
  BY <1>4, <1>6, <1>7, Zenon

\* The parts of a key (idempotency.go:9-19).
LEMMA KeyParts ==
    ASSUME NEW i, NEW s, NEW t
    PROVE  /\ KeyAt(i, s, t)[1] = Policies[i].dataType /\ KeyAt(i, s, t)[2] = s
           /\ KeyAt(i, s, t)[3] = Policies[i].period
           /\ KeyAt(i, s, t)[4] = ScheduledBucket(t, Policies[i].interval)
  BY Zenon DEF KeyAt, IdempotencyKey

-----------------------------------------------------------------------------
(* What steps leave alone. *)

\* Without an edit every query answers as before.
LEMMA SameAnswers ==
    ASSUME UNCHANGED config
    PROVE  /\ \A t : ListSymbolMarketsByTier(t)' = ListSymbolMarketsByTier(t)
           /\ \A s : PlansFor(s)' = PlansFor(s)
           /\ \A i : Asks(i)' = Asks(i)
<1>1. active' = active /\ watchlist' = watchlist /\ endpoints' = endpoints
  BY Zenon DEF config
<1>2. \A t : ListSymbolMarketsByTier(t)' = ListSymbolMarketsByTier(t)
  BY <1>1, Zenon DEF ListSymbolMarketsByTier, ListSymbolsByExchange, FirstOf
<1>3. \A i : Asks(i)' = Asks(i)
  BY <1>1, Zenon DEF Asks
<1>4. \A s : PlansFor(s)' = PlansFor(s)
  BY <1>1, <1>2, Zenon DEF PlansFor
<1> QED
  BY <1>2, <1>3, <1>4, Zenon

\* Rows that stay as they are, and rows of backfills, take no key from a policy.
LEMMA PriorityKept ==
    ASSUME BestPriorityWins, changedAt \subseteq changedAt', failedAt \subseteq failedAt',
           changedAt' = {} => UNCHANGED config,
           \A k \in DOMAIN jobs' : \/ k \in DOMAIN jobs /\ jobs'[k] = jobs[k]
                                  \/ jobs'[k].mode = "backfill"
    PROVE  BestPriorityWins'
<1>1. SUFFICES ASSUME changedAt' = {}, NEW k \in DOMAIN jobs', jobs'[k].mode = "realtime",
                      k[4] % CronEvery = 0, k[4] \notin failedAt', NEW i \in PlansFor(k[2])',
                      Policies[i].dataType = k[1], Policies[i].period = k[3],
                      k[4] % Policies[i].interval = 0
               PROVE  jobs'[k].priority <= Policies[i].priority
  BY Zenon DEF BestPriorityWins
<1>2. changedAt = {} /\ k[4] \notin failedAt /\ i \in PlansFor(k[2])
  BY <1>1, SameAnswers, Zenon
<1>3. k \in DOMAIN jobs /\ jobs'[k] = jobs[k]
  BY <1>1, Zenon
<1> QED
  BY <1>1, <1>2, <1>3, Zenon DEF BestPriorityWins

\* A run that is neither waiting nor under way has left its keys, or has failed.
LEMMA PastKept ==
    ASSUME PastInv, changedAt \subseteq changedAt', failedAt \subseteq failedAt', now' = now,
           changedAt' = {} => UNCHANGED config,
           DOMAIN jobs \subseteq DOMAIN jobs',
           changedAt' = {} => \A p \in Planners : (p \in due \/ run[p].pc # 0) =>
              (p \in due' \/ run'[p].pc # 0 \/ now \in failedAt' \/ Done(now)')
    PROVE  PastInv'
<1>1. SUFFICES ASSUME changedAt' = {} PROVE PastInv'
  BY Zenon DEF PastInv
<1>2. changedAt = {} /\ \A s : PlansFor(s)' = PlansFor(s)
  BY <1>1, SameAnswers, Zenon
<1>3. \A t : Done(t) => Done(t)'
  BY <1>2, Zenon DEF Done
<1>4. Done(now) => Done(now)'
  BY <1>2, Zenon DEF Done
<1>5. \A t \in 0..(now' - 1) : (t % CronEvery = 0 /\ t \notin failedAt') => Done(t)'
  BY <1>2, <1>3, Zenon DEF PastInv
<1>6. (now' % CronEvery = 0 /\ now' \notin failedAt') =>
         \A p \in Planners : p \in due' \/ run'[p].pc # 0 \/ Done(now)'
  BY <1>1, <1>2, <1>4, Zenon DEF PastInv
<1> QED
  BY <1>5, <1>6, Zenon DEF PastInv

-----------------------------------------------------------------------------
(* The invariant is inductive. *)

\* It holds before the first run.
LEMMA InvInit ==
    ASSUME PlannerAssumption, PlannerInit
    PROVE  Inv
<1> USE DEF PlannerInit
<1>1. /\ NoRun.pc = 0 /\ NoRun.at = 0 /\ NoRun.batch = <<>> /\ NoRun.found = {} /\ NoRun.tiers = <<>>
      /\ DOMAIN NoRun = {"pc", "at", "batch", "found", "tiers"}
  BY DEF NoRun
<1>2. DOMAIN jobs = {} /\ DOMAIN NoRun.tiers = {}
  BY <1>1
<1>3. RunType(NoRun)
  BY <1>1, <1>2, PolicyTypes DEF RunType
<1>4. TypeInv
  BY <1>2, <1>3 DEF TypeInv, PlannerAssumption
<1>5. BatchOK(NoRun) /\ CacheOK(NoRun)
  BY <1>1, <1>2 DEF BatchOK, CacheOK
<1>6. BatchInv /\ CacheInv
  BY <1>5, Zenon DEF BatchInv, CacheInv
<1>7. PastInv
  BY DEF PastInv
<1>8. BestPriorityWins
  BY <1>2, Zenon DEF BestPriorityWins
<1> QED
  BY <1>4, <1>6, <1>7, <1>8, Zenon DEF Inv

\* A record of a run that is not this step's is not touched.
LEMMA OtherRuns ==
    ASSUME TypeInv, NEW p \in Planners, NEW q \in Planners, q # p,
           NEW r, run' = [run EXCEPT ![p] = r]
    PROVE  run'[q] = run[q]
  BY Zenon DEF TypeInv

\* A step that replaces the record of one run by a sound one keeps all records sound.
LEMMA RunsKept ==
    ASSUME TypeInv, BatchInv, CacheInv, NEW p \in Planners, NEW r, run' = [run EXCEPT ![p] = r],
           now' = now, UNCHANGED config, changedAt' = changedAt,
           RunType(r), BatchOK(r), changedAt = {} => CacheOK(r)
    PROVE  /\ DOMAIN run' = Planners /\ run'[p] = r
           /\ \A q \in Planners : RunType(run'[q])
           /\ BatchInv' /\ CacheInv'
<1>1. DOMAIN run' = Planners /\ run'[p] = r
  BY Zenon DEF TypeInv
<1>2. ASSUME NEW q \in Planners
      PROVE  /\ RunType(run'[q]) /\ BatchOK(run'[q])
             /\ changedAt = {} => CacheOK(run'[q])
  <2>1. CASE q = p
    BY <1>1, <2>1, Zenon
  <2>2. CASE q # p
    BY <2>2, OtherRuns, Zenon DEF TypeInv, BatchInv, CacheInv
  <2> QED
    BY <2>1, <2>2, Zenon
<1>3. BatchInv'
  BY <1>2, Zenon DEF BatchInv, BatchOK
<1>4. CacheInv'
  <2>1. endpoints' = endpoints
    BY Zenon DEF config
  <2> QED
    BY <1>2, <2>1, SameAnswers DEF CacheInv, CacheOK
<1> QED
  BY <1>1, <1>2, <1>3, <1>4, Zenon

\* A run that has just begun, or is over, has an empty record.
LEMMA EmptyRuns ==
    ASSUME PlannerAssumption, TypeInv
    PROVE  /\ RunType(NoRun) /\ BatchOK(NoRun) /\ CacheOK(NoRun) /\ NoRun.pc = 0
           /\ RunType([NoRun EXCEPT !.pc = 1, !.at = now]) /\ BatchOK([NoRun EXCEPT !.pc = 1, !.at = now])
           /\ CacheOK([NoRun EXCEPT !.pc = 1, !.at = now]) /\ [NoRun EXCEPT !.pc = 1, !.at = now].pc = 1
<1>1. /\ NoRun.pc = 0 /\ NoRun.at = 0 /\ NoRun.batch = <<>> /\ NoRun.found = {} /\ NoRun.tiers = <<>>
      /\ DOMAIN NoRun = {"pc", "at", "batch", "found", "tiers"}
  BY DEF NoRun
<1>2. RunType(NoRun) /\ BatchOK(NoRun) /\ CacheOK(NoRun)
  BY <1>1, PolicyTypes DEF RunType, BatchOK, CacheOK
<1> DEFINE r == [NoRun EXCEPT !.pc = 1, !.at = now]
<1>3. /\ r.pc = 1 /\ r.at = now /\ r.batch = <<>> /\ r.found = {} /\ r.tiers = <<>>
      /\ DOMAIN r = {"pc", "at", "batch", "found", "tiers"}
  BY DEF NoRun
<1>4. now \in Nat
  BY DEF TypeInv, PlannerAssumption
<1> HIDE DEF r
<1>5. RunType(r) /\ BatchOK(r) /\ CacheOK(r)
  BY <1>3, <1>4, PolicyTypes DEF RunType, BatchOK, CacheOK
<1> QED
  BY <1>1, <1>2, <1>3, <1>5, Zenon DEF r

\* A run starts.
LEMMA StartKeeps ==
    ASSUME PlannerAssumption, Inv, NEW p \in Planners, Start(p)
    PROVE  Inv'
<1> DEFINE r == [NoRun EXCEPT !.pc = 1, !.at = now]
<1>1. /\ due' = due \ {p} /\ run' = [run EXCEPT ![p] = r]
      /\ now' = now /\ UNCHANGED config /\ jobs' = jobs /\ failedAt' = failedAt /\ changedAt' = changedAt
  BY Zenon DEF Start
<1>2. active' = active /\ watchlist' = watchlist /\ endpoints' = endpoints
  BY <1>1, Zenon DEF config
<1>3. TypeInv /\ BatchInv /\ CacheInv /\ PastInv /\ BestPriorityWins
  BY Zenon DEF Inv
<1>4. RunType(r) /\ BatchOK(r) /\ CacheOK(r) /\ r.pc = 1
  BY <1>3, EmptyRuns, Zenon
<1> HIDE DEF r
<1>5. /\ DOMAIN run' = Planners /\ run'[p] = r /\ \A q \in Planners : RunType(run'[q])
      /\ BatchInv' /\ CacheInv'
  BY <1>1, <1>3, <1>4, RunsKept, Zenon
<1>6. TypeInv'
  BY <1>1, <1>2, <1>3, <1>5, Zenon DEF TypeInv
<1>7. PastInv'
  <2>1. \A q \in Planners : (q \in due \/ run[q].pc # 0) => (q \in due' \/ run'[q].pc # 0)
    BY <1>1, <1>3, <1>4, <1>5, OtherRuns
  <2> QED
    BY <1>1, <1>3, <2>1, PastKept, Zenon
<1>8. BestPriorityWins'
  BY <1>1, <1>3, PriorityKept, Zenon
<1> QED
  BY <1>5, <1>6, <1>7, <1>8, Zenon DEF Inv

\* A run fails.
LEMMA FailKeeps ==
    ASSUME PlannerAssumption, Inv, NEW p \in Planners, Fail(p)
    PROVE  Inv'
<1>1. /\ due' = due /\ run' = [run EXCEPT ![p] = NoRun] /\ failedAt' = failedAt \cup {run[p].at}
      /\ run[p].pc # 0
      /\ now' = now /\ UNCHANGED config /\ jobs' = jobs /\ changedAt' = changedAt
  BY Zenon DEF Fail
<1>2. active' = active /\ watchlist' = watchlist /\ endpoints' = endpoints
  BY <1>1, Zenon DEF config
<1>3. TypeInv /\ BatchInv /\ CacheInv /\ PastInv /\ BestPriorityWins
  BY Zenon DEF Inv
<1>4. /\ DOMAIN run' = Planners /\ run'[p] = NoRun /\ \A q \in Planners : RunType(run'[q])
      /\ BatchInv' /\ CacheInv'
  BY <1>1, <1>3, EmptyRuns, RunsKept, Zenon
<1>5. TypeInv'
  BY <1>1, <1>2, <1>3, <1>4, Zenon DEF TypeInv
<1>6. PastInv'
  <2>1. now \in failedAt'
    BY <1>1, <1>3, Zenon DEF BatchInv, BatchOK
  <2> QED
    BY <1>1, <1>3, <2>1, PastKept, Zenon
<1>7. BestPriorityWins'
  BY <1>1, <1>3, PriorityKept, Zenon
<1> QED
  BY <1>4, <1>5, <1>6, <1>7, Zenon DEF Inv

\* A run asks for the endpoints of a data type, and skips the policy if there are none.
LEMMA ListKeeps ==
    ASSUME PlannerAssumption, Inv, NEW p \in Planners, ListEndpoints(p)
    PROVE  Inv'
<1> DEFINE r == run[p]
           n == r.pc
           type == EndpointDataType(Policies[n].dataType)
           q == IF type \in endpoints THEN [r EXCEPT !.found = @ \cup {type}]
                ELSE [r EXCEPT !.pc = @ + 1, !.batch = Append(@, {})]
<1>1. /\ n \in DOMAIN Policies /\ run' = [run EXCEPT ![p] = q] /\ due' = due
      /\ ~HasEndpoint(r, Policies[n].dataType)
      /\ now' = now /\ UNCHANGED config /\ jobs' = jobs /\ failedAt' = failedAt /\ changedAt' = changedAt
  BY Zenon DEF ListEndpoints
<1>2. active' = active /\ watchlist' = watchlist /\ endpoints' = endpoints
  BY <1>1, Zenon DEF config
<1>3. TypeInv /\ BatchInv /\ CacheInv /\ PastInv /\ BestPriorityWins
  BY Zenon DEF Inv
<1>4. RunType(r) /\ BatchOK(r) /\ (changedAt = {} => CacheOK(r))
  BY <1>3, Zenon DEF TypeInv, BatchInv, CacheInv
<1>5. n \in 1..Len(Policies) /\ n \in Nat /\ Len(Policies) \in Nat
  BY <1>1, PolicyTypes
<1>6. r.at = now /\ Len(r.batch) = n - 1 /\ r.at \in Nat /\ r.batch \in Seq(SUBSET Job)
  BY <1>4, <1>5 DEF BatchOK, RunType
<1>7. r.pc = n /\ DOMAIN r = {"pc", "at", "batch", "found", "tiers"}
  BY <1>4, Zenon DEF RunType
<1>8. ASSUME type \in endpoints
      PROVE  /\ q.pc = n /\ q.at = r.at /\ q.batch = r.batch /\ q.tiers = r.tiers
             /\ q.found = r.found \cup {type} /\ DOMAIN q = DOMAIN r
  <2> HIDE DEF r, n, type
  <2> QED
    BY <1>7, <1>8
<1>9. ASSUME type \notin endpoints
      PROVE  /\ q.pc = n + 1 /\ q.at = r.at /\ q.batch = Append(r.batch, {}) /\ q.tiers = r.tiers
             /\ q.found = r.found /\ DOMAIN q = DOMAIN r
  <2> HIDE DEF r, n, type
  <2> QED
    BY <1>7, <1>9
<1>10. type \notin endpoints => ~Asks(n)
  BY <1>1, Zenon DEF Asks, HasEndpoint
<1> HIDE DEF q, n, type
<1>11. RunType(q) /\ BatchOK(q) /\ (changedAt = {} => CacheOK(q)) /\ q.pc # 0
  <2>1. CASE type \in endpoints
    <3>1. \A i : Contribution(r, i) => Contribution(q, i)
      BY <1>8, <2>1, Zenon DEF Contribution
    <3>2. RunType(q) /\ q.pc # 0
      BY <1>4, <1>5, <1>7, <1>8, <2>1 DEF RunType
    <3>3. BatchOK(q)
      BY <1>4, <1>5, <1>6, <1>7, <1>8, <2>1, <3>1 DEF BatchOK
    <3>4. changedAt = {} => CacheOK(q)
      BY <1>4, <1>7, <1>8, <2>1, <3>1, Zenon DEF CacheOK
    <3> QED
      BY <3>2, <3>3, <3>4, Zenon
  <2>2. CASE type \notin endpoints
    <3>1. /\ q.batch \in Seq(SUBSET Job) /\ Len(q.batch) = n /\ q.batch[n] = {}
          /\ \A i \in 1..(n - 1) : q.batch[i] = r.batch[i]
      <4>1. {} \in SUBSET Job
        BY Zenon
      <4> DEFINE e == {}
      <4>2. q.batch = Append(r.batch, e) /\ e \in SUBSET Job
        BY <1>9, <2>2, <4>1, Zenon
      <4>3. e = {}
        BY Zenon
      <4> HIDE DEF e
      <4> QED
        BY <1>5, <1>6, <4>2, <4>3
    <3>2. \A i \in 1..(n - 1) : Contribution(r, i) => Contribution(q, i)
      BY <1>9, <2>2, <3>1, Zenon DEF Contribution
    <3>3. RunType(q) /\ q.pc # 0
      BY <1>4, <1>5, <1>7, <1>9, <2>2, <3>1 DEF RunType
    <3>4. BatchOK(q)
      <4>1. \A i \in 1..n : q.batch[i] = {} \/ Contribution(q, i)
        BY <1>4, <1>5, <1>7, <3>1, <3>2 DEF BatchOK
      <4> QED
        BY <1>5, <1>6, <1>9, <2>2, <3>1, <4>1 DEF BatchOK
    <3>5. ASSUME changedAt = {} PROVE CacheOK(q)
      <4>1. \A i \in 1..n : Asks(i) => Contribution(q, i)
        BY <1>4, <1>5, <1>7, <1>10, <2>2, <3>2, <3>5 DEF CacheOK
      <4> QED
        BY <1>4, <1>5, <1>9, <2>2, <3>5, <4>1 DEF CacheOK
    <3> QED
      BY <3>3, <3>4, <3>5, Zenon
  <2> QED
    BY <2>1, <2>2, Zenon
<1>12. /\ DOMAIN run' = Planners /\ run'[p] = q /\ \A x \in Planners : RunType(run'[x])
       /\ BatchInv' /\ CacheInv'
  BY <1>1, <1>3, <1>11, RunsKept, Zenon
<1>13. TypeInv'
  BY <1>1, <1>2, <1>3, <1>12, Zenon DEF TypeInv
<1>14. PastInv'
  <2>1. \A x \in Planners : (x \in due \/ run[x].pc # 0) => (x \in due' \/ run'[x].pc # 0)
    BY <1>1, <1>3, <1>11, <1>12, OtherRuns
  <2> QED
    BY <1>1, <1>3, <2>1, PastKept, Zenon
<1>15. BestPriorityWins'
  BY <1>1, <1>3, PriorityKept, Zenon
<1> QED
  BY <1>12, <1>13, <1>14, <1>15, Zenon DEF Inv

\* A run plans a policy, or skips one that is off.
LEMMA PlanKeeps ==
    ASSUME PlannerAssumption, Inv, NEW p \in Planners, PlanPolicy(p)
    PROVE  Inv'
<1> DEFINE r == run[p]
           n == r.pc
           policy == Policies[n]
           planned == On(policy)
           C == IF planned THEN JobsFor(policy, CachedTier(r, policy.tier), r.at) ELSE {}
           T == IF planned THEN [t \in DOMAIN r.tiers \cup {policy.tier} |-> CachedTier(r, t)] ELSE r.tiers
           q == [pc |-> n + 1, at |-> r.at, batch |-> Append(r.batch, C), found |-> r.found, tiers |-> T]
<1>1. /\ n \in DOMAIN Policies /\ run' = [run EXCEPT ![p] = q] /\ due' = due
      /\ now' = now /\ UNCHANGED config /\ jobs' = jobs /\ failedAt' = failedAt /\ changedAt' = changedAt
  BY Zenon DEF PlanPolicy
<1>2. active' = active /\ watchlist' = watchlist /\ endpoints' = endpoints
  BY <1>1, Zenon DEF config
<1>3. TypeInv /\ BatchInv /\ CacheInv /\ PastInv /\ BestPriorityWins
  BY Zenon DEF Inv
<1>4. RunType(r) /\ BatchOK(r) /\ (changedAt = {} => CacheOK(r))
  BY <1>3, Zenon DEF TypeInv, BatchInv, CacheInv
<1>5. /\ q.pc = n + 1 /\ q.at = r.at /\ q.batch = Append(r.batch, C) /\ q.found = r.found /\ q.tiers = T
      /\ DOMAIN q = {"pc", "at", "batch", "found", "tiers"}
  <2> HIDE DEF C, T, n, r
  <2> QED
    OBVIOUS
<1>6. n \in 1..Len(Policies) /\ n \in Nat /\ policy.tier \in Tiers /\ Len(Policies) \in Nat
  BY <1>1, PolicyTypes
<1>7. r.at = now /\ Len(r.batch) = n - 1 /\ r.at \in Nat /\ r.batch \in Seq(SUBSET Job)
  BY <1>4, <1>6 DEF BatchOK, RunType
<1>8. planned => /\ DOMAIN T = DOMAIN r.tiers \cup {policy.tier}
                 /\ \A t \in DOMAIN r.tiers : T[t] = r.tiers[t]
                 /\ T[policy.tier] = CachedTier(r, policy.tier)
  BY Zenon DEF CachedTier
<1>9. ~planned => T = r.tiers /\ C = {}
  BY Zenon
<1>10. CachedTier(r, policy.tier) \subseteq Listed
  BY <1>4, <1>6, TierListed, Zenon DEF CachedTier, RunType
<1>11. planned => policy.interval > 0 /\ C = JobsFor(policy, T[policy.tier], r.at)
  BY <1>8, Zenon DEF On
<1>12. C \subseteq Job
  <2>1. CASE planned
    <3> DEFINE X == CachedTier(r, policy.tier)
    <3>1. C = JobsFor(Policies[n], X, r.at) /\ Policies[n].interval > 0 /\ X \in SUBSET Listed
      BY <1>8, <1>10, <1>11, <2>1, Zenon
    <3> HIDE DEF X, C, n
    <3> QED
      BY <1>6, <1>7, <3>1, JobsForFacts, Zenon
  <2> QED
    BY <1>9, <2>1, Zenon
<1>13. planned \in BOOLEAN /\ r.pc = n
  BY Zenon DEF On
<1> HIDE DEF C, T, q, n
<1>14. /\ q.batch \in Seq(SUBSET Job) /\ Len(q.batch) = n /\ q.batch[n] = C
       /\ \A i \in 1..(n - 1) : q.batch[i] = r.batch[i]
  BY <1>5, <1>6, <1>7, <1>12
<1>15. DOMAIN T \subseteq Tiers /\ \A t \in DOMAIN T : T[t] \subseteq Listed
  BY <1>4, <1>6, <1>8, <1>9, <1>10, Zenon DEF RunType
<1>16. RunType(q)
  BY <1>5, <1>6, <1>7, <1>14, <1>15 DEF RunType
<1>17. \A i \in 1..(n - 1) : Contribution(r, i) => Contribution(q, i)
  BY <1>5, <1>8, <1>9, <1>14, Zenon DEF Contribution
<1>18. planned => Contribution(q, n)
  BY <1>5, <1>8, <1>11, <1>14, Zenon DEF Contribution
<1>19. BatchOK(q)
  <2>1. \A i \in 1..n : q.batch[i] = {} \/ Contribution(q, i)
    BY <1>4, <1>6, <1>9, <1>13, <1>14, <1>17, <1>18 DEF BatchOK
  <2> QED
    BY <1>5, <1>6, <1>7, <1>14, <2>1 DEF BatchOK
<1>20. ASSUME changedAt = {} PROVE CacheOK(q)
  <2>1. r.found \subseteq endpoints
    BY <1>4, <1>20, Zenon DEF CacheOK
  <2>2. \A t \in DOMAIN T : T[t] = ListSymbolMarketsByTier(t)
    BY <1>4, <1>8, <1>9, <1>20, Zenon DEF CacheOK, CachedTier
  <2>3. Asks(n) => planned
    BY Zenon DEF Asks, On, n
  <2>4. \A i \in 1..n : Asks(i) => Contribution(q, i)
    BY <1>4, <1>6, <1>13, <1>17, <1>18, <1>20, <2>3 DEF CacheOK
  <2> QED
    BY <1>5, <1>6, <2>1, <2>2, <2>4 DEF CacheOK
<1>21. /\ DOMAIN run' = Planners /\ run'[p] = q /\ \A x \in Planners : RunType(run'[x])
       /\ BatchInv' /\ CacheInv'
  BY <1>1, <1>3, <1>16, <1>19, <1>20, RunsKept, Zenon
<1>22. TypeInv'
  BY <1>1, <1>2, <1>3, <1>21, Zenon DEF TypeInv
<1>23. PastInv'
  <2>1. \A x \in Planners : (x \in due \/ run[x].pc # 0) => (x \in due' \/ run'[x].pc # 0)
    BY <1>1, <1>3, <1>5, <1>6, <1>21, OtherRuns
  <2> QED
    BY <1>1, <1>3, <2>1, PastKept, Zenon
<1>24. BestPriorityWins'
  BY <1>1, <1>3, PriorityKept, Zenon
<1> QED
  BY <1>21, <1>22, <1>23, <1>24, Zenon DEF Inv

\* What an insert leaves in the table.
LEMMA InsertFacts ==
    ASSUME NEW table, NEW batch
    PROVE  /\ DOMAIN InsertAll(table, batch) = DOMAIN table \cup KeysOf(batch)
           /\ \A k \in DOMAIN table : InsertAll(table, batch)[k] = table[k]
           /\ \A k \in KeysOf(batch) \ DOMAIN table :
                 InsertAll(table, batch)[k] = RowOf(FirstWith(batch, k))
  BY Zenon DEF InsertAll

\* So the table has the rows it had, and of each new key the first job.
LEMMA Inserted ==
    ASSUME NEW batch, jobs' = InsertAll(jobs, batch)
    PROVE  /\ DOMAIN jobs' = DOMAIN jobs \cup KeysOf(batch)
           /\ \A k \in DOMAIN jobs : jobs'[k] = jobs[k]
           /\ \A k \in KeysOf(batch) \ DOMAIN jobs : jobs'[k] = RowOf(FirstWith(batch, k))
<1>1. /\ DOMAIN InsertAll(jobs, batch) = DOMAIN jobs \cup KeysOf(batch)
      /\ \A k \in DOMAIN jobs : InsertAll(jobs, batch)[k] = jobs[k]
      /\ \A k \in KeysOf(batch) \ DOMAIN jobs :
            InsertAll(jobs, batch)[k] = RowOf(FirstWith(batch, k))
  BY InsertFacts, Zenon
<1> QED
  BY <1>1, Zenon

\* The rows a planner's run adds are jobs of its batch, each of the first policy
\* that has the key.
LEMMA AddedRows ==
    ASSUME PlannerAssumption, TypeInv, BatchInv, NEW p \in Planners,
           run[p].pc = Len(Policies) + 1, NEW k \in KeysOf(run[p].batch)
    PROVE  \E j \in 1..Len(Policies) :
              /\ Contribution(run[p], j)
              /\ \E s \in Listed : k = KeyAt(j, s, now)
              /\ RowOf(FirstWith(run[p].batch, k)).priority = Policies[j].priority
              /\ RowOf(FirstWith(run[p].batch, k)).tier = Policies[j].tier
              /\ RowOf(FirstWith(run[p].batch, k)).mode = "realtime"
              /\ \A i \in 1..Len(Policies) : \A job \in run[p].batch[i] : job.key = k => j <= i
<1> DEFINE r == run[p]
           m == Len(Policies)
           f == FirstWith(r.batch, k)
<1>1. m \in Nat
  BY PolicyTypes, Zenon
<1>2. /\ RunType(r) /\ r.at = now /\ Len(r.batch) = m
      /\ \A i \in 1..m : r.batch[i] = {} \/ Contribution(r, i)
  BY <1>1 DEF TypeInv, BatchInv, BatchOK
<1>3. DOMAIN r.batch = 1..m
  BY <1>2 DEF RunType
<1>4. PICK j \in 1..m : f \in r.batch[j] /\ f.key = k
                       /\ \A i \in 1..m : \A job \in r.batch[i] : job.key = k => j <= i
  BY <1>1, <1>3, FirstWithFact
<1>5. Contribution(r, j)
  BY <1>2, <1>4, Zenon
<1>6. r.tiers[Policies[j].tier] \in SUBSET Listed
  BY <1>2, <1>5, Zenon DEF Contribution, RunType
<1>7. /\ f.tier = Policies[j].tier /\ f.priority = Policies[j].priority /\ f.mode = "realtime"
      /\ \E s \in Listed : k = KeyAt(j, s, now)
  <2>1. r.batch[j] = JobsFor(Policies[j], r.tiers[Policies[j].tier], now) /\ Policies[j].interval > 0
    BY <1>2, <1>5, Zenon DEF Contribution
  <2>2. now \in Nat
    BY <1>2, Zenon DEF RunType
  <2> DEFINE X == r.tiers[Policies[j].tier]
  <2>3. X \in SUBSET Listed /\ f \in JobsFor(Policies[j], X, now)
    BY <1>4, <1>6, <2>1, Zenon
  <2> HIDE DEF f, X
  <2>4. /\ f.tier = Policies[j].tier /\ f.priority = Policies[j].priority /\ f.mode = "realtime"
        /\ \E s \in X : f.key = KeyAt(j, s, now)
    BY <2>1, <2>2, <2>3, JobsForFacts
  <2> QED
    BY <1>4, <2>3, <2>4, Zenon
<1>8. RowOf(f).priority = f.priority /\ RowOf(f).tier = f.tier /\ RowOf(f).mode = f.mode
  BY Zenon DEF RowOf
<1> QED
  BY <1>4, <1>5, <1>7, <1>8, Zenon

\* A run that got to its end without an edit has every key that policies ask for.
LEMMA BatchComplete ==
    ASSUME PlannerAssumption, TypeInv, BatchInv, CacheInv, changedAt = {}, NEW p \in Planners,
           run[p].pc = Len(Policies) + 1, NEW s \in Listed, NEW i \in PlansFor(s)
    PROVE  /\ i \in 1..Len(Policies)
           /\ \E job \in run[p].batch[i] : job.key = KeyAt(i, s, now)
           /\ KeyAt(i, s, now) \in KeysOf(run[p].batch)
<1> DEFINE r == run[p]
           m == Len(Policies)
           X == r.tiers[Policies[i].tier]
<1>1. m \in Nat /\ i \in 1..m /\ Asks(i) /\ s \in ListSymbolMarketsByTier(Policies[i].tier)
  BY PolicyTypes, Zenon DEF PlansFor, Asks
<1>2. /\ RunType(r) /\ r.at = now /\ Len(r.batch) = m /\ CacheOK(r)
  BY <1>1 DEF TypeInv, BatchInv, BatchOK, CacheInv
<1>3. Contribution(r, i)
  BY <1>1, <1>2 DEF CacheOK
<1>4. s \in X /\ X \in SUBSET Listed
  BY <1>1, <1>2, <1>3, Zenon DEF CacheOK, Contribution, RunType
<1>5. r.batch[i] = JobsFor(Policies[i], X, now) /\ Policies[i].interval > 0 /\ now \in Nat
  BY <1>2, <1>3, Zenon DEF Contribution, RunType
<1>6. DOMAIN r.batch = 1..m
  BY <1>2 DEF RunType
<1>7. \E job \in r.batch[i] : job.key = KeyAt(i, s, now)
  <2> HIDE DEF X
  <2>1. \A x \in X : \E job \in JobsFor(Policies[i], X, now) : job.key = KeyAt(i, x, now)
    BY <1>1, <1>4, <1>5, JobsForFacts, Zenon
  <2> QED
    BY <1>4, <1>5, <2>1, Zenon
<1>8. KeyAt(i, s, now) \in KeysOf(r.batch)
  BY <1>1, <1>6, <1>7, Zenon DEF KeysOf, JobsOf
<1> QED
  BY <1>1, <1>7, <1>8, Zenon

\* A key that is new to the table begins now, or no policy with a run at its
\* beginning shares it; and of the policies that share it the first has it.
LEMMA NewKeyIsBest ==
    ASSUME PlannerAssumption, TypeInv, BatchInv, CacheInv, PastInv, changedAt = {},
           NEW p \in Planners, run[p].pc = Len(Policies) + 1,
           NEW k \in KeysOf(run[p].batch), k \notin DOMAIN jobs,
           k[4] % CronEvery = 0, k[4] \notin failedAt, NEW i \in PlansFor(k[2]),
           Policies[i].dataType = k[1], Policies[i].period = k[3], k[4] % Policies[i].interval = 0
    PROVE  RowOf(FirstWith(run[p].batch, k)).priority <= Policies[i].priority
<1> DEFINE m == Len(Policies)
<1>1. PICK j \in 1..m :
         /\ Contribution(run[p], j) /\ \E s \in Listed : k = KeyAt(j, s, now)
         /\ RowOf(FirstWith(run[p].batch, k)).priority = Policies[j].priority
         /\ \A x \in 1..m : \A job \in run[p].batch[x] : job.key = k => j <= x
  BY AddedRows, Zenon
<1>2. PICK s \in Listed : k = KeyAt(j, s, now)
  BY <1>1, Zenon
<1>3. m \in Nat /\ i \in 1..m /\ Policies[i].interval \in Nat \ {0} /\ Policies[j].interval \in Nat \ {0}
  BY <1>1, PolicyTypes DEF PlansFor, Contribution
<1>4. now \in Nat
  BY DEF TypeInv, PlannerAssumption
<1>5. k = <<k[1], s, k[3], k[4]>> /\ k[2] = s
  BY <1>2, Zenon DEF KeyAt, IdempotencyKey
<1>6. k[4] = ScheduledBucket(now, Policies[j].interval)
  BY <1>2, KeyParts
<1>7. k[4] \in 0..now
  BY <1>3, <1>4, <1>6, BucketNotLater, Zenon
<1>8. ScheduledBucket(k[4], Policies[i].interval) = k[4]
  <2> DEFINE b == k[4]
             d == Policies[i].interval
  <2>1. b \in 0..now /\ d \in Nat \ {0} /\ b % d = 0
    BY <1>3, <1>7, Zenon
  <2> HIDE DEF b, d
  <2>2. b \in Nat /\ b \in b..(b + d - 1)
    BY <1>4, <2>1
  <2>3. ScheduledBucket(b, d) = b
    BY <2>1, <2>2, BucketOfInterval, Zenon
  <2> QED
    BY <2>3, Zenon DEF b, d
<1>9. KeyAt(i, s, k[4]) = k
  BY <1>5, <1>8, Zenon DEF KeyAt, IdempotencyKey
<1>10. CASE k[4] = now
  <2>1. \E job \in run[p].batch[i] : job.key = k
    BY <1>5, <1>9, <1>10, BatchComplete
  <2>2. j <= i
    BY <1>1, <1>3, <2>1, Zenon
  <2>3. Policies[j].priority <= Policies[i].priority
    <3>1. /\ j \in DOMAIN Policies /\ i \in DOMAIN Policies
          /\ Policies[j].priority \in Int /\ Policies[i].priority \in Int
      BY <1>1, <1>3, PolicyTypes, Zenon
    <3>2. j < i => Policies[j].priority <= Policies[i].priority
      BY <3>1, Zenon DEF PlannerAssumption
    <3>3. j = i => Policies[j].priority <= Policies[i].priority
      BY <3>1
    <3>4. j \in Int /\ i \in Int
      BY <1>1, <1>3
    <3>5. j < i \/ j = i
      BY <2>2, <3>4
    <3> QED
      BY <3>2, <3>3, <3>5, Zenon
  <2> QED
    BY <1>1, <2>3, Zenon
<1>11. CASE k[4] # now
  <2>1. k[4] \in 0..(now - 1)
    BY <1>4, <1>7, <1>11
  <2>2. Done(k[4])
    BY <2>1, Zenon DEF PastInv
  <2>3. KeyAt(i, s, k[4]) \in DOMAIN jobs
    BY <1>5, <2>2, Zenon DEF Done
  <2> QED
    BY <1>9, <2>3, Zenon
<1> QED
  BY <1>10, <1>11, Zenon

\* A run inserts its jobs.
LEMMA InsertKeeps ==
    ASSUME PlannerAssumption, Inv, NEW p \in Planners, InsertJobs(p)
    PROVE  Inv'
<1> DEFINE B == run[p].batch
<1>1. /\ run[p].pc = Len(Policies) + 1 /\ jobs' = InsertAll(jobs, B) /\ run' = [run EXCEPT ![p] = NoRun]
      /\ due' = due /\ now' = now /\ UNCHANGED config /\ failedAt' = failedAt /\ changedAt' = changedAt
  BY Zenon DEF InsertJobs
<1>2. active' = active /\ watchlist' = watchlist /\ endpoints' = endpoints
  BY <1>1, Zenon DEF config
<1>3. TypeInv /\ BatchInv /\ CacheInv /\ PastInv /\ BestPriorityWins
  BY Zenon DEF Inv
<1>4. /\ DOMAIN run' = Planners /\ run'[p] = NoRun /\ \A q \in Planners : RunType(run'[q])
      /\ BatchInv' /\ CacheInv'
  BY <1>1, <1>3, EmptyRuns, RunsKept, Zenon
<1>5. /\ DOMAIN jobs' = DOMAIN jobs \cup KeysOf(B)
      /\ \A k \in DOMAIN jobs : jobs'[k] = jobs[k]
      /\ \A k \in KeysOf(B) \ DOMAIN jobs : jobs'[k] = RowOf(FirstWith(B, k))
  BY <1>1, Inserted, Zenon
<1>6. ASSUME NEW k \in KeysOf(B) \ DOMAIN jobs
      PROVE  /\ k[2] \in Listed /\ k[4] \in 0..now
             /\ jobs'[k].tier \in Tiers /\ jobs'[k].mode = "realtime" /\ jobs'[k].priority \in Int
  <2>1. PICK j \in 1..Len(Policies) :
           /\ Contribution(run[p], j) /\ \E s \in Listed : k = KeyAt(j, s, now)
           /\ jobs'[k].priority = Policies[j].priority /\ jobs'[k].tier = Policies[j].tier
           /\ jobs'[k].mode = "realtime"
    <3> DEFINE row == RowOf(FirstWith(run[p].batch, k))
    <3>1. k \in KeysOf(run[p].batch) /\ jobs'[k] = row
      BY <1>5, Zenon
    <3>2. \E j \in 1..Len(Policies) :
             /\ Contribution(run[p], j) /\ \E s \in Listed : k = KeyAt(j, s, now)
             /\ row.priority = Policies[j].priority /\ row.tier = Policies[j].tier
             /\ row.mode = "realtime"
      BY <1>1, <1>3, <3>1, AddedRows
    <3> HIDE DEF row
    <3> QED
      BY <3>1, <3>2, Zenon
  <2>2. PICK s \in Listed : k = KeyAt(j, s, now)
    BY <2>1, Zenon
  <2>3. Policies[j].tier \in Tiers /\ Policies[j].priority \in Int /\ Policies[j].interval \in Nat \ {0}
    BY <2>1, PolicyTypes DEF Contribution
  <2>4. now \in Nat
    BY <1>3 DEF TypeInv, PlannerAssumption
  <2>5. k[2] = s /\ k[4] = ScheduledBucket(now, Policies[j].interval)
    BY <2>2, KeyParts
  <2>6. k[4] \in 0..now
    BY <2>3, <2>4, <2>5, BucketNotLater, Zenon
  <2> QED
    BY <2>1, <2>3, <2>5, <2>6, Zenon
<1>7. TypeInv'
  <2>1. \A k \in DOMAIN jobs' : /\ k[2] \in Listed /\ k[4] \in 0..now
                                /\ jobs'[k].tier \in Tiers /\ jobs'[k].mode \in {"realtime", "backfill"}
                                /\ jobs'[k].priority \in Int
    BY <1>3, <1>5, <1>6, Zenon DEF TypeInv
  <2> QED
    BY <1>1, <1>2, <1>3, <1>4, <2>1, Zenon DEF TypeInv
<1>8. PastInv'
  <2>1. ASSUME changedAt' = {} PROVE Done(now)'
    <3>1. \A s : PlansFor(s)' = PlansFor(s)
      BY <1>1, SameAnswers, Zenon
    <3>2. \A s \in Listed : \A i \in PlansFor(s) : KeyAt(i, s, now) \in DOMAIN jobs'
      BY <1>1, <1>3, <1>5, <2>1, BatchComplete, Zenon
    <3> QED
      BY <1>1, <3>1, <3>2, Zenon DEF Done
  <2> QED
    BY <1>1, <1>3, <1>5, <2>1, PastKept, Zenon
<1>9. BestPriorityWins'
  <2>1. SUFFICES ASSUME changedAt' = {}, NEW k \in DOMAIN jobs', jobs'[k].mode = "realtime",
                        k[4] % CronEvery = 0, k[4] \notin failedAt', NEW i \in PlansFor(k[2])',
                        Policies[i].dataType = k[1], Policies[i].period = k[3],
                        k[4] % Policies[i].interval = 0
                 PROVE  jobs'[k].priority <= Policies[i].priority
    BY Zenon DEF BestPriorityWins
  <2>2. changedAt = {} /\ k[4] \notin failedAt /\ i \in PlansFor(k[2])
    BY <1>1, <2>1, SameAnswers, Zenon
  <2>3. CASE k \in DOMAIN jobs
    BY <1>3, <1>5, <2>1, <2>2, <2>3, Zenon DEF BestPriorityWins
  <2>4. CASE k \notin DOMAIN jobs
    <3>1. k \in KeysOf(B) /\ jobs'[k] = RowOf(FirstWith(B, k))
      BY <1>5, <2>4, Zenon
    <3> QED
      BY <1>1, <1>3, <2>1, <2>2, <2>4, <3>1, NewKeyIsBest, Zenon
  <2> QED
    BY <2>3, <2>4, Zenon
<1> QED
  BY <1>4, <1>7, <1>8, <1>9, Zenon DEF Inv

\* The jobs of a backfill lie in the past and are marked as its (backfill.go:30-84).
LEMMA BackfillFacts ==
    ASSUME NEW d, NEW s, NEW period, NEW start \in Nat, NEW end \in Nat,
           NEW lagging, NEW job \in PlanBackfillJobs(lagging, d, s, period, start, end)
    PROVE  /\ job.key[2] = s /\ job.key[4] \in start..(end - 1)
           /\ job.tier = "all" /\ job.mode = "backfill" /\ job.priority = 1000
<1>1. PICK b \in IF lagging THEN {} ELSE BackfillBuckets(start, end) :
         job = [key |-> IdempotencyKey(d, s, period, b),
                tier |-> "all", priority |-> 1000, mode |-> "backfill"]
  BY DEF PlanBackfillJobs
<1>2. b \in start..(end - 1)
  BY Zenon DEF BackfillBuckets, FirstOf
<1>3. job.key = <<d, s, period, b>>
  BY <1>1 DEF IdempotencyKey
<1> QED
  BY <1>1, <1>2, <1>3

\* A backfill inserts its jobs.
LEMMA BackfillKeeps ==
    ASSUME PlannerAssumption, Inv, Backfill
    PROVE  Inv'
<1>1. PICK lagging \in BOOLEAN, i \in DOMAIN Policies, s \in Listed, start \in 0..now, end \in 0..now :
         /\ start < end
         /\ jobs' = InsertAll(jobs, <<PlanBackfillJobs(lagging, Policies[i].dataType, s,
                                                      Policies[i].period, start, end)>>)
  BY Zenon DEF Backfill
<1> DEFINE J == PlanBackfillJobs(lagging, Policies[i].dataType, s, Policies[i].period, start, end)
           B == <<J>>
<1>2. /\ run' = run /\ due' = due /\ now' = now /\ UNCHANGED config
      /\ failedAt' = failedAt /\ changedAt' = changedAt
  BY Zenon DEF Backfill
<1>3. active' = active /\ watchlist' = watchlist /\ endpoints' = endpoints
  BY <1>2, Zenon DEF config
<1>4. TypeInv /\ BatchInv /\ CacheInv /\ PastInv /\ BestPriorityWins
  BY Zenon DEF Inv
<1>5. /\ DOMAIN jobs' = DOMAIN jobs \cup KeysOf(B)
      /\ \A k \in DOMAIN jobs : jobs'[k] = jobs[k]
      /\ \A k \in KeysOf(B) \ DOMAIN jobs : jobs'[k] = RowOf(FirstWith(B, k))
  BY <1>1, Inserted, Zenon
<1>6. now \in Nat
  BY <1>4 DEF TypeInv, PlannerAssumption
<1>7. ASSUME NEW k \in KeysOf(B) \ DOMAIN jobs
      PROVE  /\ k[2] \in Listed /\ k[4] \in 0..now
             /\ jobs'[k].tier = "all" /\ jobs'[k].mode = "backfill" /\ jobs'[k].priority \in Int
  <2> DEFINE f == FirstWith(B, k)
  <2>1. DOMAIN B = 1..1 /\ B[1] = J
    OBVIOUS
  <2> HIDE DEF J, B
  <2>2. f \in J /\ f.key = k
    <3>1. k \in KeysOf(B) /\ 1 \in Nat
      BY Zenon
    <3>2. PICK j \in 1..1 : f \in B[j] /\ f.key = k
      BY <2>1, <3>1, FirstWithFact, Zenon
    <3>3. j = 1
      BY <3>2
    <3> QED
      BY <2>1, <3>2, <3>3, Zenon
  <2> HIDE DEF f
  <2>3. start \in Nat /\ end \in Nat
    BY <1>6
  <2>4. /\ f.key[2] = s /\ f.key[4] \in start..(end - 1)
        /\ f.tier = "all" /\ f.mode = "backfill" /\ f.priority = 1000
    BY <2>2, <2>3, BackfillFacts DEF J
  <2>5. jobs'[k] = RowOf(f)
    BY <1>5, Zenon DEF f
  <2>6. RowOf(f).tier = f.tier /\ RowOf(f).mode = f.mode /\ RowOf(f).priority = f.priority
    BY Zenon DEF RowOf
  <2> QED
    BY <1>6, <2>2, <2>4, <2>5, <2>6
<1>8. TypeInv'
  <2>1. \A k \in DOMAIN jobs' : /\ k[2] \in Listed /\ k[4] \in 0..now
                                /\ jobs'[k].tier \in Tiers /\ jobs'[k].mode \in {"realtime", "backfill"}
                                /\ jobs'[k].priority \in Int
    <3> HIDE DEF B
    <3> QED
      BY <1>4, <1>5, <1>7, Zenon DEF TypeInv, Tiers
  <2> QED
    BY <1>2, <1>3, <1>4, <2>1, Zenon DEF TypeInv
<1>9. BatchInv'
  BY <1>2, <1>4, Zenon DEF BatchInv, BatchOK
<1>10. CacheInv'
  BY <1>2, <1>3, <1>4, SameAnswers, Zenon DEF CacheInv, CacheOK
<1>11. PastInv'
  BY <1>2, <1>4, <1>5, PastKept, Zenon
<1>12. BestPriorityWins'
  <2>1. \A k \in DOMAIN jobs' : \/ k \in DOMAIN jobs /\ jobs'[k] = jobs[k]
                                \/ jobs'[k].mode = "backfill"
    BY <1>5, <1>7, Zenon
  <2> QED
    BY <1>2, <1>4, <2>1, PriorityKept, Zenon
<1> QED
  BY <1>8, <1>9, <1>10, <1>11, <1>12, Zenon DEF Inv

\* An operator edits something: from then on the edit is on record.
LEMMA ChangeKeeps ==
    ASSUME PlannerAssumption, Inv, Change
    PROVE  Inv'
<1>1. /\ changedAt' = changedAt \cup {now} /\ changedAt' # {} /\ now' = now /\ run' = run /\ due' = due
      /\ jobs' = jobs /\ failedAt' = failedAt
  BY Zenon DEF Change
<1>2. TypeInv /\ BatchInv
  BY Zenon DEF Inv
<1>3. active' \subseteq Symbols /\ watchlist' \subseteq Symbols /\ endpoints' \subseteq Endpoints
  BY <1>2, Zenon DEF TypeInv, Change, SymDiff
<1>4. TypeInv'
  BY <1>1, <1>2, <1>3, Zenon DEF TypeInv
<1>5. BatchInv'
  BY <1>1, <1>2, Zenon DEF BatchInv, BatchOK
<1>6. CacheInv' /\ PastInv' /\ BestPriorityWins'
  BY <1>1, Zenon DEF CacheInv, PastInv, BestPriorityWins
<1> QED
  BY <1>4, <1>5, <1>6, Zenon DEF Inv

\* Time goes on when every run is over.
LEMMA TickKeeps ==
    ASSUME PlannerAssumption, Inv, PlannerTick
    PROVE  Inv'
<1>1. /\ now < MaxTime /\ due = {} /\ \A p \in Planners : run[p].pc = 0
      /\ now' = now + 1 /\ due' = IF now' % CronEvery = 0 THEN Planners ELSE {}
      /\ run' = run /\ UNCHANGED config /\ jobs' = jobs /\ failedAt' = failedAt /\ changedAt' = changedAt
  BY Zenon DEF PlannerTick
<1>2. active' = active /\ watchlist' = watchlist /\ endpoints' = endpoints
  BY <1>1, Zenon DEF config
<1>3. TypeInv /\ BatchInv /\ CacheInv /\ PastInv /\ BestPriorityWins
  BY Zenon DEF Inv
<1>4. now \in Nat /\ MaxTime \in Nat /\ now' \in 0..MaxTime
  BY <1>1, <1>3 DEF TypeInv, PlannerAssumption
<1>5. TypeInv'
  BY <1>1, <1>2, <1>3, <1>4 DEF TypeInv
<1>6. BatchInv'
  BY <1>1, <1>3, Zenon DEF BatchInv, BatchOK
<1>7. CacheInv'
  BY <1>1, <1>2, <1>3, SameAnswers, Zenon DEF CacheInv, CacheOK
<1>8. PastInv'
  <2>1. SUFFICES ASSUME changedAt' = {} PROVE PastInv'
    BY Zenon DEF PastInv
  <2>2. \A s : PlansFor(s)' = PlansFor(s)
    BY <1>1, SameAnswers, Zenon
  <2>3. PICK p \in Planners : TRUE
    BY Zenon DEF PlannerAssumption
  <2>4. (now % CronEvery = 0 /\ now \notin failedAt) => Done(now)
    BY <1>1, <1>3, <2>1, <2>3, Zenon DEF PastInv
  <2>5. ASSUME NEW t \in 0..(now' - 1), t % CronEvery = 0, t \notin failedAt
        PROVE  Done(t)
    <3>1. t = now \/ t \in 0..(now - 1)
      BY <1>1, <1>4
    <3> QED
      BY <1>1, <1>3, <2>1, <2>4, <2>5, <3>1, Zenon DEF PastInv
  <2>6. \A t \in 0..(now' - 1) : (t % CronEvery = 0 /\ t \notin failedAt') => Done(t)'
    BY <1>1, <2>2, <2>5, Zenon DEF Done
  <2> QED
    BY <1>1, <2>6, Zenon DEF PastInv
<1>9. BestPriorityWins'
  BY <1>1, <1>3, PriorityKept, Zenon
<1> QED
  BY <1>5, <1>6, <1>7, <1>8, <1>9, Zenon DEF Inv

\* Steps that leave all variables alone.
LEMMA StutterKeeps ==
    ASSUME Inv, UNCHANGED plannerVars
    PROVE  Inv'
<1>1. /\ now' = now /\ UNCHANGED config /\ run' = run /\ due' = due /\ jobs' = jobs
      /\ failedAt' = failedAt /\ changedAt' = changedAt
  BY Zenon DEF plannerVars
<1>2. active' = active /\ watchlist' = watchlist /\ endpoints' = endpoints
  BY <1>1, Zenon DEF config
<1>3. TypeInv' /\ BatchInv'
  BY <1>1, <1>2, Zenon DEF Inv, TypeInv, BatchInv, BatchOK
<1>4. CacheInv'
  BY <1>1, <1>2, SameAnswers, Zenon DEF Inv, CacheInv, CacheOK
<1>5. PastInv' /\ BestPriorityWins'
  BY <1>1, PastKept, PriorityKept, Zenon DEF Inv
<1> QED
  BY <1>3, <1>4, <1>5, Zenon DEF Inv

\* Every step keeps the invariant.
LEMMA InvStep ==
    ASSUME PlannerAssumption, Inv, [PlannerNext]_plannerVars
    PROVE  Inv'
<1>1. CASE PlannerTick
  BY <1>1, TickKeeps, Zenon
<1>2. CASE Change
  BY <1>2, ChangeKeeps, Zenon
<1>3. CASE Backfill
  BY <1>3, BackfillKeeps, Zenon
<1>4. ASSUME NEW p \in Planners, Start(p) \/ ListEndpoints(p) \/ PlanPolicy(p) \/ InsertJobs(p) \/ Fail(p)
      PROVE  Inv'
  BY <1>4, StartKeeps, ListKeeps, PlanKeeps, InsertKeeps, FailKeeps, Zenon
<1>5. CASE UNCHANGED plannerVars
  BY <1>5, StutterKeeps, Zenon
<1> QED
  BY <1>1, <1>2, <1>3, <1>4, <1>5 DEF PlannerNext

-----------------------------------------------------------------------------
(* The theorems. *)

\* The inductive invariant holds throughout.
LEMMA InvAlways ==
    ASSUME PlannerAssumption
    PROVE  PlannerSpec => []Inv
<1>1. PlannerInit => Inv
  BY InvInit, Zenon
<1>2. Inv /\ [PlannerNext]_plannerVars => Inv'
  BY InvStep, Zenon
<1> QED
  BY <1>1, <1>2, PTL DEF PlannerSpec

\* Every variable has its type and no job is planned for the future, for any policies
\* and symbols (planner.go:47-137).
THEOREM PlannerTypeCorrect ==
    ASSUME PlannerAssumption
    PROVE  PlannerSpec => []PlannerTypeOK
<1>1. Inv => PlannerTypeOK
  <2>1. SUFFICES ASSUME Inv PROVE PlannerTypeOK
    BY Zenon
  <2>2. TypeInv /\ BatchInv /\ now \in Nat
    BY <2>1 DEF Inv, TypeInv, PlannerAssumption
  <2>3. \A p \in Planners : run[p].pc \in 0..(Len(Policies) + 1) /\ run[p].at \in 0..now
    <3>1. TAKE p \in Planners
    <3>2. RunType(run[p]) /\ BatchOK(run[p])
      BY <2>2, Zenon DEF TypeInv, BatchInv
    <3>3. NoRun.at = 0
      BY Zenon DEF NoRun
    <3> QED
      BY <2>2, <3>2, <3>3 DEF RunType, BatchOK
  <2> QED
    BY <2>2, <2>3, Zenon DEF TypeInv, PlannerTypeOK
<1> QED
  BY <1>1, InvAlways, PTL

\* Of the policies that ask for the same work the one with the best priority owns the
\* job, for any policies, however many runs overlap and whatever runs fail elsewhere
\* (planner.go:59-118, repository.go:23-31, 101-156).
THEOREM PlannerBestPriority ==
    ASSUME PlannerAssumption
    PROVE  PlannerSpec => []BestPriorityWins
<1>1. Inv => BestPriorityWins
  BY Zenon DEF Inv
<1> QED
  BY <1>1, InvAlways, PTL

\* No bucket in which a run started and none failed is passed over, for any policies
\* and any period of the cron entry (planner.go:59-118).
THEOREM PlannerMissesNothing ==
    ASSUME PlannerAssumption
    PROVE  PlannerSpec => []EveryBucketPlanned
<1>1. ASSUME Inv PROVE EveryBucketPlanned
  <2>1. SUFFICES ASSUME changedAt = {}, NEW s \in Listed, NEW i \in PlansFor(s), NEW b \in 0..now,
                        b % Policies[i].interval = 0, b + Policies[i].interval <= now,
                        \E t \in b..(b + Policies[i].interval - 1) : t % CronEvery = 0,
                        failedAt \cap b..(b + Policies[i].interval - 1) = {}
                 PROVE  IdempotencyKey(Policies[i].dataType, s, Policies[i].period, b) \in DOMAIN jobs
    BY Zenon DEF EveryBucketPlanned
  <2>2. now \in Nat /\ b \in Nat
    BY <1>1 DEF Inv, TypeInv, PlannerAssumption
  <2>3. Policies[i].interval \in Nat \ {0}
    BY PolicyTypes DEF PlansFor
  <2>4. PICK t \in b..(b + Policies[i].interval - 1) : t % CronEvery = 0
    BY <2>1, Zenon
  <2>5. t \in 0..(now - 1) /\ t \notin failedAt
    <3> DEFINE v == Policies[i].interval
    <3>1. v \in Nat /\ b + v <= now /\ t \in b..(b + v - 1) /\ failedAt \cap b..(b + v - 1) = {}
      BY <2>1, <2>3, Zenon
    <3> HIDE DEF v
    <3> QED
      BY <2>2, <3>1
  <2>6. Done(t)
    BY <1>1, <2>1, <2>4, <2>5, Zenon DEF Inv, PastInv
  <2>7. KeyAt(i, s, t) \in DOMAIN jobs
    BY <2>6, Zenon DEF Done
  <2>8. ScheduledBucket(t, Policies[i].interval) = b
    BY <2>1, <2>2, <2>3, BucketOfInterval, Zenon
  <2> QED
    BY <2>7, <2>8, Zenon DEF KeyAt
<1> QED
  BY <1>1, InvAlways, PTL

\* The jobs of a policy and a tier.
LEMMA JobsForTier ==
    ASSUME NEW i, NEW S, NEW at
    PROVE  /\ \A job \in JobsFor(Policies[i], S, at) : job.tier = Policies[i].tier
           /\ \A job \in JobsFor(Policies[i], S, at) : \E s \in S : job.key = KeyAt(i, s, at)
           /\ \A s \in S : \E job \in JobsFor(Policies[i], S, at) :
                 job.key = KeyAt(i, s, at) /\ job.tier = Policies[i].tier
<1> DEFINE J(s) == [key |-> KeyAt(i, s, at), tier |-> Policies[i].tier,
                    priority |-> Policies[i].priority, mode |-> "realtime"]
<1>1. JobsFor(Policies[i], S, at) = {J(s) : s \in S}
  BY Zenon DEF JobsFor, KeyAt
<1>2. \A s : J(s).key = KeyAt(i, s, at) /\ J(s).tier = Policies[i].tier
  BY Zenon
<1> HIDE DEF J
<1> QED
  BY <1>1, <1>2, Zenon

\* A run's view of a tier is what its cache holds.
LEMMA ViewIsCache ==
    ASSUME PlannerAssumption, Inv, NEW p \in Planners, NEW a \in JobsOf(run[p].batch)
    PROVE  View(p, a.tier, a.key[1]) = run[p].tiers[a.tier]
<1> DEFINE r == run[p]
           B == r.batch
<1>1. /\ RunType(r) /\ BatchOK(r)
  BY Zenon DEF Inv, TypeInv, BatchInv
<1>2. NoRun.batch = <<>> /\ NoRun.pc = 0
  BY Zenon DEF NoRun
<1>3. /\ Len(Policies) \in Nat /\ r.pc \in 0..(Len(Policies) + 1) /\ DOMAIN B = 1..Len(B)
      /\ r.at \in Nat /\ Len(B) \in Nat
  BY <1>1, PolicyTypes DEF RunType
<1>4. \A i \in DOMAIN B : i \in 1..Len(Policies) /\ i \in 1..(r.pc - 1)
  BY <1>1, <1>2, <1>3 DEF BatchOK
<1>5. ASSUME NEW i \in DOMAIN B, NEW job \in B[i]
      PROVE  /\ Contribution(r, i) /\ job.tier = Policies[i].tier
             /\ \E s \in r.tiers[Policies[i].tier] : job.key = KeyAt(i, s, r.at)
  <2>1. Contribution(r, i)
    BY <1>1, <1>4, Zenon DEF BatchOK
  <2> DEFINE X == r.tiers[Policies[i].tier]
  <2>2. X \in SUBSET Listed /\ job \in JobsFor(Policies[i], X, r.at) /\ Policies[i].interval > 0
    BY <1>1, <2>1, Zenon DEF Contribution, RunType
  <2>3. i \in 1..Len(Policies)
    BY <1>4, Zenon
  <2> HIDE DEF X
  <2>4. job.tier = Policies[i].tier /\ \E s \in X : job.key = KeyAt(i, s, r.at)
    <3>1. \A j \in JobsFor(Policies[i], X, r.at) : j.tier = Policies[i].tier
      BY DEF JobsFor
    <3>2. \A j \in JobsFor(Policies[i], X, r.at) : \E s \in X : j.key = KeyAt(i, s, r.at)
      BY JobsForTier
    <3> QED
      BY <2>2, <3>1, <3>2, Zenon
  <2> QED
    BY <2>1, <2>4, Zenon DEF X
<1>6. PICK n \in DOMAIN B : a \in B[n]
  BY Zenon DEF JobsOf
<1>7. /\ Contribution(r, n) /\ a.tier = Policies[n].tier
      /\ \E s \in r.tiers[Policies[n].tier] : a.key = KeyAt(n, s, r.at)
  BY <1>5, <1>6, Zenon
<1>8. a.key[1] = Policies[n].dataType
  BY <1>7, KeyParts
<1>9. View(p, a.tier, a.key[1]) \subseteq r.tiers[a.tier]
  <2>1. SUFFICES ASSUME NEW j \in JobsOf(B), j.tier = a.tier
                 PROVE  j.key[2] \in r.tiers[a.tier]
    BY Zenon DEF View
  <2>2. PICK i \in DOMAIN B : j \in B[i]
    BY Zenon DEF JobsOf
  <2>3. j.tier = Policies[i].tier /\ \E s \in r.tiers[Policies[i].tier] : j.key = KeyAt(i, s, r.at)
    BY <1>5, <2>2, Zenon
  <2> QED
    BY <2>1, <2>3, KeyParts
<1>10. ASSUME NEW s \in r.tiers[a.tier]
       PROVE  s \in View(p, a.tier, a.key[1])
  <2> DEFINE X == r.tiers[Policies[n].tier]
  <2>1. X \in SUBSET Listed /\ B[n] = JobsFor(Policies[n], X, r.at) /\ Policies[n].interval > 0 /\ s \in X
    BY <1>1, <1>7, Zenon DEF Contribution, RunType
  <2>2. n \in 1..Len(Policies)
    BY <1>4, Zenon
  <2> HIDE DEF X
  <2>3. PICK j \in JobsFor(Policies[n], X, r.at) : j.key = KeyAt(n, s, r.at) /\ j.tier = Policies[n].tier
    <3>1. ASSUME NEW at, NEW x \in X
          PROVE  \E j \in JobsFor(Policies[n], X, at) : j.key = KeyAt(n, x, at) /\ j.tier = Policies[n].tier
      BY JobsForTier
    <3> QED
      BY <2>1, <3>1, Zenon
  <2>4. j \in JobsOf(B) /\ j.tier = a.tier /\ j.key[1] = a.key[1] /\ j.key[2] = s
    <3>1. j \in B[n] /\ n \in DOMAIN B
      BY <1>6, <2>1, <2>3, Zenon
    <3>2. j \in JobsOf(B)
      BY <3>1, Zenon DEF JobsOf
    <3>3. j.tier = a.tier
      BY <1>7, <2>3, Zenon
    <3>4. KeyAt(n, s, r.at)[1] = Policies[n].dataType /\ KeyAt(n, s, r.at)[2] = s
      BY Zenon DEF KeyAt, IdempotencyKey
    <3> QED
      BY <1>8, <2>3, <3>2, <3>3, <3>4, Zenon
  <2> QED
    BY <2>4, Zenon DEF View
<1> QED
  BY <1>9, <1>10, Zenon

\* One run plans the same symbols for all policies of a tier, whatever an operator edits
\* meanwhile (planner.go:84-93).
THEOREM PlannerSeesTierOnce ==
    ASSUME PlannerAssumption
    PROVE  PlannerSpec => []OneViewPerTier
<1>1. Inv => OneViewPerTier
  BY ViewIsCache DEF OneViewPerTier
<1> QED
  BY <1>1, InvAlways, PTL
=============================================================================
