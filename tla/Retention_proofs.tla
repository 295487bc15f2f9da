--------------------------- MODULE Retention_proofs ---------------------------
(***************************************************************************)
(* Proofs about Retention for any intervals, rollups, policies, partitions *)
(* and budgets.                                                            *)
(***************************************************************************)
EXTENDS Retention, FiniteSetTheorems, WellFoundedInduction, TLAPS

Steps == {"idle", "start", "count", "window", "startRollup", "upsert", "finishRollup",
          "failRollup", "partitions", "drop", "delete", "finish", "fail"}

Items == [policy : Enabled(Policies), cutoff : Int, drop : BOOLEAN]

\* The periods a kline can account for by now.
Span(k) == { n \in k.open..(k.open + Width[k.interval] - 1) : n <= now }

\* A kline is at a multiple of its interval, has begun, and accounts for no
\* period outside of it.
RowsOK ==
    /\ now \in 0..MaxTime
    /\ IsFiniteSet(DOMAIN klines)
    /\ \A k \in DOMAIN klines :
          /\ k \in Keys /\ k.open <= now /\ k.open % Width[k.interval] = 0
          /\ klines[k] \in [closed : BOOLEAN, ticks : SUBSET (0..MaxTime), opened : 0..MaxTime]
          /\ klines[k].ticks \subseteq Span(k)

AuditsOK ==
    /\ \A r \in DOMAIN cleanupRuns : r \in RunKeys /\ cleanupRuns[r] \in Statuses
    /\ \A r \in DOMAIN rollupRuns : r \in RunKeys /\ rollupRuns[r] \in Statuses

\* The items left are of valid policies, and their cutoffs are in the past.
PlanOK ==
    /\ plan \in Seq(Items)
    /\ \A n \in 1..Len(plan) :
          /\ ValidatePolicy(plan[n].policy)
          /\ plan[n].cutoff + plan[n].policy.retentionDays <= now

\* Where the run is, and what it has checked to get there.
PlaceOK ==
    /\ pc \in Steps /\ (pc = "idle") = (plan = <<>>)
    /\ expired \in BOOLEAN /\ late \subseteq Keys /\ parts \subseteq Partitions
    /\ pc \notin {"idle", "start", "fail"} => ~DiskPressureCritical
    /\ pc \in {"drop", "delete"} => ~Item.policy.dryRun
    /\ pc \in {"partitions", "drop"} => Item.drop
    /\ pc = "drop" => /\ EligiblePartitions(Item.cutoff) # {}
                      /\ parts \subseteq EligiblePartitions(Item.cutoff)
    /\ pc \in {"startRollup", "upsert", "finishRollup"} => Item.policy.interval \in DOMAIN klineRollups

BudgetOK ==
    /\ deleted \in Nat
    /\ pc \notin {"delete", "finish", "fail"} => deleted = 0
    /\ pc = "delete" => deleted < effectiveMaxRows(Item.policy)
    /\ pc # "idle" => deleted <= effectiveMaxRows(Item.policy)

\* From the rollup to the last chunk, whatever is closed and expired and was
\* there for the rollup is counted in its bucket.
InBucket(k) ==
    Bucket(k) \in DOMAIN klines /\ klines[k].ticks \subseteq klines[Bucket(k)].ticks

RolledUp ==
    pc \in {"finishRollup", "partitions", "delete"} /\ Item.policy.rollupBeforeDelete
      /\ ~Item.policy.dryRun =>
       /\ Item.policy.interval \in DOMAIN klineRollups
       /\ \A k \in ClosedSource \ late : InBucket(k)

\* A run about to be marked as succeeded has done its work.
WorkDone ==
    pc = "finish" /\ ~Item.policy.dryRun =>
       \/ Item.drop /\ EligiblePartitions(Item.cutoff) # {}
       \/ deleted = effectiveMaxRows(Item.policy)
       \/ Eligible(Item.policy, Item.cutoff) \subseteq late

Inv == RowsOK /\ AuditsOK /\ PlanOK /\ PlaceOK /\ BudgetOK /\ RolledUp /\ WorkDone

-----------------------------------------------------------------------------
(* Numbers, sets and the operators of the model. *)

\* A set of natural numbers has a least element.
LEMMA Least ==
    ASSUME NEW T \in SUBSET Nat, T # {}
    PROVE  \E n \in T : \A m \in T : n <= m
<1> DEFINE R == OpToRel(<, Nat)
<1>1. IsWellFoundedOn(R, Nat)
  BY NatLessThanWellFounded, Zenon
<1>2. \A x, y \in Nat : x < y => <<x, y>> \in R
  BY Zenon DEF OpToRel
<1> HIDE DEF R
<1>3. PICK x \in T : \A y \in T : ~(<<y, x>> \in R)
  BY <1>1, WFMin, Zenon
<1>4. \A y \in T : ~(y < x)
  BY <1>2, <1>3, Zenon
<1> QED BY <1>4

\* A set of keys has a first and a last one.
LEMMA FirstAndLast ==
    ASSUME NEW S \in SUBSET Keys, S # {}, MaxTime \in Nat
    PROVE  /\ \E k \in S : \A l \in S : k.open <= l.open
           /\ \E k \in S : \A l \in S : l.open <= k.open
<1>0. \A k \in S : k.open \in 0..MaxTime
  BY Zenon DEF Keys
<1>1. \E k \in S : \A l \in S : k.open <= l.open
  <2> DEFINE T == {k.open : k \in S}
  <2>1. T \in SUBSET Nat /\ T # {}
    BY <1>0
  <2>2. \E n \in T : \A m \in T : n <= m
    <3> HIDE DEF T
    <3> QED BY <2>1, Least, Zenon
  <2> QED BY <2>2, Zenon
<1>2. \E k \in S : \A l \in S : l.open <= k.open
  <2> DEFINE T == {MaxTime - k.open : k \in S}
  <2>1. T \in SUBSET Nat /\ T # {}
    BY <1>0
  <2>2. \E n \in T : \A m \in T : n <= m
    <3> HIDE DEF T
    <3> QED BY <2>1, Least, Zenon
  <2>3. PICK k \in S : \A m \in T : MaxTime - k.open <= m
    BY <2>2, Zenon
  <2>4. ASSUME NEW l \in S PROVE l.open <= k.open
    <3>1. MaxTime - k.open <= MaxTime - l.open
      BY <2>3, Zenon
    <3>2. k.open \in Int /\ l.open \in Int
      BY <1>0
    <3> QED BY <3>1, <3>2
  <2> QED BY <2>4, Zenon
<1> QED BY <1>1, <1>2, Zenon

\* A chunk is no larger than its size, and one that is smaller holds everything
\* there was: the rows of one interval have different times.
LEMMA ChunkSize ==
    ASSUME NEW S \in SUBSET Keys, IsFiniteSet(S), MaxTime \in Nat, NEW size \in Nat,
           \A k, l \in S : k.open = l.open => k = l
    PROVE  /\ IsFiniteSet(Chunk(S, size)) /\ Cardinality(Chunk(S, size)) \in 0..size
           /\ Cardinality(Chunk(S, size)) < size => Chunk(S, size) = S
<1> DEFINE C == Chunk(S, size)
           Older(k) == {l \in S : l.open < k.open}
<1>0. C \in SUBSET S /\ \A k \in S : k \in C <=> Cardinality(Older(k)) < size
  BY Zenon DEF Chunk
<1>1. IsFiniteSet(C) /\ Cardinality(C) \in Nat
  BY <1>0, FS_Subset, FS_CardinalityType, Zenon
<1>2. \A k \in S : IsFiniteSet(Older(k)) /\ Cardinality(Older(k)) \in Nat
  BY FS_Subset, FS_CardinalityType, Zenon
<1>3. \A k \in S : k.open \in 0..MaxTime
  BY Zenon DEF Keys
<1> HIDE DEF C
<1>4. Cardinality(C) <= size
  <2> SUFFICES ASSUME C # {} PROVE Cardinality(C) <= size
    BY FS_EmptySet
  <2>1. PICK k \in C : \A l \in C : l.open <= k.open
    BY <1>0, FirstAndLast, Zenon
  <2>2. C \ {k} \in SUBSET Older(k)
    BY <1>0, <1>3, <2>1
  <2>3. Cardinality(C \ {k}) = Cardinality(C) - 1
    BY <1>1, FS_RemoveElement, Zenon
  <2>4. Cardinality(C \ {k}) <= Cardinality(Older(k))
    <3> HIDE DEF Older
    <3> QED BY <1>0, <1>2, <2>2, FS_Subset, Zenon
  <2>5. Cardinality(Older(k)) < size /\ Cardinality(Older(k)) \in Nat
    BY <1>0, <1>2, Zenon
  <2> HIDE DEF Older
  <2> QED BY <1>1, <2>3, <2>4, <2>5
<1>5. ASSUME C # S PROVE Cardinality(C) >= size
  <2>1. PICK k \in S \ C : \A l \in S \ C : k.open <= l.open
    BY <1>0, <1>5, FirstAndLast, Zenon
  <2>2. Older(k) \in SUBSET C
    BY <1>3, <2>1
  <2>3. Cardinality(Older(k)) <= Cardinality(C)
    <3> HIDE DEF Older
    <3> QED BY <1>1, <2>2, FS_Subset, Zenon
  <2>4. ~(Cardinality(Older(k)) < size) /\ Cardinality(Older(k)) \in Nat
    BY <1>0, <1>2, Zenon
  <2> HIDE DEF Older
  <2> QED BY <1>1, <2>3, <2>4
<1> QED BY <1>1, <1>4, <1>5 DEF C

\* A kline lies within its bucket from its first to its last period.
LEMMA InsideBucket ==
    ASSUME RetentionAssumption, NEW k \in Keys, k.interval \in DOMAIN klineRollups,
           k.open % Width[k.interval] = 0
    PROVE  /\ Bucket(k) \in Keys /\ Bucket(k).interval = klineRollups[k.interval]
           /\ Bucket(k).interval # k.interval
           /\ Bucket(k).open <= k.open /\ Bucket(k).open % Width[Bucket(k).interval] = 0
           /\ k.open + Width[k.interval] <= Bucket(k).open + Width[Bucket(k).interval]
<1> DEFINE w == Width[k.interval]
           v == Width[klineRollups[k.interval]]
           c == k.open \div v
<1>1. w \in Nat \ {0} /\ v \in Nat \ {0} /\ v > w /\ v % w = 0
      /\ klineRollups[k.interval] \in Intervals
  BY Zenon DEF RetentionAssumption
<1>2. k.open \in 0..MaxTime /\ MaxTime \in Nat /\ k.open % w = 0
  BY Zenon DEF Keys, RetentionAssumption
<1>3. Bucket(k) = [interval |-> klineRollups[k.interval], open |-> c * v]
  BY Zenon DEF Bucket
<1> HIDE DEF w, v
<1>4. c \in Nat /\ c * v \in Nat /\ c * v <= k.open /\ k.open < c * v + v /\ (c * v) % v = 0
  BY <1>1, <1>2
<1>5. k.open + w <= c * v + v
  <2> DEFINE m == v \div w
             q == k.open \div w
  <2>1. m \in Nat /\ v = m * w /\ q \in Nat /\ k.open = q * w
    BY <1>1, <1>2
  <2> HIDE DEF m, q, c
  <2>2. \A a, b, d \in Nat, u \in Nat \ {0} :
           d * (a * u) <= b * u /\ b * u < d * (a * u) + a * u => b * u + u <= d * (a * u) + a * u
    OBVIOUS
  <2>3. c * (m * w) <= q * w /\ q * w < c * (m * w) + m * w
    BY <1>4, <2>1, Zenon
  <2>4. q * w + w <= c * (m * w) + m * w
    BY <1>1, <1>4, <2>1, <2>2, <2>3, Zenon
  <2> QED BY <2>1, <2>4, Zenon
<1> HIDE DEF c
<1>6. Bucket(k).interval = klineRollups[k.interval] /\ Bucket(k).open = c * v
  BY <1>3
<1>7. klineRollups[k.interval] # k.interval
  BY <1>1 DEF w, v
<1>8. c * v \in 0..MaxTime
  BY <1>2, <1>4
<1>9. Bucket(k) \in Keys
  BY <1>1, <1>3, <1>8 DEF Keys
<1> QED BY <1>4, <1>5, <1>6, <1>7, <1>9, Zenon DEF v, w

-----------------------------------------------------------------------------
(* The klines. *)

\* Rows that are left alone stay in order as time goes on.
LEMMA RowsStay ==
    ASSUME RetentionAssumption, RowsOK, NEW S \in SUBSET DOMAIN klines,
           DOMAIN klines' = S, \A k \in S : klines'[k] = klines[k], now' \in now..MaxTime
    PROVE  RowsOK'
<1>1. now \in Nat /\ now' \in 0..MaxTime /\ now <= now'
  BY DEF RowsOK, RetentionAssumption
<1>3. IsFiniteSet(DOMAIN klines')
  BY FS_Subset, Zenon DEF RowsOK
<1>4. ASSUME NEW k \in S
      PROVE  /\ k \in Keys /\ k.open <= now' /\ k.open % Width[k.interval] = 0
             /\ klines[k] \in [closed : BOOLEAN, ticks : SUBSET (0..MaxTime), opened : 0..MaxTime]
             /\ klines[k].ticks \subseteq Span(k)'
  <2>1. k \in DOMAIN klines
    BY Zenon
  <2>2. k \in Keys /\ k.open <= now /\ k.open % Width[k.interval] = 0
        /\ klines[k] \in [closed : BOOLEAN, ticks : SUBSET (0..MaxTime), opened : 0..MaxTime]
        /\ klines[k].ticks \subseteq Span(k)
    BY <2>1, Zenon DEF RowsOK
  <2>3. k.open \in Nat /\ Width[k.interval] \in Nat
    BY <2>2 DEF Keys, RetentionAssumption
  <2>4. Span(k) \subseteq Span(k)'
    BY <1>1, <2>3 DEF Span
  <2> QED BY <1>1, <2>2, <2>3, <2>4
<1> QED BY <1>1, <1>3, <1>4, Zenon DEF RowsOK

\* A row put into the table, the others staying.
LEMMA RowsPut ==
    ASSUME RetentionAssumption, RowsOK, NEW rows, klines' = Upsert(klines, rows), UNCHANGED now,
           IsFiniteSet(DOMAIN rows),
           \A k \in DOMAIN rows :
              /\ k \in Keys /\ k.open <= now /\ k.open % Width[k.interval] = 0
              /\ rows[k] \in [closed : BOOLEAN, ticks : SUBSET (0..MaxTime), opened : 0..MaxTime]
              /\ rows[k].ticks \subseteq Span(k)
    PROVE  RowsOK'
<1>1. DOMAIN klines' = DOMAIN klines \cup DOMAIN rows
      /\ \A k \in DOMAIN klines' : klines'[k] = IF k \in DOMAIN rows THEN rows[k] ELSE klines[k]
  BY Zenon DEF Upsert
<1>2. IsFiniteSet(DOMAIN klines')
  <2>1. IsFiniteSet(DOMAIN klines)
    BY Zenon DEF RowsOK
  <2>2. IsFiniteSet(DOMAIN klines \cup DOMAIN rows)
    BY <2>1, FS_Union, Zenon
  <2> QED BY <1>1, <2>2, Zenon
<1>3. \A k : Span(k)' = Span(k)
  BY Zenon DEF Span
<1>4. ASSUME NEW k \in DOMAIN klines'
      PROVE  /\ k \in Keys /\ k.open <= now /\ k.open % Width[k.interval] = 0
             /\ klines'[k] \in [closed : BOOLEAN, ticks : SUBSET (0..MaxTime), opened : 0..MaxTime]
             /\ klines'[k].ticks \subseteq Span(k)
  <2>1. CASE k \in DOMAIN rows
    <3>1. klines'[k] = rows[k]
      BY <1>1, <2>1, Zenon
    <3> QED BY <2>1, <3>1, Zenon
  <2>2. CASE k \notin DOMAIN rows
    <3>1. k \in DOMAIN klines /\ klines'[k] = klines[k]
      BY <1>1, <2>2, Zenon
    <3> QED BY <3>1, Zenon DEF RowsOK
  <2> QED BY <2>1, <2>2, Zenon
<1>5. Keys' = Keys
  BY Zenon DEF Keys
<1> QED BY <1>2, <1>3, <1>4, <1>5, Zenon DEF RowsOK

\* A collector's kline accounts for every period of its interval so far.
LEMMA CollectKeepsRows ==
    ASSUME RetentionAssumption, RowsOK, NEW i \in Collected, NEW t \in 0..now, Collect(i, t)
    PROVE  LET key == [interval |-> i, open |-> t]
           IN  /\ RowsOK' /\ key \in Keys
               /\ DOMAIN klines' = DOMAIN klines \cup {key}
               /\ \A k \in DOMAIN klines \ {key} : klines'[k] = klines[k]
               /\ klines'[key].ticks = Span(key)
<1> DEFINE key == [interval |-> i, open |-> t]
           row == [closed |-> t + Width[i] <= now,
                   ticks  |-> { n \in t..(t + Width[i] - 1) : n <= now },
                   opened |-> IF key \in DOMAIN klines THEN klines[key].opened ELSE t]
           rows == [k \in {key} |-> row]
<1>1. now \in 0..MaxTime /\ MaxTime \in Nat /\ t \in 0..MaxTime /\ i \in Intervals
      /\ Width[i] \in Nat \ {0}
  BY DEF RowsOK, RetentionAssumption
<1>2. key \in Keys /\ key.open = t /\ key.interval = i
  BY <1>1, Zenon DEF Keys
<1>3. t % Width[i] = 0 /\ klines' = Upsert(klines, rows) /\ UNCHANGED now
  BY Zenon DEF Collect, Put
<1>4. row.ticks = Span(key)
  BY <1>2, Zenon DEF Span
<1>5. Span(key) \in SUBSET (0..MaxTime)
  BY <1>1, <1>2 DEF Span
<1>6. (t + Width[i] <= now) \in BOOLEAN
  OBVIOUS
<1>7. (IF key \in DOMAIN klines THEN klines[key].opened ELSE t) \in 0..MaxTime
  BY <1>1, Zenon DEF RowsOK
<1>8. row \in [closed : BOOLEAN, ticks : SUBSET (0..MaxTime), opened : 0..MaxTime]
  BY <1>2, <1>4, <1>5, <1>6, <1>7, Zenon DEF Span
<1> HIDE DEF row, key
<1>9. IsFiniteSet(DOMAIN rows)
  BY FS_Singleton, Zenon
<1>10. RowsOK'
  BY <1>1, <1>2, <1>3, <1>4, <1>8, <1>9, RowsPut
<1>11. /\ DOMAIN klines' = DOMAIN klines \cup {key} /\ klines'[key] = row
       /\ \A k \in DOMAIN klines \ {key} : klines'[k] = klines[k]
  BY <1>3, Zenon DEF Upsert
<1> QED BY <1>2, <1>4, <1>10, <1>11, Zenon DEF key

\* What is rolled up is of the policy's interval.
LEMMA SourceRows ==
    ASSUME RowsOK
    PROVE  /\ ClosedSource \in SUBSET DOMAIN klines
           /\ \A k \in ClosedSource : /\ k.interval = Item.policy.interval
                                      /\ k \in Keys /\ k.open <= now /\ k.open % Width[k.interval] = 0
                                      /\ klines[k].ticks \subseteq Span(k)
                                      /\ klines[k].opened \in 0..MaxTime
                                      /\ klines[k].ticks \subseteq 0..MaxTime
  BY Zenon DEF ClosedSource, Eligible, RowsOK

\* A bucket can account for what its source rows account for.
LEMMA SourceInBucket ==
    ASSUME RetentionAssumption, RowsOK, Item.policy.interval \in DOMAIN klineRollups,
           NEW k \in ClosedSource
    PROVE  /\ Bucket(k) \in Keys /\ Bucket(k).interval # Item.policy.interval
           /\ Bucket(k).open <= now /\ Bucket(k).open % Width[Bucket(k).interval] = 0
           /\ klines[k].ticks \subseteq Span(Bucket(k))
<1>0. now \in 0..MaxTime /\ MaxTime \in Nat /\ Width \in [Intervals -> Nat \ {0}]
  BY Zenon DEF RowsOK, RetentionAssumption
<1>1. k \in Keys /\ k.interval = Item.policy.interval /\ k.open <= now
      /\ k.open % Width[k.interval] = 0 /\ klines[k].ticks \subseteq Span(k)
  BY SourceRows, Zenon
<1>2. /\ Bucket(k) \in Keys /\ Bucket(k).interval # k.interval /\ Bucket(k).open <= k.open
      /\ Bucket(k).open % Width[Bucket(k).interval] = 0
      /\ k.open + Width[k.interval] <= Bucket(k).open + Width[Bucket(k).interval]
  BY <1>1, InsideBucket, Zenon
<1>3. k.open \in Nat /\ Bucket(k).open \in Nat /\ Width[k.interval] \in Nat
      /\ Width[Bucket(k).interval] \in Nat
  BY <1>0, <1>1, <1>2 DEF Keys
<1>4. Span(k) \subseteq Span(Bucket(k))
  BY <1>0, <1>2, <1>3 DEF Span
<1> QED BY <1>0, <1>1, <1>2, <1>3, <1>4

\* A rollup leaves the table in order, and every source row in its bucket.
LEMMA RollupKeepsRows ==
    ASSUME RetentionAssumption, RowsOK, Item.policy.interval \in DOMAIN klineRollups,
           klines' = Upsert(klines, Rolled), UNCHANGED now
    PROVE  /\ RowsOK'
           /\ \A k \in DOMAIN klines :
                 k \in DOMAIN klines' /\ (k.interval = Item.policy.interval => klines'[k] = klines[k])
           /\ \A k \in DOMAIN klines' : k.interval = Item.policy.interval => k \in DOMAIN klines
           /\ \A k \in ClosedSource :
                 /\ Bucket(k) \in DOMAIN klines'
                 /\ klines[k].ticks \subseteq klines'[Bucket(k)].ticks
<1> DEFINE Buckets == {Bucket(k) : k \in ClosedSource}
<1>0. now \in 0..MaxTime /\ MaxTime \in Nat /\ Width \in [Intervals -> Nat \ {0}]
  BY Zenon DEF RowsOK, RetentionAssumption
<1>1. \A k \in ClosedSource :
         /\ Bucket(k) \in Keys /\ Bucket(k).interval # Item.policy.interval
         /\ Bucket(k).open <= now /\ Bucket(k).open % Width[Bucket(k).interval] = 0
         /\ klines[k].ticks \subseteq Span(Bucket(k))
  BY SourceInBucket, Zenon
<1>2. DOMAIN Rolled = Buckets
  BY Zenon DEF Rolled
<1>3. IsFiniteSet(Buckets)
  <2>1. IsFiniteSet(ClosedSource)
    BY SourceRows, FS_Subset, Zenon DEF RowsOK
  <2> DEFINE f == [k \in ClosedSource |-> Bucket(k)]
  <2>2. f \in Surjection(ClosedSource, Buckets)
    BY Zenon DEF Surjection
  <2> HIDE DEF f, Buckets
  <2> QED BY <2>1, <2>2, FS_Surjection, Zenon
<1>4. ASSUME NEW b \in Buckets
      PROVE  /\ b \in Keys /\ b.interval # Item.policy.interval
             /\ b.open <= now /\ b.open % Width[b.interval] = 0
             /\ Rolled[b] \in [closed : BOOLEAN, ticks : SUBSET (0..MaxTime), opened : 0..MaxTime]
             /\ Rolled[b].ticks = UNION {klines[k].ticks : k \in Group(b)}
             /\ Rolled[b].ticks \subseteq Span(b)
  <2>1. /\ Rolled[b].closed = TRUE /\ Rolled[b].ticks = UNION {klines[k].ticks : k \in Group(b)}
        /\ Rolled[b].opened = IF b \in DOMAIN klines THEN klines[b].opened
                                                     ELSE klines[FirstOf(Group(b))].opened
        /\ Rolled[b] = [closed |-> Rolled[b].closed, ticks |-> Rolled[b].ticks, opened |-> Rolled[b].opened]
    BY Zenon DEF Rolled
  <2>2. Group(b) # {} /\ Group(b) \in SUBSET ClosedSource
    BY Zenon DEF Group
  <2>3. b \in Keys /\ b.interval # Item.policy.interval
        /\ b.open <= now /\ b.open % Width[b.interval] = 0
    BY <1>1, Zenon
  <2>4. \A k \in Group(b) : klines[k].ticks \subseteq Span(b) /\ klines[k].ticks \subseteq 0..MaxTime
    BY <1>1, SourceRows, Zenon DEF Group
  <2>5. FirstOf(Group(b)) \in Group(b)
    <3>1. Group(b) \in SUBSET Keys
      BY <2>2, SourceRows, Zenon
    <3>2. \E k \in Group(b) : \A l \in Group(b) : k.open <= l.open
      BY <1>0, <2>2, <3>1, FirstAndLast, Zenon
    <3> QED BY <3>2, Zenon DEF FirstOf
  <2>6. Rolled[b].opened \in 0..MaxTime
    <3>1. klines[FirstOf(Group(b))].opened \in 0..MaxTime
      BY <2>2, <2>5, SourceRows, Zenon
    <3>2. b \in DOMAIN klines => klines[b].opened \in 0..MaxTime
      BY Zenon DEF RowsOK
    <3> QED BY <2>1, <3>1, <3>2, Zenon
  <2>7. Rolled[b].ticks \subseteq Span(b) /\ Rolled[b].ticks \in SUBSET (0..MaxTime)
    BY <2>1, <2>4
  <2>8. Rolled[b].closed \in BOOLEAN
    BY <2>1, Zenon
  <2>9. Rolled[b] \in [closed : BOOLEAN, ticks : SUBSET (0..MaxTime), opened : 0..MaxTime]
    BY <2>1, <2>6, <2>7, <2>8, Zenon
  <2> QED BY <2>1, <2>3, <2>7, <2>9, Zenon
<1> HIDE DEF Buckets
<1>5. RowsOK'
  BY <1>2, <1>3, <1>4, RowsPut, Zenon
<1>6. /\ DOMAIN klines' = DOMAIN klines \cup Buckets
      /\ \A k \in DOMAIN klines' : klines'[k] = IF k \in Buckets THEN Rolled[k] ELSE klines[k]
  BY <1>2, Zenon DEF Upsert
<1>7. ASSUME NEW k \in ClosedSource
      PROVE  /\ Bucket(k) \in DOMAIN klines'
             /\ klines[k].ticks \subseteq klines'[Bucket(k)].ticks
  <2>1. Bucket(k) \in Buckets /\ k \in Group(Bucket(k))
    BY Zenon DEF Buckets, Group
  <2>2. klines'[Bucket(k)].ticks = UNION {klines[l].ticks : l \in Group(Bucket(k))}
    BY <1>4, <1>6, <2>1, Zenon
  <2> QED BY <1>6, <2>1, <2>2, Zenon
<1> QED BY <1>4, <1>5, <1>6, <1>7, Zenon

-----------------------------------------------------------------------------
(* The run. *)

\* A valid policy has a row budget and a chunk size.
LEMMA MaxRows ==
    ASSUME RetentionAssumption, NEW p \in Policies, ValidatePolicy(p)
    PROVE  effectiveMaxRows(p) \in Nat \ {0} /\ p.chunkSize \in Nat \ {0}
<1>1. p.chunkSize \in Int /\ p.maxRowsPerRun \in Int /\ OptionMaxRows \in Int
  BY Zenon DEF RetentionAssumption
<1> QED BY <1>1 DEF ValidatePolicy, effectiveMaxRows

\* What is known of the item a run is at.
LEMMA CurrentItem ==
    ASSUME RetentionAssumption, Inv, pc # "idle"
    PROVE  /\ plan # <<>> /\ Item = plan[1] /\ Item.policy \in Enabled(Policies) /\ Item.cutoff \in Int
           /\ Item.policy \in Policies /\ Item.policy.retentionDays \in Int
           /\ ValidatePolicy(Item.policy) /\ Item.cutoff + Item.policy.retentionDays <= now
           /\ effectiveMaxRows(Item.policy) \in Nat \ {0} /\ Item.policy.chunkSize \in Nat \ {0}
           /\ RunKey \in RunKeys
<1>1. plan # <<>> /\ plan \in Seq(Items)
  BY Zenon DEF Inv, PlaceOK, PlanOK
<1>2. 1 \in 1..Len(plan) /\ Item = plan[1] /\ plan[1] \in Items
  BY <1>1 DEF Item
<1>3. Item.policy \in Enabled(Policies) /\ Item.cutoff \in Int
  BY <1>2, Zenon DEF Items
<1>4. Item.policy \in Policies
  BY <1>3, Zenon DEF Enabled
<1>5. ValidatePolicy(Item.policy) /\ Item.cutoff + Item.policy.retentionDays <= now
  BY <1>2, Zenon DEF Inv, PlanOK
<1>6. Item.policy.retentionDays \in Int
  BY <1>4, Zenon DEF RetentionAssumption
<1>7. RunKey \in RunKeys
  BY <1>3, <1>4, Zenon DEF RunKey, RunKeys
<1> QED BY <1>1, <1>2, <1>3, <1>4, <1>5, <1>6, <1>7, MaxRows, Zenon

\* A row of an audit table is written.
LEMMA AuditPut ==
    ASSUME NEW table, NEW r \in RunKeys, NEW st \in Statuses,
           \A x \in DOMAIN table : x \in RunKeys /\ table[x] \in Statuses
    PROVE  \A x \in DOMAIN Put(table, r, st) : x \in RunKeys /\ Put(table, r, st)[x] \in Statuses
  BY Zenon DEF Put, Upsert

\* A clock that stands still is in its range.
LEMMA ClockStays ==
    ASSUME RetentionAssumption, RowsOK, UNCHANGED now
    PROVE  now' \in now..MaxTime
<1>1. now \in 0..MaxTime /\ MaxTime \in Nat
  BY Zenon DEF RowsOK, RetentionAssumption
<1> QED BY <1>1

\* The plan is kept as long as the clock goes forward.
LEMMA PlanStays ==
    ASSUME RetentionAssumption, RowsOK, PlanOK, UNCHANGED plan, now' \in now..MaxTime
    PROVE  PlanOK'
<1>1. now \in Nat /\ now' \in Nat /\ now <= now'
  BY DEF RowsOK, RetentionAssumption
<1>2. plan \in Seq(Items) /\ Items' = Items
  BY Zenon DEF PlanOK, Items, Enabled
<1>3. ASSUME NEW n \in 1..Len(plan)
      PROVE  ValidatePolicy(plan[n].policy) /\ plan[n].cutoff + plan[n].policy.retentionDays <= now'
  <2>1. plan[n].cutoff + plan[n].policy.retentionDays <= now /\ ValidatePolicy(plan[n].policy)
    BY Zenon DEF PlanOK
  <2>2. plan[n] \in Items
    BY <1>2
  <2>3. plan[n].cutoff \in Int /\ plan[n].policy.retentionDays \in Int
    BY <2>2, Zenon DEF Items, Enabled, RetentionAssumption
  <2> QED BY <1>1, <2>1, <2>3
<1> QED BY <1>2, <1>3, Zenon DEF PlanOK

\* The klines stay and time stands still.
LEMMA TableStays ==
    ASSUME RetentionAssumption, RowsOK, UNCHANGED <<now, klines>>
    PROVE  RowsOK' /\ now' \in now..MaxTime
<1>1. now' \in now..MaxTime
  BY ClockStays, Zenon
<1>2. RowsOK'
  BY Zenon DEF RowsOK, Span, Keys
<1> QED BY <1>1, <1>2, Zenon

\* At the start the tables are empty and no run is under way.
LEMMA InvInit ==
    ASSUME RetentionAssumption
    PROVE  Init => Inv
<1> SUFFICES ASSUME Init PROVE Inv
  BY Zenon
<1>1. RowsOK
  BY FS_EmptySet DEF Init, RowsOK, Empty, RetentionAssumption
<1>2. AuditsOK /\ PlanOK /\ BudgetOK /\ RolledUp /\ WorkDone
  BY DEF Init, AuditsOK, Empty, PlanOK, BudgetOK, RolledUp, WorkDone
<1>3. expired \in BOOLEAN
  BY Zenon DEF Init
<1>4. PlaceOK
  BY <1>3, Zenon DEF Init, PlaceOK, Steps
<1> QED BY <1>1, <1>2, <1>4, Zenon DEF Inv

\* Only the empty sequence has no element.
LEMMA NothingLeft ==
    ASSUME NEW S, NEW s \in Seq(S)
    PROVE  s = <<>> <=> Len(s) = 0
  OBVIOUS

\* The next item, if there is one, starts from nothing.
LEMMA NextItemKeeps ==
    ASSUME RetentionAssumption, Inv, pc # "idle", NextItem, UNCHANGED <<now, klines>>, AuditsOK'
    PROVE  Inv'
<1>1. RowsOK' /\ now' \in now..MaxTime
  BY TableStays, Zenon DEF Inv
<1>2. plan \in Seq(Items) /\ plan # <<>> /\ plan' = Tail(plan) /\ Items' = Items
  BY Zenon DEF Inv, PlanOK, PlaceOK, NextItem, Items, Enabled
<1>3. PlanOK'
  <2>1. plan' \in Seq(Items) /\ Len(plan') = Len(plan) - 1
        /\ \A n \in 1..Len(plan') : plan'[n] = plan[n + 1] /\ n + 1 \in 1..Len(plan)
    BY <1>2
  <2>2. \A n \in 1..Len(plan) : /\ ValidatePolicy(plan[n].policy)
                                /\ plan[n].cutoff + plan[n].policy.retentionDays <= now
    BY Zenon DEF Inv, PlanOK
  <2> QED BY <1>2, <2>1, <2>2, Zenon DEF PlanOK
<1>4. (pc' = "idle") = (plan' = <<>>) /\ pc' \in {"idle", "start"}
  <2>1. Len(plan) \in Nat /\ plan' \in Seq(Items) /\ Len(plan') = Len(plan) - 1
    BY <1>2
  <2>2. plan' = <<>> <=> Len(plan) = 1
    <3>1. Len(plan') = 0 <=> Len(plan) = 1
      BY <2>1
    <3>2. plan' = <<>> <=> Len(plan') = 0
      BY <2>1, NothingLeft, Zenon
    <3> QED BY <3>1, <3>2, Zenon
  <2>3. pc' = IF Len(plan) = 1 THEN "idle" ELSE "start"
    BY Zenon DEF NextItem
  <2> QED BY <2>2, <2>3, Zenon
<1>5. parts' = {} /\ deleted' = 0 /\ late' = {}
  BY Zenon DEF NextItem
<1>6. expired' \in BOOLEAN
  BY Zenon DEF NextItem
<1>7. PlaceOK'
  BY <1>4, <1>5, <1>6, Zenon DEF PlaceOK, Steps
<1>8. BudgetOK'
  <2> SUFFICES ASSUME pc' # "idle" PROVE 0 <= effectiveMaxRows(Item.policy)'
    BY <1>4, <1>5, Zenon DEF BudgetOK
  <2>1. plan' # <<>> /\ plan' \in Seq(Items)
    BY <1>2, <1>4
  <2>2. 1 \in 1..Len(plan') /\ Item' = plan'[1] /\ plan'[1] \in Items
    BY <2>1 DEF Item
  <2>3. Item'.policy \in Policies /\ ValidatePolicy(Item'.policy)
    BY <1>3, <2>2, Zenon DEF PlanOK, Items, Enabled
  <2>4. effectiveMaxRows(Item'.policy) \in Nat
    BY <2>3, MaxRows, Zenon
  <2>5. effectiveMaxRows(Item.policy)' = effectiveMaxRows(Item'.policy)
    BY Zenon DEF effectiveMaxRows
  <2> QED BY <2>4, <2>5
<1>9. RolledUp' /\ WorkDone'
  BY <1>4, Zenon DEF RolledUp, WorkDone
<1> QED BY <1>1, <1>3, <1>7, <1>8, <1>9, Zenon DEF Inv

\* A failed item waits for nothing but its mark.
LEMMA FailKeeps ==
    ASSUME RetentionAssumption, Inv, pc # "idle", pc' = "fail",
           UNCHANGED <<now, klines, plan, parts, deleted, expired, late>>, AuditsOK'
    PROVE  Inv'
<1>1. RowsOK' /\ PlanOK'
  BY TableStays, PlanStays, Zenon DEF Inv
<1>2. PlaceOK'
  BY Zenon DEF Inv, PlaceOK, Steps
<1>3. BudgetOK'
  BY Zenon DEF Inv, BudgetOK, Item, effectiveMaxRows
<1>4. RolledUp' /\ WorkDone'
  BY Zenon DEF RolledUp, WorkDone
<1> QED BY <1>1, <1>2, <1>3, <1>4, Zenon DEF Inv

\* What an action that leaves the klines alone has to show.
LEMMA GoesKeeps ==
    ASSUME RetentionAssumption, Inv, pc # "idle", pc' \in Steps \ {"idle"},
           UNCHANGED <<now, klines, plan, expired, deleted, late>>, AuditsOK',
           parts' \in SUBSET Partitions,
           pc' \notin {"start", "fail"} => ~DiskPressureCritical,
           pc' \in {"drop", "delete"} => ~Item.policy.dryRun,
           pc' \in {"partitions", "drop"} => Item.drop,
           pc' = "drop" => /\ EligiblePartitions(Item.cutoff) # {}
                           /\ parts' \in SUBSET EligiblePartitions(Item.cutoff),
           pc' \in {"startRollup", "upsert", "finishRollup"} =>
              Item.policy.interval \in DOMAIN klineRollups,
           pc \notin {"delete", "finish", "fail"},
           pc' \in {"finishRollup", "partitions", "delete"} /\ Item.policy.rollupBeforeDelete
             /\ ~Item.policy.dryRun =>
              /\ Item.policy.interval \in DOMAIN klineRollups
              /\ \A k \in ClosedSource \ late : InBucket(k),
           pc' = "finish" => Item.policy.dryRun
    PROVE  Inv'
<1>1. RowsOK' /\ PlanOK'
  BY TableStays, PlanStays, Zenon DEF Inv
<1>2. Item' = Item /\ plan # <<>>
  BY Zenon DEF Item, Inv, PlaceOK
<1>3. PlaceOK'
  BY <1>2, Zenon DEF Inv, PlaceOK, EligiblePartitions, Keys
<1>4. BudgetOK'
  <2>1. deleted = 0 /\ effectiveMaxRows(Item.policy) \in Nat \ {0}
    BY CurrentItem, Zenon DEF Inv, BudgetOK
  <2>2. effectiveMaxRows(Item.policy)' = effectiveMaxRows(Item.policy)
    BY <1>2, Zenon DEF effectiveMaxRows
  <2> QED BY <2>1, <2>2 DEF BudgetOK
<1>5. RolledUp'
  <2>1. ClosedSource' = ClosedSource /\ \A k : InBucket(k)' = InBucket(k)
    BY <1>2, Zenon DEF ClosedSource, Eligible, InBucket, Bucket
  <2> QED BY <1>2, <2>1, Zenon DEF RolledUp
<1>6. WorkDone'
  BY <1>2, Zenon DEF WorkDone
<1> QED BY <1>1, <1>3, <1>4, <1>5, <1>6, <1>1, Zenon DEF Inv

\* Audits that are left alone stay as they are.
LEMMA AuditsStay ==
    ASSUME AuditsOK, UNCHANGED audits
    PROVE  AuditsOK'
  BY Zenon DEF AuditsOK, audits, RunKeys, Statuses

\* An error of a statement changes nothing but where the run is.
LEMMA ErrorKeeps ==
    ASSUME RetentionAssumption, Inv, NEW at, at # "idle", Errs(at), Fail
    PROVE  Inv'
<1>1. pc # "idle" /\ UNCHANGED <<now, klines, audits>>
  BY Zenon DEF Errs
<1>2. AuditsOK'
  BY <1>1, AuditsStay, Zenon DEF Inv
<1> QED BY <1>1, <1>2, FailKeeps, Zenon DEF Fail

\* Where a run goes after the rollup, or without one.
LEMMA Onwards ==
    /\ ToDelete \in {"finish", "delete"} /\ AfterRollup \in {"partitions", "finish", "delete"}
    /\ ToDelete = "delete" => ~Item.policy.dryRun
    /\ ToDelete = "finish" => Item.policy.dryRun
    /\ AfterRollup = "delete" => ~Item.policy.dryRun
    /\ AfterRollup = "finish" => Item.policy.dryRun
    /\ AfterRollup = "partitions" => Item.drop
  BY Zenon DEF ToDelete, AfterRollup

\* Opening the audit of an item (executor.go) keeps the invariant.
LEMMA StartKeeps ==
    ASSUME RetentionAssumption, Inv, StartCleanupRun
    PROVE  Inv'
<1>1. CASE Goes("start", IF DiskPressureCritical THEN "fail" ELSE "count")
           /\ cleanupRuns' = Put(cleanupRuns, RunKey, "running")
           /\ UNCHANGED <<klines, rollupRuns, parts, deleted, late>>
  <2>1. pc = "start" /\ UNCHANGED <<now, klines, plan, expired, parts, deleted, late, rollupRuns>>
        /\ pc' = IF DiskPressureCritical THEN "fail" ELSE "count"
    BY <1>1, Zenon DEF Goes
  <2>2. AuditsOK'
    <3>1. \A x \in DOMAIN cleanupRuns' : x \in RunKeys /\ cleanupRuns'[x] \in Statuses
      BY <1>1, <2>1, CurrentItem, AuditPut, Zenon DEF Inv, AuditsOK, Statuses
    <3> QED BY <2>1, <3>1, Zenon DEF Inv, AuditsOK, RunKeys, Statuses
  <2>3. CASE pc' = "fail"
    BY <2>1, <2>2, <2>3, FailKeeps, Zenon
  <2>4. CASE pc' = "count" /\ ~DiskPressureCritical
    <3>1. parts' \in SUBSET Partitions
      BY <2>1, Zenon DEF Inv, PlaceOK
    <3> QED BY <2>1, <2>2, <2>4, <3>1, GoesKeeps, Zenon DEF Steps
  <2> QED BY <2>1, <2>3, <2>4, Zenon
<1>2. CASE Errs("start") /\ NextItem
  <2>1. pc = "start" /\ UNCHANGED <<now, klines, audits>>
    BY <1>2, Zenon DEF Errs
  <2> QED BY <1>2, <2>1, AuditsStay, NextItemKeeps, Zenon DEF Inv
<1> QED BY <1>1, <1>2, Zenon DEF StartCleanupRun

\* Counting what is eligible keeps the invariant.
LEMMA CountKeeps ==
    ASSUME RetentionAssumption, Inv, CountEligible
    PROVE  Inv'
<1>1. CASE Goes("count", IF Item.policy.rollupBeforeDelete THEN "window" ELSE AfterRollup)
           /\ UNCHANGED <<klines, audits, parts, deleted, late>>
  <2>1. pc = "count" /\ UNCHANGED <<now, klines, plan, expired, parts, deleted, late, audits>>
        /\ (pc' = "window" \/ (pc' = AfterRollup /\ ~Item.policy.rollupBeforeDelete))
    BY <1>1, Zenon DEF Goes
  <2>2. AuditsOK' /\ ~DiskPressureCritical /\ parts' \in SUBSET Partitions
    BY <2>1, AuditsStay, Zenon DEF Inv, PlaceOK
  <2> QED BY <2>1, <2>2, Onwards, GoesKeeps, Zenon DEF Steps
<1>2. CASE Errs("count") /\ Fail
  BY <1>2, ErrorKeeps, Zenon
<1> QED BY <1>1, <1>2, Zenon DEF CountEligible

\* Reading the window of a rollup keeps the invariant.
LEMMA WindowKeeps ==
    ASSUME RetentionAssumption, Inv, KlineRollupWindow
    PROVE  Inv'
<1>1. CASE /\ Goes("window", IF ClosedSource = {} \/ Item.policy.dryRun
                             THEN AfterRollup ELSE "startRollup")
           /\ Item.policy.interval \in DOMAIN klineRollups
           /\ UNCHANGED <<klines, audits, parts, deleted, late>>
  <2>1. pc = "window" /\ UNCHANGED <<now, klines, plan, expired, parts, deleted, late, audits>>
        /\ \/ pc' = AfterRollup /\ (ClosedSource = {} \/ Item.policy.dryRun)
           \/ pc' = "startRollup"
    BY <1>1, Zenon DEF Goes
  <2>2. AuditsOK' /\ ~DiskPressureCritical /\ parts' \in SUBSET Partitions
    BY <2>1, AuditsStay, Zenon DEF Inv, PlaceOK
  <2> QED BY <1>1, <2>1, <2>2, Onwards, GoesKeeps DEF Steps
<1>2. CASE Errs("window") /\ Fail
  BY <1>2, ErrorKeeps, Zenon
<1>3. CASE pc = "window" /\ Fail /\ UNCHANGED <<now, klines, audits, runs, faults>>
  BY <1>3, AuditsStay, FailKeeps, Zenon DEF Inv, Fail
<1> QED BY <1>1, <1>2, <1>3, Zenon DEF KlineRollupWindow

\* A row of data_rollup_runs is written.
LEMMA RollupAudit ==
    ASSUME RetentionAssumption, Inv, pc # "idle", NEW st \in Statuses,
           rollupRuns' = Put(rollupRuns, RunKey, st), UNCHANGED cleanupRuns
    PROVE  AuditsOK'
<1>1. \A x \in DOMAIN rollupRuns' : x \in RunKeys /\ rollupRuns'[x] \in Statuses
  BY CurrentItem, AuditPut, Zenon DEF Inv, AuditsOK
<1> QED BY <1>1, Zenon DEF Inv, AuditsOK, RunKeys, Statuses

\* Recording the rollup job of a window keeps the invariant.
LEMMA StartRollupKeeps ==
    ASSUME RetentionAssumption, Inv, StartRollupRun
    PROVE  Inv'
<1>1. CASE /\ Goes("startRollup", "upsert")
           /\ rollupRuns' = Put(rollupRuns, RunKey, "running")
           /\ UNCHANGED <<klines, cleanupRuns, parts, deleted, late>>
  <2>1. pc = "startRollup" /\ pc' = "upsert"
        /\ UNCHANGED <<now, klines, plan, expired, parts, deleted, late>>
    BY <1>1, Zenon DEF Goes
  <2>2. AuditsOK'
    BY <1>1, <2>1, RollupAudit, Zenon DEF Statuses
  <2>3. ~DiskPressureCritical /\ parts' \in SUBSET Partitions
        /\ Item.policy.interval \in DOMAIN klineRollups
    BY <2>1, Zenon DEF Inv, PlaceOK
  <2> QED BY <2>1, <2>2, <2>3, GoesKeeps, Zenon DEF Steps
<1>2. CASE Errs("startRollup") /\ Fail
  BY <1>2, ErrorKeeps, Zenon
<1> QED BY <1>1, <1>2, Zenon DEF StartRollupRun

\* Closing the rollup job of a window keeps the invariant.
LEMMA FinishRollupKeeps ==
    ASSUME RetentionAssumption, Inv, FinishRollupRun
    PROVE  Inv'
<1>1. CASE /\ Goes("finishRollup", AfterRollup)
           /\ rollupRuns' = Put(rollupRuns, RunKey, "succeeded")
           /\ UNCHANGED <<klines, cleanupRuns, parts, deleted, late>>
  <2>1. pc = "finishRollup" /\ pc' = AfterRollup
        /\ UNCHANGED <<now, klines, plan, expired, parts, deleted, late>>
    BY <1>1, Zenon DEF Goes
  <2>2. AuditsOK'
    BY <1>1, <2>1, RollupAudit, Zenon DEF Statuses
  <2>3. ~DiskPressureCritical /\ parts' \in SUBSET Partitions
        /\ Item.policy.interval \in DOMAIN klineRollups
    BY <2>1, Zenon DEF Inv, PlaceOK
  <2>4. Item.policy.rollupBeforeDelete /\ ~Item.policy.dryRun =>
           \A k \in ClosedSource \ late : InBucket(k)
    BY <2>1, Zenon DEF Inv, RolledUp
  <2> QED BY <2>1, <2>2, <2>3, <2>4, Onwards, GoesKeeps, Zenon DEF Steps
<1>2. CASE Errs("finishRollup") /\ Fail
  BY <1>2, ErrorKeeps, Zenon
<1>3. CASE /\ Goes("failRollup", "fail")
           /\ rollupRuns' = Put(rollupRuns, RunKey, "failed")
           /\ UNCHANGED <<klines, cleanupRuns, parts, deleted, late>>
  <2>1. pc = "failRollup" /\ pc' = "fail"
        /\ UNCHANGED <<now, klines, plan, expired, parts, deleted, late>>
    BY <1>3, Zenon DEF Goes
  <2>2. AuditsOK'
    BY <1>3, <2>1, RollupAudit, Zenon DEF Statuses
  <2> QED BY <2>1, <2>2, FailKeeps, Zenon
<1>4. CASE Errs("failRollup") /\ Fail
  BY <1>4, ErrorKeeps, Zenon
<1> QED BY <1>1, <1>2, <1>3, <1>4, Zenon DEF FinishRollupRun

\* After the rollup every closed expired row is in its bucket.
LEMMA UpsertKeeps ==
    ASSUME RetentionAssumption, Inv, UpsertKlineRollup
    PROVE  Inv'
<1>1. CASE /\ Goes("upsert", "finishRollup")
           /\ klines' = Upsert(klines, Rolled)
           /\ late' = {}
           /\ UNCHANGED <<audits, parts, deleted>>
  <2>1. pc = "upsert" /\ pc' = "finishRollup" /\ late' = {}
        /\ UNCHANGED <<now, plan, expired, parts, deleted, audits>>
    BY <1>1, Zenon DEF Goes
  <2>2. ~DiskPressureCritical /\ Item.policy.interval \in DOMAIN klineRollups /\ plan # <<>>
    BY <2>1, Zenon DEF Inv, PlaceOK
  <2>3. /\ RowsOK'
        /\ \A k \in DOMAIN klines : k \in DOMAIN klines'
              /\ (k.interval = Item.policy.interval => klines'[k] = klines[k])
        /\ \A k \in DOMAIN klines' : k.interval = Item.policy.interval => k \in DOMAIN klines
        /\ \A k \in ClosedSource : /\ Bucket(k) \in DOMAIN klines'
                                   /\ klines[k].ticks \subseteq klines'[Bucket(k)].ticks
    BY <1>1, <2>1, <2>2, RollupKeepsRows, Zenon DEF Inv
  <2>4. AuditsOK' /\ PlanOK'
    <3>1. now' \in now..MaxTime
      BY <2>1, ClockStays, Zenon DEF Inv
    <3>2. PlanOK'
      BY <2>1, <3>1, PlanStays, Zenon DEF Inv
    <3> QED BY <2>1, <3>2, AuditsStay, Zenon DEF Inv
  <2>5. Item' = Item
    BY <2>1, Zenon DEF Item
  <2>6. PlaceOK'
    BY <2>1, <2>2, <2>5, Zenon DEF Inv, PlaceOK, Steps
  <2>7. BudgetOK'
    BY <2>1, <2>5, Zenon DEF Inv, BudgetOK, effectiveMaxRows
  <2>8. RolledUp'
    <3>1. ASSUME NEW k \in ClosedSource' PROVE InBucket(k)'
      <4>1. k \in DOMAIN klines' /\ k.interval = Item.policy.interval /\ k.open < Item.cutoff
            /\ klines'[k].closed
        BY <2>5, Zenon DEF ClosedSource, Eligible
      <4>2. k \in DOMAIN klines /\ klines'[k] = klines[k]
        BY <2>3, <4>1, Zenon
      <4>3. k \in ClosedSource
        BY <4>1, <4>2, Zenon DEF ClosedSource, Eligible
      <4>4. Bucket(k)' = Bucket(k)
        BY Zenon DEF Bucket
      <4> QED BY <2>3, <4>2, <4>3, <4>4, Zenon DEF InBucket
    <3> QED BY <2>2, <2>5, <3>1, Zenon DEF RolledUp
  <2>9. WorkDone'
    BY <2>1, Zenon DEF WorkDone
  <2> QED BY <2>3, <2>4, <2>6, <2>7, <2>8, <2>9, Zenon DEF Inv
<1>2. CASE Errs("upsert") /\ pc' = "failRollup" /\ UNCHANGED <<plan, parts, deleted, expired, late>>
  <2>1. pc = "upsert" /\ UNCHANGED <<now, klines, audits>>
    BY <1>2, Zenon DEF Errs
  <2>2. AuditsOK' /\ ~DiskPressureCritical /\ parts' \in SUBSET Partitions
    BY <1>2, <2>1, AuditsStay, Zenon DEF Inv, PlaceOK
  <2> QED BY <1>2, <2>1, <2>2, GoesKeeps, Zenon DEF Steps
<1> QED BY <1>1, <1>2, Zenon DEF UpsertKlineRollup

\* Listing the partitions keeps the invariant.
LEMMA PartitionsKeep ==
    ASSUME RetentionAssumption, Inv, ListEligiblePartitions
    PROVE  Inv'
<1>1. CASE /\ Goes("partitions",
                    IF EligiblePartitions(Item.cutoff) # {} /\ ~Item.policy.dryRun
                    THEN "drop" ELSE ToDelete)
           /\ parts' = EligiblePartitions(Item.cutoff)
           /\ UNCHANGED <<klines, audits, deleted, late>>
  <2>1. pc = "partitions" /\ UNCHANGED <<now, klines, plan, expired, deleted, late, audits>>
        /\ \/ pc' = "drop" /\ EligiblePartitions(Item.cutoff) # {} /\ ~Item.policy.dryRun
           \/ pc' = ToDelete
    BY <1>1, Zenon DEF Goes
  <2>2. AuditsOK' /\ ~DiskPressureCritical
    BY <2>1, AuditsStay, Zenon DEF Inv, PlaceOK
  <2>3. parts' \in SUBSET Partitions /\ parts' \in SUBSET EligiblePartitions(Item.cutoff)
    BY <1>1, Zenon DEF EligiblePartitions
  <2>4. Item.policy.rollupBeforeDelete /\ ~Item.policy.dryRun =>
           /\ Item.policy.interval \in DOMAIN klineRollups
           /\ \A k \in ClosedSource \ late : InBucket(k)
    BY <2>1, Zenon DEF Inv, RolledUp
  <2>5. Item.drop
    BY <2>1, Zenon DEF Inv, PlaceOK
  <2> QED BY <2>1, <2>2, <2>3, <2>4, <2>5, Onwards, GoesKeeps, Zenon DEF Steps
<1>2. CASE Errs("partitions") /\ Fail
  BY <1>2, ErrorKeeps, Zenon
<1> QED BY <1>1, <1>2, Zenon DEF ListEligiblePartitions

\* Dropping a partition, or failing to, keeps the invariant.
LEMMA DropKeeps ==
    ASSUME RetentionAssumption, Inv, DropPartition
    PROVE  Inv'
<1>1. ASSUME NEW t \in parts,
             Goes("drop", IF parts = {t} THEN "finish" ELSE "drop"),
             klines' = Restrict(klines, { k \in DOMAIN klines : ~(k.open \in t.from..(t.to - 1)) }),
             parts' = parts \ {t}, UNCHANGED <<audits, deleted, late>>
      PROVE  Inv'
  <2> DEFINE S == { k \in DOMAIN klines : ~(k.open \in t.from..(t.to - 1)) }
  <2>1. pc = "drop" /\ pc' \in {"drop", "finish"} /\ UNCHANGED <<now, plan, expired, deleted, late, audits>>
    BY <1>1, Zenon DEF Goes
  <2>2. Item' = Item /\ plan # <<>> /\ now' \in now..MaxTime
    BY <2>1, ClockStays, Zenon DEF Item, Inv, PlaceOK
  <2>3. RowsOK'
    <3>1. S \in SUBSET DOMAIN klines /\ DOMAIN klines' = S /\ \A k \in S : klines'[k] = klines[k]
      BY <1>1, Zenon DEF Restrict
    <3> HIDE DEF S
    <3> QED BY <2>2, <3>1, RowsStay, Zenon DEF Inv
  <2>4. AuditsOK' /\ PlanOK'
    BY <2>1, <2>2, AuditsStay, PlanStays, Zenon DEF Inv
  <2>5. PlaceOK'
    BY <1>1, <2>1, <2>2, Zenon DEF Inv, PlaceOK, Steps, EligiblePartitions, Keys
  <2>6. BudgetOK'
    BY <2>1, <2>2, Zenon DEF Inv, BudgetOK, effectiveMaxRows
  <2>7. RolledUp'
    BY <2>1, Zenon DEF RolledUp
  <2>8. WorkDone'
    BY <2>1, <2>2, Zenon DEF Inv, PlaceOK, WorkDone, EligiblePartitions
  <2> QED BY <2>3, <2>4, <2>5, <2>6, <2>7, <2>8, Zenon DEF Inv
<1>2. CASE Errs("drop") /\ Fail
  BY <1>2, ErrorKeeps, Zenon
<1> QED BY <1>1, <1>2, Zenon DEF DropPartition

\* What one round of the chunk loop takes.
LEMMA RoundOfChunks ==
    ASSUME RetentionAssumption, Inv, pc = "delete"
    PROVE  LET size == NextChunk(Item.policy)
               all  == Eligible(Item.policy, Item.cutoff)
               gone == Chunk(all, size)
           IN  /\ size \in Nat \ {0} /\ deleted + size <= effectiveMaxRows(Item.policy)
               /\ gone \in SUBSET all /\ all \in SUBSET DOMAIN klines
               /\ Cardinality(gone) \in 0..size
               /\ Cardinality(gone) < size => gone = all
<1> DEFINE size == NextChunk(Item.policy)
           all  == Eligible(Item.policy, Item.cutoff)
<1>1. effectiveMaxRows(Item.policy) \in Nat /\ Item.policy.chunkSize \in Nat \ {0}
      /\ deleted \in Nat /\ deleted < effectiveMaxRows(Item.policy)
  BY CurrentItem, Zenon DEF Inv, BudgetOK
<1>2. size \in Nat \ {0} /\ deleted + size <= effectiveMaxRows(Item.policy)
  BY <1>1 DEF NextChunk
<1>3. all \in SUBSET DOMAIN klines /\ all \in SUBSET Keys
      /\ \A k \in all : k.interval = Item.policy.interval
  BY Zenon DEF Eligible, Inv, RowsOK
<1>4. IsFiniteSet(all) /\ MaxTime \in Nat
  BY <1>3, FS_Subset, Zenon DEF Inv, RowsOK, RetentionAssumption
<1>5. \A k, l \in all : k.open = l.open => k = l
  BY <1>3 DEF Keys
<1> HIDE DEF size, all
<1>6. /\ Cardinality(Chunk(all, size)) \in 0..size
      /\ Cardinality(Chunk(all, size)) < size => Chunk(all, size) = all
  BY <1>2, <1>3, <1>4, <1>5, ChunkSize, Zenon
<1>7. Chunk(all, size) \in SUBSET all
  BY Zenon DEF Chunk
<1> QED BY <1>2, <1>3, <1>6, <1>7, Zenon DEF size, all

\* A chunk of deletes keeps the invariant: it is counted, and the last one is short.
LEMMA DeleteKeeps ==
    ASSUME RetentionAssumption, Inv, DeleteChunk
    PROVE  Inv'
<1> DEFINE size == NextChunk(Item.policy)
           all  == Eligible(Item.policy, Item.cutoff)
           gone == Chunk(all, size)
           max  == effectiveMaxRows(Item.policy)
           more == Cardinality(gone) = size /\ deleted + size < max
<1>1. CASE /\ Goes("delete", IF more THEN "delete" ELSE "finish")
           /\ klines' = Restrict(klines, DOMAIN klines \ gone)
           /\ deleted' = deleted + Cardinality(gone)
           /\ UNCHANGED <<audits, parts, late>>
  <2>1. pc = "delete" /\ UNCHANGED <<now, plan, expired, parts, late, audits>>
        /\ ((pc' = "delete" /\ more) \/ (pc' = "finish" /\ ~more))
    BY <1>1, Zenon DEF Goes
  <2>2. Item' = Item /\ plan # <<>> /\ now' \in now..MaxTime
        /\ ~Item.policy.dryRun /\ ~DiskPressureCritical
    BY <2>1, ClockStays, Zenon DEF Item, Inv, PlaceOK
  <2>3. /\ size \in Nat \ {0} /\ deleted + size <= max
        /\ gone \in SUBSET all /\ all \in SUBSET DOMAIN klines
        /\ Cardinality(gone) \in 0..size /\ (Cardinality(gone) < size => gone = all)
    BY <2>1, RoundOfChunks, Zenon
  <2>4. max \in Nat /\ deleted \in Nat /\ max' = max
    BY <2>1, <2>2, CurrentItem, Zenon DEF Inv, BudgetOK, effectiveMaxRows
  <2>5. DOMAIN klines' = DOMAIN klines \ gone
        /\ \A k \in DOMAIN klines \ gone : klines'[k] = klines[k]
    BY <1>1, Zenon DEF Restrict
  <2>6. all' = {k \in all : k \notin gone}
    BY <2>2, <2>3, <2>5, Zenon DEF Eligible
  <2>7. \A k \in all : k.interval = Item.policy.interval
    BY Zenon DEF Eligible
  <2> HIDE DEF size, max, gone
  <2>8. RowsOK' /\ AuditsOK' /\ PlanOK'
    BY <2>1, <2>2, <2>5, AuditsStay, PlanStays, RowsStay, Zenon DEF Inv
  <2>9. PlaceOK'
    BY <2>1, <2>2, Zenon DEF Inv, PlaceOK, Steps, Keys
  <2>10. deleted' \in Nat /\ deleted' <= max /\ (more => deleted' < max)
         /\ (~more => deleted' = max \/ gone = all)
    <3>1. deleted' = deleted + Cardinality(gone)
      BY <1>1, Zenon
    <3> HIDE DEF all
    <3> QED BY <2>3, <2>4, <3>1
  <2>11. BudgetOK'
    BY <2>1, <2>4, <2>10, Zenon DEF BudgetOK, max
  <2>12. RolledUp'
    <3> SUFFICES ASSUME Item.policy.rollupBeforeDelete
                 PROVE  /\ Item.policy.interval \in DOMAIN klineRollups
                        /\ \A k \in ClosedSource' \ late' : InBucket(k)'
      BY <2>2, Zenon DEF RolledUp
    <3>1. Item.policy.interval \in DOMAIN klineRollups
          /\ \A k \in ClosedSource \ late : InBucket(k)
      BY <2>1, <2>2, Zenon DEF Inv, RolledUp
    <3>2. ASSUME NEW k \in ClosedSource' \ late' PROVE InBucket(k)'
      <4>1. k \in all' /\ klines'[k].closed
        BY <2>2, Zenon DEF ClosedSource
      <4>2. k \in all /\ k \in DOMAIN klines \ gone /\ klines'[k] = klines[k]
        BY <2>3, <2>5, <2>6, <4>1, Zenon
      <4>3. k \in ClosedSource \ late
        BY <2>1, <4>1, <4>2, Zenon DEF ClosedSource
      <4>4. InBucket(k) /\ Bucket(k).interval # Item.policy.interval
        BY <3>1, <4>3, SourceInBucket, Zenon DEF Inv
      <4>5. Bucket(k) \notin gone
        BY <2>3, <2>7, <4>4, Zenon
      <4>6. Bucket(k)' = Bucket(k)
        BY Zenon DEF Bucket
      <4> QED BY <2>5, <4>2, <4>4, <4>5, <4>6, Zenon DEF InBucket
    <3> QED BY <3>1, <3>2, Zenon
  <2>13. WorkDone'
    <3> SUFFICES ASSUME ~more PROVE deleted' = max' \/ all' \subseteq late'
      BY <2>1, <2>2, Zenon DEF WorkDone, max
    <3> QED BY <2>4, <2>6, <2>10, Zenon
  <2> QED BY <2>8, <2>9, <2>11, <2>12, <2>13, Zenon DEF Inv
<1>2. CASE Errs("delete") /\ Fail
  BY <1>2, ErrorKeeps, Zenon
<1> QED BY <1>1, <1>2, Zenon DEF DeleteChunk

\* Closing the audit of an item keeps the invariant: the work is done by then.
LEMMA FinishKeeps ==
    ASSUME RetentionAssumption, Inv, FinishCleanupRun
    PROVE  Inv'
<1>1. pc \in {"finish", "fail"} /\ NextItem /\ UNCHANGED <<now, klines>>
  BY Zenon DEF FinishCleanupRun, Errs
<1>2. AuditsOK'
  <2>1. CASE UNCHANGED rollupRuns /\ \E st \in Statuses : cleanupRuns' = Put(cleanupRuns, RunKey, st)
    <3>1. \A x \in DOMAIN cleanupRuns' : x \in RunKeys /\ cleanupRuns'[x] \in Statuses
      BY <1>1, <2>1, CurrentItem, AuditPut DEF Inv, AuditsOK
    <3> QED BY <2>1, <3>1, Zenon DEF Inv, AuditsOK, RunKeys, Statuses
  <2>2. CASE UNCHANGED audits
    BY <2>2, AuditsStay, Zenon DEF Inv
  <2>3. (IF pc = "finish" THEN "succeeded" ELSE "failed") \in Statuses
    BY Zenon DEF Statuses
  <2> QED BY <2>1, <2>2, <2>3 DEF FinishCleanupRun, Errs
<1> QED BY <1>1, <1>2, NextItemKeeps, Zenon

\* Time that passes keeps the invariant: what had expired stays expired.
LEMMA TickKeeps ==
    ASSUME RetentionAssumption, Inv, Tick
    PROVE  Inv'
<1>1. UNCHANGED <<klines, audits, pc, plan, parts, deleted, expired, late>>
      /\ now' \in now..MaxTime /\ now' \in 0..MaxTime
  BY DEF Tick, engine, Inv, RowsOK, RetentionAssumption
<1>2. RowsOK' /\ PlanOK' /\ AuditsOK'
  BY <1>1, RowsStay, PlanStays, AuditsStay, Zenon DEF Inv
<1>3. Item' = Item
  BY <1>1, Zenon DEF Item
<1>4. PlaceOK' /\ BudgetOK'
  BY <1>1, <1>3 DEF Inv, PlaceOK, BudgetOK, EligiblePartitions, effectiveMaxRows, Keys
<1>5. RolledUp' /\ WorkDone'
  BY <1>1, <1>3, Zenon DEF Inv, RolledUp, WorkDone, ClosedSource, Eligible, InBucket, Bucket,
     EligiblePartitions, effectiveMaxRows
<1> QED BY <1>2, <1>4, <1>5, Zenon DEF Inv

\* A collector that stores a row during a run keeps the invariant.
LEMMA CollectKeeps ==
    ASSUME RetentionAssumption, Inv, NEW i \in Collected, NEW t \in 0..now, Collect(i, t)
    PROVE  Inv'
<1> DEFINE key == [interval |-> i, open |-> t]
<1>1. /\ RowsOK' /\ key \in Keys /\ DOMAIN klines' = DOMAIN klines \cup {key}
      /\ \A k \in DOMAIN klines \ {key} : klines'[k] = klines[k]
      /\ klines'[key].ticks = Span(key)
  BY CollectKeepsRows, Zenon DEF Inv
<1>2. UNCHANGED <<now, audits, pc, plan, parts, deleted, expired>>
      /\ late' = IF pc = "idle" THEN {} ELSE late \cup {key}
  BY Zenon DEF Collect, engine
<1> HIDE DEF key
<1>3. Item' = Item /\ now' \in now..MaxTime
  BY <1>2, ClockStays, Zenon DEF Item, Inv
<1>4. PlanOK' /\ AuditsOK'
  BY <1>2, <1>3, PlanStays, AuditsStay, Zenon DEF Inv
<1>5. PlaceOK' /\ BudgetOK'
  <2>1. late' \subseteq Keys
    BY <1>1, <1>2, Zenon DEF Inv, PlaceOK, Keys
  <2>2. PlaceOK'
    BY <1>2, <1>3, <2>1, Zenon DEF Inv, PlaceOK, EligiblePartitions, Keys
  <2>3. BudgetOK'
    BY <1>2, <1>3, Zenon DEF Inv, BudgetOK, effectiveMaxRows
  <2> QED BY <2>2, <2>3, Zenon
<1>6. \A k \in DOMAIN klines' : k \notin late' /\ pc # "idle" =>
          k # key /\ k \notin late /\ k \in DOMAIN klines /\ klines'[k] = klines[k]
  BY <1>1, <1>2, Zenon
<1>7. RolledUp'
  <2> SUFFICES ASSUME pc \in {"finishRollup", "partitions", "delete"},
                      Item.policy.rollupBeforeDelete, ~Item.policy.dryRun
               PROVE  /\ Item.policy.interval \in DOMAIN klineRollups
                      /\ \A k \in ClosedSource' \ late' : InBucket(k)'
    BY <1>2, <1>3, Zenon DEF RolledUp
  <2>1. Item.policy.interval \in DOMAIN klineRollups
        /\ \A k \in ClosedSource \ late : InBucket(k)
    BY Zenon DEF Inv, RolledUp
  <2>2. ASSUME NEW k \in ClosedSource' \ late' PROVE InBucket(k)'
    <3>1. k \in DOMAIN klines' /\ k.interval = Item.policy.interval /\ k.open < Item.cutoff
          /\ klines'[k].closed
      BY <1>3, Zenon DEF ClosedSource, Eligible
    <3>2. k # key /\ k \notin late /\ k \in DOMAIN klines /\ klines'[k] = klines[k]
      BY <1>6, <3>1, Zenon
    <3>3. k \in ClosedSource \ late
      BY <3>1, <3>2, Zenon DEF ClosedSource, Eligible
    <3>4. InBucket(k) /\ klines[k].ticks \subseteq Span(Bucket(k)) /\ Bucket(k)' = Bucket(k)
      BY <2>1, <3>3, SourceInBucket, Zenon DEF Inv, Bucket
    <3>5. CASE Bucket(k) = key
      BY <1>1, <3>2, <3>4, <3>5, Zenon DEF InBucket
    <3>6. CASE Bucket(k) # key
      BY <1>1, <3>2, <3>4, <3>6, Zenon DEF InBucket
    <3> QED BY <3>5, <3>6, Zenon
  <2> QED BY <2>1, <2>2, Zenon
<1>8. WorkDone'
  <2>1. pc = "finish" => Eligible(Item.policy, Item.cutoff)'
                            \subseteq Eligible(Item.policy, Item.cutoff) \cup {key}
    BY <1>1, <1>3, Zenon DEF Eligible
  <2>2. pc = "finish" => late' = late \cup {key}
    BY <1>2, Zenon
  <2>3. effectiveMaxRows(Item.policy)' = effectiveMaxRows(Item.policy)
        /\ EligiblePartitions(Item.cutoff)' = EligiblePartitions(Item.cutoff)
    BY <1>3, Zenon DEF effectiveMaxRows, EligiblePartitions
  <2> QED BY <1>2, <1>3, <2>1, <2>2, <2>3, Zenon DEF Inv, WorkDone
<1> QED BY <1>1, <1>4, <1>5, <1>7, <1>8, Zenon DEF Inv

\* Planning a run, whatever enumeration of the policies the query gives, keeps the invariant.
LEMMA RunOnceKeeps ==
    ASSUME RetentionAssumption, Inv, RunOnce
    PROVE  Inv'
<1>1. /\ UNCHANGED <<now, klines, audits>> /\ pc' = "start" /\ parts' = {} /\ deleted' = 0
      /\ late' = {}
  BY Zenon DEF RunOnce
<1>2. PICK table \in Tables :
         /\ Enabled(table) # {} /\ \A p \in Enabled(table) : ValidatePolicy(p)
         /\ \E order \in Orders(table) : plan' = PlanFor(order, now)
  BY Zenon DEF RunOnce
<1>2a. PICK order \in Orders(table) : plan' = PlanFor(order, now)
  BY <1>2, Zenon
<1>3. Enabled(table) \in SUBSET table /\ table \in SUBSET Policies /\ IsFiniteSet(Enabled(table))
      /\ Cardinality(Enabled(table)) \in Nat /\ Cardinality(Enabled(table)) # 0
  <2>1. Enabled(table) \in SUBSET table /\ table \in SUBSET Policies /\ IsFiniteSet(table)
    BY Zenon DEF Enabled, RetentionAssumption
  <2>2. IsFiniteSet(Enabled(table))
    BY <2>1, FS_Subset, Zenon
  <2> QED BY <1>2, <2>1, <2>2, FS_EmptySet, FS_CardinalityType
<1>4. order \in [1..Cardinality(Enabled(table)) -> Enabled(table)]
  BY Zenon DEF Orders
<1>5. now \in Nat
  BY DEF Inv, RowsOK, RetentionAssumption
<1>6. ASSUME NEW n \in 1..Cardinality(Enabled(table))
      PROVE  /\ plan'[n] \in Items /\ ValidatePolicy(plan'[n].policy)
             /\ plan'[n].cutoff + plan'[n].policy.retentionDays <= now
  <2> DEFINE p == order[n]
  <2>1. p \in Enabled(table) /\ p \in Enabled(Policies) /\ p.retentionDays \in Int
    BY <1>3, <1>4, Zenon DEF Enabled, RetentionAssumption
  <2>2. plan'[n] = [policy |-> p, cutoff |-> now - p.retentionDays, drop |-> shouldUsePartitionDrop(p)]
    BY <1>2a, <1>4, Zenon DEF PlanFor
  <2>3. shouldUsePartitionDrop(p) \in BOOLEAN
    BY Zenon DEF shouldUsePartitionDrop
  <2>4. now - p.retentionDays \in Int /\ (now - p.retentionDays) + p.retentionDays <= now
    BY <1>5, <2>1
  <2> HIDE DEF p
  <2>5. plan'[n] \in Items
    <3> DEFINE cutoff == now - p.retentionDays
               drop == shouldUsePartitionDrop(p)
    <3>1. p \in Enabled(Policies) /\ cutoff \in Int /\ drop \in BOOLEAN
          /\ plan'[n] = [policy |-> p, cutoff |-> cutoff, drop |-> drop]
      BY <2>1, <2>2, <2>3, <2>4, Zenon
    <3> HIDE DEF cutoff, drop
    <3> QED BY <3>1 DEF Items
  <2> QED BY <1>2, <2>1, <2>2, <2>4, <2>5
<1>7. plan' \in Seq(Items) /\ Len(plan') = Cardinality(Enabled(table)) /\ plan' # <<>>
  <2>1. plan' \in [1..Cardinality(Enabled(table)) -> Items]
    BY <1>2a, <1>4, <1>6, Zenon DEF PlanFor
  <2> QED BY <1>3, <2>1
<1>8. RowsOK' /\ AuditsOK'
  BY <1>1, TableStays, AuditsStay, Zenon DEF Inv
<1>9. PlanOK'
  BY <1>1, <1>6, <1>7, Zenon DEF PlanOK, Items, Enabled
<1>10. expired' \in BOOLEAN
  BY Zenon DEF RunOnce
<1>11. PlaceOK'
  BY <1>1, <1>7, <1>10, Zenon DEF PlaceOK, Steps
<1>12. BudgetOK'
  <2>1. Item' = plan'[1] /\ plan'[1] \in Items /\ 1 \in 1..Cardinality(Enabled(table))
    BY <1>3, <1>7 DEF Item
  <2>2. Item'.policy \in Policies /\ ValidatePolicy(Item'.policy)
    BY <1>6, <2>1, Zenon DEF Items, Enabled
  <2>3. effectiveMaxRows(Item'.policy) \in Nat
    BY <2>2, MaxRows, Zenon
  <2>4. effectiveMaxRows(Item.policy)' = effectiveMaxRows(Item'.policy)
    BY Zenon DEF effectiveMaxRows
  <2> QED BY <1>1, <2>3, <2>4 DEF BudgetOK
<1>13. RolledUp' /\ WorkDone'
  BY <1>1 DEF RolledUp, WorkDone
<1> QED BY <1>8, <1>9, <1>11, <1>12, <1>13 DEF Inv

\* A run cut off by its context keeps the invariant.
LEMMA TimeoutKeeps ==
    ASSUME RetentionAssumption, Inv, Timeout
    PROVE  Inv'
<1>1. UNCHANGED <<now, klines, audits, pc, plan, parts, deleted, late>> /\ expired' = TRUE
  BY Zenon DEF Timeout
<1>2. RowsOK' /\ PlanOK' /\ AuditsOK'
  BY <1>1, TableStays, PlanStays, AuditsStay DEF Inv
<1>3. Item' = Item
  BY <1>1, Zenon DEF Item
<1>4. expired' \in BOOLEAN
  BY <1>1, Zenon
<1>5. PlaceOK' /\ BudgetOK'
  BY <1>1, <1>3, <1>4 DEF Inv, PlaceOK, BudgetOK, EligiblePartitions, effectiveMaxRows, Keys
<1>6. RolledUp' /\ WorkDone'
  BY <1>1, <1>3, Zenon DEF Inv, RolledUp, WorkDone, ClosedSource, Eligible, InBucket, Bucket,
     EligiblePartitions, effectiveMaxRows
<1> QED BY <1>2, <1>5, <1>6, Zenon DEF Inv

\* A process that dies in the middle of a run keeps the invariant.
LEMMA CrashKeeps ==
    ASSUME RetentionAssumption, Inv, Crash
    PROVE  Inv'
<1>1. /\ UNCHANGED <<now, klines, audits>> /\ pc' = "idle" /\ plan' = <<>> /\ parts' = {}
      /\ deleted' = 0 /\ late' = {}
  BY Zenon DEF Crash
<1>2. expired' \in BOOLEAN
  BY Zenon DEF Crash
<1>3. RowsOK' /\ AuditsOK'
  BY <1>1, TableStays, AuditsStay, Zenon DEF Inv
<1>4. PlanOK'
  BY <1>1 DEF PlanOK
<1>5. PlaceOK'
  BY <1>1, <1>2, Zenon DEF PlaceOK, Steps
<1>6. BudgetOK' /\ RolledUp' /\ WorkDone'
  BY <1>1, Zenon DEF BudgetOK, RolledUp, WorkDone
<1> QED BY <1>3, <1>4, <1>5, <1>6, Zenon DEF Inv

\* Every statement of a run, failing or not, every collector, the clock, a
\* timeout and a crash keep the invariant.
LEMMA InvStep ==
    ASSUME RetentionAssumption
    PROVE  Inv /\ [Next]_vars => Inv'
<1> SUFFICES ASSUME Inv, [Next]_vars PROVE Inv'
  BY Zenon
<1>1. CASE Step
  BY <1>1, StartKeeps, CountKeeps, WindowKeeps, StartRollupKeeps, UpsertKeeps, FinishRollupKeeps,
     PartitionsKeep, DropKeeps, DeleteKeeps, FinishKeeps DEF Step
<1>2. CASE UNCHANGED vars
  <2>1. UNCHANGED <<now, klines, audits, pc, plan, parts, deleted, expired, late>>
    BY <1>2, Zenon DEF vars, engine
  <2>2. RowsOK' /\ PlanOK' /\ AuditsOK' /\ Item' = Item
    BY <2>1, TableStays, PlanStays, AuditsStay DEF Inv, Item
  <2>3. PlaceOK' /\ BudgetOK'
    BY <2>1, <2>2 DEF Inv, PlaceOK, BudgetOK, EligiblePartitions, effectiveMaxRows, Keys
  <2>4. RolledUp' /\ WorkDone'
    BY <2>1, <2>2, Zenon DEF Inv, RolledUp, WorkDone, ClosedSource, Eligible, InBucket, Bucket,
       EligiblePartitions, effectiveMaxRows
  <2> QED BY <2>2, <2>3, <2>4, Zenon DEF Inv
<1> QED BY <1>1, <1>2, TickKeeps, CollectKeeps, RunOnceKeeps, TimeoutKeeps, CrashKeeps DEF Next

-----------------------------------------------------------------------------
\* Types hold: klines, audit rows and the plan are what the tables and the
\* planner say (planner.go:13-46, models.go:8-34).
THEOREM RetentionTypeCorrect ==
    ASSUME RetentionAssumption
    PROVE  Spec => []TypeOK
<1>1. Inv => TypeOK
  BY Zenon DEF Inv, RowsOK, AuditsOK, PlaceOK, BudgetOK, TypeOK
<1> QED BY <1>1, InvInit, InvStep, PTL DEF Spec

\* The steps that remove klines are a dropped partition and a chunk, and they
\* remove only what has expired.
LEMMA OnlyExpiredGo ==
    ASSUME RetentionAssumption, Inv, Next, NEW k \in DOMAIN klines, k \notin DOMAIN klines'
    PROVE  /\ pc \in {"drop", "delete"} /\ k.open < Item.cutoff
           /\ pc = "delete" => k \in Eligible(Item.policy, Item.cutoff)
<1>1. CASE DropPartition
  <2>1. pc = "drop"
    BY <1>1, Zenon DEF DropPartition, Goes, Errs
  <2>2. PICK t \in parts : klines' = Restrict(klines, { l \in DOMAIN klines :
                                                  ~(l.open \in t.from..(t.to - 1)) })
    BY <1>1, Zenon DEF DropPartition, Errs
  <2>3. k.open \in t.from..(t.to - 1)
    BY <2>2 DEF Restrict
  <2>4. t.to <= Item.cutoff /\ t.from \in Int /\ t.to \in Int
    BY <2>1 DEF Inv, PlaceOK, EligiblePartitions, RetentionAssumption
  <2>5. Item.cutoff \in Int
    BY <2>1, CurrentItem, Zenon
  <2> QED BY <2>1, <2>3, <2>4, <2>5
<1>2. CASE DeleteChunk
  <2>1. pc = "delete"
    BY <1>2, Zenon DEF DeleteChunk, Goes, Errs
  <2>2. klines' = Restrict(klines, DOMAIN klines \ Chunk(Eligible(Item.policy, Item.cutoff),
                                                        NextChunk(Item.policy)))
    BY <1>2, Zenon DEF DeleteChunk, Errs
  <2>3. k \in Eligible(Item.policy, Item.cutoff)
    BY <2>2, Zenon DEF Restrict, Chunk
  <2> QED BY <2>1, <2>3, Zenon DEF Eligible
<1>3. CASE UpsertKlineRollup
  BY <1>3, Zenon DEF UpsertKlineRollup, Upsert, Errs
<1>4. ASSUME NEW i \in Collected, NEW t \in 0..now, Collect(i, t) PROVE FALSE
  BY <1>4, Zenon DEF Collect, Put, Upsert
<1>5. CASE Tick \/ RunOnce \/ Timeout \/ Crash \/ StartCleanupRun \/ CountEligible
           \/ KlineRollupWindow \/ StartRollupRun \/ FinishRollupRun
           \/ ListEligiblePartitions \/ FinishCleanupRun
  BY <1>5, Zenon DEF Tick, RunOnce, Timeout, Crash, StartCleanupRun, CountEligible, KlineRollupWindow,
     StartRollupRun, FinishRollupRun, ListEligiblePartitions, FinishCleanupRun, Errs
<1> QED BY <1>1, <1>2, <1>3, <1>4, <1>5 DEF Next, Step

\* No kline is lost but to the policy at work, which was enabled when its run read
\* it, has kept the kline for its days, is no dry run and does not run under disk
\* pressure, and a chunk takes klines of the policy's own interval only
\* (sql.go:43-51, store.go:131-137, engine.go:111-113).
THEOREM RetentionScoped ==
    ASSUME RetentionAssumption
    PROVE  Spec => PolicyScoped
<1>1. Inv /\ [Next]_vars => [InScope]_vars
  <2> SUFFICES ASSUME Inv, Next, NEW k \in DOMAIN klines, k \notin DOMAIN klines'
               PROVE  /\ ~DiskPressureCritical
                      /\ Item.policy.enabled /\ ~Item.policy.dryRun
                      /\ k.open + Item.policy.retentionDays < now
                      /\ pc = "delete" => Item.policy.interval = k.interval
    BY Zenon DEF InScope, Removed
  <2>1. pc \in {"drop", "delete"} /\ k.open < Item.cutoff
        /\ (pc = "delete" => Item.policy.interval = k.interval)
    BY OnlyExpiredGo, Zenon DEF Eligible
  <2>2. ~DiskPressureCritical /\ ~Item.policy.dryRun
    BY <2>1, Zenon DEF Inv, PlaceOK
  <2>3. Item.policy \in Policies /\ Item.policy.enabled /\ Item.policy.retentionDays \in Int
        /\ Item.cutoff \in Int /\ Item.cutoff + Item.policy.retentionDays <= now
    BY <2>1, CurrentItem, Zenon DEF Enabled
  <2>4. now \in Int /\ k.open \in Int
    BY DEF Inv, RowsOK, Keys
  <2>5. k.open + Item.policy.retentionDays < now
    BY <2>1, <2>3, <2>4
  <2> QED BY <2>1, <2>2, <2>3, <2>5
<1> QED BY <1>1, InvInit, InvStep, PTL DEF Spec, PolicyScoped

\* A closed kline that was there for its run's rollup is counted in a kline of
\* the coarser interval when a chunk takes it, whatever failed, timed out or was
\* collected in between (engine.go:117-124, 164; rollup.go:104-149).
THEOREM RetentionCounted ==
    ASSUME RetentionAssumption
    PROVE  Spec => CountedWhenRemoved
<1>1. Inv /\ [Next]_vars => [Counted]_vars
  <2> SUFFICES ASSUME Inv, Next, NEW k \in DOMAIN klines, k \notin DOMAIN klines', pc = "delete",
                      klines[k].closed, k \notin late, Item.policy.rollupBeforeDelete
               PROVE  \E b \in DOMAIN klines : /\ b.interval = klineRollups[k.interval]
                                               /\ klines[k].ticks \subseteq klines[b].ticks
    BY Zenon DEF Counted, Removed
  <2>1. k \in Eligible(Item.policy, Item.cutoff)
    BY OnlyExpiredGo, Zenon
  <2>2. k \in ClosedSource \ late
    BY <2>1, Zenon DEF ClosedSource
  <2>3. InBucket(k)
    BY <2>2, Zenon DEF Inv, PlaceOK, RolledUp
  <2>4. Bucket(k).interval = klineRollups[k.interval]
    BY Zenon DEF Bucket
  <2> QED BY <2>3, <2>4, Zenon DEF InBucket
<1> QED BY <1>1, InvInit, InvStep, PTL DEF Spec, CountedWhenRemoved

\* No run deletes more rows than its budget, and one marked as succeeded has
\* dropped partitions, used its budget up or left nothing expired but what came
\* in while it ran (engine.go:126-179).
THEOREM RetentionDone ==
    ASSUME RetentionAssumption
    PROVE  Spec => SucceededMeansDone
<1>1. Inv => WithinRowBudget
  BY Zenon DEF Inv, BudgetOK, WithinRowBudget
<1>2. Inv /\ [Next]_vars => [Done]_vars
  <2> SUFFICES ASSUME Inv, Next, NEW r \in DOMAIN cleanupRuns', cleanupRuns'[r] = "succeeded",
                      r \notin DOMAIN cleanupRuns \/ cleanupRuns[r] # "succeeded",
                      ~Item.policy.dryRun
               PROVE  \/ Item.drop /\ EligiblePartitions(Item.cutoff) # {}
                      \/ deleted = effectiveMaxRows(Item.policy)
                      \/ Eligible(Item.policy, Item.cutoff) \subseteq late
    BY Zenon DEF Done
  <2>1. cleanupRuns' # cleanupRuns
    BY Zenon
  <2>2. CASE StartCleanupRun
    BY <2>2, Zenon DEF StartCleanupRun, Errs, audits, Put, Upsert
  <2>3. CASE FinishCleanupRun
    <3>1. pc = "finish"
      BY <2>3, Zenon DEF FinishCleanupRun, Errs, audits, Put, Upsert
    <3> QED BY <3>1, Zenon DEF Inv, WorkDone
  <2>4. ASSUME NEW i \in Collected, NEW t \in 0..now, Collect(i, t) PROVE FALSE
    BY <2>1, <2>4 DEF Collect, audits
  <2>5. CASE Tick \/ RunOnce \/ Timeout \/ Crash \/ CountEligible
             \/ KlineRollupWindow \/ StartRollupRun \/ UpsertKlineRollup \/ FinishRollupRun
             \/ ListEligiblePartitions \/ DropPartition \/ DeleteChunk
    BY <2>1, <2>5, Zenon DEF Tick, RunOnce, Timeout, Crash, CountEligible, KlineRollupWindow,
       StartRollupRun, UpsertKlineRollup, FinishRollupRun, ListEligiblePartitions, DropPartition,
       DeleteChunk, Errs, audits
  <2> QED BY <2>2, <2>3, <2>4, <2>5, Zenon DEF Next, Step
<1> QED BY <1>1, <1>2, InvInit, InvStep, PTL DEF Spec, SucceededMeansDone
=============================================================================
