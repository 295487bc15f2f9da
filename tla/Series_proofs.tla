--------------------------- MODULE Series_proofs ---------------------------
(***************************************************************************)
(* Proofs about the tables of a series: the aggregated snapshots, for any  *)
(* exchanges, windows, ages and retries, and the gap detectors over the    *)
(* candles, for any interval and lookback.  The detectors work on tables   *)
(* and with a clock of their own.                                          *)
(***************************************************************************)
EXTENDS Aggregates, DataGaps, FiniteSetTheorems, WellFoundedInduction, TLAPS

\* A set of integers that is bounded has a greatest element: the distances from
\* the bound have a least one.
LEMMA Greatest ==
    ASSUME NEW S \in SUBSET Int, S # {}, NEW b \in Int, \A s \in S : s <= b
    PROVE  Max(S) \in S /\ \A s \in S : s <= Max(S)
<1> DEFINE T == {b - s : s \in S}
<1> DEFINE R == OpToRel(<, Nat)
<1>0. \A s \in S : s \in Int /\ b - s \in Nat
  OBVIOUS
<1>1. T \in SUBSET Nat /\ T # {}
  BY <1>0, Zenon
<1>2. IsWellFoundedOn(R, Nat)
  BY NatLessThanWellFounded, Zenon
<1>3. \A x, y \in Nat : x < y => <<x, y>> \in R
  BY Zenon DEF OpToRel
<1>4. \E n \in T : \A m \in T : n <= m
  <2> HIDE DEF T, R
  <2>1. PICK x \in T : \A y \in T : ~(<<y, x>> \in R)
    BY <1>1, <1>2, WFMin, Zenon
  <2>2. \A y \in T : ~(y < x)
    BY <1>1, <1>3, <2>1, Zenon
  <2> QED BY <1>1, <2>2
<1>5. \E x \in S : \A y \in S : x >= y
  <2>1. PICK x \in S : \A y \in S : b - x <= b - y
    BY <1>4, Zenon
  <2> QED BY <1>0, <2>1
<1> QED BY <1>5, Zenon DEF Max

-----------------------------------------------------------------------------
(* The gap detectors. *)

\* Candles open at multiples of the interval, and the rest is typed.
GapsInv ==
    /\ GapsTypeOK /\ LongHolesRecorded
    /\ checked \in BOOLEAN
    /\ \A t \in klines : t % Interval = 0

\* Between two candles that are at most two intervals apart there is room for
\* one candle.
LEMMA RoomForOne ==
    ASSUME DataGapsAssumption, NEW u \in Nat, NEW v \in Nat,
           u % Interval = 0, v - u <= 2 * Interval
    PROVE  \A s, t \in Between(u, v) : s = t
<1>1. ASSUME NEW t \in Between(u, v) PROVE t = u + Interval
  <2>1. t \in Nat /\ u < t /\ t < v /\ t % Interval = 0
    BY DEF Between
  <2>2. t - u < 2 * Interval /\ Interval \in Nat \ {0}
    BY <2>1 DEF DataGapsAssumption
  <2>3. PICK m \in Nat : t = m * Interval
    <3>1. \A x \in Nat, i \in Nat \ {0} : x % i = 0 => x = (x \div i) * i /\ x \div i \in Nat
      OBVIOUS
    <3> QED BY <2>1, <2>2, <3>1, Zenon
  <2>4. PICK n \in Nat : u = n * Interval
    <3>1. \A x \in Nat, i \in Nat \ {0} : x % i = 0 => x = (x \div i) * i /\ x \div i \in Nat
      OBVIOUS
    <3> QED BY <2>2, <3>1, Zenon
  <2>5. m = n + 1
    <3>1. \A x, y \in Nat, i \in Nat \ {0} :
             (y * i < x * i /\ x * i < y * i + 2 * i) => x = y + 1
      OBVIOUS
    <3> QED BY <2>1, <2>2, <2>3, <2>4, <3>1
  <2>6. \A y \in Nat, i \in Nat : (y + 1) * i = y * i + i
    OBVIOUS
  <2> QED BY <2>2, <2>3, <2>4, <2>5, <2>6, Zenon
<1> QED BY <1>1, Zenon

\* LAG gives the nearest candle before: the query sees none in between.
LEMMA NothingInside ==
    ASSUME DataGapsAssumption, GapsInv, NEW t \in Seen, NEW p \in LAG(t), NEW u \in klines, p < u, u < t
    PROVE  FALSE
<1>1. p \in Seen /\ p < t /\ \A v \in Seen : v < t => v <= p
  BY Zenon DEF LAG
<1>2. clock \in Nat /\ klines \subseteq 0..clock
  BY DEF GapsInv, GapsTypeOK
<1>3. u \in Seen
  BY <1>1, <1>2 DEF Seen, DataGapsAssumption
<1> QED BY <1>1, <1>2, <1>3 DEF Seen

\* The newest value of a table that is not empty.
LEMMA NewestObserved ==
    ASSUME GapsInv, observed # {}
    PROVE  Max(observed) \in observed /\ \A t \in observed : t <= Max(observed)
<1>1. observed \subseteq 0..clock /\ clock \in Nat
  BY DEF GapsInv, GapsTypeOK
<1>2. Max(observed) \in observed /\ \A t \in observed : t <= Max(observed)
  <2>1. observed \in SUBSET Int /\ \A t \in observed : t <= clock
    BY <1>1
  <2>2. clock \in Int
    BY <1>1
  <2> QED BY <2>1, <2>2, Greatest, Zenon
<1> QED BY <1>2, Zenon

\* The tables are empty and nothing is recorded.
LEMMA GapsStart ==
    ASSUME DataGapsAssumption, GapsInit
    PROVE  GapsInv
<1>1. GapsTypeOK /\ \A t \in klines : t % Interval = 0
  BY DEF DataGapsAssumption, GapsInit, GapsTypeOK
<1>2. LongHolesRecorded /\ checked \in BOOLEAN
  BY Zenon DEF GapsInit, LongHolesRecorded
<1> QED BY <1>1, <1>2, Zenon DEF GapsInv

\* What the two detectors insert: gaps of the past, each over a stretch that the
\* table it looked at has nothing in.
LEMMA InsertedGaps ==
    ASSUME DataGapsAssumption, GapsInv
    PROVE  /\ \A g \in KlineGaps :
                 /\ g.detector = "kline" /\ g.end \in 0..clock /\ g.start \in 0..g.end
                 /\ \A t \in (g.start + 1)..(g.end - 1) : t \notin klines
           /\ Stale => LET newest == Max(observed)
                            IN  newest \in 0..clock /\ \A t \in (newest + 1)..(clock - 1) : t \notin observed
<1>0. clock \in Nat /\ klines \subseteq 0..clock /\ observed \subseteq 0..clock
  BY DEF GapsInv, GapsTypeOK
<1>1. ASSUME NEW g \in KlineGaps
      PROVE  /\ g.detector = "kline" /\ g.end \in 0..clock /\ g.start \in 0..g.end
             /\ \A t \in (g.start + 1)..(g.end - 1) : t \notin klines
  <2>1. PICK p \in Seen, t \in Seen : p \in LAG(t) /\ g = Gap("kline", p, t)
    BY Zenon DEF KlineGaps
  <2>2. p \in klines /\ t \in klines /\ p < t
    BY <2>1, Zenon DEF LAG, Seen
  <2>3. g.detector = "kline" /\ g.start = p /\ g.end = t
    BY <2>1, Zenon DEF Gap
  <2>4. p \in 0..clock /\ t \in 0..clock
    BY <1>0, <2>2, Zenon
  <2>5. ASSUME NEW u \in (p + 1)..(t - 1), u \in klines PROVE FALSE
    <3>1. p < u /\ u < t
      BY <2>4
    <3> QED BY <2>1, <2>5, <3>1, NothingInside, Zenon
  <2> QED BY <1>0, <2>2, <2>3, <2>4, <2>5
<1>2. ASSUME Stale
      PROVE  LET newest == Max(observed)
             IN  newest \in 0..clock /\ \A t \in (newest + 1)..(clock - 1) : t \notin observed
  <2>1. Max(observed) \in observed /\ \A t \in observed : t <= Max(observed)
    BY <1>2, NewestObserved, Zenon DEF Stale
  <2> DEFINE newest == Max(observed)
  <2> HIDE DEF newest
  <2>2. newest \in observed /\ \A t \in observed : t <= newest
    BY <2>1, Zenon DEF newest
  <2>3. newest \in 0..clock /\ \A t \in (newest + 1)..(clock - 1) : t \notin observed
    BY <1>0, <2>2
  <2> QED BY <2>3, Zenon DEF newest
<1> QED BY <1>1, <1>2, Zenon

\* A long hole between two candles the query sees is one of the gaps it inserts.
LEMMA LongHoleFound ==
    ASSUME DataGapsAssumption, GapsInv, NEW u \in Seen, NEW v \in Seen,
           Between(u, v) \cap klines = {}, \E s, t \in Between(u, v) : s # t
    PROVE  Gap("kline", u, v) \in KlineGaps
<1>1. u \in Nat /\ v \in Nat /\ u \in klines /\ u % Interval = 0
  BY DEF GapsInv, GapsTypeOK, Seen
<1>2. v - u > 2 * Interval /\ Interval \in Nat \ {0}
  BY <1>1, RoomForOne DEF DataGapsAssumption
<1>3. u < v
  BY <1>1, <1>2
<1>4. ASSUME NEW w \in Seen, w < v PROVE w <= u
  <2>1. w \in klines /\ w \in Nat /\ w % Interval = 0
    BY DEF GapsInv, GapsTypeOK, Seen
  <2>2. u < w => w \in Between(u, v)
    BY <1>1, <1>4, <2>1 DEF Between
  <2> QED BY <1>1, <2>1, <2>2
<1>5. u \in LAG(v) /\ TooFar(u, v)
  BY <1>2, <1>3, <1>4, Zenon DEF LAG, TooFar
<1>6. <<u, v>> \in {r \in Seen \X Seen : r[1] \in LAG(r[2]) /\ TooFar(r[1], r[2])}
  BY <1>5, Zenon
<1> QED BY <1>6 DEF KlineGaps

\* Rows that arrive, in any order, and the detectors keep the invariant, and no
\* detector records a gap over a row.
LEMMA GapsStep ==
    ASSUME DataGapsAssumption, GapsInv, [GapsNext]_gapVars
    PROVE  GapsInv' /\ NewGapsAreReal
<1>0. /\ clock \in 0..MaxClock /\ klines \subseteq 0..clock /\ observed \subseteq 0..clock
      /\ MaxClock \in Nat /\ Interval \in Nat \ {0}
      /\ \A g \in data_gaps : g.detector \in {"kline", "stale"} /\ g.end \in 0..clock /\ g.start \in 0..g.end
      /\ \A t \in klines : t % Interval = 0
  BY Zenon DEF GapsInv, GapsTypeOK, DataGapsAssumption
<1>1. CASE GapsTick
  <2>1. clock' = clock + 1 /\ clock < MaxClock /\ checked' = FALSE /\ UNCHANGED <<klines, observed, data_gaps>>
    BY <1>1, Zenon DEF GapsTick
  <2>2. GapsTypeOK' /\ \A t \in klines' : t % Interval = 0
    <3>1. 0..clock \subseteq 0..clock' /\ clock' \in 0..MaxClock
      BY <1>0, <2>1
    <3>2. \A g \in data_gaps' : g.detector \in {"kline", "stale"} /\ g.end \in 0..clock /\ g.start \in 0..g.end'
      BY <1>0, <2>1, Zenon
    <3> QED BY <1>0, <2>1, <3>1, <3>2, Zenon DEF GapsTypeOK
  <2>3. LongHolesRecorded' /\ checked' \in BOOLEAN
    BY <2>1, Zenon DEF LongHolesRecorded
  <2> QED BY <2>1, <2>2, <2>3, Zenon DEF GapsInv, NewGapsAreReal
<1>2. ASSUME NEW t \in 0..clock, StoreKline(t) PROVE GapsInv' /\ NewGapsAreReal
  <2>1. /\ t % Interval = 0 /\ klines' = klines \cup {t} /\ checked' = FALSE
        /\ UNCHANGED <<clock, observed, data_gaps>>
    BY <1>2, Zenon DEF StoreKline
  <2>2. GapsTypeOK' /\ \A u \in klines' : u % Interval = 0
    BY <1>0, <2>1, Zenon DEF GapsTypeOK
  <2>3. LongHolesRecorded' /\ checked' \in BOOLEAN
    BY <2>1, Zenon DEF LongHolesRecorded
  <2> QED BY <2>1, <2>2, <2>3, Zenon DEF GapsInv, NewGapsAreReal
<1>3. ASSUME NEW t \in {clock - 1, clock} \cap Nat, StoreLatest(t) PROVE GapsInv' /\ NewGapsAreReal
  <2>1. observed' = observed \cup {t} /\ UNCHANGED <<clock, klines, data_gaps, checked>>
    BY <1>3, Zenon DEF StoreLatest
  <2>2. GapsTypeOK' /\ \A u \in klines' : u % Interval = 0
    BY <1>0, <2>1 DEF GapsTypeOK
  <2>3. LongHolesRecorded' /\ checked' \in BOOLEAN
    BY <2>1, Zenon DEF GapsInv, LongHolesRecorded, Seen
  <2> QED BY <2>1, <2>2, <2>3, Zenon DEF GapsInv, NewGapsAreReal
<1>4. CASE InsertKlineGaps
  <2>1. data_gaps' = data_gaps \cup KlineGaps /\ checked' = TRUE /\ UNCHANGED <<clock, klines, observed>>
    BY <1>4, Zenon DEF InsertKlineGaps
  <2>2. GapsTypeOK' /\ \A u \in klines' : u % Interval = 0
    BY <1>0, <2>1, InsertedGaps, Zenon DEF GapsTypeOK
  <2>3. LongHolesRecorded'
    <3>1. Seen' = Seen
      BY <2>1, Zenon DEF Seen
    <3>2. \A u, v : Between(u, v)' = Between(u, v) /\ Gap("kline", u, v)' = Gap("kline", u, v)
      BY Zenon DEF Between, Gap
    <3>3. ASSUME NEW u \in Seen, NEW v \in Seen,
                 Between(u, v) \cap klines' = {}, \E s, t \in Between(u, v) : s # t
          PROVE  Gap("kline", u, v) \in data_gaps'
      BY <2>1, <3>3, LongHoleFound, Zenon
    <3> QED BY <3>1, <3>2, <3>3, Zenon DEF LongHolesRecorded
  <2>4. checked' \in BOOLEAN
    BY <2>1, Zenon
  <2>5. NewGapsAreReal
    BY <2>1, InsertedGaps, Zenon DEF NewGapsAreReal
  <2> QED BY <2>2, <2>3, <2>4, <2>5, Zenon DEF GapsInv
<1>5. CASE InsertStaleLatestGaps
  <2> DEFINE newest == Max(observed)
  <2> DEFINE g == Gap("stale", newest, clock)
  <2>1. data_gaps' = data_gaps \cup {g} /\ UNCHANGED <<clock, klines, observed, checked>> /\ Stale
    BY <1>5, Zenon DEF InsertStaleLatestGaps
  <2>2. newest \in 0..clock /\ \A t \in (newest + 1)..(clock - 1) : t \notin observed
    BY <2>1, InsertedGaps, Zenon
  <2>3. g.detector = "stale" /\ g.start = newest /\ g.end = clock
    BY Zenon DEF Gap
  <2> HIDE DEF g, newest
  <2>4. GapsTypeOK' /\ \A u \in klines' : u % Interval = 0
    BY <1>0, <2>1, <2>2, <2>3 DEF GapsTypeOK
  <2>5. LongHolesRecorded' /\ checked' \in BOOLEAN
    BY <2>1, Zenon DEF GapsInv, LongHolesRecorded, Seen
  <2>6. NewGapsAreReal
    BY <2>1, <2>2, <2>3, Zenon DEF NewGapsAreReal
  <2> QED BY <2>4, <2>5, <2>6, Zenon DEF GapsInv
<1>6. CASE UNCHANGED gapVars
  <2>1. UNCHANGED <<clock, klines, observed, data_gaps, checked>>
    BY <1>6, Zenon DEF gapVars
  <2>2. GapsTypeOK' /\ \A u \in klines' : u % Interval = 0
    BY <1>0, <2>1, Zenon DEF GapsTypeOK
  <2>3. LongHolesRecorded' /\ checked' \in BOOLEAN
    BY <2>1, Zenon DEF GapsInv, LongHolesRecorded, Seen
  <2> QED BY <2>1, <2>2, <2>3, Zenon DEF GapsInv, NewGapsAreReal
<1> QED BY <1>1, <1>2, <1>3, <1>4, <1>5, <1>6, Zenon DEF GapsNext

\* Whatever order the rows arrive in and whenever the detectors run, a gap is
\* recorded only over a stretch with nothing stored inside it, and once the detector
\* has run every hole of two or more candles in its lookback is recorded as one gap
\* (InsertKlineGaps and InsertStaleLatestGaps, data_gaps.go).
THEOREM GapTableIsExact ==
    ASSUME DataGapsAssumption
    PROVE  GapsSpec => GapsAreExact
<1>1. GapsInit => GapsInv
  BY GapsStart, Zenon
<1>2. GapsInv /\ [GapsNext]_gapVars => GapsInv' /\ NewGapsAreReal
  BY GapsStep, Zenon
<1>3. GapsInv => LongHolesRecorded
  BY Zenon DEF GapsInv
<1> QED BY <1>1, <1>2, <1>3, PTL DEF GapsSpec, GapsAreExact

-----------------------------------------------------------------------------
(* The aggregated snapshots. *)

Jobs == [status : {"pending", "running", "succeeded", "dead_letter"},
         scheduledAt : 0..(MaxTime + Backoff), retryCount : Nat]
Steps == {"idle", "build", "windows", "check", "analytics", "write", "crashed"}

\* Keys of analytics rows for a snapshot at t.
AnalyticsKeys(t) == {"structure", "volatility", "divergence"} \X (Range(Windows) \cup {0}) \X {t}

Typed ==
    /\ now \in 0..MaxTime /\ DOMAIN market \subseteq Exchanges \X (0..MaxTime)
    /\ job \in Jobs /\ pc \in Steps

\* The executor has a running job whose time has come, and a snapshot in its
\* hands only between building and storing it.
InPlace ==
    /\ pc # "idle" => Running /\ at <= now
    /\ pc = "idle" => ~Running
    /\ pc \in {"idle", "build", "crashed"} => draft = None
    /\ pc \in {"windows", "check"} => "at" \in DOMAIN draft /\ draft.at = at
    /\ pc \in {"analytics", "write"} => at \in DOMAIN aggregates

\* The draft is what the query would give again, unless a row came in between.
DraftCurrent ==
    /\ torn \in BOOLEAN
    /\ pc \in {"windows", "check"} /\ ~torn => snapshot(at) = [draft EXCEPT !.windows = <<>>]

Stored == \A t \in DOMAIN aggregates : aggregates[t].at = t /\ t \in 0..now

\* Every analytics row belongs to a stored snapshot and to a window.
Attached == \A r \in analytics : r[2] \in Range(Windows) \cup {0} /\ r[3] \in DOMAIN aggregates

\* While the analytics are written, each row is stored or still to be.
Analysed ==
    pc = "write" =>
        /\ "rows" \in DOMAIN draft /\ draft.rows \in Seq(AnalyticsKeys(at))
        /\ \A i \in DOMAIN Windows : \A kind \in {"structure", "volatility"} :
              \/ <<kind, Windows[i], at>> \in analytics
              \/ \E j \in DOMAIN draft.rows : draft.rows[j] = <<kind, Windows[i], at>>

Inv ==
    /\ Typed /\ InPlace /\ DraftCurrent /\ Stored /\ SameQueryAgain
    /\ Attached /\ Analysed /\ SucceededIsComplete

\* A snapshot is a function of the rows at or before its time and not too old:
\* as long as these stay, the query gives the same again.
LEMMA SnapshotStays ==
    ASSUME AggregatesAssumption, NEW t \in Int,
           \A ex \in Exchanges : Times(ex, t)' = Times(ex, t),
           \A ex \in Exchanges : \A u \in Times(ex, t) : market'[<<ex, u>>] = market[<<ex, u>>]
    PROVE  snapshot(t)' = snapshot(t)
<1>1. Fresh(t)' = Fresh(t)
  BY Zenon DEF Fresh
<1>2. \A ex \in Fresh(t) : Max(Times(ex, t)) \in Times(ex, t)
  <2> TAKE ex \in Fresh(t)
  <2> DEFINE T == Times(ex, t)
  <2>1. T # {}
    BY Zenon DEF Fresh
  <2>2. T \in SUBSET Int /\ \A s \in T : s <= t
    BY DEF Times, AggregatesAssumption
  <2> HIDE DEF T
  <2>3. Max(T) \in T
    BY <2>1, <2>2, Greatest, Zenon
  <2> QED BY <2>3, Zenon DEF T
<1>3. latest(t)' = latest(t)
  <2>1. \A ex \in Fresh(t) : Max(Times(ex, t))' = Max(Times(ex, t))
    BY Zenon DEF Fresh, Max
  <2>2. \A ex \in Fresh(t) : market'[<<ex, Max(Times(ex, t))'>>] = market[<<ex, Max(Times(ex, t))>>]
    BY <1>2, <2>1, Zenon DEF Fresh
  <2> QED BY <1>1, <2>2, Zenon DEF latest
<1>4. Healthy(t)' = Healthy(t)
  BY <1>1, <1>3, Zenon DEF Healthy
<1>5. priced(t)' = priced(t) /\ withOI(t)' = withOI(t)
  BY <1>3, <1>4, Zenon DEF priced, withOI
<1>6. Price(t)' = Price(t) /\ OpenInterest(t)' = OpenInterest(t)
  BY <1>3, <1>5, Zenon DEF Price, OpenInterest
<1> QED BY <1>1, <1>3, <1>4, <1>5, <1>6, Zenon DEF snapshot

\* Without a new row every query gives the same again.
LEMMA QuietMarket ==
    ASSUME UNCHANGED market
    PROVE  \A t : snapshot(t)' = snapshot(t)
<1> TAKE t
<1>1. \A ex : Times(ex, t)' = Times(ex, t)
  BY Zenon DEF Times
<1>2. Fresh(t)' = Fresh(t)
  BY <1>1 DEF Fresh
<1>3. latest(t)' = latest(t)
  BY <1>1, <1>2, Zenon DEF latest
<1>4. Healthy(t)' = Healthy(t)
  BY <1>2, <1>3, Zenon DEF Healthy
<1>5. priced(t)' = priced(t) /\ withOI(t)' = withOI(t)
  BY <1>3, <1>4, Zenon DEF priced, withOI
<1>6. Price(t)' = Price(t) /\ OpenInterest(t)' = OpenInterest(t)
  BY <1>3, <1>5, Zenon DEF Price, OpenInterest
<1> QED BY <1>2, <1>3, <1>4, <1>5, <1>6, Zenon DEF snapshot

\* A snapshot as it comes from the query has no window metrics.
LEMMA SnapshotRecord ==
    \A t : /\ "at" \in DOMAIN snapshot(t) /\ snapshot(t).at = t
          /\ snapshot(t) = [snapshot(t) EXCEPT !.windows = <<>>]
<1> TAKE t
<1> DEFINE s == snapshot(t)
<1>1. "at" \in DOMAIN s /\ s.at = t /\ s.windows = <<>> /\ s = [x \in DOMAIN s |-> s[x]]
  BY Zenon DEF snapshot
<1> HIDE DEF s
<1>2. s = [s EXCEPT !.windows = <<>>]
  BY <1>1, Zenon
<1> QED BY <1>1, <1>2, Zenon DEF s

\* A job whose status changes keeps its time.
LEMMA JobStatus ==
    ASSUME job \in Jobs, NEW s \in {"pending", "running", "succeeded", "dead_letter"}
    PROVE  LET j == [job EXCEPT !.status = s]
           IN  j \in Jobs /\ j.status = s /\ j.scheduledAt = job.scheduledAt
  BY Zenon DEF Jobs

\* What is stored stays as it is as long as neither the rows nor the tables change.
LEMMA TablesStay ==
    ASSUME Inv, UNCHANGED <<now, market, aggregates, touched, analytics>>
    PROVE  Stored' /\ SameQueryAgain' /\ Attached'
<1>1. Stored'
  BY Zenon DEF Inv, Stored
<1>2. SameQueryAgain'
  BY QuietMarket, Zenon DEF Inv, SameQueryAgain
<1>3. Attached'
  BY Zenon DEF Inv, Attached
<1> QED BY <1>1, <1>2, <1>3, Zenon

\* Nothing is collected, built or stored at the start.
LEMMA InvInit ==
    ASSUME AggregatesAssumption, Init
    PROVE  Inv
<1> USE DEF Init, AggregatesAssumption
<1>1. job \in Jobs
  BY DEF Jobs
<1>2. Typed
  BY <1>1 DEF Typed, Steps
<1>3. InPlace /\ Analysed /\ SucceededIsComplete
  BY Zenon DEF InPlace, Running, Analysed, SucceededIsComplete
<1>4. DraftCurrent
  BY Zenon DEF DraftCurrent
<1>5. Stored /\ SameQueryAgain /\ Attached
  BY DEF Stored, SameQueryAgain, Attached
<1> QED BY <1>2, <1>3, <1>4, <1>5, Zenon DEF Inv

\* Giving up an attempt keeps the invariant: the job is retried or dead-lettered.
LEMMA FailKeeps ==
    ASSUME AggregatesAssumption, Inv, Fail, UNCHANGED <<now, market, aggregates, touched, analytics>>
    PROVE  Inv'
<1>1. pc' = "idle" /\ draft' = None /\ torn' = FALSE
  BY Zenon DEF Fail
<1>2. job' \in Jobs /\ job'.status \in {"pending", "dead_letter"}
  <2>1. CASE job.retryCount + 1 < MaxRetry
    <3>1. now + Backoff \in 0..(MaxTime + Backoff) /\ job.retryCount + 1 \in Nat
      BY DEF Inv, Typed, Jobs, AggregatesAssumption
    <3> QED BY <2>1, <3>1, Zenon DEF Fail, Jobs
  <2>2. CASE ~(job.retryCount + 1 < MaxRetry)
    BY <2>2, JobStatus, Zenon DEF Fail, Inv, Typed
  <2> QED BY <2>1, <2>2, Zenon
<1>3. Typed'
  BY <1>1, <1>2, Zenon DEF Inv, Typed, Steps
<1>4. InPlace' /\ Analysed' /\ SucceededIsComplete'
  BY <1>1, <1>2, Zenon DEF InPlace, Running, Analysed, SucceededIsComplete
<1>5. DraftCurrent'
  BY <1>1, Zenon DEF DraftCurrent
<1> QED BY <1>3, <1>4, <1>5, TablesStay, Zenon DEF Inv

\* Claiming the job, once its time has come, keeps the invariant.
LEMMA ClaimKeeps ==
    ASSUME AggregatesAssumption, Inv, Claim
    PROVE  Inv'
<1>1. /\ pc' = "build" /\ job.status = "pending" /\ job.scheduledAt <= now
      /\ UNCHANGED <<now, market, draft, torn, aggregates, touched, analytics>>
  BY Zenon DEF Claim, source, local, stores
<1>2. job' \in Jobs /\ job'.status = "running" /\ job'.scheduledAt = job.scheduledAt
  BY JobStatus, Zenon DEF Claim, Inv, Typed
<1>3. pc = "idle" /\ draft = None
  BY <1>1, Zenon DEF Inv, InPlace, Running, Typed, Steps
<1>4. Typed'
  BY <1>1, <1>2, Zenon DEF Inv, Typed, Steps
<1>5. InPlace' /\ Analysed' /\ SucceededIsComplete'
  BY <1>1, <1>2, <1>3, Zenon DEF InPlace, Analysed, SucceededIsComplete, Running, at
<1>6. DraftCurrent'
  BY <1>1, Zenon DEF DraftCurrent, Inv
<1> QED BY <1>1, <1>4, <1>5, <1>6, TablesStay, Zenon DEF Inv

\* Building the snapshot keeps the invariant: the draft is what the query gave.
LEMMA BuildKeeps ==
    ASSUME AggregatesAssumption, Inv, BuildLatest
    PROVE  Inv'
<1>1. /\ pc = "build" /\ pc' = "windows" /\ draft' = snapshot(at) /\ torn' = FALSE
      /\ UNCHANGED <<now, market, job, aggregates, touched, analytics>>
  BY Zenon DEF BuildLatest, source, stores
<1>2. at' = at /\ Running' = Running /\ at \in Int
  BY <1>1 DEF at, Running, Inv, Typed, Jobs, AggregatesAssumption
<1>3. snapshot(at)' = snapshot(at)
  BY <1>1, <1>2, QuietMarket, Zenon
<1>4. /\ "at" \in DOMAIN snapshot(at) /\ snapshot(at).at = at
      /\ snapshot(at) = [snapshot(at) EXCEPT !.windows = <<>>]
  BY SnapshotRecord, Zenon
<1>5. Typed'
  BY <1>1, Zenon DEF Inv, Typed, Steps
<1>6. InPlace' /\ Analysed' /\ SucceededIsComplete'
  BY <1>1, <1>2, <1>4, Zenon DEF Inv, InPlace, Analysed, SucceededIsComplete
<1>7. DraftCurrent'
  BY <1>1, <1>3, <1>4, Zenon DEF DraftCurrent
<1> QED BY <1>1, <1>5, <1>6, <1>7, TablesStay, Zenon DEF Inv

\* A window's metric changes nothing else of the draft.
LEMMA WindowsKeep ==
    ASSUME AggregatesAssumption, Inv, BuildWindowMetrics
    PROVE  Inv'
<1> DEFINE m == Append(draft.windows, WindowMetric(at))
<1>1. /\ pc = "windows" /\ pc' \in {"windows", "check"} /\ draft' = [draft EXCEPT !.windows = m]
      /\ UNCHANGED <<now, market, job, torn, aggregates, touched, analytics>>
  BY Zenon DEF BuildWindowMetrics, source, stores
<1> HIDE DEF m
<1>2. at' = at /\ Running' = Running
  BY <1>1, Zenon DEF at, Running
<1>3. snapshot(at)' = snapshot(at)
  BY <1>1, <1>2, QuietMarket, Zenon
<1>4. "at" \in DOMAIN draft' /\ draft'.at = draft.at
  BY <1>1, Zenon DEF Inv, InPlace
<1>5. [draft' EXCEPT !.windows = <<>>] = [draft EXCEPT !.windows = <<>>]
  BY <1>1, Zenon
<1>6. Typed'
  BY <1>1, Zenon DEF Inv, Typed, Steps
<1>7. InPlace' /\ Analysed' /\ SucceededIsComplete'
  BY <1>1, <1>2, <1>4, Zenon DEF Inv, InPlace, Analysed, SucceededIsComplete
<1>8. DraftCurrent'
  BY <1>1, <1>3, <1>5, Zenon DEF DraftCurrent, Inv
<1> QED BY <1>1, <1>6, <1>7, <1>8, TablesStay, Zenon DEF Inv

\* Storing the snapshot keeps the invariant: it is touched exactly if a row came
\* in while it was in the executor's hands.
LEMMA UpsertKeeps ==
    ASSUME AggregatesAssumption, Inv, Upsert
    PROVE  Inv'
<1>1. /\ pc = "check" /\ pc' = "analytics" /\ Running
      /\ aggregates' = [t \in DOMAIN aggregates \cup {at} |-> IF t = at THEN draft ELSE aggregates[t]]
      /\ touched' = IF torn THEN touched \cup {at} ELSE touched \ {at}
      /\ UNCHANGED <<now, market, job, draft, torn, analytics>>
  BY Zenon DEF Upsert, source, local
<1>2. at' = at /\ Running' = Running /\ draft.at = at /\ at \in 0..now
  BY <1>1 DEF at, Running, Inv, InPlace, Typed, Jobs, AggregatesAssumption
<1>3. Typed'
  BY <1>1, Zenon DEF Inv, Typed, Steps
<1>4. InPlace' /\ Analysed' /\ SucceededIsComplete'
  BY <1>1, <1>2, Zenon DEF Inv, InPlace, Analysed, SucceededIsComplete, Running
<1>5. DraftCurrent'
  BY <1>1, Zenon DEF DraftCurrent, Inv
<1>6. Stored'
  BY <1>1, <1>2, Zenon DEF Inv, Stored
<1>7. Attached'
  BY <1>1, Zenon DEF Inv, Attached
<1>8. SameQueryAgain'
  <2> SUFFICES ASSUME NEW t \in DOMAIN aggregates' \ touched'
               PROVE  snapshot(t)' = [aggregates'[t] EXCEPT !.windows = <<>>]
    BY Zenon DEF SameQueryAgain
  <2>1. snapshot(t)' = snapshot(t)
    BY <1>1, QuietMarket, Zenon
  <2>2. CASE t = at
    <3>1. ~torn /\ aggregates'[t] = draft
      BY <1>1, <2>2, Zenon
    <3> QED BY <1>1, <2>1, <2>2, <3>1, Zenon DEF Inv, DraftCurrent
  <2>3. CASE t # at
    <3>1. t \in DOMAIN aggregates \ touched /\ aggregates'[t] = aggregates[t]
      BY <1>1, <2>3, Zenon
    <3> QED BY <2>1, <3>1, Zenon DEF Inv, SameQueryAgain
  <2> QED BY <2>2, <2>3, Zenon
<1> QED BY <1>3, <1>4, <1>5, <1>6, <1>7, <1>8, Zenon DEF Inv

\* The rows that are built for the analytics tables hold both kinds of every window.
LEMMA AnalyticsRows ==
    ASSUME AggregatesAssumption, NEW t
    PROVE  /\ BuildAnalytics(t) \in Seq(AnalyticsKeys(t))
           /\ \A i \in DOMAIN Windows : \A kind \in {"structure", "volatility"} :
                 \E j \in DOMAIN BuildAnalytics(t) : BuildAnalytics(t)[j] = <<kind, Windows[i], t>>
<1> DEFINE a == [i \in DOMAIN Windows |-> <<"structure", Windows[i], t>>]
           b == [i \in DOMAIN Windows |-> <<"volatility", Windows[i], t>>]
           c == IF Cardinality(Healthy(t)) < 2 THEN <<>> ELSE << <<"divergence", 0, t>> >>
           K == AnalyticsKeys(t)
<1>0. DOMAIN Windows = 1..Len(Windows) /\ Len(Windows) \in Nat
  BY DEF AggregatesAssumption
<1>1. a \in Seq(K) /\ Len(a) = Len(Windows) /\ b \in Seq(K) /\ Len(b) = Len(Windows)
  <2>1. \A i \in DOMAIN Windows : a[i] \in K /\ b[i] \in K
    BY Zenon DEF AnalyticsKeys, Range
  <2> HIDE DEF K
  <2>2. a \in [1..Len(Windows) -> K] /\ b \in [1..Len(Windows) -> K]
    BY <1>0, <2>1, Zenon
  <2>3. \A n \in Nat : \A f \in [1..n -> K] : f \in Seq(K) /\ Len(f) = n
    OBVIOUS
  <2> HIDE DEF a, b
  <2> QED BY <1>0, <2>2, <2>3, Zenon
<1>2. c \in Seq(K)
  <2>1. <<"divergence", 0, t>> \in K
    BY Zenon DEF AnalyticsKeys
  <2> HIDE DEF K
  <2> QED BY <2>1
<1>3. BuildAnalytics(t) = (a \o b) \o c
  BY Zenon DEF BuildAnalytics
<1>4. \A i \in DOMAIN Windows : a[i] = <<"structure", Windows[i], t>> /\ b[i] = <<"volatility", Windows[i], t>>
  BY Zenon
<1> HIDE DEF a, b, c, K
<1>5. BuildAnalytics(t) \in Seq(K)
  BY <1>1, <1>2, <1>3
<1>6. ASSUME NEW i \in DOMAIN Windows
      PROVE  /\ i \in DOMAIN ((a \o b) \o c) /\ ((a \o b) \o c)[i] = a[i]
             /\ Len(Windows) + i \in DOMAIN ((a \o b) \o c) /\ ((a \o b) \o c)[Len(Windows) + i] = b[i]
  BY <1>0, <1>1, <1>2
<1>7. \A i \in DOMAIN Windows : \A kind \in {"structure", "volatility"} :
         \E j \in DOMAIN BuildAnalytics(t) : BuildAnalytics(t)[j] = <<kind, Windows[i], t>>
  BY <1>3, <1>4, <1>6
<1> QED BY <1>5, <1>7, Zenon DEF K

\* Building the analytics of the stored snapshot keeps the invariant.
LEMMA AnalyticsKeep ==
    ASSUME AggregatesAssumption, Inv, Analytics
    PROVE  Inv'
<1> DEFINE rows == BuildAnalytics(at)
<1>1. /\ pc = "analytics" /\ pc' = "write" /\ draft' = [at |-> at, rows |-> rows]
      /\ UNCHANGED <<now, market, job, torn, aggregates, touched, analytics>>
  BY Zenon DEF Analytics, source, stores
<1>2. at' = at /\ Running' = Running
  BY <1>1, Zenon DEF at, Running
<1>3. /\ rows \in Seq(AnalyticsKeys(at))
      /\ \A i \in DOMAIN Windows : \A kind \in {"structure", "volatility"} :
            \E j \in DOMAIN rows : rows[j] = <<kind, Windows[i], at>>
  BY AnalyticsRows, Zenon
<1> HIDE DEF rows
<1>4. "rows" \in DOMAIN draft' /\ draft'.rows = rows /\ AnalyticsKeys(at)' = AnalyticsKeys(at)
  BY <1>1, <1>2, Zenon DEF AnalyticsKeys
<1>5. Typed'
  BY <1>1, Zenon DEF Inv, Typed, Steps
<1>6. InPlace' /\ SucceededIsComplete'
  BY <1>1, <1>2, Zenon DEF Inv, InPlace, SucceededIsComplete
<1>7. DraftCurrent'
  BY <1>1, Zenon DEF DraftCurrent, Inv
<1>8. Analysed'
  BY <1>2, <1>3, <1>4, Zenon DEF Analysed
<1> QED BY <1>1, <1>5, <1>6, <1>7, <1>8, TablesStay, Zenon DEF Inv

\* A row of the analytics that is stored is no longer to be stored.
LEMMA UpsertAnalyticsKeeps ==
    ASSUME AggregatesAssumption, Inv, UpsertAnalytics
    PROVE  Inv'
<1> DEFINE rows == draft.rows
           K == AnalyticsKeys(at)
<1>1. /\ pc = "write" /\ pc' = "write" /\ Running /\ rows # <<>>
      /\ analytics' = analytics \cup {Head(rows)} /\ draft' = [draft EXCEPT !.rows = Tail(rows)]
      /\ UNCHANGED <<now, market, job, torn, aggregates, touched>>
  BY Zenon DEF UpsertAnalytics, source
<1>2. at' = at /\ Running' = Running /\ at \in DOMAIN aggregates /\ K' = K
  BY <1>1, Zenon DEF at, Running, Inv, InPlace, AnalyticsKeys
<1>3. "rows" \in DOMAIN draft => "rows" \in DOMAIN draft' /\ draft'.rows = Tail(rows)
  BY <1>1, Zenon
<1>4. /\ "rows" \in DOMAIN draft /\ rows \in Seq(K)
      /\ \A i \in DOMAIN Windows : \A kind \in {"structure", "volatility"} :
            \/ <<kind, Windows[i], at>> \in analytics
            \/ \E j \in DOMAIN rows : rows[j] = <<kind, Windows[i], at>>
  BY <1>1, Zenon DEF Inv, Analysed
<1>5. Head(rows) \in K
  BY <1>1, <1>4
<1>6. Head(rows)[2] \in Range(Windows) \cup {0} /\ Head(rows)[3] = at
  BY <1>5, Zenon DEF AnalyticsKeys
<1> HIDE DEF rows, K
<1>7. Tail(rows) \in Seq(K) /\ \A j \in DOMAIN rows : j = 1 \/ (j - 1 \in DOMAIN Tail(rows) /\ Tail(rows)[j - 1] = rows[j])
  BY <1>1, <1>4
<1>8. \A row : (\E j \in DOMAIN rows : rows[j] = row)
               => row = Head(rows) \/ \E j \in DOMAIN Tail(rows) : Tail(rows)[j] = row
  <2>1. Head(rows) = rows[1]
    BY <1>1, <1>4
  <2> TAKE row
  <2>2. ASSUME NEW j \in DOMAIN rows, rows[j] = row
        PROVE  row = Head(rows) \/ \E k \in DOMAIN Tail(rows) : Tail(rows)[k] = row
    <3>1. CASE j = 1
      BY <2>1, <2>2, <3>1, Zenon
    <3>2. CASE j - 1 \in DOMAIN Tail(rows) /\ Tail(rows)[j - 1] = rows[j]
      BY <2>2, <3>2, Zenon
    <3> QED BY <1>7, <3>1, <3>2, Zenon
  <2> QED BY <2>2, Zenon
<1>9. Analysed'
  <2>1. \A i \in DOMAIN Windows : \A kind \in {"structure", "volatility"} :
            \/ <<kind, Windows[i], at>> \in analytics'
            \/ \E j \in DOMAIN Tail(rows) : Tail(rows)[j] = <<kind, Windows[i], at>>
    BY <1>1, <1>4, <1>8, Zenon
  <2>2. "rows" \in DOMAIN draft' /\ draft'.rows = Tail(rows)
    BY <1>3, <1>4, Zenon
  <2>3. draft'.rows \in Seq(AnalyticsKeys(at))'
    BY <1>2, <1>7, <2>2, Zenon DEF K
  <2> QED BY <1>2, <2>1, <2>2, <2>3, Zenon DEF Analysed
<1>10. Typed' /\ Stored'
  BY <1>1, Zenon DEF Inv, Typed, Stored
<1>11. SameQueryAgain'
  BY <1>1, QuietMarket, Zenon DEF Inv, SameQueryAgain
<1>12. Attached'
  BY <1>1, <1>2, <1>6, Zenon DEF Inv, Attached
<1>13. InPlace' /\ SucceededIsComplete'
  BY <1>1, <1>2, Zenon DEF Inv, InPlace, SucceededIsComplete, Running
<1>14. DraftCurrent'
  BY <1>1, Zenon DEF DraftCurrent, Inv
<1> QED BY <1>9, <1>10, <1>11, <1>12, <1>13, <1>14, Zenon DEF Inv

\* The job succeeds when no row of its analytics is left.
LEMMA SucceedKeeps ==
    ASSUME AggregatesAssumption, Inv, Succeed
    PROVE  Inv'
<1>1. /\ pc = "write" /\ pc' = "idle" /\ draft.rows = <<>> /\ draft' = None /\ torn' = FALSE
      /\ UNCHANGED <<now, market, aggregates, touched, analytics>>
  BY Zenon DEF Succeed, source, stores
<1>2. job' \in Jobs /\ job'.status = "succeeded" /\ at' = at
  BY JobStatus, Zenon DEF Succeed, Inv, Typed, at
<1>3. Typed'
  BY <1>1, <1>2, Zenon DEF Inv, Typed, Steps
<1>4. InPlace' /\ Analysed'
  BY <1>1, <1>2, Zenon DEF InPlace, Running, Analysed
<1>5. SucceededIsComplete'
  <2>1. at \in DOMAIN aggregates
    BY <1>1, Zenon DEF Inv, InPlace
  <2>2. \A i \in DOMAIN Windows : \A kind \in {"structure", "volatility"} : <<kind, Windows[i], at>> \in analytics
    <3>1. DOMAIN draft.rows = {}
      BY <1>1
    <3> QED BY <1>1, <3>1, Zenon DEF Inv, Analysed
  <2> QED BY <1>1, <1>2, <2>1, <2>2, Zenon DEF SucceededIsComplete
<1>6. DraftCurrent'
  BY <1>1, Zenon DEF DraftCurrent
<1> QED BY <1>1, <1>3, <1>4, <1>5, <1>6, TablesStay, Zenon DEF Inv

\* The process may die at any step: the draft is lost and the job stays running.
LEMMA CrashKeeps ==
    ASSUME AggregatesAssumption, Inv, Crash
    PROVE  Inv'
<1>1. /\ Running /\ pc' = "crashed" /\ draft' = None /\ torn' = FALSE
      /\ UNCHANGED <<now, market, job, aggregates, touched, analytics>>
  BY Zenon DEF Crash, source, stores
<1>2. at' = at /\ Running' = Running
  BY <1>1, Zenon DEF at, Running
<1>3. Typed'
  BY <1>1, Zenon DEF Inv, Typed, Steps
<1>4. InPlace' /\ Analysed' /\ SucceededIsComplete'
  BY <1>1, <1>2, Zenon DEF Inv, InPlace, Analysed, SucceededIsComplete, Running
<1>5. DraftCurrent'
  BY <1>1, Zenon DEF DraftCurrent
<1> QED BY <1>1, <1>3, <1>4, <1>5, TablesStay, Zenon DEF Inv

\* The recovered job is scheduled no later than it was.
LEMMA RecoverKeeps ==
    ASSUME AggregatesAssumption, Inv, RecoverInterrupted
    PROVE  Inv'
<1> DEFINE earlier == Min({now, job.scheduledAt})
<1>1. /\ pc = "crashed" /\ pc' = "idle"
      /\ job' = [status |-> "pending", scheduledAt |-> earlier, retryCount |-> job.retryCount + 1]
      /\ UNCHANGED <<now, market, draft, torn, aggregates, touched, analytics>>
  BY Zenon DEF RecoverInterrupted, source, local, stores
<1>2. earlier \in 0..(MaxTime + Backoff)
  <2>1. now \in 0..(MaxTime + Backoff) /\ job.scheduledAt \in 0..(MaxTime + Backoff)
    BY DEF Inv, Typed, Jobs, AggregatesAssumption
  <2>2. \E x \in {now, job.scheduledAt} : \A y \in {now, job.scheduledAt} : x <= y
    BY <2>1 DEF AggregatesAssumption
  <2> QED BY <2>1, <2>2, Zenon DEF Min
<1> HIDE DEF earlier
<1>3. job' \in Jobs /\ job'.status = "pending"
  <2>1. job.retryCount + 1 \in Nat
    BY DEF Inv, Typed, Jobs
  <2> QED BY <1>1, <1>2, <2>1, Zenon DEF Jobs
<1>4. Typed'
  BY <1>1, <1>3, Zenon DEF Inv, Typed, Steps
<1>5. InPlace' /\ Analysed' /\ SucceededIsComplete'
  BY <1>1, <1>3, Zenon DEF Inv, InPlace, Running, Analysed, SucceededIsComplete
<1>6. DraftCurrent'
  BY <1>1, Zenon DEF DraftCurrent, Inv
<1> QED BY <1>1, <1>4, <1>5, <1>6, TablesStay, Zenon DEF Inv

\* Time that passes, and the trades made meanwhile, keep the invariant.
LEMMA TickKeeps ==
    ASSUME AggregatesAssumption, Inv, NEW delta \in Deltas, Tick(delta)
    PROVE  Inv'
<1>1. /\ now' = now + 1 /\ now < MaxTime
      /\ UNCHANGED <<market, job, pc, draft, torn, aggregates, touched, analytics>>
  BY Zenon DEF Tick, local, stores
<1>2. now \in 0..MaxTime /\ now' \in 0..MaxTime /\ at' = at /\ Running' = Running /\ at \in Nat
  BY <1>1 DEF at, Running, Inv, Typed, Jobs, AggregatesAssumption
<1>3. \A t : snapshot(t)' = snapshot(t)
  BY <1>1, QuietMarket, Zenon
<1>4. Typed'
  BY <1>1, <1>2, Zenon DEF Inv, Typed
<1>5. InPlace'
  BY <1>1, <1>2 DEF Inv, InPlace
<1>6. DraftCurrent'
  BY <1>1, <1>2, <1>3, Zenon DEF Inv, DraftCurrent
<1>7. Stored'
  BY <1>1, <1>2 DEF Inv, Stored
<1>8. SameQueryAgain'
  BY <1>1, <1>3, Zenon DEF Inv, SameQueryAgain
<1>9. Attached' /\ Analysed' /\ SucceededIsComplete'
  BY <1>1, <1>2, Zenon DEF Inv, Attached, Analysed, SucceededIsComplete, AnalyticsKeys
<1> QED BY <1>4, <1>5, <1>6, <1>7, <1>8, <1>9, Zenon DEF Inv

\* A collected row touches the snapshots at or after its time and leaves what the
\* query gives for earlier ones.
LEMMA CollectKeeps ==
    ASSUME AggregatesAssumption, Inv, NEW ex \in Exchanges, NEW row \in Rows,
           NEW a \in {now - 1, now} \cap Nat, Collect(ex, row, a)
    PROVE  Inv'
<1>1. /\ market' = [k \in DOMAIN market \cup {<<ex, a>>} |-> IF k = <<ex, a>> THEN row ELSE market[k]]
      /\ touched' = touched \cup {t \in DOMAIN aggregates : t >= a}
      /\ torn' = (torn \/ draft.at >= a)
      /\ UNCHANGED <<now, job, pc, draft, aggregates, analytics>>
  BY Zenon DEF Collect
<1>2. at' = at /\ Running' = Running /\ at \in Int /\ a \in 0..MaxTime /\ now \in 0..MaxTime
  BY <1>1 DEF at, Running, Inv, Typed, Jobs, AggregatesAssumption
<1>3. ASSUME NEW t \in Int, t < a PROVE snapshot(t)' = snapshot(t)
  <2>1. \A e, u : u <= t /\ u \in Int =>
           /\ <<e, u>> \in DOMAIN market' <=> <<e, u>> \in DOMAIN market
           /\ <<e, u>> \in DOMAIN market => market'[<<e, u>>] = market[<<e, u>>]
    <3> SUFFICES ASSUME NEW e, NEW u \in Int, u <= t
                 PROVE  /\ <<e, u>> \in DOMAIN market' <=> <<e, u>> \in DOMAIN market
                        /\ <<e, u>> \in DOMAIN market => market'[<<e, u>>] = market[<<e, u>>]
      BY Zenon
    <3>1. u # a
      BY <1>2, <1>3
    <3>2. <<e, u>> # <<ex, a>>
      BY <3>1, Zenon
    <3> DEFINE key == <<e, u>>
               new == <<ex, a>>
    <3>3. key # new /\ market' = [k \in DOMAIN market \cup {new} |-> IF k = new THEN row ELSE market[k]]
      BY <1>1, <3>2, Zenon
    <3> HIDE DEF key, new
    <3>4. (key \in DOMAIN market' <=> key \in DOMAIN market)
          /\ (key \in DOMAIN market => market'[key] = market[key])
      BY <3>3, Zenon
    <3> QED BY <3>4, Zenon DEF key
  <2>2. \A u \in (t - MaxAge)..t : u \in Int /\ u <= t
    BY DEF AggregatesAssumption
  <2>3. \A e \in Exchanges : Times(e, t)' = Times(e, t)
    BY <2>1, <2>2, Zenon DEF Times
  <2>4. \A e \in Exchanges : \A u \in Times(e, t) : market'[<<e, u>>] = market[<<e, u>>]
    BY <2>1, <2>2, Zenon DEF Times
  <2> QED BY <2>3, <2>4, SnapshotStays, Zenon
<1>4. Typed'
  <2>1. <<ex, a>> \in Exchanges \X (0..MaxTime)
    BY <1>2, Zenon
  <2>2. DOMAIN market' = DOMAIN market \cup {<<ex, a>>}
    BY <1>1, Zenon
  <2> QED BY <1>1, <2>1, <2>2, Zenon DEF Inv, Typed
<1>5. InPlace'
  BY <1>1, <1>2, Zenon DEF Inv, InPlace
<1>6. DraftCurrent'
  <2>1. torn' \in BOOLEAN
    BY <1>1, Zenon DEF Inv, DraftCurrent
  <2>2. ASSUME pc \in {"windows", "check"}, ~torn'
        PROVE  snapshot(at)' = [draft' EXCEPT !.windows = <<>>]
    <3>1. ~torn /\ ~(draft.at >= a)
      BY <1>1, <2>2, Zenon
    <3>2. at < a
      BY <1>2, <2>2, <3>1 DEF Inv, InPlace
    <3> QED BY <1>1, <1>2, <1>3, <2>2, <3>1, <3>2, Zenon DEF Inv, DraftCurrent
  <2> QED BY <1>1, <2>1, <2>2, Zenon DEF DraftCurrent
<1>7. Stored'
  BY <1>1, Zenon DEF Inv, Stored
<1>8. SameQueryAgain'
  <2> SUFFICES ASSUME NEW t \in DOMAIN aggregates' \ touched'
               PROVE  snapshot(t)' = [aggregates'[t] EXCEPT !.windows = <<>>]
    BY Zenon DEF SameQueryAgain
  <2>1. t \in DOMAIN aggregates \ touched /\ t \in Int /\ t < a
    BY <1>1, <1>2 DEF Inv, Stored
  <2> QED BY <1>1, <1>3, <2>1, Zenon DEF Inv, SameQueryAgain
<1>9. Attached' /\ Analysed' /\ SucceededIsComplete'
  BY <1>1, <1>2, Zenon DEF Inv, Attached, Analysed, SucceededIsComplete, AnalyticsKeys
<1> QED BY <1>4, <1>5, <1>6, <1>7, <1>8, <1>9, Zenon DEF Inv

\* Every step of the executor, in any interleaving with the collectors, failures,
\* crashes and recoveries, keeps the invariant.
LEMMA InvStep ==
    ASSUME AggregatesAssumption, Inv, [Next]_vars
    PROVE  Inv'
<1>1. ASSUME NoExchange \/ StepFails PROVE Inv'
  BY <1>1, FailKeeps, Zenon DEF NoExchange, StepFails, source, stores
<1>2. CASE UNCHANGED vars
  <2>1. UNCHANGED <<now, market, job, pc, draft, torn, aggregates, touched, analytics>>
    BY <1>2, Zenon DEF vars, source, stores, local
  <2>2. at' = at /\ Running' = Running /\ \A t : snapshot(t)' = snapshot(t)
    BY <2>1, QuietMarket, Zenon DEF at, Running
  <2>3. Typed' /\ InPlace'
    BY <2>1, <2>2, Zenon DEF Inv, Typed, InPlace
  <2>4. DraftCurrent'
    BY <2>1, <2>2, Zenon DEF Inv, DraftCurrent
  <2>5. Analysed' /\ SucceededIsComplete'
    BY <2>1, <2>2, Zenon DEF Inv, Analysed, SucceededIsComplete, AnalyticsKeys
  <2> QED BY <2>1, <2>3, <2>4, <2>5, TablesStay, Zenon DEF Inv
<1> QED BY <1>1, <1>2, ClaimKeeps, BuildKeeps, WindowsKeep, UpsertKeeps, AnalyticsKeep,
           UpsertAnalyticsKeeps, SucceedKeeps, CrashKeeps, RecoverKeeps, TickKeeps, CollectKeeps, Zenon
        DEF Next, Step

\* TypeOK is an invariant of the executor: the time of a stored snapshot is its key
\* and never lies ahead, and analytics rows belong to stored snapshots.
THEOREM AggregatesTypeCorrect ==
    ASSUME AggregatesAssumption
    PROVE  Spec => []TypeOK
<1>1. Init => Inv
  BY InvInit, Zenon
<1>2. Inv /\ [Next]_vars => Inv'
  BY InvStep, Zenon
<1>3. Inv => TypeOK
  BY DEF Inv, Typed, Jobs, Steps, Stored, Attached, TypeOK, AggregatesAssumption
<1> QED BY <1>1, <1>2, <1>3, PTL DEF Spec

\* When an aggregated_snapshot job has succeeded, the snapshot of its last execution
\* is stored with all of its analytics, after any retries and crashes
\* (Execute, executor.go:57-71).
THEOREM AggregatesComplete ==
    ASSUME AggregatesAssumption
    PROVE  Spec => []SucceededIsComplete
<1>1. Init => Inv
  BY InvInit, Zenon
<1>2. Inv /\ [Next]_vars => Inv'
  BY InvStep, Zenon
<1>3. Inv => SucceededIsComplete
  BY Zenon DEF Inv
<1> QED BY <1>1, <1>2, <1>3, PTL DEF Spec

\* The rows of an exchange that DegradedIsSkipped looks at, and the newest.
QueryRows(ex, t) == {u \in DOMAIN market : u[1] = ex /\ u[2] <= t /\ u[2] >= t - MaxAge}
NewestOf(ex, t) == CHOOSE u \in QueryRows(ex, t) : \A v \in QueryRows(ex, t) : v[2] <= u[2]

\* They are the rows of the query, and the newest is the one that it takes.
LEMMA NewestRow ==
    ASSUME AggregatesAssumption, Inv, NEW t \in Int, NEW ex \in Exchanges
    PROVE  /\ QueryRows(ex, t) # {} <=> ex \in Fresh(t)
           /\ QueryRows(ex, t) # {} => market[NewestOf(ex, t)] = latest(t)[ex]
<1> DEFINE rows == QueryRows(ex, t)
           newest == NewestOf(ex, t)
           T == Times(ex, t)
<1>0. MaxAge \in Nat /\ \A u \in DOMAIN market : u = <<u[1], u[2]>> /\ u[2] \in Int
  BY DEF AggregatesAssumption, Inv, Typed
<1>1. \A u : u \in rows <=> u = <<ex, u[2]>> /\ u[2] \in T
  BY <1>0 DEF Times, QueryRows
<1>2. T \in SUBSET Int /\ \A s \in T : s <= t
  BY <1>0 DEF Times
<1>3. \A s \in T : <<ex, s>> \in rows
  BY <1>1, Zenon
<1>4. rows # {} <=> T # {}
  BY <1>1, <1>3, Zenon
<1>5. ASSUME T # {} PROVE market[newest] = latest(t)[ex]
  <2>1. Max(T) \in T /\ \A s \in T : s <= Max(T)
    <3> HIDE DEF T
    <3> QED BY <1>2, <1>5, Greatest, Zenon
  <2> DEFINE top == Max(T)
  <2> HIDE DEF T, rows, top
  <2>2. top \in T /\ top \in Int /\ \A s \in T : s <= top
    BY <1>2, <2>1, Zenon DEF top
  <2>3. <<ex, top>> \in rows /\ \A v \in rows : v[2] <= <<ex, top>>[2]
    BY <1>1, <1>3, <2>2, Zenon
  <2>4. newest \in rows /\ \A v \in rows : v[2] <= newest[2]
    BY <2>3, Zenon DEF NewestOf, rows
  <2> HIDE DEF newest
  <2>5. newest[2] = top
    <3>1. newest[2] \in T /\ top <= newest[2]
      BY <1>1, <2>3, <2>4, Zenon
    <3>2. newest[2] \in Int /\ newest[2] <= top
      BY <1>2, <2>2, <3>1, Zenon
    <3> QED BY <2>2, <3>1, <3>2
  <2>6. newest = <<ex, Max(T)>>
    BY <1>1, <2>4, <2>5, Zenon DEF top
  <2>7. ex \in Fresh(t)
    BY <1>5, Zenon DEF T, Fresh
  <2> QED BY <2>6, <2>7, Zenon DEF latest, T
<1>6. T # {} <=> ex \in Fresh(t)
  BY Zenon DEF Fresh
<1> QED BY <1>4, <1>5, <1>6, Zenon

\* A stored snapshot can be computed again from the market rows unless one at or
\* before its time was written later, and an exchange whose newest row is degraded
\* is reported as skipped, never represented by the row before (aggregate.go:26-195).
THEOREM AggregatesRecalculable ==
    ASSUME AggregatesAssumption
    PROVE  Spec => []Recalculable
<1>1. Init => Inv
  BY InvInit, Zenon
<1>2. Inv /\ [Next]_vars => Inv'
  BY InvStep, Zenon
<1>3. ASSUME Inv PROVE SameQueryAgain /\ DegradedIsSkipped
  <2>1. SameQueryAgain
    BY <1>3, Zenon DEF Inv
  <2>2. ASSUME NEW t \in DOMAIN aggregates \ touched
        PROVE  aggregates[t].included = Healthy(t) /\ aggregates[t].skipped = Fresh(t) \ Healthy(t)
    <3> DEFINE r == aggregates[t]
               s == snapshot(t)
    <3>1. s = [r EXCEPT !.windows = <<>>]
      BY <2>1, Zenon DEF SameQueryAgain
    <3>2. /\ "included" \in DOMAIN s /\ s.included = Healthy(t)
          /\ "skipped" \in DOMAIN s /\ s.skipped = Fresh(t) \ Healthy(t)
      BY Zenon DEF snapshot
    <3> HIDE DEF r, s
    <3>3. DOMAIN r = DOMAIN s
      BY <3>1, Zenon
    <3>4. r.included = s.included /\ r.skipped = s.skipped
      BY <3>1, <3>2, <3>3, Zenon
    <3> QED BY <3>2, <3>4, Zenon DEF r
  <2>3. \A t \in DOMAIN aggregates : t \in Int
    BY <1>3 DEF Inv, Stored
  <2>4. DegradedIsSkipped
    <3>1. ASSUME NEW t \in DOMAIN aggregates \ touched, NEW ex \in Exchanges
          PROVE  LET rows == QueryRows(ex, t)
                     newest == NewestOf(ex, t)
                 IN  /\ ex \in aggregates[t].included <=> (rows # {} /\ ~market[newest].degraded)
                     /\ ex \in aggregates[t].skipped <=> (rows # {} /\ market[newest].degraded)
      <4>1. t \in Int
        BY <2>3, Zenon
      <4>2. /\ QueryRows(ex, t) # {} <=> ex \in Fresh(t)
            /\ QueryRows(ex, t) # {} => market[NewestOf(ex, t)] = latest(t)[ex]
        BY <1>3, <4>1, NewestRow, Zenon
      <4> QED BY <2>2, <4>2, Zenon DEF Healthy
    <3> QED BY <3>1, Zenon DEF DegradedIsSkipped, QueryRows, NewestOf
  <2> QED BY <2>1, <2>4, Zenon
<1>4. Inv => Recalculable
  BY <1>3, Zenon DEF Recalculable
<1> QED BY <1>1, <1>2, <1>4, PTL DEF Spec
=============================================================================
