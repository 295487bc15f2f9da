------------------------------ MODULE DataGaps ------------------------------
(***************************************************************************)
(* The gap detectors of DataGapRepository over the tables of one symbol on *)
(* one exchange: candles of one interval and one latest-value table.  Rows *)
(* arrive late and out of order; the detectors run at any time, and        *)
(* nothing in the repository closes a gap again.                           *)
(*                                                                         *)
(* Abstractions.  Time is counted in halves of the expected interval, so   *)
(* that observations fall between the multiples that matter.  A gap row is *)
(* its detector and the two times that, with constants of the call, make   *)
(* up its key; what ON CONFLICT rewrites is then equal to what is stored.  *)
(* The detectors' callers are not in src/: any time may be one.            *)
(***************************************************************************)
EXTENDS Integers, FiniteSetsExt

CONSTANTS
    Interval,    \* expectedInterval
    Lookback,    \* lookback of InsertKlineGaps
    MaxClock     \* bound on the clock

DataGapsAssumption == Interval \in Nat \ {0} /\ Lookback \in Nat /\ MaxClock \in Nat

VARIABLES
    clock,
    klines,      \* open times in derivative_klines
    observed,    \* times in the latest-value table
    data_gaps,   \* set of gap rows
    checked      \* InsertKlineGaps has run since the clock or the candles changed

gapVars == <<clock, klines, observed, data_gaps, checked>>

Gap(detector, start, end) == [detector |-> detector, start |-> start, end |-> end]

-----------------------------------------------------------------------------
Seen == {t \in klines : clock - Lookback <= t /\ t <= clock}

\* Mutant: the previous row is not the nearest one.
LAGFirst(t) == {u \in Seen : u < t /\ \A v \in Seen : u <= v}

\* LAG(open_time): the row before, if the query sees one.
LAG(t) == {u \in Seen : u < t /\ \A v \in Seen : v < t => v <= u}

TooFar(previous, t) == t - previous > 2 * Interval

KlineGaps ==
    {Gap("kline", q[1], q[2]) : q \in {r \in Seen \X Seen : r[1] \in LAG(r[2]) /\ TooFar(r[1], r[2])}}

\* observed_at < now - 2 * expectedInterval, for the newest row.
Stale == observed # {} /\ Max(observed) < clock - 2 * Interval

-----------------------------------------------------------------------------
GapsInit == clock = 0 /\ klines = {} /\ observed = {} /\ data_gaps = {} /\ checked = FALSE

GapsTick ==
    /\ clock < MaxClock /\ clock' = clock + 1 /\ checked' = FALSE
    /\ UNCHANGED <<klines, observed, data_gaps>>

\* A candle is stored, by a poll or by a backfill.
StoreKline(t) ==
    /\ t % Interval = 0
    /\ klines' = klines \cup {t} /\ checked' = FALSE
    /\ UNCHANGED <<clock, observed, data_gaps>>

StoreLatest(t) ==
    /\ observed' = observed \cup {t}
    /\ UNCHANGED <<clock, klines, data_gaps, checked>>

InsertKlineGaps ==
    /\ data_gaps' = data_gaps \cup KlineGaps /\ checked' = TRUE
    /\ UNCHANGED <<clock, klines, observed>>

InsertStaleLatestGaps ==
    /\ Stale
    /\ data_gaps' = data_gaps \cup {Gap("stale", Max(observed), clock)}
    /\ UNCHANGED <<clock, klines, observed, checked>>

GapsNext ==
    \/ GapsTick \/ InsertKlineGaps \/ InsertStaleLatestGaps
    \/ \E t \in 0..clock : StoreKline(t)
    \/ \E t \in {clock - 1, clock} \cap Nat : StoreLatest(t)

GapsSpec == GapsInit /\ [][GapsNext]_gapVars

-----------------------------------------------------------------------------
(* Properties. *)

\* Every stored gap satisfies the table's CHECK (gap_end >= gap_start) and
\* starts and ends at times that have been.
GapsTypeOK ==
    /\ clock \in 0..MaxClock /\ klines \subseteq 0..clock /\ observed \subseteq 0..clock
    /\ \A g \in data_gaps : g.detector \in {"kline", "stale"} /\ g.end \in 0..clock /\ g.start \in 0..g.end

\* A gap is recorded only for a stretch with nothing stored inside it, whatever
\* order its rows arrived in (data_gaps.go:64-77, 111-121).
NewGapsAreReal ==
    \A g \in data_gaps' \ data_gaps : \A t \in (g.start + 1)..(g.end - 1) :
       t \notin (IF g.detector = "kline" THEN klines ELSE observed)

Between(u, v) == {t \in (u + 1)..(v - 1) : t % Interval = 0}

\* After the detector has run, two or more consecutive candles missing between
\* two candles of the lookback are recorded as one gap (data_gaps.go:59-99).
LongHolesRecorded ==
    checked => \A u, v \in Seen :
        (Between(u, v) \cap klines = {} /\ \E s, t \in Between(u, v) : s # t)
            => Gap("kline", u, v) \in data_gaps

\* The gap table is exact: no step records a gap over something stored, and no step
\* of the detector leaves a long hole out (data_gaps.go:59-99, 111-121).
GapsAreExact == [][NewGapsAreReal /\ LongHolesRecorded']_gapVars
=============================================================================
