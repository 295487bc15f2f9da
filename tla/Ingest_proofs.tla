--------------------------- MODULE Ingest_proofs ---------------------------
(***************************************************************************)
(* The rows of an answer, for any exchange's answers, any retries and any  *)
(* number of failed writes and deaths of the process.                      *)
(***************************************************************************)
EXTENDS Ingest, WellFoundedInduction, TLAPS

Kinds == {"market_snapshot", "kline", "open_interest", "long_short_ratio", "basis", "orderbook"}

\* What is known of a row of an adapter.
RowFact(r, ex, kind) ==
    /\ r.kind = kind /\ r.ex = ex /\ r.at \in Int /\ r.at >= Zero
    /\ kind # "market_snapshot" => r.rate = "none"

\* What is known of what an adapter returns.
ResultFact(result, ex, kind) ==
    /\ result.out \in {"rows", "error", "panic"}
    /\ \E n \in Nat : DOMAIN result.rows \subseteq 1..n
    /\ \A i \in DOMAIN result.rows : RowFact(result.rows[i], ex, kind)

Answer == [refused : BOOLEAN, items : Seq(Item)]

\* An answer and its items.
LEMMA AnswerTypes ==
    ASSUME NEW a \in Answer
    PROVE  /\ Len(a.items) \in Nat /\ DOMAIN a.items = 1..Len(a.items)
           /\ \A i \in DOMAIN a.items : a.items[i] \in Item /\ a.items[i].at \in Nat
           /\ a.items # <<>> => a.items[1] \in Item /\ a.items[1].at \in Nat
           /\ Object(a).at \in Nat
<1>1. a.items \in Seq(Item)
  BY Zenon DEF Answer
<1>2. \A x \in Item : x.at \in Nat
  BY Zenon DEF Item
<1> DEFINE s == a.items
<1>3. s \in Seq(Item)
  BY <1>1, Zenon
<1> HIDE DEF s, Item
<1>4. /\ Len(s) \in Nat /\ DOMAIN s = 1..Len(s) /\ \A i \in DOMAIN s : s[i] \in Item
      /\ s # <<>> => s[1] \in Item
  BY <1>3
<1>5. Blank.at \in Nat
  BY Zenon DEF Blank, Absent
<1> QED
  BY <1>2, <1>4, <1>5, Zenon DEF s, Object

\* Times that are parsed or captured.
LEMMA ParsedTimes ==
    ASSUME NEW at \in Nat, NEW t \in Nat, NEW typed
    PROVE  /\ MustTime(MillisToTime(at, typed)) \in Int /\ MustTime(MillisToTime(at, typed)) >= Zero
           /\ MustTime(SecondsToTime(at)) \in Int /\ MustTime(SecondsToTime(at)) >= Zero
           /\ OrCaptured(at, t) \in Nat
           /\ MillisToTime(at, typed) # Unparsed => MillisToTime(at, typed) \in Nat
  BY DEF MustTime, MillisToTime, SecondsToTime, OrCaptured, Zero, Absent, Unparsed

\* One row, or an error.
LEMMA OnlyFact ==
    ASSUME NEW kind, NEW ex, NEW at \in Int, at >= Zero, NEW period, NEW num, NEW rate, NEW valid,
           kind # "market_snapshot" => rate = "none"
    PROVE  ResultFact(Only(Row(kind, ex, at, period, num, rate), valid), ex, kind)
<1> DEFINE r == Row(kind, ex, at, period, num, rate)
<1>1. RowFact(r, ex, kind)
  BY Zenon DEF Row, RowFact
<1> HIDE DEF r
<1>2. Only(r, valid) = Rows(<<r>>) \/ Only(r, valid) = Err
  BY Zenon DEF Only
<1>3. ResultFact(Rows(<<r>>), ex, kind)
  <2>1. DOMAIN <<r>> = 1..1 /\ <<r>>[1] = r
    OBVIOUS
  <2>2. Rows(<<r>>).out = "rows" /\ Rows(<<r>>).rows = <<r>>
    BY Zenon DEF Rows
  <2> QED
    BY <1>1, <2>1, <2>2 DEF ResultFact
<1>4. ResultFact(Err, ex, kind)
  <2>1. Err.out = "error" /\ DOMAIN Err.rows = 1..0
    BY DEF Err
  <2> QED
    BY <2>1 DEF ResultFact
<1> QED
  BY <1>2, <1>3, <1>4, Zenon DEF r

\* Rows at some of the positions of an answer.
LEMMA RowsFact ==
    ASSUME NEW n \in Nat, NEW D \in SUBSET (1..n), NEW ex, NEW kind, NEW f, DOMAIN f = D,
           \A i \in D : RowFact(f[i], ex, kind)
    PROVE  ResultFact(Rows(f), ex, kind)
<1>1. Rows(f).out = "rows" /\ Rows(f).rows = f
  BY Zenon DEF Rows
<1> QED
  BY <1>1, Zenon DEF ResultFact

\* No rows.
LEMMA NoRows ==
    ASSUME NEW ex, NEW kind
    PROVE  ResultFact(Err, ex, kind) /\ ResultFact(Panic, ex, kind) /\ ResultFact(Rows(<<>>), ex, kind)
<1>1. Err.out = "error" /\ DOMAIN Err.rows = 1..0
  BY DEF Err
<1>2. Panic.out = "panic" /\ DOMAIN Panic.rows = 1..0
  BY DEF Panic
<1>3. Rows(<<>>).out = "rows" /\ DOMAIN Rows(<<>>).rows = 1..0
  BY DEF Rows
<1> QED
  BY <1>1, <1>2, <1>3 DEF ResultFact


\* Rows made of some of the items, or none.
LEMMA MadeRows ==
    ASSUME NEW a \in Answer, NEW ex, NEW kind, NEW result,
           \/ result \in {Err, Panic}
           \/ /\ result.out = "rows" /\ DOMAIN result.rows \subseteq DOMAIN a.items
              /\ \A i \in DOMAIN result.rows : RowFact(result.rows[i], ex, kind)
    PROVE  ResultFact(result, ex, kind)
<1>1. Len(a.items) \in Nat /\ DOMAIN a.items = 1..Len(a.items)
  BY AnswerTypes, Zenon
<1> QED
  BY <1>1, NoRows, Zenon DEF ResultFact

\* The rows of lists.
LEMMA ListRow ==
    ASSUME NEW ex, NEW at \in Int, at >= Zero, NEW p, NEW num
    PROVE  /\ RowFact(Kline(ex, at, p, num), ex, "kline")
           /\ RowFact(OpenInterest(ex, at, p, num), ex, "open_interest")
           /\ RowFact(LongShort(ex, at, p, num), ex, "long_short_ratio")
           /\ RowFact(Basis(ex, at, num), ex, "basis")
  BY Zenon DEF RowFact, Kline, OpenInterest, LongShort, Basis, Row

\* The times of an answer's items.
LEMMA ItemTimes ==
    ASSUME NEW a \in Answer, NEW i \in DOMAIN a.items, NEW t \in Nat, NEW typed
    PROVE  /\ Millis(a.items[i], typed) \in Int /\ Millis(a.items[i], typed) >= Zero
           /\ Seconds(a.items[i]) \in Int /\ Seconds(a.items[i]) >= Zero
           /\ OrCaptured(a.items[i].at, t) \in Int /\ OrCaptured(a.items[i].at, t) >= Zero
           /\ a.items[i].at \in Int /\ a.items[i].at >= Zero
<1>1. a.items[i].at \in Nat
  BY AnswerTypes, Zenon
<1> QED
  BY <1>1, ParsedTimes DEF Millis, Seconds, Zero

\* The rows of candles.
LEMMA KlineRows ==
    ASSUME NEW a \in Answer, NEW t \in Nat, NEW p
    PROVE  /\ ResultFact(binanceKline(a, t, p), "binance", "kline")
           /\ ResultFact(okxKline(a, t, p), "okx", "kline")
           /\ ResultFact(bybitKline(a, t, p), "bybit", "kline")
           /\ ResultFact(mexcKline(a, t, p), "mexc", "kline")
           /\ ResultFact(bitgetKline(a, t, p), "bitget", "kline")
           /\ ResultFact(gateKline(a, t, p), "gate", "kline")
<1>1. ResultFact(binanceKline(a, t, p), "binance", "kline")
  <2> DEFINE row(i) == Kline("binance", Millis(a.items[i], "any"), p, parseFloatSafe(a.items[i].num))
             result == binanceKline(a, t, p)
  <2>1. \A i \in DOMAIN a.items : RowFact(row(i), "binance", "kline")
    BY ItemTimes, ListRow, Zenon
  <2>2. \/ result \in {Err, Panic}
        \/ /\ result.out = "rows" /\ DOMAIN result.rows \subseteq DOMAIN a.items
           /\ \A i \in DOMAIN result.rows : result.rows[i] = row(i)
    BY Zenon DEF binanceKline, Each, Rows
  <2> HIDE DEF row, result
  <2> QED
    BY <2>1, <2>2, MadeRows, Zenon DEF result
<1>2. ResultFact(okxKline(a, t, p), "okx", "kline")
  <2> DEFINE row(i) == Kline("okx", Millis(a.items[i], "any"), p, parseFloatSafe(a.items[i].num))
             result == okxKline(a, t, p)
  <2>1. \A i \in DOMAIN a.items : RowFact(row(i), "okx", "kline")
    BY ItemTimes, ListRow, Zenon
  <2>2. \/ result \in {Err, Panic}
        \/ /\ result.out = "rows" /\ DOMAIN result.rows \subseteq DOMAIN a.items
           /\ \A i \in DOMAIN result.rows : result.rows[i] = row(i)
    BY Zenon DEF okxKline, Each, Rows
  <2> HIDE DEF row, result
  <2> QED
    BY <2>1, <2>2, MadeRows, Zenon DEF result
<1>3. ResultFact(bybitKline(a, t, p), "bybit", "kline")
  <2> DEFINE row(i) == Kline("bybit", Millis(a.items[i], "text"), p, parseFloatSafe(a.items[i].num))
             result == bybitKline(a, t, p)
  <2>1. \A i \in DOMAIN a.items : RowFact(row(i), "bybit", "kline")
    BY ItemTimes, ListRow, Zenon
  <2>2. \/ result \in {Err, Panic}
        \/ /\ result.out = "rows" /\ DOMAIN result.rows \subseteq DOMAIN a.items
           /\ \A i \in DOMAIN result.rows : result.rows[i] = row(i)
    BY Zenon DEF bybitKline, Each, Whole, Rows
  <2> HIDE DEF row, result
  <2> QED
    BY <2>1, <2>2, MadeRows, Zenon DEF result
<1>4. ResultFact(mexcKline(a, t, p), "mexc", "kline")
  <2> DEFINE row(i) == Kline("mexc", a.items[i].at, p, a.items[i].num)
             result == mexcKline(a, t, p)
  <2>1. \A i \in DOMAIN a.items : RowFact(row(i), "mexc", "kline")
    BY ItemTimes, ListRow, Zenon
  <2>2. \/ result \in {Err, Panic}
        \/ /\ result.out = "rows" /\ DOMAIN result.rows \subseteq DOMAIN a.items
           /\ \A i \in DOMAIN result.rows : result.rows[i] = row(i)
    BY Zenon DEF mexcKline, Each, Whole, Rows
  <2> HIDE DEF row, result
  <2> QED
    BY <2>1, <2>2, MadeRows, Zenon DEF result
<1>5. ResultFact(bitgetKline(a, t, p), "bitget", "kline")
  <2> DEFINE row(i) == Kline("bitget", Millis(a.items[i], "any"), p, parseFloatSafe(a.items[i].num))
             result == bitgetKline(a, t, p)
  <2>1. \A i \in DOMAIN a.items : RowFact(row(i), "bitget", "kline")
    BY ItemTimes, ListRow, Zenon
  <2>2. \/ result \in {Err, Panic}
        \/ /\ result.out = "rows" /\ DOMAIN result.rows \subseteq DOMAIN a.items
           /\ \A i \in DOMAIN result.rows : result.rows[i] = row(i)
    BY Zenon DEF bitgetKline, Each, Rows
  <2> HIDE DEF row, result
  <2> QED
    BY <2>1, <2>2, MadeRows, Zenon DEF result
<1>6. ResultFact(gateKline(a, t, p), "gate", "kline")
  <2> DEFINE row(i) == Kline("gate", Seconds(a.items[i]), p, parseFloatSafe(a.items[i].num))
             result == gateKline(a, t, p)
  <2>1. \A i \in DOMAIN a.items : RowFact(row(i), "gate", "kline")
    BY ItemTimes, ListRow, Zenon
  <2>2. \/ result \in {Err, Panic}
        \/ /\ result.out = "rows" /\ DOMAIN result.rows \subseteq DOMAIN a.items
           /\ \A i \in DOMAIN result.rows : result.rows[i] = row(i)
    BY Zenon DEF gateKline, Each, Whole, Rows
  <2> HIDE DEF row, result
  <2> QED
    BY <2>1, <2>2, MadeRows, Zenon DEF result
<1> QED
  BY <1>1, <1>2, <1>3, <1>4, <1>5, <1>6, Zenon

\* The rows of long/short ratios.
LEMMA LongShortRows ==
    ASSUME NEW a \in Answer, NEW t \in Nat, NEW p
    PROVE  /\ ResultFact(binanceLongShortRatio(a, t, p), "binance", "long_short_ratio")
           /\ ResultFact(okxLongShortRatio(a, t, p), "okx", "long_short_ratio")
           /\ ResultFact(bybitLongShortRatio(a, t, p), "bybit", "long_short_ratio")
           /\ ResultFact(bitgetLongShortRatio(a, t, p), "bitget", "long_short_ratio")
           /\ ResultFact(gateLongShortRatio(a, t, p), "gate", "long_short_ratio")
<1>1. ResultFact(binanceLongShortRatio(a, t, p), "binance", "long_short_ratio")
  <2> DEFINE row(i) == LongShort("binance", Millis(a.items[i], "int64"), p, floatPtrSafe(a.items[i].num))
             result == binanceLongShortRatio(a, t, p)
  <2>1. \A i \in DOMAIN a.items : RowFact(row(i), "binance", "long_short_ratio")
    BY ItemTimes, ListRow, Zenon
  <2>2. \/ result \in {Err, Panic}
        \/ /\ result.out = "rows" /\ DOMAIN result.rows \subseteq DOMAIN a.items
           /\ \A i \in DOMAIN result.rows : result.rows[i] = row(i)
    BY Zenon DEF binanceLongShortRatio, Each, Rows
  <2> HIDE DEF row, result
  <2> QED
    BY <2>1, <2>2, MadeRows, Zenon DEF result
<1>2. ResultFact(okxLongShortRatio(a, t, p), "okx", "long_short_ratio")
  <2> DEFINE row(i) == LongShort("okx", Millis(a.items[i], "any"), p, floatPtrSafe(a.items[i].num))
             result == okxLongShortRatio(a, t, p)
  <2>1. \A i \in DOMAIN a.items : RowFact(row(i), "okx", "long_short_ratio")
    BY ItemTimes, ListRow, Zenon
  <2>2. \/ result \in {Err, Panic}
        \/ /\ result.out = "rows" /\ DOMAIN result.rows \subseteq DOMAIN a.items
           /\ \A i \in DOMAIN result.rows : result.rows[i] = row(i)
    BY Zenon DEF okxLongShortRatio, Each, Rows
  <2> HIDE DEF row, result
  <2> QED
    BY <2>1, <2>2, MadeRows, Zenon DEF result
<1>3. ResultFact(bybitLongShortRatio(a, t, p), "bybit", "long_short_ratio")
  <2> DEFINE row(i) == LongShort("bybit", Millis(a.items[i], "text"), p, floatPtrSafe(a.items[i].num))
             result == bybitLongShortRatio(a, t, p)
  <2>1. \A i \in DOMAIN a.items : RowFact(row(i), "bybit", "long_short_ratio")
    BY ItemTimes, ListRow, Zenon
  <2>2. \/ result \in {Err, Panic}
        \/ /\ result.out = "rows" /\ DOMAIN result.rows \subseteq DOMAIN a.items
           /\ \A i \in DOMAIN result.rows : result.rows[i] = row(i)
    BY Zenon DEF bybitLongShortRatio, Each, Rows
  <2> HIDE DEF row, result
  <2> QED
    BY <2>1, <2>2, MadeRows, Zenon DEF result
<1>4. ResultFact(bitgetLongShortRatio(a, t, p), "bitget", "long_short_ratio")
  <2> DEFINE row(i) == LongShort("bitget", OrCaptured(a.items[i].at, t), p, floatPtrSafe(a.items[i].num))
             result == bitgetLongShortRatio(a, t, p)
  <2>1. \A i \in DOMAIN a.items : RowFact(row(i), "bitget", "long_short_ratio")
    BY ItemTimes, ListRow, Zenon
  <2>2. \/ result \in {Err, Panic}
        \/ /\ result.out = "rows" /\ DOMAIN result.rows \subseteq DOMAIN a.items
           /\ \A i \in DOMAIN result.rows : result.rows[i] = row(i)
    BY Zenon DEF bitgetLongShortRatio, Each, Rows
  <2> HIDE DEF row, result
  <2> QED
    BY <2>1, <2>2, MadeRows, Zenon DEF result
<1>5. ResultFact(gateLongShortRatio(a, t, p), "gate", "long_short_ratio")
  <2> DEFINE row(i) == LongShort("gate", Seconds(a.items[i]), p, floatPtrSafe(a.items[i].num))
             result == gateLongShortRatio(a, t, p)
  <2>1. \A i \in DOMAIN a.items : RowFact(row(i), "gate", "long_short_ratio")
    BY ItemTimes, ListRow, Zenon
  <2>2. \/ result \in {Err, Panic}
        \/ /\ result.out = "rows" /\ DOMAIN result.rows \subseteq DOMAIN a.items
           /\ \A i \in DOMAIN result.rows : result.rows[i] = row(i)
    BY Zenon DEF gateLongShortRatio, Each, Whole, Rows
  <2> HIDE DEF row, result
  <2> QED
    BY <2>1, <2>2, MadeRows, Zenon DEF result
<1> QED
  BY <1>1, <1>2, <1>3, <1>4, <1>5, Zenon

\* The rows of basis premiums.
LEMMA BasisRows ==
    ASSUME NEW a \in Answer, NEW t \in Nat, NEW p
    PROVE  /\ ResultFact(binanceBasis(a, t, p), "binance", "basis")
           /\ ResultFact(gateBasis(a, t, p), "gate", "basis")
<1>1. ResultFact(binanceBasis(a, t, p), "binance", "basis")
  <2> DEFINE row(i) == Basis("binance", Millis(a.items[i], "int64"), floatPtrSafe(a.items[i].num))
             result == binanceBasis(a, t, p)
  <2>1. \A i \in DOMAIN a.items : RowFact(row(i), "binance", "basis")
    BY ItemTimes, ListRow, Zenon
  <2>2. \/ result \in {Err, Panic}
        \/ /\ result.out = "rows" /\ DOMAIN result.rows \subseteq DOMAIN a.items
           /\ \A i \in DOMAIN result.rows : result.rows[i] = row(i)
    BY Zenon DEF binanceBasis, Each, Rows
  <2> HIDE DEF row, result
  <2> QED
    BY <2>1, <2>2, MadeRows, Zenon DEF result
<1>2. ResultFact(gateBasis(a, t, p), "gate", "basis")
  <2> DEFINE row(i) == Basis("gate", Seconds(a.items[i]), "none")
             result == gateBasis(a, t, p)
  <2>1. \A i \in DOMAIN a.items : RowFact(row(i), "gate", "basis")
    BY ItemTimes, ListRow, Zenon
  <2>2. \/ result \in {Err, Panic}
        \/ /\ result.out = "rows" /\ DOMAIN result.rows \subseteq DOMAIN a.items
           /\ \A i \in DOMAIN result.rows : result.rows[i] = row(i)
    BY Zenon DEF gateBasis, Each, Whole, Rows
  <2> HIDE DEF row, result
  <2> QED
    BY <2>1, <2>2, MadeRows, Zenon DEF result
<1> QED
  BY <1>1, <1>2, Zenon

\* The row of a ticker.
LEMMA SnapshotRow ==
    ASSUME NEW ex, NEW at \in Nat \cup {Unparsed}, NEW item
    PROVE  ResultFact(MarketSnapshot(ex, at, item), ex, "market_snapshot")
<1>1. CASE at = Unparsed
  BY <1>1, NoRows, Zenon DEF MarketSnapshot, Only
<1>2. CASE at \in Nat
  <2>1. at \in Int /\ at >= Zero
    BY <1>2 DEF Zero
  <2> QED
    BY <2>1, OnlyFact, Zenon DEF MarketSnapshot
<1> QED
  BY <1>1, <1>2, Zenon

\* The rows of tickers and of current funding.
LEMMA TickerRows ==
    ASSUME NEW a \in Answer, NEW t \in Nat
    PROVE  /\ ResultFact(binanceTicker(a, t), "binance", "market_snapshot")
           /\ ResultFact(okxTicker(a, t), "okx", "market_snapshot")
           /\ ResultFact(bybitTicker(a, t), "bybit", "market_snapshot")
           /\ ResultFact(mexcTicker(a, t), "mexc", "market_snapshot")
           /\ ResultFact(bitgetTicker(a, t), "bitget", "market_snapshot")
           /\ ResultFact(gateTicker(a, t), "gate", "market_snapshot")
<1>1. /\ OrCaptured(Object(a).at, t) \in Nat \cup {Unparsed}
      /\ a.items # <<>> => \A typed : MillisToTime(a.items[1].at, typed) \in Nat \cup {Unparsed}
  BY AnswerTypes, ParsedTimes, Zenon
<1>2. ResultFact(binanceTicker(a, t), "binance", "market_snapshot")
  BY <1>1, SnapshotRow, NoRows, Zenon DEF binanceTicker
<1>3. ResultFact(okxTicker(a, t), "okx", "market_snapshot")
  BY <1>1, SnapshotRow, NoRows, Zenon DEF okxTicker
<1>4. ResultFact(bybitTicker(a, t), "bybit", "market_snapshot")
  BY <1>1, SnapshotRow, NoRows, Zenon DEF bybitTicker
<1>5. ResultFact(mexcTicker(a, t), "mexc", "market_snapshot")
  BY <1>1, SnapshotRow, NoRows, Zenon DEF mexcTicker
<1>6. ResultFact(bitgetTicker(a, t), "bitget", "market_snapshot")
  BY <1>1, SnapshotRow, NoRows, Zenon DEF bitgetTicker
<1>7. ResultFact(gateTicker(a, t), "gate", "market_snapshot")
  BY SnapshotRow, NoRows, Zenon DEF gateTicker
<1> QED
  BY <1>2, <1>3, <1>4, <1>5, <1>6, <1>7, Zenon

\* The row of the current open interest.
LEMMA CurrentRow ==
    ASSUME NEW ex, NEW at \in Int, at >= Zero, NEW num
    PROVE  ResultFact(Current(OpenInterest(ex, at, "", num)), ex, "open_interest")
  BY OnlyFact, Zenon DEF Current, OpenInterest

\* The rows of open interest.
LEMMA OpenInterestRows ==
    ASSUME NEW a \in Answer, NEW t \in Nat, NEW p
    PROVE  /\ ResultFact(binanceOpenInterest(a, t, p), "binance", "open_interest")
           /\ ResultFact(okxOpenInterest(a, t, p), "okx", "open_interest")
           /\ ResultFact(bybitOpenInterest(a, t, p), "bybit", "open_interest")
           /\ ResultFact(mexcOpenInterest(a, t, p), "mexc", "open_interest")
           /\ ResultFact(bitgetOpenInterest(a, t, p), "bitget", "open_interest")
           /\ ResultFact(gateOpenInterest(a, t, p), "gate", "open_interest")
<1>1. /\ \A item : item.at \in Nat => OrCaptured(item.at, t) \in Int /\ OrCaptured(item.at, t) >= Zero
      /\ a.items # <<>> => OrCaptured(a.items[1].at, t) \in Int /\ OrCaptured(a.items[1].at, t) >= Zero
      /\ a.items # <<>> => Millis(a.items[1], "text") \in Int /\ Millis(a.items[1], "text") >= Zero
  <2>1. \A at \in Nat : OrCaptured(at, t) \in Int /\ OrCaptured(at, t) >= Zero
    BY ParsedTimes DEF Zero
  <2>2. a.items # <<>> => a.items[1].at \in Nat
    BY AnswerTypes, Zenon
  <2>3. a.items # <<>> => Millis(a.items[1], "text") \in Int /\ Millis(a.items[1], "text") >= Zero
    BY <2>2, ParsedTimes, Zenon DEF Millis
  <2> QED
    BY <2>1, <2>2, <2>3, Zenon
<1>2. Blank.at \in Nat /\ Object(a).at \in Nat
  BY AnswerTypes, Zenon DEF Blank, Absent
<1>3. ResultFact(binanceOpenInterest(a, t, p), "binance", "open_interest")
  BY <1>1, <1>2, CurrentRow, Zenon DEF binanceOpenInterest
<1>4. ResultFact(okxOpenInterest(a, t, p), "okx", "open_interest")
  BY <1>1, CurrentRow, NoRows, Zenon DEF okxOpenInterest
<1>5. ResultFact(bybitOpenInterest(a, t, p), "bybit", "open_interest")
  BY <1>1, CurrentRow, NoRows, Zenon DEF bybitOpenInterest
<1>6. ResultFact(mexcOpenInterest(a, t, p), "mexc", "open_interest")
  BY <1>1, CurrentRow, NoRows, Zenon DEF mexcOpenInterest
<1>7. ResultFact(bitgetOpenInterest(a, t, p), "bitget", "open_interest")
  BY <1>1, CurrentRow, NoRows, Zenon DEF bitgetOpenInterest
<1>8. ResultFact(gateOpenInterest(a, t, p), "gate", "open_interest")
  <2> DEFINE row(i) == OpenInterest("gate", Seconds(a.items[i]), p, parseFloatSafe(a.items[i].num))
             result == gateOpenInterest(a, t, p)
  <2>1. \A i \in DOMAIN a.items : RowFact(row(i), "gate", "open_interest")
    BY ItemTimes, ListRow, Zenon
  <2>2. \/ result \in {Err, Panic}
        \/ /\ result.out = "rows" /\ DOMAIN result.rows \subseteq DOMAIN a.items
           /\ \A i \in DOMAIN result.rows : result.rows[i] = row(i)
    BY Zenon DEF gateOpenInterest, Each, Whole, Rows
  <2> HIDE DEF row, result
  <2> QED
    BY <2>1, <2>2, MadeRows, Zenon DEF result
<1> QED
  BY <1>3, <1>4, <1>5, <1>6, <1>7, <1>8, Zenon

\* The row of an order book.
LEMMA BookRow ==
    ASSUME NEW ex, NEW at \in Nat, NEW levels
    PROVE  ResultFact(Book(ex, at, levels), ex, "orderbook")
<1>1. at \in Int /\ at >= Zero
  BY DEF Zero
<1> DEFINE row == Row("orderbook", ex, at, "", calcOBNotional(levels), "none")
<1>2. ResultFact(Only(row, ValidateOrderbookImbalance(row)), ex, "orderbook")
  BY <1>1, OnlyFact, Zenon
<1>3. Book(ex, at, levels) \in {Panic, Only(row, ValidateOrderbookImbalance(row))}
  BY Zenon DEF Book
<1> HIDE DEF row
<1> QED
  BY <1>2, <1>3, NoRows, Zenon

\* The rows of order books.
LEMMA OrderbookRows ==
    ASSUME NEW a \in Answer, NEW t \in Nat
    PROVE  /\ ResultFact(binanceOrderbook(a, t), "binance", "orderbook")
           /\ ResultFact(okxOrderbook(a, t), "okx", "orderbook")
           /\ ResultFact(bybitOrderbook(a, t), "bybit", "orderbook")
           /\ ResultFact(mexcOrderbook(a, t), "mexc", "orderbook")
           /\ ResultFact(bitgetOrderbook(a, t), "bitget", "orderbook")
           /\ ResultFact(gateOrderbook(a, t), "gate", "orderbook")
<1>1. a.items # <<>> => OrCaptured(a.items[1].at, t) \in Nat
  BY AnswerTypes, ParsedTimes, Zenon
<1>2. ResultFact(binanceOrderbook(a, t), "binance", "orderbook")
  BY BookRow, Zenon DEF binanceOrderbook
<1>3. ResultFact(okxOrderbook(a, t), "okx", "orderbook")
  BY <1>1, BookRow, NoRows, Zenon DEF okxOrderbook
<1>4. ResultFact(bybitOrderbook(a, t), "bybit", "orderbook")
  BY BookRow, NoRows, Zenon DEF bybitOrderbook
<1>5. ResultFact(mexcOrderbook(a, t), "mexc", "orderbook")
  BY BookRow, NoRows, Zenon DEF mexcOrderbook
<1>6. ResultFact(bitgetOrderbook(a, t), "bitget", "orderbook")
  BY BookRow, NoRows, Zenon DEF bitgetOrderbook
<1>7. ResultFact(gateOrderbook(a, t), "gate", "orderbook")
  BY BookRow, Zenon DEF gateOrderbook
<1> QED
  BY <1>2, <1>3, <1>4, <1>5, <1>6, <1>7, Zenon

\* The kind of row that a type of job brings.
KindOf(type) ==
    CASE type \in {"ticker", "funding"} -> "market_snapshot"
      [] type \in {"kline", "open_interest", "long_short_ratio", "basis", "orderbook"} -> type
      [] OTHER -> "kline"

\* Every normalizer returns rows of one kind and of its exchange, with a time that is
\* no failed parse (the normalizers of adapters/*).
LEMMA NormalizedRows ==
    ASSUME NEW ex \in Exchanges, NEW type, NEW a \in Answer, NEW t \in Nat, NEW p
    PROVE  ResultFact(Normalize(ex, type, a, t, p), ex, KindOf(type))
<1>1. CASE type \in {"ticker", "funding"}
  BY <1>1, TickerRows, Zenon DEF Normalize, KindOf, Exchanges
<1>2. CASE type = "kline"
  BY <1>2, KlineRows, Zenon DEF Normalize, KindOf, Exchanges
<1>3. CASE type = "open_interest"
  BY <1>3, OpenInterestRows, Zenon DEF Normalize, KindOf, Exchanges
<1>4. CASE type = "long_short_ratio"
  BY <1>4, LongShortRows, NoRows, Zenon DEF Normalize, KindOf, Exchanges
<1>5. CASE type = "basis"
  BY <1>5, BasisRows, NoRows, Zenon DEF Normalize, KindOf, Exchanges
<1>6. CASE type = "orderbook"
  BY <1>6, OrderbookRows, Zenon DEF Normalize, KindOf, Exchanges
<1>7. CASE type \notin {"ticker", "funding", "kline", "open_interest", "long_short_ratio", "basis", "orderbook"}
  BY <1>7, NoRows, Zenon DEF Normalize
<1> QED
  BY <1>1, <1>2, <1>3, <1>4, <1>5, <1>6, <1>7, Zenon

\* The times of an answer's items, and rows that have no other.
Times(a) == {a.items[i].at : i \in DOMAIN a.items}

ItemTimed(result, a) ==
    \A i \in DOMAIN result.rows : result.rows[i].at = Zero \/ result.rows[i].at \in Times(a)

\* A row with the time of an item, or none.
TimedBy(r, item) == r.at = Zero \/ r.at = item.at

\* A time that is parsed is the item's, or none.
LEMMA ParsedIsItems ==
    ASSUME NEW item, NEW typed
    PROVE  /\ Millis(item, typed) = Zero \/ Millis(item, typed) = item.at
           /\ Seconds(item) = Zero \/ Seconds(item) = item.at
  BY Zenon DEF Millis, Seconds, MustTime, MillisToTime, SecondsToTime

\* No rows, no times.
LEMMA NoTimes ==
    ASSUME NEW a
    PROVE  ItemTimed(Err, a) /\ ItemTimed(Panic, a)
<1>1. DOMAIN Err.rows = {} /\ DOMAIN Panic.rows = {}
  BY DEF Err, Panic
<1> QED
  BY <1>1, Zenon DEF ItemTimed

\* Rows made of some of the items, with their times.
LEMMA MadeTimes ==
    ASSUME NEW a, NEW result,
           \/ result \in {Err, Panic}
           \/ /\ DOMAIN result.rows \subseteq DOMAIN a.items
              /\ \A i \in DOMAIN result.rows : TimedBy(result.rows[i], a.items[i])
    PROVE  ItemTimed(result, a)
<1>1. CASE result \in {Err, Panic}
  BY <1>1, NoTimes, Zenon
<1>2. CASE /\ DOMAIN result.rows \subseteq DOMAIN a.items
           /\ \A i \in DOMAIN result.rows : TimedBy(result.rows[i], a.items[i])
  BY <1>2, Zenon DEF ItemTimed, Times, TimedBy
<1> QED
  BY <1>1, <1>2, Zenon

\* The time of a list's row.
LEMMA RowTime ==
    ASSUME NEW ex, NEW at, NEW p, NEW num, NEW item, at = Zero \/ at = item.at
    PROVE  /\ TimedBy(Kline(ex, at, p, num), item) /\ TimedBy(OpenInterest(ex, at, p, num), item)
           /\ TimedBy(LongShort(ex, at, p, num), item) /\ TimedBy(Basis(ex, at, num), item)
  BY Zenon DEF TimedBy, Kline, OpenInterest, LongShort, Basis, Row

\* The times of candles.
LEMMA KlineTimes ==
    ASSUME NEW a, NEW t, NEW p
    PROVE  /\ ItemTimed(binanceKline(a, t, p), a)
           /\ ItemTimed(okxKline(a, t, p), a)
           /\ ItemTimed(bybitKline(a, t, p), a)
           /\ ItemTimed(mexcKline(a, t, p), a)
           /\ ItemTimed(bitgetKline(a, t, p), a)
           /\ ItemTimed(gateKline(a, t, p), a)
<1>1. ItemTimed(binanceKline(a, t, p), a)
  <2> DEFINE row(i) == Kline("binance", Millis(a.items[i], "any"), p, parseFloatSafe(a.items[i].num))
             result == binanceKline(a, t, p)
  <2>1. \A i : TimedBy(row(i), a.items[i])
    BY ParsedIsItems, RowTime, Zenon
  <2>2. \/ result \in {Err, Panic}
        \/ /\ DOMAIN result.rows \subseteq DOMAIN a.items
           /\ \A i \in DOMAIN result.rows : result.rows[i] = row(i)
    BY Zenon DEF binanceKline, Each, Rows
  <2> HIDE DEF row, result
  <2> QED
    BY <2>1, <2>2, MadeTimes, Zenon DEF result
<1>2. ItemTimed(okxKline(a, t, p), a)
  <2> DEFINE row(i) == Kline("okx", Millis(a.items[i], "any"), p, parseFloatSafe(a.items[i].num))
             result == okxKline(a, t, p)
  <2>1. \A i : TimedBy(row(i), a.items[i])
    BY ParsedIsItems, RowTime, Zenon
  <2>2. \/ result \in {Err, Panic}
        \/ /\ DOMAIN result.rows \subseteq DOMAIN a.items
           /\ \A i \in DOMAIN result.rows : result.rows[i] = row(i)
    BY Zenon DEF okxKline, Each, Rows
  <2> HIDE DEF row, result
  <2> QED
    BY <2>1, <2>2, MadeTimes, Zenon DEF result
<1>3. ItemTimed(bybitKline(a, t, p), a)
  <2> DEFINE row(i) == Kline("bybit", Millis(a.items[i], "text"), p, parseFloatSafe(a.items[i].num))
             result == bybitKline(a, t, p)
  <2>1. \A i : TimedBy(row(i), a.items[i])
    BY ParsedIsItems, RowTime, Zenon
  <2>2. \/ result \in {Err, Panic}
        \/ /\ DOMAIN result.rows \subseteq DOMAIN a.items
           /\ \A i \in DOMAIN result.rows : result.rows[i] = row(i)
    BY Zenon DEF bybitKline, Each, Whole, Rows
  <2> HIDE DEF row, result
  <2> QED
    BY <2>1, <2>2, MadeTimes, Zenon DEF result
<1>4. ItemTimed(mexcKline(a, t, p), a)
  <2> DEFINE row(i) == Kline("mexc", a.items[i].at, p, a.items[i].num)
             result == mexcKline(a, t, p)
  <2>1. \A i : TimedBy(row(i), a.items[i])
    BY ParsedIsItems, RowTime, Zenon
  <2>2. \/ result \in {Err, Panic}
        \/ /\ DOMAIN result.rows \subseteq DOMAIN a.items
           /\ \A i \in DOMAIN result.rows : result.rows[i] = row(i)
    BY Zenon DEF mexcKline, Each, Whole, Rows
  <2> HIDE DEF row, result
  <2> QED
    BY <2>1, <2>2, MadeTimes, Zenon DEF result
<1>5. ItemTimed(bitgetKline(a, t, p), a)
  <2> DEFINE row(i) == Kline("bitget", Millis(a.items[i], "any"), p, parseFloatSafe(a.items[i].num))
             result == bitgetKline(a, t, p)
  <2>1. \A i : TimedBy(row(i), a.items[i])
    BY ParsedIsItems, RowTime, Zenon
  <2>2. \/ result \in {Err, Panic}
        \/ /\ DOMAIN result.rows \subseteq DOMAIN a.items
           /\ \A i \in DOMAIN result.rows : result.rows[i] = row(i)
    BY Zenon DEF bitgetKline, Each, Rows
  <2> HIDE DEF row, result
  <2> QED
    BY <2>1, <2>2, MadeTimes, Zenon DEF result
<1>6. ItemTimed(gateKline(a, t, p), a)
  <2> DEFINE row(i) == Kline("gate", Seconds(a.items[i]), p, parseFloatSafe(a.items[i].num))
             result == gateKline(a, t, p)
  <2>1. \A i : TimedBy(row(i), a.items[i])
    BY ParsedIsItems, RowTime, Zenon
  <2>2. \/ result \in {Err, Panic}
        \/ /\ DOMAIN result.rows \subseteq DOMAIN a.items
           /\ \A i \in DOMAIN result.rows : result.rows[i] = row(i)
    BY Zenon DEF gateKline, Each, Whole, Rows
  <2> HIDE DEF row, result
  <2> QED
    BY <2>1, <2>2, MadeTimes, Zenon DEF result
<1> QED
  BY <1>1, <1>2, <1>3, <1>4, <1>5, <1>6, Zenon

\* The times of long/short ratios, basis premiums and Gate's open interest.
LEMMA SeriesTimes ==
    ASSUME NEW a, NEW t, NEW p
    PROVE  /\ ItemTimed(binanceLongShortRatio(a, t, p), a)
           /\ ItemTimed(okxLongShortRatio(a, t, p), a)
           /\ ItemTimed(bybitLongShortRatio(a, t, p), a)
           /\ ItemTimed(gateLongShortRatio(a, t, p), a)
           /\ ItemTimed(binanceBasis(a, t, p), a)
           /\ ItemTimed(gateBasis(a, t, p), a)
           /\ ItemTimed(gateOpenInterest(a, t, p), a)
<1>1. ItemTimed(binanceLongShortRatio(a, t, p), a)
  <2> DEFINE row(i) == LongShort("binance", Millis(a.items[i], "int64"), p, floatPtrSafe(a.items[i].num))
             result == binanceLongShortRatio(a, t, p)
  <2>1. \A i : TimedBy(row(i), a.items[i])
    BY ParsedIsItems, RowTime, Zenon
  <2>2. \/ result \in {Err, Panic}
        \/ /\ DOMAIN result.rows \subseteq DOMAIN a.items
           /\ \A i \in DOMAIN result.rows : result.rows[i] = row(i)
    BY Zenon DEF binanceLongShortRatio, Each, Rows
  <2> HIDE DEF row, result
  <2> QED
    BY <2>1, <2>2, MadeTimes, Zenon DEF result
<1>2. ItemTimed(okxLongShortRatio(a, t, p), a)
  <2> DEFINE row(i) == LongShort("okx", Millis(a.items[i], "any"), p, floatPtrSafe(a.items[i].num))
             result == okxLongShortRatio(a, t, p)
  <2>1. \A i : TimedBy(row(i), a.items[i])
    BY ParsedIsItems, RowTime, Zenon
  <2>2. \/ result \in {Err, Panic}
        \/ /\ DOMAIN result.rows \subseteq DOMAIN a.items
           /\ \A i \in DOMAIN result.rows : result.rows[i] = row(i)
    BY Zenon DEF okxLongShortRatio, Each, Rows
  <2> HIDE DEF row, result
  <2> QED
    BY <2>1, <2>2, MadeTimes, Zenon DEF result
<1>3. ItemTimed(bybitLongShortRatio(a, t, p), a)
  <2> DEFINE row(i) == LongShort("bybit", Millis(a.items[i], "text"), p, floatPtrSafe(a.items[i].num))
             result == bybitLongShortRatio(a, t, p)
  <2>1. \A i : TimedBy(row(i), a.items[i])
    BY ParsedIsItems, RowTime, Zenon
  <2>2. \/ result \in {Err, Panic}
        \/ /\ DOMAIN result.rows \subseteq DOMAIN a.items
           /\ \A i \in DOMAIN result.rows : result.rows[i] = row(i)
    BY Zenon DEF bybitLongShortRatio, Each, Rows
  <2> HIDE DEF row, result
  <2> QED
    BY <2>1, <2>2, MadeTimes, Zenon DEF result
<1>4. ItemTimed(gateLongShortRatio(a, t, p), a)
  <2> DEFINE row(i) == LongShort("gate", Seconds(a.items[i]), p, floatPtrSafe(a.items[i].num))
             result == gateLongShortRatio(a, t, p)
  <2>1. \A i : TimedBy(row(i), a.items[i])
    BY ParsedIsItems, RowTime, Zenon
  <2>2. \/ result \in {Err, Panic}
        \/ /\ DOMAIN result.rows \subseteq DOMAIN a.items
           /\ \A i \in DOMAIN result.rows : result.rows[i] = row(i)
    BY Zenon DEF gateLongShortRatio, Each, Whole, Rows
  <2> HIDE DEF row, result
  <2> QED
    BY <2>1, <2>2, MadeTimes, Zenon DEF result
<1>5. ItemTimed(binanceBasis(a, t, p), a)
  <2> DEFINE row(i) == Basis("binance", Millis(a.items[i], "int64"), floatPtrSafe(a.items[i].num))
             result == binanceBasis(a, t, p)
  <2>1. \A i : TimedBy(row(i), a.items[i])
    BY ParsedIsItems, RowTime, Zenon
  <2>2. \/ result \in {Err, Panic}
        \/ /\ DOMAIN result.rows \subseteq DOMAIN a.items
           /\ \A i \in DOMAIN result.rows : result.rows[i] = row(i)
    BY Zenon DEF binanceBasis, Each, Rows
  <2> HIDE DEF row, result
  <2> QED
    BY <2>1, <2>2, MadeTimes, Zenon DEF result
<1>6. ItemTimed(gateBasis(a, t, p), a)
  <2> DEFINE row(i) == Basis("gate", Seconds(a.items[i]), "none")
             result == gateBasis(a, t, p)
  <2>1. \A i : TimedBy(row(i), a.items[i])
    BY ParsedIsItems, RowTime, Zenon
  <2>2. \/ result \in {Err, Panic}
        \/ /\ DOMAIN result.rows \subseteq DOMAIN a.items
           /\ \A i \in DOMAIN result.rows : result.rows[i] = row(i)
    BY Zenon DEF gateBasis, Each, Whole, Rows
  <2> HIDE DEF row, result
  <2> QED
    BY <2>1, <2>2, MadeTimes, Zenon DEF result
<1>7. ItemTimed(gateOpenInterest(a, t, p), a)
  <2> DEFINE row(i) == OpenInterest("gate", Seconds(a.items[i]), p, parseFloatSafe(a.items[i].num))
             result == gateOpenInterest(a, t, p)
  <2>1. \A i : TimedBy(row(i), a.items[i])
    BY ParsedIsItems, RowTime, Zenon
  <2>2. \/ result \in {Err, Panic}
        \/ /\ DOMAIN result.rows \subseteq DOMAIN a.items
           /\ \A i \in DOMAIN result.rows : result.rows[i] = row(i)
    BY Zenon DEF gateOpenInterest, Each, Whole, Rows
  <2> HIDE DEF row, result
  <2> QED
    BY <2>1, <2>2, MadeTimes, Zenon DEF result
<1> QED
  BY <1>1, <1>2, <1>3, <1>4, <1>5, <1>6, <1>7, Zenon

\* The time of a single row.
LEMMA OnlyTime ==
    ASSUME NEW a \in Answer, a.items # <<>>, NEW row, TimedBy(row, a.items[1]), NEW valid
    PROVE  ItemTimed(Only(row, valid), a)
<1>1. 1 \in DOMAIN a.items
  <2>1. a.items \in Seq(Item)
    BY Zenon DEF Answer
  <2> DEFINE s == a.items
  <2>2. s \in Seq(Item) /\ s # <<>>
    BY <2>1, Zenon
  <2> HIDE DEF s, Item
  <2>3. 1 \in DOMAIN s
    BY <2>2
  <2> QED
    BY <2>3, Zenon DEF s
<1>2. ItemTimed(Rows(<<row>>), a)
  <2>1. DOMAIN <<row>> = {1} /\ <<row>>[1] = row
    OBVIOUS
  <2>2. Rows(<<row>>).rows = <<row>>
    BY Zenon DEF Rows
  <2> QED
    BY <1>1, <2>1, <2>2, Zenon DEF ItemTimed, Times, TimedBy
<1> QED
  BY <1>2, NoTimes, Zenon DEF Only

\* The time of a ticker whose exchange stamps it.
LEMMA SnapshotTime ==
    ASSUME NEW a \in Answer, a.items # <<>>, NEW ex, NEW typed, NEW item
    PROVE  ItemTimed(MarketSnapshot(ex, MillisToTime(a.items[1].at, typed), item), a)
<1> DEFINE at == MillisToTime(a.items[1].at, typed)
           row == Row("market_snapshot", ex, at, "", FloatPtr(item.num), item.rate)
           valid == at # Unparsed /\ item.num # "junk" /\ ValidateMarketSnapshot(row)
<1>1. MarketSnapshot(ex, at, item) = Only(row, valid)
  BY Zenon DEF MarketSnapshot
<1>2. row.at = at /\ at \in {Unparsed, a.items[1].at} /\ (valid => at # Unparsed)
  BY Zenon DEF Row, MillisToTime
<1> HIDE DEF at, row, valid
<1>3. CASE at = Unparsed
  BY <1>1, <1>2, <1>3, NoTimes, Zenon DEF Only, at
<1>4. CASE at = a.items[1].at
  <2>1. TimedBy(row, a.items[1])
    BY <1>2, <1>4, Zenon DEF TimedBy
  <2>2. ItemTimed(Only(row, valid), a)
    BY <2>1, OnlyTime, Zenon
  <2> QED
    BY <1>1, <2>2, Zenon DEF at
<1> QED
  BY <1>2, <1>3, <1>4, Zenon

\* The rows of a stamped job have the times of the answer's items.
LEMMA StampedTimes ==
    ASSUME NEW j \in [ex : Exchanges, type : STRING, period : STRING], Stamped(j),
           NEW a \in Answer, NEW t
    PROVE  ItemTimed(Normalize(j.ex, j.type, a, t, j.period), a)
<1>1. CASE j.type \in {"ticker", "funding"} /\ j.ex \in {"okx", "mexc"}
  <2>1. ItemTimed(okxTicker(a, t), a)
    BY SnapshotTime, NoTimes, Zenon DEF okxTicker
  <2>2. ItemTimed(mexcTicker(a, t), a)
    BY SnapshotTime, NoTimes, Zenon DEF mexcTicker
  <2> QED
    BY <1>1, <2>1, <2>2, Zenon DEF Normalize
<1>2. CASE j.type = "kline"
  BY <1>2, KlineTimes, Zenon DEF Normalize, Exchanges
<1>3. CASE j.type = "basis"
  BY <1>3, SeriesTimes, NoTimes, Zenon DEF Normalize, Exchanges
<1>4. CASE j.type = "open_interest" /\ j.ex \in {"okx", "gate"}
  <2>1. ItemTimed(okxOpenInterest(a, t, j.period), a)
    BY OnlyTime, ParsedIsItems, RowTime, NoTimes, Zenon DEF okxOpenInterest, Current
  <2> QED
    BY <1>4, <2>1, SeriesTimes, Zenon DEF Normalize
<1>5. CASE j.type = "long_short_ratio" /\ j.ex # "bitget"
  BY <1>5, SeriesTimes, NoTimes, Zenon DEF Normalize, Exchanges
<1> QED
  BY <1>1, <1>2, <1>3, <1>4, <1>5, Zenon DEF Stamped

-----------------------------------------------------------------------------
(* The inductive invariant. *)

\* What FilterNormalizedResult asks of a row, without the wording.
Passes(r) ==
    /\ r.at # Zero /\ r.at <= clock + Skew
    /\ r.kind \in {"kline", "long_short_ratio"} => validateInterval(r)
    /\ r.kind \in {"market_snapshot", "basis"} => validateFundingOptional(r)
    /\ r.kind # "long_short_ratio" => r.num # "neg"

\* A row that a table may hold.
Storable(r) ==
    /\ r.ex = job.ex /\ r.at \in Absent..(clock + Skew)
    /\ r.num # "neg" \/ r.kind = "long_short_ratio"
    /\ r.num # "inf" /\ r.rate \notin {"out", "wild"}

TypeInv ==
    /\ clock \in FirstRequest..MaxClock /\ job \in Catalogue /\ reported \subseteq Nat
    /\ status \in {"pending", "running", "succeeded", "dead_letter"}
    /\ pc \in {"idle", "issues", "rows", "derived", "mark"} /\ (pc # "idle" => status = "running")
    /\ retryCount \in 0..MaxRetry /\ faults \in 0..MaxFaults
    /\ \E n \in Nat : DOMAIN held \subseteq 1..n

\* The rows in hand are rows of the answer, and with the rejected ones all of them.
HeldInv ==
    /\ \A r \in sent : RowFact(r, job.ex, KindOf(job.type))
    /\ Range(held) \subseteq sent /\ raised \subseteq sent
    /\ pc = "issues" => Range(held) = sent
    /\ pc \in {"rows", "derived", "mark"} =>
          sent \subseteq Range(held) \cup raised /\ \A r \in Range(held) : Passes(r) /\ r \notin raised

\* How far the writes have come.
WrittenInv ==
    /\ pc = "derived" => job.type = "funding"
    /\ pc \in {"derived", "mark"} => Range(held) \subseteq wrote
    /\ (pc = "mark" /\ job.type = "funding") =>
          \A r \in Range(held) : r.rate # "none" => FundingOf(r) \in wrote

StoredInv ==
    /\ \A w \in wrote : Storable(w)
    /\ \A k \in DOMAIN table : Storable(table[k])

\* The rows of a stamped job have times the exchange reported.
TimedInv ==
    Stamped(job) =>
       /\ \A r \in sent : r.at = Zero \/ r.at \in reported
       /\ \A k \in DOMAIN table : table[k].at \in reported

\* The tables hold, for the key of r, one of some rows.
Holds(tables, r, rows) == UpsertOf(r).key \in DOMAIN tables /\ tables[UpsertOf(r).key] \in rows

\* The rows in hand that were written are what the tables hold for their keys.
KeptInv ==
    /\ pc \in {"derived", "mark"} => \A r \in Range(held) : Holds(table, r, Range(held))
    /\ (pc = "mark" /\ job.type = "funding") =>
          \A r \in Range(held) :
             r.rate # "none" => Holds(table, FundingOf(r), {FundingOf(x) : x \in Range(held)})
    /\ status = "succeeded" => LastAnswerKept

Inv == TypeInv /\ HeldInv /\ WrittenInv /\ StoredInv /\ TimedInv /\ KeptInv /\ SucceededAccounted

-----------------------------------------------------------------------------
(* The filter. *)

\* A set of natural numbers has a least element.
LEMMA Least ==
    ASSUME NEW T \in SUBSET Nat, T # {}
    PROVE  \E n \in T : \A m \in T : n <= m
<1> DEFINE R == OpToRel(<, Nat)
<1>1. IsWellFoundedOn(R, Nat)
  BY NatLessThanWellFounded, Zenon
<1>2. \A x, y \in Nat : x < y => <<x, y>> \in R
  BY Zenon DEF OpToRel
<1> HIDE DEF R
<1>3. PICK x \in T : \A y \in T : ~(<<y, x>> \in R)
  BY <1>1, WFMin, Zenon
<1>4. \A y \in T : ~(y < x)
  BY <1>2, <1>3, Zenon
<1> QED BY <1>4

\* A row passes when it passes every check.
LEMMA VerdictFact ==
    ASSUME NEW checks, NEW n \in Nat, DOMAIN checks = 1..n
    PROVE  (Verdict(checks) = "") <=> \A i \in 1..n : checks[i] = ""
<1> DEFINE failed == {i \in DOMAIN checks : checks[i] # ""}
<1>1. CASE failed = {}
  BY <1>1, Zenon DEF Verdict
<1>2. CASE failed # {}
  <2> DEFINE F == failed
  <2>1. F \subseteq 1..n /\ F # {}
    BY <1>2, Zenon
  <2> HIDE DEF F
  <2>2. F \in SUBSET Nat
    BY <2>1
  <2>3. PICK m \in F : \A y \in F : m <= y
    BY <2>1, <2>2, Least, Zenon
  <2>4. Min(F) \in F
    BY <2>3, Zenon DEF Min
  <2>5. Verdict(checks) = checks[Min(F)]
    BY <1>2, Zenon DEF Verdict, F
  <2> QED
    BY <1>2, <2>4, <2>5, Zenon DEF F
<1> QED
  BY <1>1, <1>2, Zenon

\* Two checks.
LEMMA VerdictOfTwo ==
    ASSUME NEW x, NEW y
    PROVE  (Verdict(<<x, y>>) = "") <=> x = "" /\ y = ""
<1> DEFINE c == <<x, y>>
<1>1. DOMAIN c = 1..2 /\ c[1] = x /\ c[2] = y
  OBVIOUS
<1> HIDE DEF c
<1>2. (Verdict(c) = "") <=> \A i \in 1..2 : c[i] = ""
  BY <1>1, VerdictFact, Zenon
<1>3. (\A i \in 1..2 : c[i] = "") <=> c[1] = "" /\ c[2] = ""
  OBVIOUS
<1> QED
  BY <1>1, <1>2, <1>3, Zenon DEF c

\* Three checks.
LEMMA VerdictOfThree ==
    ASSUME NEW x, NEW y, NEW z
    PROVE  (Verdict(<<x, y, z>>) = "") <=> x = "" /\ y = "" /\ z = ""
<1> DEFINE c == <<x, y, z>>
<1>1. DOMAIN c = 1..3 /\ c[1] = x /\ c[2] = y /\ c[3] = z
  OBVIOUS
<1> HIDE DEF c
<1>2. (Verdict(c) = "") <=> \A i \in 1..3 : c[i] = ""
  BY <1>1, VerdictFact, Zenon
<1>3. (\A i \in 1..3 : c[i] = "") <=> c[1] = "" /\ c[2] = "" /\ c[3] = ""
  OBVIOUS
<1> QED
  BY <1>1, <1>2, <1>3, Zenon DEF c

\* The filter's conditions (hardening/validation.go:43-255).
LEMMA FilterFact ==
    ASSUME NEW r, r.kind \in Kinds
    PROVE  (IssueType(r) = "") <=> Passes(r)
<1>1. CASE r.kind = "market_snapshot"
  <2>1. IssueType(r) = filterMarketSnapshot(r)
    BY <1>1, Zenon DEF IssueType
  <2>2. filterMarketSnapshot(r) = "" <=>
           validateSourceAndTime(r) /\ validateFundingOptional(r) /\ ValidateMarketSnapshot(r)
    <3> DEFINE x == Check(validateSourceAndTime(r), "market_snapshot_invalid")
               y == Check(validateFundingOptional(r), "funding_out_of_range")
               z == Check(ValidateMarketSnapshot(r), "market_snapshot_invalid")
    <3>1. /\ x = "" <=> validateSourceAndTime(r)
          /\ y = "" <=> validateFundingOptional(r)
          /\ z = "" <=> ValidateMarketSnapshot(r)
      BY Zenon DEF Check
    <3>2. filterMarketSnapshot(r) = Verdict(<<x, y, z>>)
      BY Zenon DEF filterMarketSnapshot
    <3> HIDE DEF x, y, z
    <3>3. (Verdict(<<x, y, z>>) = "") <=> x = "" /\ y = "" /\ z = ""
      BY VerdictOfThree, Zenon
    <3> QED
      BY <3>1, <3>2, <3>3, Zenon
  <2> QED
    BY <1>1, <2>1, <2>2, Zenon DEF Passes, validateSourceAndTime, validateFundingOptional,
          ValidateMarketSnapshot, ValidateTimestamp, ValidateNonNegative, ValidateFundingRate
<1>2. CASE r.kind = "kline"
  <2>1. IssueType(r) = filterKline(r)
    BY <1>2, Zenon DEF IssueType
  <2>2. filterKline(r) = "" <=>
           validateSourceAndTime(r) /\ validateInterval(r) /\ ValidateKline(r)
    <3> DEFINE x == Check(validateSourceAndTime(r), "kline_invalid")
               y == Check(validateInterval(r), "interval_mismatch")
               z == Check(ValidateKline(r), "kline_invalid")
    <3>1. /\ x = "" <=> validateSourceAndTime(r)
          /\ y = "" <=> validateInterval(r)
          /\ z = "" <=> ValidateKline(r)
      BY Zenon DEF Check
    <3>2. filterKline(r) = Verdict(<<x, y, z>>)
      BY Zenon DEF filterKline
    <3> HIDE DEF x, y, z
    <3>3. (Verdict(<<x, y, z>>) = "") <=> x = "" /\ y = "" /\ z = ""
      BY VerdictOfThree, Zenon
    <3> QED
      BY <3>1, <3>2, <3>3, Zenon
  <2> QED
    BY <1>2, <2>1, <2>2, Zenon DEF Passes, validateSourceAndTime, ValidateKline,
          ValidateTimestamp, ValidateNonNegative
<1>3. CASE r.kind = "open_interest"
  <2>1. IssueType(r) = filterOpenInterest(r)
    BY <1>3, Zenon DEF IssueType
  <2>2. filterOpenInterest(r) = "" <=>
           validateSourceAndTime(r) /\ ValidateOpenInterest(r, FALSE)
    <3> DEFINE x == Check(validateSourceAndTime(r), "open_interest_invalid")
               y == Check(ValidateOpenInterest(r, FALSE), "open_interest_invalid")
    <3>1. /\ x = "" <=> validateSourceAndTime(r)
          /\ y = "" <=> ValidateOpenInterest(r, FALSE)
      BY Zenon DEF Check
    <3>2. filterOpenInterest(r) = Verdict(<<x, y>>)
      BY Zenon DEF filterOpenInterest
    <3> HIDE DEF x, y
    <3>3. (Verdict(<<x, y>>) = "") <=> x = "" /\ y = ""
      BY VerdictOfTwo, Zenon
    <3> QED
      BY <3>1, <3>2, <3>3, Zenon
  <2> QED
    BY <1>3, <2>1, <2>2, Zenon DEF Passes, validateSourceAndTime, ValidateOpenInterest,
          ValidateTimestamp, ValidateNonNegative
<1>4. CASE r.kind = "long_short_ratio"
  <2>1. IssueType(r) = filterLongShortRatio(r)
    BY <1>4, Zenon DEF IssueType
  <2>2. filterLongShortRatio(r) = "" <=>
           validateSourceAndTime(r) /\ validateInterval(r) /\ ValidateLongShortRatio(r)
    <3> DEFINE x == Check(validateSourceAndTime(r), "long_short_ratio_invalid")
               y == Check(validateInterval(r), "interval_mismatch")
               z == Check(ValidateLongShortRatio(r), "long_short_ratio_invalid")
    <3>1. /\ x = "" <=> validateSourceAndTime(r)
          /\ y = "" <=> validateInterval(r)
          /\ z = "" <=> ValidateLongShortRatio(r)
      BY Zenon DEF Check
    <3>2. filterLongShortRatio(r) = Verdict(<<x, y, z>>)
      BY Zenon DEF filterLongShortRatio
    <3> HIDE DEF x, y, z
    <3>3. (Verdict(<<x, y, z>>) = "") <=> x = "" /\ y = "" /\ z = ""
      BY VerdictOfThree, Zenon
    <3> QED
      BY <3>1, <3>2, <3>3, Zenon
  <2> QED
    BY <1>4, <2>1, <2>2, Zenon
       DEF Passes, validateSourceAndTime, ValidateLongShortRatio, ValidateTimestamp
<1>5. CASE r.kind = "basis"
  <2>1. IssueType(r) = filterBasisPremium(r)
    BY <1>5, Zenon DEF IssueType
  <2>2. filterBasisPremium(r) = "" <=>
           validateSourceAndTime(r) /\ validateFundingOptional(r) /\ ValidateBasisPremium(r)
    <3> DEFINE x == Check(validateSourceAndTime(r), "basis_invalid")
               y == Check(validateFundingOptional(r), "funding_out_of_range")
               z == Check(ValidateBasisPremium(r), "basis_invalid")
    <3>1. /\ x = "" <=> validateSourceAndTime(r)
          /\ y = "" <=> validateFundingOptional(r)
          /\ z = "" <=> ValidateBasisPremium(r)
      BY Zenon DEF Check
    <3>2. filterBasisPremium(r) = Verdict(<<x, y, z>>)
      BY Zenon DEF filterBasisPremium
    <3> HIDE DEF x, y, z
    <3>3. (Verdict(<<x, y, z>>) = "") <=> x = "" /\ y = "" /\ z = ""
      BY VerdictOfThree, Zenon
    <3> QED
      BY <3>1, <3>2, <3>3, Zenon
  <2> QED
    BY <1>5, <2>1, <2>2, Zenon DEF Passes, validateSourceAndTime, ValidateBasisPremium,
          ValidateTimestamp, ValidateNonNegative
<1>6. CASE r.kind = "orderbook"
  <2>1. IssueType(r) = filterOrderbookImbalance(r)
    BY <1>6, Zenon DEF IssueType
  <2>2. filterOrderbookImbalance(r) = "" <=>
           validateSourceAndTime(r) /\ ValidateOrderbookImbalance(r)
    <3> DEFINE x == Check(validateSourceAndTime(r), "orderbook_imbalance_invalid")
               y == Check(ValidateOrderbookImbalance(r), "orderbook_imbalance_invalid")
    <3>1. /\ x = "" <=> validateSourceAndTime(r)
          /\ y = "" <=> ValidateOrderbookImbalance(r)
      BY Zenon DEF Check
    <3>2. filterOrderbookImbalance(r) = Verdict(<<x, y>>)
      BY Zenon DEF filterOrderbookImbalance
    <3> HIDE DEF x, y
    <3>3. (Verdict(<<x, y>>) = "") <=> x = "" /\ y = ""
      BY VerdictOfTwo, Zenon
    <3> QED
      BY <3>1, <3>2, <3>3, Zenon
  <2> QED
    BY <1>6, <2>1, <2>2, Zenon DEF Passes, validateSourceAndTime, ValidateOrderbookImbalance,
          ValidateTimestamp, ValidateNonNegative
<1> QED
  BY <1>1, <1>2, <1>3, <1>4, <1>5, <1>6, Zenon DEF Kinds

\* A row that passes goes on passing.
LEMMA PassesKept ==
    ASSUME NEW r, r.at \in Int, Passes(r), job' = job, clock \in Nat, clock' \in Nat, clock <= clock',
           Skew \in Nat
    PROVE  Passes(r)'
<1>1. r.at <= clock' + Skew
  BY DEF Passes
<1>2. validateInterval(r)' = validateInterval(r) /\ validateFundingOptional(r)' = validateFundingOptional(r)
  BY Zenon DEF validateInterval, validateFundingOptional
<1> QED
  BY <1>1, <1>2, Zenon DEF Passes

\* What the filter lets through every repository takes (repositories/*.go).
LEMMA PassesIsValid ==
    ASSUME NEW r, r.kind \in Kinds, Passes(r)
    PROVE  UpsertOf(r).valid
<1>1. \A valid, key : Upsert(valid, key).valid = valid
  BY Zenon DEF Upsert
<1> QED
  BY <1>1, Zenon
     DEF Passes, Kinds, validateFundingOptional, UpsertOf, UpsertMarketSnapshots, UpsertKlines,
        UpsertOpenInterest, UpsertLongShortRatios, UpsertBasisPremiums, UpsertOrderbookImbalances,
        ValidateMarketSnapshot, ValidateKline, ValidateOpenInterest, ValidateLongShortRatio,
        ValidateBasisPremium, ValidateOrderbookImbalance, ValidateTimestamp, ValidateNonNegative,
        ValidateFundingRate

\* ... and so with the rates derived of market snapshots.
LEMMA FundingIsValid ==
    ASSUME NEW r, r.kind = "market_snapshot", Passes(r)
    PROVE  UpsertOf(FundingOf(r)).valid
  BY Zenon DEF Passes, validateFundingOptional, FundingOf, Row, Upsert, UpsertOf, UpsertFundingSnapshots,
         ValidateFundingSnapshot, ValidateTimestamp, ValidateFundingRate, ValidateNonNegative

-----------------------------------------------------------------------------
(* Invariance. *)

\* The constants and what they are.
LEMMA Constants ==
    ASSUME TypeInv
    PROVE  /\ clock \in Nat /\ Skew \in Nat /\ FirstRequest \in Nat /\ MaxClock \in Nat
           /\ MaxRetry \in Nat /\ MaxRetry > 0
           /\ job.ex \in Exchanges /\ job \in [ex : Exchanges, type : STRING, period : STRING]
           /\ Answers \subseteq Answer
<1>1. job \in [ex : Exchanges, type : STRING, period : STRING] /\ Answers \subseteq Answer
  BY IngestAssumption, Zenon DEF TypeInv, Answer
<1>2. job.ex \in Exchanges
  BY <1>1, Zenon
<1>3. /\ MaxClock \in Nat /\ FirstRequest \in 1..MaxClock /\ clock \in FirstRequest..MaxClock
      /\ MaxRetry \in Nat \ {0} /\ Skew \in Nat
  BY IngestAssumption, Zenon DEF TypeInv
<1> QED
  BY <1>1, <1>2, <1>3

\* No rows at the beginning.
LEMMA InvInit ==
    ASSUME IngestInit
    PROVE  Inv
<1>1. TypeInv
  <2>1. DOMAIN held \subseteq 1..0 /\ 0 \in Nat
    BY DEF IngestInit
  <2>2. 0 \in 0..MaxRetry /\ 0 \in 0..MaxFaults /\ FirstRequest \in FirstRequest..MaxClock
    BY IngestAssumption
  <2> QED
    BY <2>1, <2>2, Zenon DEF TypeInv, IngestInit
<1>2. Range(held) = {}
  BY DEF IngestInit, Range
<1>3. HeldInv /\ WrittenInv /\ StoredInv /\ TimedInv /\ KeptInv /\ SucceededAccounted
  BY <1>2 DEF IngestInit, HeldInv, WrittenInv, StoredInv, TimedInv, KeptInv, SucceededAccounted
<1> QED
  BY <1>1, <1>3, Zenon DEF Inv

\* What holds of the rows goes on holding while the worker stops or time goes on.
LEMMA RowsKept ==
    ASSUME Inv, job' = job, held' = held, table' = table, sent' = sent, raised' = raised,
           wrote' = wrote, reported' = reported, clock' \in Nat, clock <= clock',
           pc' \in {pc, "idle"}, status' \in {status, "pending", "dead_letter"}
    PROVE  HeldInv' /\ WrittenInv' /\ StoredInv' /\ TimedInv' /\ KeptInv'
<1>1. TypeInv /\ HeldInv /\ WrittenInv /\ StoredInv /\ TimedInv /\ KeptInv
  BY Zenon DEF Inv
<1>2. clock \in Nat /\ Skew \in Nat
  BY <1>1, Constants, Zenon
<1>3. \A r \in sent : r.at \in Int
  BY <1>1, Zenon DEF HeldInv, RowFact
<1>4. \A r \in sent : Passes(r) => Passes(r)'
  BY <1>2, <1>3, PassesKept, Zenon
<1>5. HeldInv'
  BY <1>1, <1>4, Zenon DEF HeldInv, RowFact
<1>6. WrittenInv'
  BY <1>1, Zenon DEF WrittenInv
<1>7. StoredInv'
  <2>1. \A w : Storable(w) => Storable(w)'
    <3> SUFFICES ASSUME NEW w, Storable(w)
                 PROVE  Storable(w)'
      OBVIOUS
    <3>1. w.at \in Absent..(clock' + Skew)
      BY <1>2 DEF Storable, Absent
    <3> QED
      BY <3>1, Zenon DEF Storable
  <2> QED
    BY <1>1, <2>1, Zenon DEF StoredInv
<1>8. TimedInv'
  BY <1>1, Zenon DEF TimedInv
<1>9. KeptInv'
  <2>1. LastAnswerKept' = LastAnswerKept
    BY Zenon DEF LastAnswerKept
  <2> QED
    BY <1>1, <2>1, Zenon DEF KeptInv
<1> QED
  BY <1>5, <1>6, <1>7, <1>8, <1>9, Zenon

\* retry_count stays within its bounds.
LEMMA RetriedFact ==
    ASSUME TypeInv
    PROVE  Retried \in 0..MaxRetry
<1>1. retryCount \in Nat /\ MaxRetry \in Nat /\ retryCount <= MaxRetry
  BY Constants DEF TypeInv
<1>2. Retried = IF retryCount + 1 <= MaxRetry THEN retryCount + 1 ELSE MaxRetry
  BY <1>1 DEF Retried, Min
<1> QED
  BY <1>1, <1>2

\* The worker stops at an error.
LEMMA ExitKeeps ==
    ASSUME Inv, clock' = clock, job' = job, held' = held, table' = table, sent' = sent,
           raised' = raised, wrote' = wrote, reported' = reported, faults' \in 0..MaxFaults,
           NEW recoverable \in BOOLEAN, retryOrDeadLetter(recoverable)
    PROVE  Inv'
<1>1. TypeInv
  BY Zenon DEF Inv
<1>2. /\ status' \in {"pending", "dead_letter"} /\ retryCount' = Retried /\ pc' = "idle"
  BY Zenon DEF retryOrDeadLetter
<1>3. TypeInv'
  BY <1>1, <1>2, RetriedFact, Zenon DEF TypeInv
<1>4. HeldInv' /\ WrittenInv' /\ StoredInv' /\ TimedInv' /\ KeptInv'
  <2>1. clock' \in Nat /\ clock <= clock'
    BY <1>1, Constants
  <2> QED
    BY <1>2, <2>1, RowsKept, Zenon
<1>5. SucceededAccounted'
  BY <1>2, Zenon DEF SucceededAccounted
<1> QED
  BY <1>3, <1>4, <1>5, Zenon DEF Inv

\* Time goes on.
LEMMA TickKeeps ==
    ASSUME Inv, IngestTick
    PROVE  Inv'
<1>1. TypeInv
  BY Zenon DEF Inv
<1>2. /\ clock < MaxClock /\ clock' = clock + 1 /\ job' = job /\ reported' = reported /\ faults' = faults
      /\ status' = status /\ pc' = pc /\ retryCount' = retryCount /\ held' = held /\ table' = table
      /\ sent' = sent /\ raised' = raised /\ wrote' = wrote
  BY Zenon DEF IngestTick, bounds
<1>3. clock' \in Nat /\ clock <= clock' /\ clock' \in FirstRequest..MaxClock
  BY <1>1, <1>2, Constants DEF TypeInv
<1>4. TypeInv'
  BY <1>1, <1>2, <1>3, Zenon DEF TypeInv
<1>5. HeldInv' /\ WrittenInv' /\ StoredInv' /\ TimedInv' /\ KeptInv'
  BY <1>2, <1>3, RowsKept, Zenon
<1>6. SucceededAccounted'
  BY <1>2, Zenon DEF Inv, SucceededAccounted
<1> QED
  BY <1>4, <1>5, <1>6, Zenon DEF Inv

\* The writes fail, the process dies, the job is recovered.
LEMMA FaultKeeps ==
    ASSUME Inv, WriteFails \/ Crash \/ Recover
    PROVE  Inv'
<1>1. TypeInv
  BY Zenon DEF Inv
<1>2. MaxFaults \in Nat
  BY IngestAssumption, Zenon
<1>3. clock \in Nat
  BY <1>1, Constants, Zenon
<1>4. CASE WriteFails
  <2>1. /\ clock' = clock /\ job' = job /\ reported' = reported /\ held' = held /\ table' = table
        /\ sent' = sent /\ raised' = raised /\ wrote' = wrote
        /\ faults < MaxFaults /\ faults' = faults + 1 /\ retryOrDeadLetter(TRUE)
    BY <1>4, Zenon DEF WriteFails
  <2>2. faults' \in 0..MaxFaults
    BY <1>1, <1>2, <2>1 DEF TypeInv
  <2> QED
    BY <2>1, <2>2, ExitKeeps, Zenon
<1>5. CASE Crash
  <2>1. /\ clock' = clock /\ job' = job /\ reported' = reported /\ held' = held /\ table' = table
        /\ sent' = sent /\ raised' = raised /\ wrote' = wrote /\ status' = status
        /\ faults < MaxFaults /\ faults' = faults + 1 /\ pc' = "idle" /\ retryCount' = retryCount
    BY <1>5, Zenon DEF Crash
  <2>2. faults' \in 0..MaxFaults
    BY <1>1, <1>2, <2>1 DEF TypeInv
  <2>3. TypeInv'
    BY <1>1, <2>1, <2>2, Zenon DEF TypeInv
  <2>4. HeldInv' /\ WrittenInv' /\ StoredInv' /\ TimedInv' /\ KeptInv'
    BY <1>3, <2>1, RowsKept
  <2>5. SucceededAccounted'
    BY <2>1, Zenon DEF Inv, SucceededAccounted
  <2> QED
    BY <2>3, <2>4, <2>5, Zenon DEF Inv
<1>6. CASE Recover
  <2>1. /\ clock' = clock /\ job' = job /\ reported' = reported /\ held' = held /\ table' = table
        /\ sent' = sent /\ raised' = raised /\ wrote' = wrote /\ faults' = faults
        /\ pc = "idle" /\ pc' = pc /\ status' = "pending" /\ retryCount' = Retried
    BY <1>6, Zenon DEF Recover, bounds
  <2>2. TypeInv'
    BY <1>1, <2>1, RetriedFact, Zenon DEF TypeInv
  <2>3. HeldInv' /\ WrittenInv' /\ StoredInv' /\ TimedInv' /\ KeptInv'
    BY <1>3, <2>1, RowsKept
  <2>4. SucceededAccounted'
    BY <2>1, Zenon DEF SucceededAccounted
  <2> QED
    BY <2>2, <2>3, <2>4, Zenon DEF Inv
<1> QED
  BY <1>4, <1>5, <1>6, Zenon

\* A request brings rows; those of a stamped job have the times of the answer.
LEMMA FetchKeeps ==
    ASSUME Inv, NEW a \in Answers, Fetch(a)
    PROVE  Inv'
<1> DEFINE result == Normalize(job.ex, job.type, a, clock, job.period)
<1>1. TypeInv /\ HeldInv /\ WrittenInv /\ StoredInv /\ TimedInv /\ KeptInv
  BY Zenon DEF Inv
<1>2. a \in Answer
  BY <1>1, Constants, Zenon
<1>3. ResultFact(result, job.ex, KindOf(job.type))
  BY <1>1, <1>2, Constants, NormalizedRows, Zenon
<1>4. Stamped(job) => ItemTimed(result, a)
  BY <1>1, <1>2, Constants, StampedTimes, Zenon
<1>5. /\ held' = result.rows /\ sent' = Range(result.rows) /\ raised' = {} /\ wrote' = {}
      /\ clock' = clock /\ job' = job /\ reported' = reported \cup Times(a) /\ faults' = faults
      /\ table' = table
      /\ \/ status' = "running" /\ pc' = "issues" /\ retryCount' = retryCount
         \/ status' \in {"pending", "dead_letter"} /\ pc' = "idle" /\ retryCount' = Retried
         \/ status' = "running" /\ pc' = pc /\ retryCount' = retryCount
      /\ status = "pending"
  BY Zenon DEF Fetch, bounds, retryOrDeadLetter, Times
<1> HIDE DEF result
<1>6. pc = "idle"
  BY <1>1, <1>5, Zenon DEF TypeInv
<1>7. TypeInv'
  <2>1. \E n \in Nat : DOMAIN held' \subseteq 1..n
    BY <1>3, <1>5, Zenon DEF ResultFact
  <2>2. Times(a) \subseteq Nat
    BY <1>2, AnswerTypes, Zenon DEF Times
  <2>3. reported' \subseteq Nat
    BY <1>1, <1>5, <2>2, Zenon DEF TypeInv
  <2> QED
    BY <1>1, <1>5, <1>6, <2>1, <2>3, RetriedFact, Zenon DEF TypeInv
<1>8. HeldInv'
  <2>1. \A r \in sent' : RowFact(r, job.ex, KindOf(job.type))
    BY <1>3, <1>5, Zenon DEF ResultFact, Range
  <2>2. Range(held') = sent' /\ pc' \in {"idle", "issues"}
    BY <1>5, <1>6, Zenon
  <2> QED
    BY <1>5, <2>1, <2>2, Zenon DEF HeldInv
<1>9. WrittenInv' /\ KeptInv'
  BY <1>5, <1>6, Zenon DEF WrittenInv, KeptInv
<1>10. StoredInv'
  BY <1>1, <1>5, Zenon DEF StoredInv, Storable
<1>11. TimedInv'
  <2>1. Stamped(job) => \A r \in sent' : r.at = Zero \/ r.at \in Times(a)
    BY <1>4, <1>5, Zenon DEF ItemTimed, Range
  <2> QED
    BY <1>1, <1>5, <2>1, Zenon DEF TimedInv
<1>12. SucceededAccounted'
  BY <1>5, Zenon DEF SucceededAccounted
<1> QED
  BY <1>7, <1>8, <1>9, <1>10, <1>11, <1>12, Zenon DEF Inv

\* A bounded set of numbers has a greatest element.
LEMMA Greatest ==
    ASSUME NEW n \in Nat, NEW T \in SUBSET (1..n), T # {}
    PROVE  Max(T) \in T
<1> DEFINE U == {n - x : x \in T}
<1>1. \A x \in T : n - x \in Nat
  OBVIOUS
<1>2. U \in SUBSET Nat /\ U # {}
  BY <1>1, Zenon
<1> HIDE DEF U
<1>3. PICK u \in U : \A v \in U : u <= v
  BY <1>2, Least, Zenon
<1>4. PICK x \in T : u = n - x
  BY <1>3, Zenon DEF U
<1>5. \A y \in T : n - y \in U
  BY Zenon DEF U
<1>6. \A y \in T : x >= y
  BY <1>3, <1>4, <1>5
<1> QED
  BY <1>4, <1>6, Zenon DEF Max

\* What a table holds after an upsert.
LEMMA UpsertedFact ==
    ASSUME NEW rows, NEW n \in Nat, DOMAIN rows \subseteq 1..n, NEW k \in DOMAIN Upserted(rows)
    PROVE  Upserted(rows)[k] \in Range(rows) \/ (k \in DOMAIN table /\ Upserted(rows)[k] = table[k])
<1> DEFINE at == {i \in DOMAIN rows : UpsertOf(rows[i]).key = k}
<1>1. /\ k \in DOMAIN table \cup {UpsertOf(rows[i]).key : i \in DOMAIN rows}
      /\ Upserted(rows)[k] = IF at = {} THEN table[k] ELSE rows[Max(at)]
  BY Zenon DEF Upserted
<1>2. CASE at = {}
  BY <1>1, <1>2, Zenon
<1>3. CASE at # {}
  <2>1. at \in SUBSET (1..n)
    BY Zenon
  <2> DEFINE A == at
  <2>2. A \in SUBSET (1..n) /\ A # {}
    BY <1>3, <2>1, Zenon
  <2> HIDE DEF A
  <2>3. Max(A) \in A
    BY <2>2, Greatest, Zenon
  <2>4. Max(at) \in DOMAIN rows
    BY <2>3, Zenon DEF A
  <2> QED
    BY <1>1, <1>3, <2>4, Zenon DEF Range
<1> QED
  BY <1>2, <1>3, Zenon

\* ... and that the rows upserted are in it, under their keys.
LEMMA UpsertedKeys ==
    ASSUME NEW rows, NEW n \in Nat, DOMAIN rows \subseteq 1..n
    PROVE  /\ \A i \in DOMAIN rows : LET key == UpsertOf(rows[i]).key
                                  IN  key \in DOMAIN Upserted(rows) /\ Upserted(rows)[key] \in Range(rows)
           /\ \A k \in DOMAIN table : k \in DOMAIN Upserted(rows)
           /\ \A k \in DOMAIN table : (\A i \in DOMAIN rows : UpsertOf(rows[i]).key # k)
                                       => Upserted(rows)[k] = table[k]
<1> DEFINE at(k) == {i \in DOMAIN rows : UpsertOf(rows[i]).key = k}
<1>1. /\ DOMAIN Upserted(rows) = DOMAIN table \cup {UpsertOf(rows[i]).key : i \in DOMAIN rows}
      /\ \A k \in DOMAIN Upserted(rows) :
            Upserted(rows)[k] = IF at(k) = {} THEN table[k] ELSE rows[Max(at(k))]
  BY Zenon DEF Upserted
<1>2. ASSUME NEW i \in DOMAIN rows
      PROVE  LET key == UpsertOf(rows[i]).key
             IN  key \in DOMAIN Upserted(rows) /\ Upserted(rows)[key] \in Range(rows)
  <2> DEFINE key == UpsertOf(rows[i]).key
             A == at(key)
  <2>1. A \in SUBSET (1..n) /\ A # {} /\ A \subseteq DOMAIN rows
    BY Zenon
  <2>2. key \in DOMAIN Upserted(rows) /\ Upserted(rows)[key] = rows[Max(A)]
    BY <1>1, <2>1, Zenon
  <2> HIDE DEF A, key
  <2>3. Max(A) \in DOMAIN rows
    BY <2>1, Greatest, Zenon
  <2> QED
    BY <2>2, <2>3, Zenon DEF Range, key
<1>3. \A k \in DOMAIN table : (\A i \in DOMAIN rows : UpsertOf(rows[i]).key # k) => at(k) = {}
  BY Zenon
<1> QED
  BY <1>1, <1>2, <1>3, Zenon

\* After an upsert the table holds the rows.
LEMMA UpsertedHolds ==
    ASSUME NEW rows, NEW n \in Nat, DOMAIN rows \subseteq 1..n, table' = Upserted(rows)
    PROVE  \A r \in Range(rows) : Holds(table', r, Range(rows))
  BY UpsertedKeys, Zenon DEF Holds, Range

\* Every type of job has a kind of row.
LEMMA KindIsKind ==
    ASSUME NEW type
    PROVE  KindOf(type) \in Kinds
  BY Zenon DEF KindOf, Kinds

\* The filter splits the rows.
LEMMA IssuesKeeps ==
    ASSUME Inv, UpsertIssues
    PROVE  Inv'
<1> DEFINE filtered == FilterNormalizedResult(held)
<1>1. TypeInv /\ HeldInv /\ WrittenInv /\ StoredInv /\ TimedInv /\ KeptInv
  BY Zenon DEF Inv
<1>2. /\ pc = "issues" /\ raised' = filtered.rejected /\ held' = filtered.valid
      /\ pc' \in {"mark", "rows"} /\ (pc' = "mark" => DOMAIN filtered.valid = {})
      /\ clock' = clock /\ job' = job /\ reported' = reported /\ faults' = faults /\ status' = status
      /\ retryCount' = retryCount /\ table' = table /\ sent' = sent /\ wrote' = wrote
  BY Zenon DEF UpsertIssues, bounds
<1>3. /\ DOMAIN filtered.valid \subseteq DOMAIN held
      /\ \A i \in DOMAIN filtered.valid : filtered.valid[i] = held[i] /\ IssueType(held[i]) = ""
      /\ \A i \in DOMAIN held : IssueType(held[i]) = "" => i \in DOMAIN filtered.valid
      /\ filtered.rejected = {r \in Range(held) : IssueType(r) # ""}
  BY Zenon DEF FilterNormalizedResult, Kept
<1> HIDE DEF filtered
<1>4. Range(held) = sent /\ status = "running"
  BY <1>1, <1>2, Zenon DEF HeldInv, TypeInv
<1>5. \A r \in Range(held') : r \in sent /\ IssueType(r) = ""
  BY <1>2, <1>3, <1>4, Zenon DEF Range
<1>6. \A r \in sent : IssueType(r) = "" => r \in Range(held')
  BY <1>2, <1>3, <1>4, Zenon DEF Range
<1>7. \A r \in sent : r.kind \in Kinds /\ r.at \in Int
  BY <1>1, KindIsKind, Zenon DEF HeldInv, RowFact
<1>8. \A r \in sent : (IssueType(r) = "") <=> Passes(r)
  BY <1>7, FilterFact, Zenon
<1>9. \A r : Passes(r) => Passes(r)'
  BY <1>2, Zenon DEF Passes, validateInterval, validateFundingOptional
<1>10. TypeInv'
  <2>1. \E n \in Nat : DOMAIN held' \subseteq 1..n
    BY <1>1, <1>2, <1>3, Zenon DEF TypeInv
  <2> QED
    BY <1>1, <1>2, <1>4, <2>1, Zenon DEF TypeInv
<1>11. HeldInv'
  <2>1. \A r \in Range(held') : Passes(r)' /\ r \notin raised'
    BY <1>2, <1>3, <1>5, <1>8, <1>9, Zenon
  <2>2. sent \subseteq Range(held') \cup raised'
    BY <1>2, <1>3, <1>4, <1>6, Zenon
  <2>3. \A r \in sent' : RowFact(r, job', KindOf(job'.type)) = RowFact(r, job, KindOf(job.type))
    BY <1>2, Zenon
  <2>4. Range(held') \subseteq sent' /\ raised' \subseteq sent'
    BY <1>2, <1>3, <1>4, <1>5, Zenon
  <2> QED
    BY <1>1, <1>2, <2>1, <2>2, <2>4, Zenon DEF HeldInv
<1>12. WrittenInv'
  <2>1. pc' = "mark" => Range(held') = {}
    BY <1>2, Zenon DEF Range
  <2> QED
    BY <1>2, <2>1, Zenon DEF WrittenInv
<1>13. StoredInv'
  BY <1>1, <1>2, Zenon DEF StoredInv, Storable
<1>14. TimedInv' /\ KeptInv'
  <2>1. pc' = "mark" => Range(held') = {}
    BY <1>2, Zenon DEF Range
  <2>2. KeptInv'
    BY <1>2, <1>4, <2>1, Zenon DEF KeptInv
  <2> QED
    BY <1>1, <1>2, <2>2, Zenon DEF TimedInv
<1>15. SucceededAccounted'
  BY <1>2, <1>4, Zenon DEF SucceededAccounted
<1> QED
  BY <1>10, <1>11, <1>12, <1>13, <1>14, <1>15, Zenon DEF Inv

\* Rows that come of the ones in hand may be stored.
LEMMA StoreKeeps ==
    ASSUME Inv, NEW rows, NEW n \in Nat, DOMAIN rows \subseteq 1..n,
           \A w \in Range(rows) : Storable(w) /\ \E r \in sent : r.at # Zero /\ w.at = r.at,
           table' = Upserted(rows), wrote' = wrote \cup Range(rows), clock' = clock, job' = job,
           reported' = reported, sent' = sent
    PROVE  StoredInv' /\ TimedInv'
<1>1. StoredInv /\ TimedInv
  BY Zenon DEF Inv
<1>2. \A w : Storable(w) => Storable(w)'
  BY Zenon DEF Storable
<1>3. \A k \in DOMAIN table' : table'[k] \in Range(rows) \/ (k \in DOMAIN table /\ table'[k] = table[k])
  BY UpsertedFact, Zenon
<1>4. StoredInv'
  BY <1>1, <1>2, <1>3, Zenon DEF StoredInv
<1>5. Stamped(job) => \A w \in Range(rows) : w.at \in reported
  BY <1>1, Zenon DEF TimedInv
<1>6. TimedInv'
  BY <1>1, <1>3, <1>5, Zenon DEF TimedInv
<1> QED
  BY <1>4, <1>6, Zenon

\* The columns refuse a row, and the worker stops.
LEMMA RefusedKeeps ==
    ASSUME Inv, NEW rows, NEW next, Store(rows, next), ~Fits(rows)
    PROVE  Inv'
<1>1. /\ clock' = clock /\ job' = job /\ held' = held /\ table' = table /\ sent' = sent
      /\ raised' = raised /\ wrote' = wrote /\ reported' = reported /\ faults' = faults
      /\ retryOrDeadLetter(TRUE)
  BY Zenon DEF Store, bounds
<1>2. faults' \in 0..MaxFaults
  BY <1>1, Zenon DEF Inv, TypeInv
<1> QED
  BY <1>1, <1>2, ExitKeeps, Zenon

\* The rows in hand are stored.
LEMMA RowsKeep ==
    ASSUME Inv, WriteRows
    PROVE  Inv'
<1> SUFFICES ASSUME Fits(held)
             PROVE  Inv'
  BY RefusedKeeps, Zenon DEF WriteRows
<1>1. TypeInv /\ HeldInv /\ WrittenInv /\ StoredInv /\ TimedInv /\ KeptInv
  BY Zenon DEF Inv
<1>2. /\ pc = "rows" /\ clock' = clock /\ job' = job /\ reported' = reported /\ faults' = faults
      /\ held' = held /\ sent' = sent /\ raised' = raised
  BY Zenon DEF WriteRows, Store, bounds
<1>3. \A r \in Range(held) : RowFact(r, job.ex, KindOf(job.type)) /\ Passes(r)
  BY <1>1, <1>2, Zenon DEF HeldInv
<1>4. \A r \in Range(held) : r.kind \in Kinds
  BY <1>3, KindIsKind, Zenon DEF RowFact
<1>5. clock \in Int
  BY <1>1, Constants DEF TypeInv
<1>6. \A i \in DOMAIN held : UpsertOf(held[i]).valid
  BY <1>3, <1>4, <1>5, PassesIsValid, Zenon DEF Range
<1>7. /\ table' = Upserted(held) /\ wrote' = wrote \cup Range(held)
      /\ status' = status /\ retryCount' = retryCount
      /\ pc' = IF job.type = "funding" /\ DOMAIN deriveFunding(held) # {} THEN "derived" ELSE "mark"
  BY <1>6, Zenon DEF WriteRows, Store, Accepted
<1>8. \A r \in Range(held) : Storable(r)
  <2> TAKE r \in Range(held)
  <2>1. r.ex = job.ex /\ r.at \in Int /\ r.at >= -1 /\ r.at # -1 /\ r.at <= clock + Skew
    BY <1>3, Zenon DEF RowFact, Passes, Zero
  <2>2. r.at \in Absent..(clock + Skew)
    BY <1>1, <2>1, Constants DEF Absent
  <2>3. r.num # "neg" \/ r.kind = "long_short_ratio"
    BY <1>3, Zenon DEF Passes
  <2>4. r.num # "inf"
    BY Zenon DEF Fits, Range
  <2>5. r.rate \notin {"out", "wild"}
    BY <1>3, <1>4, Zenon DEF RowFact, Passes, Kinds, validateFundingOptional
  <2> QED
    BY <2>1, <2>2, <2>3, <2>4, <2>5, Zenon DEF Storable
<1>9. PICK n \in Nat : DOMAIN held \subseteq 1..n
  BY <1>1, Zenon DEF TypeInv
<1>10. StoredInv' /\ TimedInv'
  <2>1. \A r \in Range(held) : r \in sent /\ r.at # Zero
    BY <1>1, <1>3, Zenon DEF HeldInv, Passes
  <2> QED
    BY <1>2, <1>7, <1>8, <1>9, <2>1, StoreKeeps, Zenon
<1>11. \A r : Passes(r) => Passes(r)'
  BY <1>2, Zenon DEF Passes, validateInterval, validateFundingOptional
<1>12. TypeInv'
  BY <1>1, <1>2, <1>7, Zenon DEF TypeInv
<1>13. HeldInv'
  BY <1>1, <1>2, <1>7, <1>11, Zenon DEF HeldInv
<1>14. WrittenInv'
  <2>1. \A r \in Range(held) : r.rate # "none" => DOMAIN deriveFunding(held) # {}
    BY Zenon DEF deriveFunding, Range
  <2> QED
    BY <1>2, <1>7, <2>1, Zenon DEF WrittenInv
<1>15. SucceededAccounted' /\ status' # "succeeded"
  BY <1>1, <1>2, <1>7, Zenon DEF SucceededAccounted, TypeInv
<1>16. KeptInv'
  <2>1. \A r \in Range(held) : Holds(table', r, Range(held))
    BY <1>7, <1>9, UpsertedHolds, Zenon
  <2>2. (pc' = "mark" /\ job.type = "funding") => \A r \in Range(held) : r.rate = "none"
    BY <1>7, Zenon DEF deriveFunding, Range
  <2> QED
    BY <1>2, <1>15, <2>1, <2>2, Zenon DEF KeptInv
<1> QED
  BY <1>10, <1>12, <1>13, <1>14, <1>15, <1>16, Zenon DEF Inv

\* A snapshot and its rate are rows of two tables: the table of the snapshot.
LEMMA SnapshotKey ==
    ASSUME NEW r, r.kind = "market_snapshot"
    PROVE  UpsertOf(r).key[1] = "market_snapshots"
<1>1. UpsertOf(r).key = <<"market_snapshots", r.ex, r.at>>
  BY Zenon DEF UpsertOf, UpsertMarketSnapshots, Upsert
<1> QED
  BY <1>1

\* The rate's table.
LEMMA FundingKey ==
    ASSUME NEW r
    PROVE  UpsertOf(FundingOf(r)).key[1] = "funding_rates"
<1>1. FundingOf(r).kind = "funding"
  BY Zenon DEF FundingOf, Row
<1>2. UpsertOf(FundingOf(r)).key = <<"funding_rates", FundingOf(r).ex, FundingOf(r).at>>
  BY <1>1, Zenon DEF UpsertOf, UpsertFundingSnapshots, Upsert
<1> QED
  BY <1>2

\* The rates of the snapshots in hand are stored.
LEMMA DerivedKeeps ==
    ASSUME Inv, WriteDerived
    PROVE  Inv'
<1> DEFINE rates == deriveFunding(held)
<1> SUFFICES ASSUME Fits(rates)
             PROVE  Inv'
  BY RefusedKeeps, Zenon DEF WriteDerived
<1>1. TypeInv /\ HeldInv /\ WrittenInv /\ StoredInv /\ TimedInv /\ KeptInv
  BY Zenon DEF Inv
<1>2. /\ pc = "derived" /\ clock' = clock /\ job' = job /\ reported' = reported /\ faults' = faults
      /\ held' = held /\ sent' = sent /\ raised' = raised
  BY Zenon DEF WriteDerived, Store, bounds
<1>3. \A r \in Range(held) : RowFact(r, job.ex, "market_snapshot") /\ Passes(r)
  BY <1>1, <1>2, Zenon DEF HeldInv, WrittenInv, KindOf
<1>4. clock \in Int
  BY <1>1, Constants DEF TypeInv
<1>5. /\ DOMAIN rates = {i \in DOMAIN held : held[i].rate # "none"}
      /\ \A i \in DOMAIN rates : held[i].rate # "none" /\ rates[i] = FundingOf(held[i])
  BY Zenon DEF deriveFunding
<1> HIDE DEF rates
<1>6. \A i \in DOMAIN rates : UpsertOf(rates[i]).valid
  BY <1>3, <1>4, <1>5, FundingIsValid, Zenon DEF Range, RowFact
<1>7. /\ table' = Upserted(rates) /\ wrote' = wrote \cup Range(rates)
      /\ status' = status /\ retryCount' = retryCount /\ pc' = "mark"
  BY <1>6, Zenon DEF WriteDerived, Store, Accepted, rates
<1>8. \A i \in DOMAIN rates : Storable(rates[i])
  <2> TAKE i \in DOMAIN rates
  <2> DEFINE r == held[i]
  <2>0. r \in Range(held) /\ rates[i] = FundingOf(r)
    BY <1>5, Zenon DEF Range
  <2> HIDE DEF r
  <2>1. r.ex = job.ex /\ r.at \in Int /\ r.at >= -1 /\ r.at # -1 /\ r.at <= clock + Skew
    BY <1>3, <2>0, Zenon DEF RowFact, Passes, Zero
  <2>2. r.at \in Absent..(clock + Skew)
    BY <1>1, <2>1, Constants DEF Absent
  <2>3. r.num # "neg" /\ r.rate \notin {"out", "wild"}
    BY <1>3, <2>0, Zenon DEF RowFact, Passes, validateFundingOptional
  <2>4. /\ FundingOf(r).ex = r.ex /\ FundingOf(r).at = r.at /\ FundingOf(r).num = r.num
        /\ FundingOf(r).rate = r.rate
    BY Zenon DEF FundingOf, Row
  <2>5. rates[i].num # "inf"
    BY Zenon DEF Fits
  <2> QED
    BY <2>0, <2>1, <2>2, <2>3, <2>4, <2>5, Zenon DEF Storable
<1>9. \A w \in Range(rates) : Storable(w) /\ \E r \in sent : r.at # Zero /\ w.at = r.at
  <2>1. \A r \in Range(held) : r \in sent /\ r.at # Zero /\ FundingOf(r).at = r.at
    BY <1>1, <1>3, Zenon DEF HeldInv, Passes, FundingOf, Row
  <2>2. \A i \in DOMAIN rates : held[i] \in Range(held)
    BY <1>5, Zenon DEF Range
  <2>3. \A i \in DOMAIN rates : \E r \in sent : r.at # Zero /\ rates[i].at = r.at
    BY <1>5, <2>1, <2>2, Zenon
  <2> QED
    BY <1>8, <2>3, Zenon DEF Range
<1>10. PICK n \in Nat : DOMAIN rates \subseteq 1..n
  BY <1>1, <1>5, Zenon DEF TypeInv
<1>11. StoredInv' /\ TimedInv'
  BY <1>2, <1>7, <1>9, <1>10, StoreKeeps, Zenon
<1>12. \A r : Passes(r) => Passes(r)'
  BY <1>2, Zenon DEF Passes, validateInterval, validateFundingOptional
<1>13. TypeInv'
  BY <1>1, <1>2, <1>7, Zenon DEF TypeInv
<1>14. HeldInv'
  BY <1>1, <1>2, <1>7, <1>12, Zenon DEF HeldInv
<1>15. WrittenInv'
  <2>1. \A r \in Range(held) : r.rate # "none" => FundingOf(r) \in Range(rates)
    BY <1>5, Zenon DEF Range
  <2> QED
    BY <1>1, <1>2, <1>7, <2>1, Zenon DEF WrittenInv
<1>16. SucceededAccounted' /\ status' # "succeeded"
  BY <1>1, <1>2, <1>7, Zenon DEF SucceededAccounted, TypeInv
<1>17. KeptInv'
  <2>1. \A r \in Range(held) : Holds(table', r, Range(held))
    <3> TAKE r \in Range(held)
    <3> DEFINE k == UpsertOf(r).key
    <3>1. k \in DOMAIN table /\ table[k] \in Range(held)
      BY <1>1, <1>2, Zenon DEF KeptInv, Holds
    <3>2. k[1] = "market_snapshots"
      BY <1>3, SnapshotKey, Zenon DEF RowFact
    <3>3. \A i \in DOMAIN rates : UpsertOf(rates[i]).key[1] = "funding_rates"
      BY <1>5, FundingKey, Zenon
    <3> HIDE DEF k
    <3>4. k \in DOMAIN table' /\ table'[k] = table[k]
      BY <1>7, <1>10, <3>1, <3>2, <3>3, UpsertedKeys, Zenon
    <3> QED
      BY <3>1, <3>4, Zenon DEF Holds, k
  <2>2. \A w \in Range(rates) : Holds(table', w, Range(rates))
    BY <1>7, <1>10, UpsertedHolds, Zenon
  <2>3. Range(rates) \subseteq {FundingOf(x) : x \in Range(held)}
    BY <1>5, Zenon DEF Range
  <2>4. \A r \in Range(held) : r.rate # "none" => FundingOf(r) \in Range(rates)
    BY <1>5, Zenon DEF Range
  <2>5. \A r \in Range(held) : r.rate # "none" =>
           Holds(table', FundingOf(r), {FundingOf(x) : x \in Range(held)})
    BY <2>2, <2>3, <2>4, Zenon DEF Holds
  <2> QED
    BY <1>2, <1>7, <1>16, <2>1, <2>5, Zenon DEF KeptInv
<1> QED
  BY <1>11, <1>13, <1>14, <1>15, <1>16, <1>17, Zenon DEF Inv

\* A job is marked once its rows are stored.
LEMMA MarkKeeps ==
    ASSUME Inv, MarkJobSucceeded
    PROVE  Inv'
<1>1. TypeInv /\ HeldInv /\ WrittenInv /\ StoredInv /\ TimedInv /\ KeptInv
  BY Zenon DEF Inv
<1>2. /\ pc = "mark" /\ pc' = "idle" /\ status' = "succeeded" /\ retryCount' = retryCount
      /\ clock' = clock /\ job' = job /\ reported' = reported /\ faults' = faults
      /\ held' = held /\ sent' = sent /\ raised' = raised /\ table' = table /\ wrote' = wrote
  BY Zenon DEF MarkJobSucceeded, bounds
<1>3. TypeInv' /\ WrittenInv'
  BY <1>1, <1>2, Zenon DEF TypeInv, WrittenInv
<1>4. HeldInv'
  BY <1>1, <1>2, Zenon DEF HeldInv
<1>5. StoredInv'
  BY <1>1, <1>2, Zenon DEF StoredInv, Storable
<1>6. TimedInv' /\ KeptInv'
  <2>1. Range(held) = sent \ raised
    BY <1>1, <1>2, Zenon DEF HeldInv
  <2>2. LastAnswerKept
    BY <1>1, <1>2, <2>1, Zenon DEF KeptInv, Holds, LastAnswerKept
  <2>3. LastAnswerKept'
    BY <1>2, <2>2, Zenon DEF LastAnswerKept
  <2> QED
    BY <1>1, <1>2, <2>3, Zenon DEF TimedInv, KeptInv
<1>7. SucceededAccounted'
  BY <1>1, <1>2, Zenon DEF SucceededAccounted, HeldInv, WrittenInv
<1> QED
  BY <1>3, <1>4, <1>5, <1>6, <1>7, Zenon DEF Inv

-----------------------------------------------------------------------------
(* Every step, and the theorems. *)

\* Nothing happens.
LEMMA StutterKeeps ==
    ASSUME Inv, UNCHANGED ingestVars
    PROVE  Inv'
<1>1. TypeInv /\ HeldInv /\ WrittenInv /\ StoredInv /\ TimedInv /\ KeptInv /\ SucceededAccounted
  BY Zenon DEF Inv
<1>2. /\ pc' = pc /\ status' = status /\ retryCount' = retryCount
      /\ clock' = clock /\ job' = job /\ reported' = reported /\ faults' = faults
      /\ held' = held /\ sent' = sent /\ raised' = raised /\ table' = table /\ wrote' = wrote
  BY Zenon DEF ingestVars, bounds
<1>3. TypeInv' /\ WrittenInv'
  BY <1>1, <1>2, Zenon DEF TypeInv, WrittenInv
<1>4. HeldInv'
  BY <1>1, <1>2, Zenon DEF HeldInv, Passes, validateInterval, validateFundingOptional
<1>5. StoredInv'
  BY <1>1, <1>2, Zenon DEF StoredInv, Storable
<1>6. TimedInv' /\ KeptInv'
  BY <1>1, <1>2, Zenon DEF TimedInv, KeptInv, Holds, LastAnswerKept
<1>7. SucceededAccounted'
  BY <1>1, <1>2, Zenon DEF SucceededAccounted
<1> QED
  BY <1>3, <1>4, <1>5, <1>6, <1>7, Zenon DEF Inv

\* Every step keeps the invariant.
LEMMA InvStep ==
    ASSUME Inv, [IngestNext]_ingestVars
    PROVE  Inv'
  BY StutterKeeps, FetchKeeps, IssuesKeeps, RowsKeep, DerivedKeeps, MarkKeeps, TickKeeps, FaultKeeps, Zenon
     DEF IngestNext, IngestStep, Proceed, Fault

\* The invariant is one.
LEMMA InvAlways == IngestSpec => []Inv
  BY InvInit, InvStep, PTL DEF IngestSpec

\* What the invariant says of types.
LEMMA InvTypes == Inv => IngestTypeOK
<1> SUFFICES ASSUME Inv
             PROVE  IngestTypeOK
  BY Zenon
<1>1. TypeInv /\ HeldInv /\ StoredInv
  BY Zenon DEF Inv
<1>2. \A r \in sent : r.ex = job.ex /\ r.at \in Int /\ r.at >= Zero
  BY <1>1, Zenon DEF HeldInv, RowFact
<1>3. \A r \in wrote : r.ex = job.ex /\ r.at \in Int /\ r.at >= Zero
  <2> TAKE r \in wrote
  <2>1. r.ex = job.ex /\ r.at \in 0..(clock + Skew)
    BY <1>1, Zenon DEF StoredInv, Storable, Absent
  <2> QED
    BY <1>1, <2>1, Constants DEF Zero
<1> QED
  BY <1>1, <1>2, <1>3, Zenon DEF TypeInv, HeldInv, IngestTypeOK

\* What the invariant says of the tables.
LEMMA InvValid == Inv => OnlyValidStored
<1> SUFFICES ASSUME Inv
             PROVE  OnlyValidStored
  BY Zenon
<1>1. HeldInv /\ WrittenInv /\ StoredInv
  BY Zenon DEF Inv
<1>2. ASSUME NEW k \in DOMAIN table
      PROVE  /\ table[k].at \in Absent..(clock + Skew)
             /\ table[k].num # "neg" \/ table[k].kind = "long_short_ratio"
             /\ table[k].num # "inf" /\ table[k].rate \notin {"out", "wild"}
  BY <1>1, Zenon DEF StoredInv, Storable
<1>3. ASSUME pc = "rows"
      PROVE  Accepted(held)
  <2>1. \A r \in Range(held) : r.kind \in Kinds /\ Passes(r)
    BY <1>1, <1>3, KindIsKind, Zenon DEF HeldInv, RowFact
  <2> QED
    BY <2>1, PassesIsValid, Zenon DEF Accepted, Range
<1>4. ASSUME pc = "derived"
      PROVE  Accepted(deriveFunding(held))
  <2>1. \A r \in Range(held) : r.kind = "market_snapshot" /\ Passes(r)
    BY <1>1, <1>4, Zenon DEF HeldInv, WrittenInv, KindOf, RowFact
  <2>2. \A i \in DOMAIN deriveFunding(held) : i \in DOMAIN held /\ deriveFunding(held)[i] = FundingOf(held[i])
    BY Zenon DEF deriveFunding
  <2>3. \A i \in DOMAIN deriveFunding(held) : UpsertOf(FundingOf(held[i])).valid
    BY <2>1, <2>2, FundingIsValid, Zenon DEF Range
  <2> QED
    BY <2>2, <2>3, Zenon DEF Accepted
<1> QED
  BY <1>2, <1>3, <1>4, Zenon DEF OnlyValidStored

\* Every row in the pipeline is of its job's exchange and has a time, or Go's
\* zero time, whatever the exchange answered and wherever the attempt was cut off
\* (the normalizers of internal/exchanges, core/collector.go:84-118, core/writer.go:33-91).
THEOREM IngestTypeCorrect == IngestSpec => []IngestTypeOK
  BY InvAlways, InvTypes, PTL

\* No table ever holds a row without a time, from the future, with a negative or
\* infinite quantity or a funding rate that lies out of bounds (what is not a
\* number lies nowhere, and is stored), and no validator of an Upsert refuses what
\* the filter let through, whatever the exchanges answer to each of the attempts
\* (hardening/validation.go:43-255).
THEOREM IngestStoresOnlyValid == IngestSpec => []OnlyValidStored
  BY InvAlways, InvValid, PTL

\* A job that succeeded has written, or raised an issue for, every row of its
\* answer, and the rate of every accepted snapshot (core/writer.go:33-90).
THEOREM IngestAccountsForRows == IngestSpec => []SucceededAccounted
<1>1. Inv => SucceededAccounted
  BY Zenon DEF Inv
<1> QED
  BY <1>1, InvAlways, PTL

\* However often attempts are cut off and run again on other answers, the rows of
\* a stamped job have times that the exchange reported, and after a success the
\* tables hold the last answer's row for each of its keys (the ON CONFLICT
\* clauses of repositories/*.go).
THEOREM IngestIsIdempotent == IngestSpec => []IdempotentIngestion
<1>1. Inv => IdempotentIngestion
  BY Zenon DEF Inv, TimedInv, KeptInv, IdempotentIngestion
<1> QED
  BY <1>1, InvAlways, PTL
=============================================================================
