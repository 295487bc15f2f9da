--------------------------- MODULE Normalizers ---------------------------
(***************************************************************************)
(* From an exchange's answer to rows of the database: the six adapters'    *)
(* normalizers, the validators, and the filter in front of the             *)
(* repositories.  An answer is a list of items, or a refusal (an error     *)
(* body under status 200).  Adapters disagree on three points that decide  *)
(* what becomes of an item: which clock stamps the row, what a number or   *)
(* a time that does not parse turns into, and whether an invalid row fails *)
(* the job or is skipped.                                                  *)
(*                                                                         *)
(* Abstractions.  An item has one time, one number that stands for the     *)
(* numbers its validator looks at, and one funding rate:                   *)
(*   at    Absent, or the time the exchange reports                        *)
(*   num   "pos", "neg", "missing" (no such field or column), "junk" (a    *)
(*         text that is no number), or the texts that strconv.ParseFloat   *)
(*         reads as "nan" and "inf"                                        *)
(*   rate  "none", "in" (the sanity bounds; "zero" is too), "out" (of      *)
(*         them, but within one), "wild" (beyond one), "nan"               *)
(* Of the two long/short ratios num is the long one.  Ids, raw payloads    *)
(* and derived ratios are left out.  Every adapter copies symbol, exchange *)
(* and period from the job, so the checks of those fields see the job's    *)
(* own values: they are named below, and cannot fail.                      *)
(***************************************************************************)
EXTENDS Integers, Sequences, FiniteSets, FiniteSetsExt

CONSTANT Skew   \* MaxFutureSkew

Exchanges == {"binance", "okx", "bybit", "mexc", "bitget", "gate"}
Item == [at : Nat, num : {"pos", "neg", "missing", "junk", "nan", "inf"},
         rate : {"none", "in", "out", "wild", "nan"}]

\* Times: an item without one, Go's zero time, a failed parse.
Absent   == 0
Zero     == -1
Unparsed == -2

Row(kind, ex, at, period, num, rate) ==
    [kind |-> kind, ex |-> ex, at |-> at, period |-> period, num |-> num, rate |-> rate]

\* What a normalizer returns: rows (by the position of their item, as some are
\* skipped), an error, or the panic of a nil pointer.
Err     == [out |-> "error", rows |-> <<>>]
Panic   == [out |-> "panic", rows |-> <<>>]
Rows(s) == [out |-> "rows", rows |-> s]

-----------------------------------------------------------------------------
\* Parsing.

FloatPtr(num)       == IF num = "missing" THEN "none" ELSE num
parseFloatSafe(num) == IF num \in {"missing", "junk"} THEN "zero" ELSE num
floatPtrSafe(num)   == IF num \in {"missing", "junk"} THEN "none" ELSE num

\* A field of MEXC's is a JSON number: no other text decodes.
Undecodable(item) == item.num \in {"junk", "nan", "inf"}

\* An absent number is 0, midnight of 1970; an absent text does not parse.
MillisToTime(at, typed) == IF at = Absent /\ typed # "int64" THEN Unparsed ELSE at
SecondsToTime(at) == IF at = Absent THEN Unparsed ELSE at

\* Mutant: the result of a failed parse is used as it is.
MustTimeAny(at) == at

MustTime(at) == IF at = Unparsed THEN Zero ELSE at

Millis(item, typed) == MustTime(MillisToTime(item.at, typed))
Seconds(item)       == MustTime(SecondsToTime(item.at))

\* The captured time where the exchange reports none.
OrCaptured(at, t) == IF at = Absent THEN t ELSE at

-----------------------------------------------------------------------------
\* Validators.  They compare, and what is not a number passes every comparison.

ValidateTimestamp(at) == at # Zero
ValidateNonNegative(num) == num # "neg"
ValidateFundingRate(rate) == rate # "wild"

ValidateMarketSnapshot(r) ==
    /\ ValidateTimestamp(r.at) /\ ValidateNonNegative(r.num)
    /\ r.rate # "none" => ValidateFundingRate(r.rate)

ValidateKline(r) == ValidateTimestamp(r.at) /\ ValidateNonNegative(r.num)

ValidateOpenInterest(r, history) ==
    /\ history => r.period # ""
    /\ ValidateTimestamp(r.at) /\ ValidateNonNegative(r.num)

ValidateFundingSnapshot(r) ==
    /\ ValidateTimestamp(r.at) /\ ValidateFundingRate(r.rate) /\ ValidateNonNegative(r.num)

ValidateLongShortRatio(r) == ValidateTimestamp(r.at)
ValidateBasisPremium(r) == ValidateTimestamp(r.at) /\ ValidateNonNegative(r.num)
ValidateOrderbookImbalance(r) == ValidateTimestamp(r.at) /\ ValidateNonNegative(r.num)

-----------------------------------------------------------------------------
\* One row of the first item (an error when it is invalid), or one row per
\* item (the invalid ones are skipped).

Blank == [at |-> Absent, num |-> "missing", rate |-> "none"]
Object(a) == IF a.items = <<>> THEN Blank ELSE a.items[1]

\* Rows with too few columns are skipped where the adapter counts them.
Whole(a) ==
    [refused |-> a.refused,
     items |-> [i \in {i \in DOMAIN a.items : a.items[i].num # "missing"} |-> a.items[i]]]

Only(row, valid) == IF valid THEN Rows(<<row>>) ELSE Err

Each(a, Make(_), Valid(_)) ==
    Rows([i \in {i \in DOMAIN a.items : Valid(Make(a.items[i]))} |-> Make(a.items[i])])

-----------------------------------------------------------------------------
\* Tickers, mark and index prices, current funding.

MarketSnapshot(ex, at, item) ==
    LET row == Row("market_snapshot", ex, at, "", FloatPtr(item.num), item.rate)
    IN  Only(row, at # Unparsed /\ item.num # "junk" /\ ValidateMarketSnapshot(row))

binanceTicker(a, t) ==
    IF a.refused THEN Err ELSE MarketSnapshot("binance", OrCaptured(Object(a).at, t), Object(a))

okxTicker(a, t) ==
    IF a.refused \/ a.items = <<>> THEN Err
    ELSE MarketSnapshot("okx", MillisToTime(a.items[1].at, "text"), a.items[1])

bybitTicker(a, t) ==
    IF a.refused \/ a.items = <<>> THEN Err
    ELSE MarketSnapshot("bybit", MillisToTime(a.items[1].at, "int64"), a.items[1])

\* MEXC's fields are numbers: a missing one is zero, the funding rate too.
mexcTicker(a, t) ==
    IF a.refused \/ a.items = <<>> \/ Undecodable(Object(a)) \/ Object(a).rate = "nan" THEN Err
    ELSE LET item == a.items[1]
         IN  MarketSnapshot("mexc", MillisToTime(item.at, "int64"),
                 [at |-> item.at, num |-> IF item.num = "missing" THEN "zero" ELSE item.num,
                  rate |-> IF item.rate = "none" THEN "zero" ELSE item.rate])

bitgetTicker(a, t) ==
    IF a.refused \/ a.items = <<>> THEN Err
    ELSE MarketSnapshot("bitget", MillisToTime(a.items[1].at, "int64"), a.items[1])

gateTicker(a, t) ==
    IF a.refused \/ a.items = <<>> THEN Err ELSE MarketSnapshot("gate", t, a.items[1])

-----------------------------------------------------------------------------
\* Klines.  MEXC sends numbers: one that is not fails the parse of them all.

Kline(ex, at, p, num) == Row("kline", ex, at, p, num, "none")

binanceKline(a, t, p) ==
    IF a.refused THEN Err
    ELSE Each(a, LAMBDA i : Kline("binance", Millis(i, "any"), p, parseFloatSafe(i.num)),
              ValidateKline)

\* Mutant: candles stamped with the time of the answer.
okxKlineCaptured(a, t, p) ==
    IF a.refused THEN Err
    ELSE Each(a, LAMBDA i : Kline("okx", t, p, parseFloatSafe(i.num)), ValidateKline)

okxKline(a, t, p) ==
    IF a.refused THEN Err
    ELSE Each(a, LAMBDA i : Kline("okx", Millis(i, "any"), p, parseFloatSafe(i.num)),
              ValidateKline)

bybitKline(a, t, p) ==
    IF a.refused THEN Err
    ELSE Each(Whole(a), LAMBDA i : Kline("bybit", Millis(i, "text"), p, parseFloatSafe(i.num)),
              ValidateKline)

mexcKline(a, t, p) ==
    IF a.refused \/ \E i \in DOMAIN a.items : Undecodable(a.items[i]) THEN Err
    ELSE Each(Whole(a), LAMBDA i : Kline("mexc", i.at, p, i.num), ValidateKline)

bitgetKline(a, t, p) ==
    IF a.refused THEN Err
    ELSE Each(a, LAMBDA i : Kline("bitget", Millis(i, "any"), p, parseFloatSafe(i.num)),
              ValidateKline)

gateKline(a, t, p) ==
    IF a.refused THEN Err
    ELSE Each(Whole(a), LAMBDA i : Kline("gate", Seconds(i), p, parseFloatSafe(i.num)),
              ValidateKline)

-----------------------------------------------------------------------------
\* Open interest.  Only Gate sends a list, and only Gate asks for a period.

OpenInterest(ex, at, p, num) == Row("open_interest", ex, at, p, num, "none")

Current(row) == Only(row, ValidateOpenInterest(row, FALSE))

\* A refusal is an object without the fields: zero open interest, now.
binanceOpenInterest(a, t, p) ==
    LET item == IF a.refused THEN Blank ELSE Object(a)
    IN  Current(OpenInterest("binance", OrCaptured(item.at, t), "", parseFloatSafe(item.num)))

okxOpenInterest(a, t, p) ==
    IF a.refused \/ a.items = <<>> THEN Err
    ELSE Current(OpenInterest("okx", Millis(a.items[1], "text"), "",
                              parseFloatSafe(a.items[1].num)))

bybitOpenInterest(a, t, p) ==
    IF a.refused THEN Err
    ELSE IF a.items = <<>> THEN Rows(<<>>)
    ELSE Current(OpenInterest("bybit", OrCaptured(a.items[1].at, t), "",
                              parseFloatSafe(a.items[1].num)))

mexcOpenInterest(a, t, p) ==
    IF a.refused \/ a.items = <<>> \/ Undecodable(Object(a)) \/ Object(a).rate = "nan" THEN Err
    ELSE Current(OpenInterest("mexc", OrCaptured(a.items[1].at, t), "",
                              parseFloatSafe(a.items[1].num)))

bitgetOpenInterest(a, t, p) ==
    IF a.refused \/ a.items = <<>> THEN Err
    ELSE Current(OpenInterest("bitget", OrCaptured(a.items[1].at, t), "",
                              parseFloatSafe(a.items[1].num)))

gateOpenInterest(a, t, p) ==
    IF a.refused THEN Err
    ELSE Each(Whole(a), LAMBDA i : OpenInterest("gate", Seconds(i), p, parseFloatSafe(i.num)),
              LAMBDA r : ValidateOpenInterest(r, TRUE))

-----------------------------------------------------------------------------
\* Long/short ratios.  Bybit and Bitget divide by the short ratio without
\* asking whether there is a long one.

LongShort(ex, at, p, num) == Row("long_short_ratio", ex, at, p, num, "none")

NoLongRatio(a) == \E i \in DOMAIN a.items : floatPtrSafe(a.items[i].num) = "none"

binanceLongShortRatio(a, t, p) ==
    IF a.refused THEN Err
    ELSE Each(a, LAMBDA i : LongShort("binance", Millis(i, "int64"), p, floatPtrSafe(i.num)),
              ValidateLongShortRatio)

okxLongShortRatio(a, t, p) ==
    IF a.refused THEN Err
    ELSE Each(a, LAMBDA i : LongShort("okx", Millis(i, "any"), p, floatPtrSafe(i.num)),
              ValidateLongShortRatio)

bybitLongShortRatio(a, t, p) ==
    IF a.refused THEN Err
    ELSE IF NoLongRatio(a) THEN Panic
    ELSE Each(a, LAMBDA i : LongShort("bybit", Millis(i, "text"), p, floatPtrSafe(i.num)),
              ValidateLongShortRatio)

bitgetLongShortRatio(a, t, p) ==
    IF a.refused THEN Err
    ELSE IF NoLongRatio(a) THEN Panic
    ELSE Each(a, LAMBDA i : LongShort("bitget", OrCaptured(i.at, t), p, floatPtrSafe(i.num)),
              ValidateLongShortRatio)

gateLongShortRatio(a, t, p) ==
    IF a.refused THEN Err
    ELSE Each(Whole(a), LAMBDA i : LongShort("gate", Seconds(i), p, floatPtrSafe(i.num)),
              ValidateLongShortRatio)

-----------------------------------------------------------------------------
\* Basis.  Gate's has no price for the validator to look at.

Basis(ex, at, num) == Row("basis", ex, at, "", num, "none")

binanceBasis(a, t, p) ==
    IF a.refused THEN Err
    ELSE Each(a, LAMBDA i : Basis("binance", Millis(i, "int64"), floatPtrSafe(i.num)),
              ValidateBasisPremium)

gateBasis(a, t, p) ==
    IF a.refused THEN Err
    ELSE Each(Whole(a), LAMBDA i : Basis("gate", Seconds(i), "none"), ValidateBasisPremium)

-----------------------------------------------------------------------------
\* Order books, one row each.  An item is a best level; num is the notional of the
\* levels, zero when there are none, and a level of one column adds nothing, like
\* one that does not parse.  The best price is read off the first level without
\* asking whether it has a column.  Only OKX's books carry a time that is used.

calcOBNotional(levels) == IF levels = <<>> THEN "zero" ELSE parseFloatSafe(levels[1].num)

Book(ex, at, levels) ==
    LET row == Row("orderbook", ex, at, "", calcOBNotional(levels), "none")
    IN  IF levels # <<>> /\ levels[1].num = "missing" THEN Panic
        ELSE Only(row, ValidateOrderbookImbalance(row))

\* Binance and Gate read a refusal as a book without levels.
Levels(a) == IF a.refused THEN <<>> ELSE a.items

binanceOrderbook(a, t) == Book("binance", t, Levels(a))

okxOrderbook(a, t) ==
    IF a.refused \/ a.items = <<>> THEN Err
    ELSE Book("okx", OrCaptured(a.items[1].at, t), a.items)

bybitOrderbook(a, t) == IF a.refused THEN Err ELSE Book("bybit", t, a.items)

mexcOrderbook(a, t) ==
    IF a.refused \/ Undecodable(Object(a)) THEN Err ELSE Book("mexc", t, a.items)

bitgetOrderbook(a, t) ==
    IF a.refused \/ a.items = <<>> THEN Err ELSE Book("bitget", t, a.items)

gateOrderbook(a, t) == Book("gate", t, Levels(a))

-----------------------------------------------------------------------------
\* The answer a at time t to a job of exchange ex, type and period p.
Normalize(ex, type, a, t, p) ==
    CASE type \in {"ticker", "funding"} ->
           (CASE ex = "binance" -> binanceTicker(a, t)
              [] ex = "okx"     -> okxTicker(a, t)
              [] ex = "bybit"   -> bybitTicker(a, t)
              [] ex = "mexc"    -> mexcTicker(a, t)
              [] ex = "bitget"  -> bitgetTicker(a, t)
              [] ex = "gate"    -> gateTicker(a, t))
      [] type = "kline" ->
           (CASE ex = "binance" -> binanceKline(a, t, p)
              [] ex = "okx"     -> okxKline(a, t, p)
              [] ex = "bybit"   -> bybitKline(a, t, p)
              [] ex = "mexc"    -> mexcKline(a, t, p)
              [] ex = "bitget"  -> bitgetKline(a, t, p)
              [] ex = "gate"    -> gateKline(a, t, p))
      [] type = "open_interest" ->
           (CASE ex = "binance" -> binanceOpenInterest(a, t, p)
              [] ex = "okx"     -> okxOpenInterest(a, t, p)
              [] ex = "bybit"   -> bybitOpenInterest(a, t, p)
              [] ex = "mexc"    -> mexcOpenInterest(a, t, p)
              [] ex = "bitget"  -> bitgetOpenInterest(a, t, p)
              [] ex = "gate"    -> gateOpenInterest(a, t, p))
      [] type = "long_short_ratio" ->
           (CASE ex = "binance" -> binanceLongShortRatio(a, t, p)
              [] ex = "okx"     -> okxLongShortRatio(a, t, p)
              [] ex = "bybit"   -> bybitLongShortRatio(a, t, p)
              [] ex = "bitget"  -> bitgetLongShortRatio(a, t, p)
              [] ex = "gate"    -> gateLongShortRatio(a, t, p)
              [] OTHER          -> Err)
      [] type = "basis" ->
           (CASE ex = "binance" -> binanceBasis(a, t, p)
              [] ex = "gate"    -> gateBasis(a, t, p)
              [] OTHER          -> Err)
      [] type = "orderbook" ->
           (CASE ex = "binance" -> binanceOrderbook(a, t)
              [] ex = "okx"     -> okxOrderbook(a, t)
              [] ex = "bybit"   -> bybitOrderbook(a, t)
              [] ex = "mexc"    -> mexcOrderbook(a, t)
              [] ex = "bitget"  -> bitgetOrderbook(a, t)
              [] ex = "gate"    -> gateOrderbook(a, t))
      [] OTHER -> Err
=============================================================================
