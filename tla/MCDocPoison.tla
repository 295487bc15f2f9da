---------------------------- MODULE MCDocPoison ----------------------------
(* One long/short job of Bybit, whose answer may lack the long ratio that the *)
(* adapter dereferences.                                                      *)
EXTENDS Ingest

Ratios == {[ex |-> "bybit", type |-> "long_short_ratio", period |-> "5m"]}

RatioAnswer ==
    [refused : {FALSE}, items : {<<i>> : i \in [at : {1}, num : {"pos", "missing"}, rate : {"none"}]}]
=============================================================================
