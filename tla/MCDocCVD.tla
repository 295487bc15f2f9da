----------------------------- MODULE MCDocCVD -----------------------------
(* One collector that neither fails nor dies, of an exchange that answers    *)
(* newest first, as OKX's taker volume does.                                 *)
EXTENDS TakerFlows

OneFlow == {[buy |-> 2, sell |-> 1]}

\* README.md:24: "recalculable CVD".  Once an answer is handled to its end, every
\* CVD row is the sum of the deltas of the flows up to it (advanced.go:171-210).
RecalculableCVD ==
    (\A c \in Collectors : at[c] = "idle") => \A t \in DOMAIN cvd : cvd[t].value = RunningSum(t)
=============================================================================
