---------------------------- MODULE TakerFlows ----------------------------
(***************************************************************************)
(* Taker flows and the cumulative volume delta (CVD) derived from them.    *)
(* An exchange keeps one flow per period, the newest of which it still     *)
(* revises, and answers a poll with its last Window periods.  A collector  *)
(* writes the flows in one transaction and then, flow by flow, reads the   *)
(* CVD before the flow and writes the CVD at it: two statements with no    *)
(* transaction around them, in the order the exchange sent the flows.      *)
(*                                                                         *)
(* Abstractions.  One symbol, exchange and period; volumes are small       *)
(* integers and Nil is a volume that does not parse; quote volumes, which  *)
(* no adapter sets, the ratio and the percentage are left out.             *)
(***************************************************************************)
EXTENDS Integers, Sequences, FiniteSets, SequencesExt, FiniteSetsExt

CONSTANTS
    Collectors,
    Flows,        \* what the exchange may report of a period: [buy, sell]
    Nil,
    Periods,      \* number of periods modelled
    Window,       \* periods in an answer
    Orders,       \* orders an exchange may answer in: "asc", "desc"
    MaxRevisions, \* bound: revisions of a period's flow
    MaxDeaths     \* bound: collectors dying or failing between two statements

TakerFlowsAssumption ==
    /\ Periods \in Nat \ {0} /\ Window \in 1..Periods
    /\ Orders \subseteq {"asc", "desc"}
    /\ MaxRevisions \in Nat /\ MaxDeaths \in Nat

VARIABLES
    exchange,   \* period -> flow, for the periods so far
    revisions,
    takerFlows, \* table: period -> delta
    cvd,        \* table: period -> [value, delta]
    todo,       \* collector -> flows of its poll still to be handled
    at,         \* collector -> "idle", "flows", "read" or "write"
    previous,   \* collector -> the CVD it read
    deaths,
    behind      \* history: periods whose flow was written after their CVD, or whose
                \* CVD was written while that of an earlier period was behind

vars == <<exchange, revisions, takerFlows, cvd, todo, at, previous, deaths, behind>>

Newest == Cardinality(DOMAIN exchange)

Put(f, k, v) == [i \in DOMAIN f \cup {k} |-> IF i = k THEN v ELSE f[i]]

\* The exchange has a history when the first poll comes.
Init ==
    /\ exchange \in BoundedSeq(Flows, Window) /\ revisions = 0
    /\ takerFlows = <<>> /\ cvd = <<>>
    /\ todo = [c \in Collectors |-> <<>>]
    /\ at = [c \in Collectors |-> "idle"]
    /\ previous = [c \in Collectors |-> 0]
    /\ deaths = 0
    /\ behind = {}

\* A period begins, whether the last one was polled or not.
Trade ==
    /\ Newest < Periods
    /\ \E f \in Flows : exchange' = Append(exchange, f)
    /\ UNCHANGED <<revisions, takerFlows, cvd, todo, at, previous, deaths, behind>>

\* The flow of the newest period changes.
Revise ==
    /\ Newest > 0 /\ revisions < MaxRevisions
    /\ revisions' = revisions + 1
    /\ \E f \in Flows \ {exchange[Newest]} : exchange' = [exchange EXCEPT ![Newest] = f]
    /\ UNCHANGED <<takerFlows, cvd, todo, at, previous, deaths, behind>>

-----------------------------------------------------------------------------
Number(volume) == IF volume = Nil THEN 0 ELSE volume

\* normalizeTakerFlow: a volume that does not parse counts as 0.
normalizeTakerFlow(t) == [time |-> t, delta |-> Number(exchange[t].buy) - Number(exchange[t].sell)]

\* Mutant: one period too many.
AnswerWide(order) ==
    LET first == Max({1, Newest - Window})
        asc == [i \in 1..(Newest - first + 1) |-> normalizeTakerFlow(first + i - 1)]
    IN  IF order = "asc" THEN asc ELSE Reverse(asc)

Answer(order) ==
    LET first == Max({1, Newest - Window + 1})
        asc == [i \in 1..(Newest - first + 1) |-> normalizeTakerFlow(first + i - 1)]
    IN  IF order = "asc" THEN asc ELSE Reverse(asc)

Poll(c) ==
    /\ at[c] = "idle" /\ Newest > 0
    /\ \E order \in Orders : todo' = [todo EXCEPT ![c] = Answer(order)]
    /\ at' = [at EXCEPT ![c] = "flows"]
    /\ UNCHANGED <<exchange, revisions, takerFlows, cvd, previous, deaths, behind>>

\* One transaction for all flows of the answer.
UpsertTakerFlows(c) ==
    /\ at[c] = "flows"
    /\ takerFlows' = FoldLeft(LAMBDA table, f : Put(table, f.time, f.delta), takerFlows, todo[c])
    /\ at' = [at EXCEPT ![c] = "read"]
    /\ behind' = behind \cup {f.time : f \in Range(todo[c])}
    /\ UNCHANGED <<exchange, revisions, cvd, todo, previous, deaths>>

\* Mutant: the row of the flow itself counts as previous.
previousCVDInclusive(time) ==
    LET before == {t \in DOMAIN cvd : t <= time}
    IN  IF before = {} THEN 0 ELSE cvd[Max(before)].value

\* Mutant: the oldest row instead of the last.
previousCVDOldest(time) ==
    LET before == {t \in DOMAIN cvd : t < time}
    IN  IF before = {} THEN 0 ELSE cvd[Min(before)].value

previousCVD(time) ==
    LET before == {t \in DOMAIN cvd : t < time}
    IN  IF before = {} THEN 0 ELSE cvd[Max(before)].value

ReadPrevious(c) ==
    /\ at[c] = "read"
    /\ previous' = [previous EXCEPT ![c] = previousCVD(Head(todo[c]).time)]
    /\ at' = [at EXCEPT ![c] = "write"]
    /\ UNCHANGED <<exchange, revisions, takerFlows, cvd, todo, deaths, behind>>

UpsertCVD(c) ==
    /\ at[c] = "write"
    /\ LET f == Head(todo[c])
       IN  /\ cvd' = Put(cvd, f.time, [value |-> previous[c] + f.delta, delta |-> f.delta])
           /\ behind' = IF \E t \in behind : t < f.time THEN behind ELSE behind \ {f.time}
    /\ at' = [at EXCEPT ![c] = IF Tail(todo[c]) = <<>> THEN "idle" ELSE "read"]
    /\ todo' = [todo EXCEPT ![c] = Tail(@)]
    /\ previous' = [previous EXCEPT ![c] = 0]
    /\ UNCHANGED <<exchange, revisions, takerFlows, deaths>>

\* A statement fails, or the collector dies: the rest of the answer is dropped.
Abandon(c) ==
    /\ at[c] # "idle" /\ deaths < MaxDeaths
    /\ deaths' = deaths + 1
    /\ at' = [at EXCEPT ![c] = "idle"]
    /\ todo' = [todo EXCEPT ![c] = <<>>]
    /\ previous' = [previous EXCEPT ![c] = 0]
    /\ UNCHANGED <<exchange, revisions, takerFlows, cvd, behind>>

Collect(c) == Poll(c) \/ UpsertTakerFlows(c) \/ ReadPrevious(c) \/ UpsertCVD(c)

Next == Trade \/ Revise \/ \E c \in Collectors : Collect(c) \/ Abandon(c)

Spec == Init /\ [][Next]_vars

\* Every collector polls again and again, and gets through its answer.
FairSpec == Spec /\ \A c \in Collectors : WF_vars(Collect(c))

-----------------------------------------------------------------------------
\* Every variable has its type, and the rows of both tables are periods traded.
TypeOK ==
    /\ Newest <= Periods
    /\ DOMAIN cvd \subseteq DOMAIN exchange /\ DOMAIN takerFlows \subseteq DOMAIN exchange
    /\ \A c \in Collectors : /\ at[c] \in {"idle", "flows", "read", "write"}
                             /\ (at[c] = "idle") = (todo[c] = <<>>)
                             /\ Len(todo[c]) <= Window

RunningSum(t) == MapThenSumSet(LAMBDA u : takerFlows[u], {u \in DOMAIN takerFlows : u <= t})

\* The CVD can be recomputed from the flows: every CVD row with no period behind at
\* or before it is the sum of the deltas of the flows up to it, in whatever order
\* the answers came and whatever revisions, missed periods and half-written
\* answers came before (advanced.go:171-210, 667-690).
RunningSums ==
    \A t \in DOMAIN cvd : (\A u \in behind : u > t) => cvd[t].value = RunningSum(t)

\* The CVD of a period is never written before the flow it is derived from
\* (writer.go:99-106).
FlowBeforeCVD == DOMAIN cvd \subseteq DOMAIN takerFlows

CVDIsRunningSum == FlowBeforeCVD /\ RunningSums

\* The periods the next poll would answer with.
Recent == Max({1, Newest - Window + 1})..Newest

\* The row at t adds its delta to the last row before it.
Continues(t) ==
    LET earlier == {u \in DOMAIN cvd : u < t}
    IN  cvd[t].value = cvd[t].delta + IF earlier = {} THEN 0 ELSE cvd[Max(earlier)].value

\* However the collectors interleave and whatever order the answers come in, the
\* CVD of the periods still answered settles once trading has stopped: every one
\* has a row, with the exchange's last word as its delta, and each row is the row
\* before it plus its delta (advanced.go:171-210, 667-690).
Settles ==
    <>[](\A t \in Recent :
            /\ t \in DOMAIN cvd
            /\ cvd[t].delta = normalizeTakerFlow(t).delta
            /\ Continues(t))
=============================================================================
