---------------------------- MODULE RateLimiter ----------------------------
(***************************************************************************)
(* ratelimit.Limiter for one exchange: a token bucket per second and one   *)
(* per minute, refilled lazily, and callers that loop in Wait.  reserve    *)
(* runs under the mutex, so it is one action; the timers of Wait run       *)
(* between reserves.  Buckets of different exchanges share nothing.        *)
(*                                                                         *)
(* Abstractions.  Tokens are counted in whole units, time in ticks, the    *)
(* finest unit a Duration can hold, so that delayFor truncates as the code *)
(* does.  lastRefill is kept as the time since it, up to the time in which *)
(* both buckets are full again.  The clock is monotonic, so now is never   *)
(* before lastRefill.                                                      *)
(***************************************************************************)
EXTENDS Naturals, Integers

CONSTANTS
    Callers,
    Weights,      \* request weights, in units
    Rate,         \* RequestsPerSecond: units per tick
    MinuteRate,   \* RequestsPerMinute / 60: units per tick
    Burst,
    MinuteBurst,  \* RequestsPerMinute
    Jitters,      \* {0} if JitterMax is 0, else JitterMin..(JitterMax - 1)
    FullAfter     \* bound: ticks that fill both buckets, whatever they held

ASSUME LimiterAssumption ==
    /\ Weights \subseteq Nat \ {0}
    /\ Rate \in Nat \ {0} /\ MinuteRate \in Nat \ {0}
    /\ Burst \in Nat \ {0} /\ MinuteBurst \in Nat \ {0}
    /\ Jitters \subseteq Nat /\ FullAfter \in Nat
    /\ \E b \in Weights \cup {Burst} : \A w \in Weights \cup {Burst} : b >= w
    /\ \A w \in Weights \cup {Burst} : FullAfter * Rate >= w
    /\ \A w \in Weights \cup {Burst, MinuteBurst} : FullAfter * MinuteRate >= w

VARIABLES
    burst,    \* budget.Burst, raised to the heaviest weight asked for
    second,   \* secondTokens
    minute,   \* minuteTokens
    idle,     \* now - lastRefill
    calls,    \* caller -> its call of Wait
    credit    \* history: an ideal bucket that every admission draws on

vars == <<burst, second, minute, idle, calls, credit>>

Larger(a, b) == IF a > b THEN a ELSE b

Smaller(a, b) == IF a < b THEN a ELSE b

\* charged is what the call has taken from the bucket so far.
Call == [phase : {"idle", "waiting", "admitted"}, weight : Weights \cup {0},
         sleep : Nat, charged : Nat]

NoCall == [phase |-> "idle", weight |-> 0, sleep |-> 0, charged |-> 0]

\* What the ideal buckets hold at most.
Capacity == CHOOSE b \in Weights \cup {Burst} :
                \A w \in Weights \cup {Burst} : b >= w

MinuteCapacity == Larger(MinuteBurst, Capacity)

Init ==
    /\ burst = Burst
    /\ second = Burst
    /\ minute = Larger(MinuteBurst, Burst)
    /\ idle = 0
    /\ calls = [c \in Callers |-> NoCall]
    /\ credit = [second |-> Capacity, minute |-> MinuteCapacity]
-----------------------------------------------------------------------------
Refill(tokens, rate, cap) == Smaller(cap, tokens + idle * rate)

DelayFor(missing, rate) == IF missing <= 0 THEN 0 ELSE missing \div rate

Wait(c, w) ==
    /\ calls[c].phase # "waiting"
    /\ calls' = [calls EXCEPT ![c] = [phase |-> "waiting", weight |-> w,
                                      sleep |-> 0, charged |-> 0]]
    /\ UNCHANGED <<burst, second, minute, idle, credit>>

\* Wait goes round its loop: it returns when there is nothing to wait for.
SleepOrReturn(c, charge, waitFor) ==
    /\ calls' = [calls EXCEPT
                   ![c].phase = IF waitFor = 0 THEN "admitted" ELSE "waiting",
                   ![c].sleep = waitFor,
                   ![c].charged = @ + charge]
    /\ credit' = IF waitFor # 0 THEN credit
                 ELSE [second |-> credit.second - calls[c].weight,
                       minute |-> credit.minute - calls[c].weight]

\* Mutant: a weight above the burst does not raise it.
RaiseBurstNever(w) == burst

RaiseBurst(w) == Larger(burst, w)

\* Mutant: lastRefill is not moved.
ReserveKeepsAge(c) ==
    /\ calls[c].phase = "waiting" /\ calls[c].sleep = 0
    /\ LET w == calls[c].weight
           s == Refill(second, Rate, RaiseBurst(w))
           m == Refill(minute, MinuteRate, Larger(MinuteBurst, RaiseBurst(w)))
           enough == s >= w /\ m >= w
           charge == IF enough THEN w ELSE 0
           delay == IF enough THEN 0 ELSE Larger(DelayFor(w - s, Rate),
                                                 DelayFor(w - m, MinuteRate))
       IN  /\ burst' = RaiseBurst(w)
           /\ second' = s - charge
           /\ minute' = m - charge
           /\ SleepOrReturn(c, charge, delay)
    /\ UNCHANGED idle

\* Mutant: what is there is taken before the wait for the rest.
ReserveTakesEarly(c) ==
    /\ calls[c].phase = "waiting" /\ calls[c].sleep = 0
    /\ LET w == calls[c].weight
           s == Refill(second, Rate, RaiseBurst(w))
           m == Refill(minute, MinuteRate, Larger(MinuteBurst, RaiseBurst(w)))
           enough == s >= w /\ m >= w
           charge == IF enough THEN w ELSE Smaller(s, m)
           delay == IF enough THEN 0 ELSE Larger(DelayFor(w - s, Rate),
                                                 DelayFor(w - m, MinuteRate))
       IN  /\ burst' = RaiseBurst(w)
           /\ second' = s - charge
           /\ minute' = m - charge
           /\ SleepOrReturn(c, charge, delay)
    /\ idle' = 0

Reserve(c) ==
    /\ calls[c].phase = "waiting" /\ calls[c].sleep = 0
    /\ LET w == calls[c].weight
           s == Refill(second, Rate, RaiseBurst(w))
           m == Refill(minute, MinuteRate, Larger(MinuteBurst, RaiseBurst(w)))
           enough == s >= w /\ m >= w
           charge == IF enough THEN w ELSE 0
           delay == IF enough THEN 0 ELSE Larger(DelayFor(w - s, Rate),
                                                 DelayFor(w - m, MinuteRate))
       IN  /\ burst' = RaiseBurst(w)
           /\ second' = s - charge
           /\ minute' = m - charge
           /\ \E jitter \in Jitters :
                SleepOrReturn(c, charge, IF delay = 0 THEN jitter ELSE delay)
    /\ idle' = 0

\* The context ends while Wait sleeps.
Cancel(c) ==
    /\ calls[c].phase = "waiting" /\ calls[c].sleep > 0
    /\ calls' = [calls EXCEPT ![c] = NoCall]
    /\ UNCHANGED <<burst, second, minute, idle, credit>>

Tick ==
    /\ idle' = Smaller(idle + 1, FullAfter)
    /\ calls' = [c \in Callers |->
                   [calls[c] EXCEPT !.sleep = IF @ > 0 THEN @ - 1 ELSE 0]]
    /\ credit' = [second |-> Smaller(credit.second + Rate, Capacity),
                  minute |-> Smaller(credit.minute + MinuteRate,
                                     MinuteCapacity)]
    /\ UNCHANGED <<burst, second, minute>>

Next ==
    \/ \E c \in Callers, w \in Weights : Wait(c, w)
    \/ \E c \in Callers : Reserve(c)
    \/ \E c \in Callers : Cancel(c)
    \/ Tick

Spec == Init /\ [][Next]_vars

\* Timers fire, and a caller that may run does.
Fairness == WF_vars(Tick) /\ \A c \in Callers : WF_vars(Reserve(c))

FairSpec == Spec /\ Fairness
-----------------------------------------------------------------------------
\* Every variable has its type, and no bucket is above its capacity.
TypeOK ==
    /\ burst \in Weights \cup {Burst}
    /\ second \in 0..burst
    /\ minute \in 0..Larger(MinuteBurst, burst)
    /\ idle \in 0..FullAfter
    /\ calls \in [Callers -> Call]
    /\ credit \in [second : Int, minute : Int]

\* Lazy refills under a burst that weights raise admit no more than an ideal
\* token bucket refilled at every tick: in any t ticks at most the capacity
\* plus t times the rate, by the second and by the minute.
NeverOverdrawn == credit.second >= 0 /\ credit.minute >= 0

\* "token-bucket limiter": a call of Wait takes its weight from the bucket
\* exactly once, however often it goes round its loop.
ChargedOnce ==
    \A c \in Callers :
        /\ calls[c].charged <= calls[c].weight
        /\ calls[c].phase = "admitted" => calls[c].charged = calls[c].weight

\* A caller gets out of Wait, even with a weight above the configured burst,
\* unless others come and take the tokens again and again: one that is alone in
\* Wait from some moment on, as the sequential worker is, does not stay there.
WaitReturns ==
    \A c \in Callers :
        <>[](\A d \in Callers \ {c} : calls[d].phase # "waiting")
            => []<>(calls[c].phase # "waiting")
=============================================================================
