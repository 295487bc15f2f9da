--------------------------- MODULE CircuitBreaker ---------------------------
(***************************************************************************)
(* ratelimit.CircuitBreaker for one key (exchange:endpoint:data type), used *)
(* by concurrent callers the way Worker.process uses it: Allow, then the   *)
(* call, then RecordSuccess or RecordFailure.  Every method runs under the *)
(* mutex, so every method is one action; circuits of different keys share  *)
(* nothing.                                                                *)
(*                                                                         *)
(* Abstractions.  openUntil is kept as the time left until it.  failures   *)
(* saturates at the threshold: it is only compared with it.                *)
(***************************************************************************)
EXTENDS Naturals

CONSTANTS
    Callers,
    FailureThreshold,
    Cooldown,
    HalfOpenMaxPasses

ASSUME BreakerAssumption ==
    /\ FailureThreshold \in Nat \ {0}
    /\ Cooldown \in Nat \ {0}
    /\ HalfOpenMaxPasses \in Nat \ {0}

VARIABLES
    state,      \* closed, open or half_open
    failures,
    openFor,    \* openUntil - now, 0 once it has passed or is unset
    passes,     \* halfOpenPasses
    calling,    \* callers between Allow and their verdict
    sinceTrip   \* history: time since the circuit last opened, up to Cooldown

vars == <<state, failures, openFor, passes, calling, sinceTrip>>

AtMost(n, limit) == IF n > limit THEN limit ELSE n

Init ==
    /\ state = "closed"
    /\ failures = 0
    /\ openFor = 0
    /\ passes = 0
    /\ calling = {}
    /\ sinceTrip = Cooldown
-----------------------------------------------------------------------------
\* Mutant: the circuit lets the call through but stays open.
AllowStaysOpen(c) ==
    /\ c \notin calling
    /\ ~(state = "open" /\ openFor > 0)
    /\ calling' = calling \cup {c}
    /\ UNCHANGED <<state, failures, openFor, passes, sinceTrip>>

\* A refused call changes nothing.
Allow(c) ==
    /\ c \notin calling
    /\ ~(state = "open" /\ openFor > 0)
    /\ calling' = calling \cup {c}
    /\ IF state = "open" THEN state' = "half_open" /\ passes' = 0
                         ELSE UNCHANGED <<state, passes>>
    /\ UNCHANGED <<failures, openFor, sinceTrip>>

\* Mutant: any success closes the circuit.
RecordSuccessCloses(c) ==
    /\ c \in calling
    /\ calling' = calling \ {c}
    /\ state' = "closed" /\ failures' = 0 /\ openFor' = 0
    /\ UNCHANGED <<passes, sinceTrip>>

RecordSuccess(c) ==
    /\ c \in calling
    /\ calling' = calling \ {c}
    /\ IF state = "half_open"
       THEN /\ passes' = passes + 1
            /\ IF passes + 1 >= HalfOpenMaxPasses
               THEN state' = "closed" /\ failures' = 0 /\ openFor' = 0
               ELSE UNCHANGED <<state, failures, openFor>>
       ELSE failures' = 0 /\ UNCHANGED <<state, passes, openFor>>
    /\ UNCHANGED sinceTrip

RecordFailure(c) ==
    /\ c \in calling
    /\ calling' = calling \ {c}
    /\ failures' = AtMost(failures + 1, FailureThreshold)
    /\ IF state = "half_open" \/ failures + 1 >= FailureThreshold
       THEN /\ state' = "open" /\ openFor' = Cooldown /\ passes' = 0
            /\ sinceTrip' = IF state = "open" THEN sinceTrip ELSE 0
       ELSE UNCHANGED <<state, openFor, passes, sinceTrip>>

\* Worker.process gives up between Allow and the verdict: the limiter refused.
NoVerdict(c) ==
    /\ c \in calling
    /\ calling' = calling \ {c}
    /\ UNCHANGED <<state, failures, openFor, passes, sinceTrip>>

Tick ==
    /\ openFor > 0 \/ sinceTrip < Cooldown
    /\ openFor' = IF openFor > 0 THEN openFor - 1 ELSE 0
    /\ sinceTrip' = AtMost(sinceTrip + 1, Cooldown)
    /\ UNCHANGED <<state, failures, passes, calling>>

Verdict(c) == RecordSuccess(c) \/ RecordFailure(c) \/ NoVerdict(c)

Next ==
    \/ \E c \in Callers : Allow(c)
    \/ \E c \in Callers : Verdict(c)
    \/ Tick

Spec == Init /\ [][Next]_vars

\* Time passes, every call that was let through ends (the HTTP client has a
\* timeout), and callers keep coming back.
Fairness ==
    /\ WF_vars(Tick)
    /\ \A c \in Callers : WF_vars(Verdict(c)) /\ WF_vars(Allow(c))

FairSpec == Spec /\ Fairness
-----------------------------------------------------------------------------
\* Every variable has its type.
TypeOK ==
    /\ state \in {"closed", "open", "half_open"}
    /\ failures \in 0..FailureThreshold
    /\ openFor \in 0..Cooldown
    /\ passes \in Nat
    /\ calling \in SUBSET Callers
    /\ sinceTrip \in 0..Cooldown

\* However the verdicts of overlapping calls interleave: a closed circuit is
\* below its failure threshold, a half-open one has not yet seen the passes
\* that close it, and only an open one has a cooldown left.
StateConsistent ==
    /\ state = "closed" => failures < FailureThreshold
    /\ state = "half_open" => passes < HalfOpenMaxPasses
    /\ state # "open" => openFor = 0

\* After the circuit opens no call is let through for a whole cooldown,
\* whatever calls that were let through before report in the meantime.
QuietAfterTrip ==
    [][calling' \subseteq calling \/ sinceTrip = Cooldown]_vars

\* An open circuit is probed again: late failures extend the cooldown only
\* finitely often.
OpenIsProbed == state = "open" ~> state = "half_open"
=============================================================================
