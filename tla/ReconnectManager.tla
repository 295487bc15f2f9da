-------------------------- MODULE ReconnectManager --------------------------
(***************************************************************************)
(* The state of one websocket stream as ReconnectManager keeps it and      *)
(* publishes it to the realtime store, driven by a stream loop: connect,   *)
(* pass messages on, ping when a heartbeat is due, give the connection up  *)
(* when it closed, failed a ping or went stale, wait, connect again.  The  *)
(* peer may close the connection, or die without closing it.               *)
(*                                                                         *)
(* Abstractions.  The loop itself is not part of the repository: it calls  *)
(* the methods in the order their arguments and results allow.  Exchange   *)
(* and stream names are fixed, error texts and LagSeconds are left out.    *)
(* Time 0 is the zero time.                                                *)
(***************************************************************************)
EXTENDS Integers, FiniteSets, FiniteSetsExt

CONSTANTS
    HeartbeatInterval, StaleAfter, BackoffMin, BackoffMax, StateTTL,
    LastTime, MaxLosses, MaxAttempt  \* bounds: time, store failures, attempts

ReconnectAssumption ==
    /\ {HeartbeatInterval, StaleAfter, BackoffMin, BackoffMax, StateTTL} \subseteq Nat \ {0}
    /\ LastTime \in Nat \ {0} /\ MaxLosses \in Nat /\ MaxAttempt \in Nat

VARIABLES
    time,
    peer,      \* "none", "alive", "dead" (silent) or "closed"
    diedAt,    \* history: when the peer last sent something, while dead
    loop,      \* "connecting", "open", "failed" (a ping failed) or "waiting"
    state,     \* the loop's StreamState
    wakeAt,    \* end of the wait
    stored,    \* the published StreamState, or Nothing
    expiresAt, \* when the store forgets it
    missed,    \* history: the last publication failed
    losses

streamVars == <<time, peer, diedAt, loop, state, wakeAt, stored, expiresAt, missed, losses>>

Nothing == [status |-> "none"]
Zero == [status |-> "", attempt |-> 0, connected |-> 0, message |-> 0,
         heartbeat |-> 0, updated |-> 0]

\* A product too large for a Duration is negative or saturated: the cap either way.
BackoffDelay(attempt) ==
    LET delay == BackoffMin * 2 ^ (Max({attempt, 1}) - 1)
    IN  IF delay > BackoffMax \/ delay < 0 THEN BackoffMax ELSE delay

ShouldHeartbeat == state.heartbeat = 0 \/ time >= state.heartbeat + HeartbeatInterval

\* Mutant: any update counts as a sign of life.
IsStaleSinceUpdate == time >= state.updated + StaleAfter

IsStale ==
    LET last == IF state.message = 0 THEN state.connected ELSE state.message
    IN  last = 0 \/ time >= last + StaleAfter

\* writeState: publishes s, or fails and leaves what was there.
writeState(s) ==
    \/ /\ stored' = s
       /\ expiresAt' = time + StateTTL
       /\ missed' = FALSE
       /\ UNCHANGED losses
    \/ /\ losses < MaxLosses
       /\ losses' = losses + 1
       /\ missed' = TRUE
       /\ UNCHANGED <<stored, expiresAt>>

Update(s) == state' = s /\ writeState(s)

StreamInit ==
    /\ time = 1
    /\ peer = "none" /\ diedAt = 0
    /\ loop = "connecting"
    /\ state = Zero
    /\ wakeAt = 0
    /\ stored = Nothing /\ expiresAt = 0
    /\ missed = FALSE
    /\ losses = 0

\* The store drops what has expired.
StreamTick ==
    /\ time < LastTime
    /\ time' = time + 1
    /\ IF stored # Nothing /\ time + 1 >= expiresAt
       THEN stored' = Nothing /\ expiresAt' = 0
       ELSE UNCHANGED <<stored, expiresAt>>
    /\ UNCHANGED <<peer, diedAt, loop, state, wakeAt, missed, losses>>

\* A successful dial; the state starts afresh, its attempts included.
Connected ==
    /\ loop = "connecting" \/ (loop = "waiting" /\ time >= wakeAt)
    /\ peer' = "alive" /\ diedAt' = 0
    /\ loop' = "open"
    /\ Update([Zero EXCEPT !.status = "connected", !.connected = time,
                           !.heartbeat = time, !.updated = time])
    /\ UNCHANGED <<time, wakeAt>>

\* A dial that fails: Disconnected with the state of the attempt before.
DialFails ==
    /\ loop = "connecting" \/ (loop = "waiting" /\ time >= wakeAt)
    /\ state.attempt < MaxAttempt
    /\ loop' = "waiting"
    /\ wakeAt' = time + BackoffDelay(state.attempt + 1)
    /\ Update([state EXCEPT !.status = "disconnected", !.attempt = @ + 1, !.updated = time])
    /\ UNCHANGED <<time, peer, diedAt>>

RecordMessage ==
    /\ loop = "open" /\ peer = "alive"
    /\ Update([state EXCEPT !.status = "connected", !.message = time, !.updated = time])
    /\ UNCHANGED <<time, peer, diedAt, loop, wakeAt>>

Heartbeat ==
    /\ loop = "open" /\ ShouldHeartbeat
    /\ \/ /\ peer \in {"alive", "dead"}   \* a dead peer may still ack a ping
          /\ Update([state EXCEPT !.status = "connected", !.heartbeat = time, !.updated = time])
          /\ UNCHANGED loop
       \/ /\ peer \in {"dead", "closed"}
          /\ Update([state EXCEPT !.status = "heartbeat_failed", !.updated = time])
          /\ loop' = "failed"
    /\ UNCHANGED <<time, peer, diedAt, wakeAt>>

Disconnected ==
    /\ \/ loop = "failed"
       \/ loop = "open" /\ (IsStale \/ peer = "closed")
    /\ peer' = "none" /\ diedAt' = 0
    /\ loop' = "waiting"
    /\ wakeAt' = time + BackoffDelay(state.attempt + 1)
    /\ Update([state EXCEPT !.status = "disconnected", !.attempt = @ + 1, !.updated = time])
    /\ UNCHANGED time

PeerGoes ==
    /\ peer = "alive" /\ loop = "open"
    /\ peer' \in {"dead", "closed"}
    /\ diedAt' = time
    /\ UNCHANGED <<time, loop, state, wakeAt, stored, expiresAt, missed, losses>>

LoopStep == Connected \/ DialFails \/ Heartbeat \/ Disconnected

StreamNext == StreamTick \/ LoopStep \/ RecordMessage \/ PeerGoes

StreamSpec == StreamInit /\ [][StreamNext]_streamVars

-----------------------------------------------------------------------------
States ==
    [status : {"", "connected", "heartbeat_failed", "disconnected"},
     attempt : 0..(MaxAttempt + 1), connected : 0..LastTime, message : 0..LastTime,
     heartbeat : 0..LastTime, updated : 0..LastTime]

\* Every variable has its type, and the attempts counted are the failed ones of
\* one outage (reconnect.go:47-104).
StreamTypeOK ==
    /\ time \in 1..LastTime /\ diedAt \in 0..time /\ wakeAt \in 0..(LastTime + BackoffMax)
    /\ peer \in {"none", "alive", "dead", "closed"}
    /\ loop \in {"connecting", "open", "failed", "waiting"}
    /\ state \in States /\ stored \in States \cup {Nothing}
    /\ missed \in BOOLEAN /\ losses \in 0..MaxLosses

\* A peer that fell silent is stale StaleAfter later, however many pings it
\* answered in between (reconnect.go:119-129).
SilentPeerIsStale ==
    peer = "dead" /\ loop = "open" /\ time >= diedAt + StaleAfter => IsStale

\* What the store tells the API about the stream is the loop's own state, unless
\* the last publication failed or nothing was published for a TTL
\* (reconnect.go:152-166).
PublishedIsCurrent ==
    stored # Nothing /\ ~missed => stored = state /\ time < state.updated + StateTTL

\* What is said of the stream is true, of its peer and to the API.
StreamStateIsTrue == SilentPeerIsStale /\ PublishedIsCurrent
=============================================================================
