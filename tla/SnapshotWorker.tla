--------------------------- MODULE SnapshotWorker ---------------------------
(***************************************************************************)
(* The realtime snapshot buffer: callbacks Observe events while a flusher  *)
(* takes the buffer under the lock, writes it to the sink without the lock *)
(* and, when the sink fails, puts what it took back.                       *)
(*                                                                         *)
(* Abstractions.  An event is its key and the number of its observation;   *)
(* the payload and the event time do not matter to the buffer, which       *)
(* compares neither.  The sink is an interface without an implementation   *)
(* here: a write of it is applied or not, and independently reports        *)
(* success only when it was applied.                                       *)
(*                                                                         *)
(* written, dropped and raced are histories: what the properties compare   *)
(* the buffer and the sink with.                                           *)
(***************************************************************************)
EXTENDS Naturals

CONSTANTS
    Keys,              \* keys LatestKey accepts
    Flushers,          \* concurrent calls of Flush
    BadKey,            \* an event LatestKey has no key for
    Bucket,            \* length of a bucket
    MaxEvents, MaxTime,  \* bounds of the model: observations, time,
    MaxFaults            \* and failed sink writes

ASSUME SnapshotAssumption ==
    /\ Bucket \in Nat \ {0} /\ BadKey \notin Keys
    /\ MaxEvents \in Nat /\ MaxTime \in Nat /\ MaxFaults \in Nat

VARIABLES
    latest,    \* w.latest: key -> number of the observation, 0 for no entry
    pc,        \* flusher -> "idle", "taken" (lock released), "stamped" or "failed"
    events,    \* flusher -> what it took, as latest
    stamp,     \* flusher -> the bucket it writes to
    sink,      \* [key, bucket] pairs written -> the last observation written there
    newest,    \* key -> the last observation of it
    written,   \* key -> the newest observation of it the sink ever took
    dropped,   \* key -> the newest observation of it an older one was put back over
    raced,     \* keys a Flush took while another Flush still held them
    observed,  \* number of observations
    now, faults

history == <<written, dropped, raced>>
bufferVars == <<latest, pc, events, stamp, sink, newest, history, observed, now, faults>>

Newer(a, b) == IF a > b THEN a ELSE b
None == [k \in Keys |-> 0]
Held(buffer) == {k \in Keys : buffer[k] # 0}

BufferInit ==
    /\ latest = None
    /\ pc = [f \in Flushers |-> "idle"]
    /\ events = [f \in Flushers |-> None]
    /\ sink = [x \in {} |-> 0]
    /\ stamp = [f \in Flushers |-> 0]
    /\ newest = None
    /\ written = None /\ dropped = None /\ raced = {}
    /\ observed = 0
    /\ now = 0
    /\ faults = 0

BufferTick ==
    /\ now < MaxTime
    /\ now' = now + 1
    /\ UNCHANGED <<latest, pc, events, stamp, sink, newest, history, observed, faults>>

\* Mutant: the first event of a bucket is kept.
ObserveFirst(k) ==
    /\ observed < MaxEvents
    /\ observed' = observed + 1
    /\ latest' = IF k # BadKey /\ latest[k] = 0 THEN [latest EXCEPT ![k] = observed + 1] ELSE latest
    /\ newest' = IF k = BadKey THEN newest ELSE [newest EXCEPT ![k] = observed + 1]
    /\ UNCHANGED <<pc, events, stamp, sink, history, now, faults>>

Observe(k) ==
    /\ observed < MaxEvents
    /\ observed' = observed + 1
    /\ IF k = BadKey
       THEN UNCHANGED <<latest, newest>>
       ELSE /\ latest' = [latest EXCEPT ![k] = observed + 1]
            /\ newest' = [newest EXCEPT ![k] = observed + 1]
    /\ UNCHANGED <<pc, events, stamp, sink, history, now, faults>>

\* The first critical section; an empty buffer makes Flush return.
Take(f) ==
    /\ pc[f] = "idle"
    /\ Held(latest) # {}
    /\ events' = [events EXCEPT ![f] = latest]
    /\ latest' = None
    /\ pc' = [pc EXCEPT ![f] = "taken"]
    /\ raced' = raced \cup {k \in Held(latest) : \E g \in Flushers : events[g][k] # 0}
    /\ UNCHANGED <<stamp, sink, newest, written, dropped, observed, now, faults>>

bucket(t) == t - (t % Bucket)

\* The bucket is that of the time after the lock is released.
Stamp(f) ==
    /\ pc[f] = "taken"
    /\ stamp' = [stamp EXCEPT ![f] = bucket(now)]
    /\ pc' = [pc EXCEPT ![f] = "stamped"]
    /\ UNCHANGED <<latest, events, sink, newest, history, observed, now, faults>>

\* The sink takes what f holds.
Apply(f) ==
    LET rows == [key : Held(events[f]), bucket : {stamp[f]}]
    IN  /\ sink' = [x \in DOMAIN sink \cup rows |-> IF x \in rows THEN events[f][x.key] ELSE sink[x]]
        /\ written' = [k \in Keys |-> Newer(written[k], events[f][k])]

WriteRealtimeSnapshots(f) ==
    /\ pc[f] = "stamped"
    /\ Apply(f)
    /\ pc' = [pc EXCEPT ![f] = "idle"]
    /\ events' = [events EXCEPT ![f] = None]
    /\ UNCHANGED <<latest, stamp, newest, dropped, raced, observed, now, faults>>

\* Mutant: a failed write is not put back.
SinkFailsDropped(f) ==
    /\ pc[f] = "stamped"
    /\ faults < MaxFaults
    /\ faults' = faults + 1
    /\ Apply(f) \/ UNCHANGED <<sink, written>>
    /\ pc' = [pc EXCEPT ![f] = "idle"]
    /\ events' = [events EXCEPT ![f] = None]
    /\ UNCHANGED <<latest, stamp, newest, dropped, raced, observed, now>>

SinkFails(f) ==
    /\ pc[f] = "stamped"
    /\ faults < MaxFaults
    /\ faults' = faults + 1
    /\ Apply(f) \/ UNCHANGED <<sink, written>>
    /\ pc' = [pc EXCEPT ![f] = "failed"]
    /\ UNCHANGED <<latest, events, stamp, newest, dropped, raced, observed, now>>

\* The second critical section: what was taken replaces what came meanwhile.
PutBack(f) ==
    /\ pc[f] = "failed"
    /\ latest' = [k \in Keys |-> IF events[f][k] # 0 THEN events[f][k] ELSE latest[k]]
    /\ dropped' = [k \in Keys |-> IF events[f][k] # 0 /\ events[f][k] < latest[k]
                                   THEN Newer(dropped[k], latest[k]) ELSE dropped[k]]
    /\ pc' = [pc EXCEPT ![f] = "idle"]
    /\ events' = [events EXCEPT ![f] = None]
    /\ UNCHANGED <<stamp, sink, newest, written, raced, observed, now, faults>>

\* Mutant: a flusher whose write failed never returns.
FlushStepStuck(f) == Take(f) \/ Stamp(f) \/ WriteRealtimeSnapshots(f) \/ SinkFails(f)

FlushStep(f) == Take(f) \/ Stamp(f) \/ WriteRealtimeSnapshots(f) \/ SinkFails(f) \/ PutBack(f)

BufferNext ==
    \/ BufferTick
    \/ \E k \in Keys \cup {BadKey} : Observe(k)
    \/ \E f \in Flushers : FlushStep(f)

BufferSpec == BufferInit /\ [][BufferNext]_bufferVars

\* The ticker that calls Flush keeps running and every call of the sink returns.
FairBuffer == BufferSpec /\ \A f \in Flushers : WF_bufferVars(FlushStep(f))

-----------------------------------------------------------------------------
\* Every variable has its type, and no row is written for a bucket that has not
\* begun (snapshot.go:68).
BufferTypeOK ==
    /\ latest \in [Keys -> 0..MaxEvents] /\ newest \in [Keys -> 0..MaxEvents]
    /\ written \in [Keys -> 0..MaxEvents] /\ dropped \in [Keys -> 0..MaxEvents]
    /\ pc \in [Flushers -> {"idle", "taken", "stamped", "failed"}]
    /\ events \in [Flushers -> [Keys -> 0..MaxEvents]]
    /\ stamp \in [Flushers -> 0..now]
    /\ DOMAIN sink \subseteq [key : Keys, bucket : 0..now]
    /\ raced \subseteq Keys
    /\ observed \in 0..MaxEvents /\ now \in 0..MaxTime /\ faults \in 0..MaxFaults

Written(k) == \E x \in DOMAIN sink : x.key = k

\* A key that was observed is never forgotten: until the sink has a row of it
\* the buffer or a running Flush holds an event of it, through every failed
\* write (snapshot.go:56-78).
NeverForgotten ==
    \A k \in Keys :
       newest[k] # 0 => \/ Written(k) \/ latest[k] # 0
                        \/ \E f \in Flushers : events[f][k] # 0

\* An event is handed to the sink by one Flush only: no two flushers, and no
\* flusher and the buffer, hold the same observation (snapshot.go:56-62).
HeldOnce ==
    \A k \in Keys : \A f \in Flushers :
       events[f][k] # 0 =>
          /\ latest[k] # events[f][k]
          /\ \A g \in Flushers \ {f} : events[g][k] # events[f][k]

\* The last event of a key is in the buffer, with a running Flush or with the sink,
\* or a failed Flush has put an older one back over it (snapshot.go:48, 69-76).
LastEventKept ==
    \A k \in Keys :
       newest[k] # 0 => \/ newest[k] \in {latest[k], written[k], dropped[k]}
                        \/ \E f \in Flushers : events[f][k] = newest[k]

\* The rows of a key get newer from bucket to bucket and the newest event the sink
\* took is in one of them, unless two Flushes held the key at once.
RowsInOrder ==
    \A k \in Keys \ raced :
       LET rows == {x \in DOMAIN sink : x.key = k}
       IN  /\ \A x, y \in rows : x.bucket < y.bucket => sink[x] <= sink[y]
           /\ written[k] # 0 => \E x \in rows : sink[x] = written[k]

\* "FlushesBucketedLatestOnly", through overlapping Flushes and failed writes: the
\* last event of a key is lost in one way only, by a failed Flush that puts an
\* older one back over it, and the sink's rows of a key go back to an older event
\* in one way only, when a Flush took the key while another still held it
\* (snapshot.go:48-81).
LatestReachesSink == LastEventKept /\ RowsInOrder

\* An event in the buffer reaches the sink, or a newer event of its key does,
\* provided that the sink does not fail for ever and that no failed Flush puts an
\* older event back over it or over that newer one (snapshot.go:51-81).
EventuallyWritten ==
    \A k \in Keys : \A n \in 1..MaxEvents :
       latest[k] = n ~> (written[k] >= n \/ dropped[k] >= n)
=============================================================================
