--------------------------- MODULE Pacing_proofs ---------------------------
(***************************************************************************)
(* Proofs about how the service paces itself towards an exchange and its   *)
(* database: RateLimiter, for any callers, weights and budgets;            *)
(* ReconnectManager, for any intervals, delays and TTL; and                *)
(* SnapshotWorker, for any keys, any number of concurrent flushers, any    *)
(* bucket and any number of observations and failed writes.  What          *)
(* truncated delays of the limiter break is excluded where a theorem needs *)
(* it, by naming the budgets that are free of them.                        *)
(***************************************************************************)
EXTENDS RateLimiter, ReconnectManager, SnapshotWorker, TLAPS

-----------------------------------------------------------------------------
(* The buffer of snapshots. *)

\* Only a Flush that is under way holds events, and nothing is newer than the
\* last observation of its key.
Bounded ==
    /\ \A f \in Flushers : pc[f] = "idle" => events[f] = None
    /\ \A k \in Keys : /\ newest[k] <= observed /\ latest[k] <= newest[k]
                       /\ written[k] <= newest[k] /\ dropped[k] <= newest[k]
    /\ \A f \in Flushers, k \in Keys : events[f][k] <= newest[k]

BufferInv == BufferTypeOK /\ Bounded /\ HeldOnce /\ NeverForgotten /\ LastEventKept

\* A bucket starts at or before the time it contains.
LEMMA BucketStart == ASSUME NEW t \in Nat PROVE bucket(t) \in 0..t
<1>1. t % Bucket \in 0..(Bucket - 1)
  BY SnapshotAssumption, SMT
<1>2. t % Bucket <= t
  <2>1. t = (Bucket * (t \div Bucket)) + (t % Bucket)
    BY SnapshotAssumption, SMT
  <2>2. t \div Bucket \in Nat
    BY SnapshotAssumption, SMT
  <2>3. Bucket * (t \div Bucket) \in Nat
    BY <2>2, SnapshotAssumption, SMT
  <2> QED BY <1>1, <2>1, <2>3, SnapshotAssumption, SMT
<1> QED BY <1>1, <1>2, SnapshotAssumption DEF bucket

\* What f writes: one row for each key it holds, in its bucket.
Rows(f) == [key : Held(events[f]), bucket : {stamp[f]}]

\* What the sink holds after a write.
LEMMA Applies ==
    ASSUME BufferTypeOK, NEW f \in Flushers, Apply(f)
    PROVE  /\ DOMAIN sink' = DOMAIN sink \cup Rows(f)
           /\ Rows(f) \subseteq [key : Keys, bucket : 0..now]
           /\ \A x \in Rows(f) : sink'[x] = events[f][x.key] /\ x.bucket = stamp[f] /\ events[f][x.key] # 0
           /\ \A x \in DOMAIN sink \ Rows(f) : sink'[x] = sink[x]
           /\ \A k \in Held(events[f]) : [key |-> k, bucket |-> stamp[f]] \in Rows(f)
           /\ \A k \in Keys : written'[k] = Newer(written[k], events[f][k])
           /\ written' \in [Keys -> 0..MaxEvents]
<1>1. sink' = [x \in DOMAIN sink \cup Rows(f) |-> IF x \in Rows(f) THEN events[f][x.key] ELSE sink[x]]
  BY Zenon DEF Apply, Rows
<1>2. written' = [k \in Keys |-> Newer(written[k], events[f][k])]
  BY Zenon DEF Apply
<1>3. \A k \in Keys : written[k] \in 0..MaxEvents /\ events[f][k] \in 0..MaxEvents
  BY Zenon DEF BufferTypeOK
<1>4. written' \in [Keys -> 0..MaxEvents]
  BY <1>2, <1>3, Zenon DEF Newer
<1>5. stamp[f] \in 0..now
  BY Zenon DEF BufferTypeOK
<1>6. Rows(f) \subseteq [key : Keys, bucket : 0..now]
  BY <1>5, Zenon DEF Rows, Held
<1>7. \A x \in Rows(f) : x.bucket = stamp[f] /\ events[f][x.key] # 0
  BY Zenon DEF Rows, Held
<1>8. \A k \in Held(events[f]) : [key |-> k, bucket |-> stamp[f]] \in Rows(f)
  BY Zenon DEF Rows
<1> QED BY <1>1, <1>2, <1>4, <1>6, <1>7, <1>8, Zenon

\* A new worker has an empty buffer.
LEMMA BufferInvInit == BufferInit => BufferInv
  BY SnapshotAssumption
     DEF BufferInit, BufferInv, BufferTypeOK, Bounded, HeldOnce, NeverForgotten, LastEventKept,
         None, Written

\* An observation is newer than everything there is.
LEMMA ObserveKeeps ==
    ASSUME BufferInv, NEW k \in Keys \cup {BadKey}, Observe(k)
    PROVE  BufferInv'
<1>1. CASE k = BadKey
  <2>1. /\ latest' = latest /\ newest' = newest /\ pc' = pc /\ events' = events /\ stamp' = stamp
        /\ sink' = sink /\ written' = written /\ dropped' = dropped /\ raced' = raced /\ now' = now
        /\ faults' = faults /\ observed' = observed + 1 /\ observed < MaxEvents
    BY <1>1, Zenon DEF Observe, history
  <2>2. BufferTypeOK'
    BY <2>1, SnapshotAssumption DEF BufferInv, BufferTypeOK
  <2>3. Bounded'
    BY <2>1 DEF BufferInv, BufferTypeOK, Bounded
  <2>4. HeldOnce' /\ NeverForgotten' /\ LastEventKept'
    BY <2>1, Zenon DEF BufferInv, HeldOnce, NeverForgotten, LastEventKept, Written
  <2> QED BY <2>2, <2>3, <2>4, Zenon DEF BufferInv
<1>2. CASE k # BadKey
  <2>1. /\ latest' = [latest EXCEPT ![k] = observed + 1] /\ newest' = [newest EXCEPT ![k] = observed + 1]
        /\ pc' = pc /\ events' = events /\ stamp' = stamp
        /\ sink' = sink /\ written' = written /\ dropped' = dropped /\ raced' = raced /\ now' = now
        /\ faults' = faults /\ observed' = observed + 1 /\ observed < MaxEvents /\ k \in Keys
    BY <1>2, Zenon DEF Observe, history
  <2>2. BufferTypeOK'
    <3>1. observed + 1 \in 0..MaxEvents
      BY <2>1, SnapshotAssumption DEF BufferInv, BufferTypeOK
    <3> QED BY <2>1, <3>1, Zenon DEF BufferInv, BufferTypeOK
  <2>3. Bounded'
    BY <2>1 DEF BufferInv, BufferTypeOK, Bounded
  <2>4. HeldOnce'
    BY <2>1 DEF BufferInv, BufferTypeOK, Bounded, HeldOnce
  <2>5. NeverForgotten' /\ LastEventKept'
    BY <2>1 DEF BufferInv, BufferTypeOK, NeverForgotten, LastEventKept, Written
  <2> QED BY <2>2, <2>3, <2>4, <2>5, Zenon DEF BufferInv
<1> QED BY <1>1, <1>2, Zenon

\* The first critical section moves the buffer to the flusher.
LEMMA TakeKeeps ==
    ASSUME BufferInv, NEW f \in Flushers, Take(f)
    PROVE  BufferInv'
<1>1. /\ pc[f] = "idle" /\ events' = [events EXCEPT ![f] = latest] /\ latest' = None
      /\ pc' = [pc EXCEPT ![f] = "taken"] /\ raced' \subseteq raced \cup Keys
      /\ stamp' = stamp /\ sink' = sink /\ newest' = newest /\ written' = written /\ dropped' = dropped
      /\ observed' = observed /\ now' = now /\ faults' = faults
  BY Zenon DEF Take, Held
<1>2. BufferTypeOK'
  BY <1>1, SnapshotAssumption DEF BufferInv, BufferTypeOK, None
<1>3. Bounded'
  BY <1>1 DEF BufferInv, BufferTypeOK, Bounded, None
<1>4. HeldOnce'
  BY <1>1, Zenon DEF BufferInv, BufferTypeOK, Bounded, HeldOnce, None
<1>5. NeverForgotten'
  BY <1>1, Zenon DEF BufferInv, BufferTypeOK, Bounded, NeverForgotten, None, Written
<1>6. LastEventKept'
  <2> SUFFICES ASSUME NEW k \in Keys, newest[k] # 0
               PROVE  \/ newest[k] \in {latest'[k], written[k], dropped[k]}
                      \/ \E g \in Flushers : events'[g][k] = newest[k]
    BY <1>1, Zenon DEF LastEventKept
  <2>1. events'[f] = latest /\ \A g \in Flushers \ {f} : events'[g] = events[g]
    BY <1>1, Zenon DEF BufferInv, BufferTypeOK
  <2>2. events[f][k] = 0
    BY <1>1, Zenon DEF BufferInv, Bounded, None
  <2>3. \/ newest[k] \in {latest[k], written[k], dropped[k]}
        \/ \E g \in Flushers : events[g][k] = newest[k]
    BY Zenon DEF BufferInv, LastEventKept
  <2> QED BY <2>1, <2>2, <2>3, Zenon
<1> QED BY <1>2, <1>3, <1>4, <1>5, <1>6, Zenon DEF BufferInv

\* The sink takes what the flusher holds, whatever it reports.
LEMMA ApplyKeeps ==
    ASSUME BufferInv, NEW f \in Flushers, Apply(f), newest' = newest, latest' = latest, dropped' = dropped,
           \A g \in Flushers \ {f} : events'[g] = events[g]
    PROVE  /\ DOMAIN sink' \subseteq [key : Keys, bucket : 0..now] /\ written' \in [Keys -> 0..MaxEvents]
           /\ \A k \in Keys : written'[k] <= newest[k]
           /\ NeverForgotten' /\ LastEventKept'
<1>1. BufferTypeOK /\ Bounded /\ NeverForgotten /\ LastEventKept
  BY Zenon DEF BufferInv
<1>2. \A k \in Keys : events[f][k] # 0 => Written(k)'
  <2> SUFFICES ASSUME NEW k \in Keys, events[f][k] # 0 PROVE Written(k)'
    BY Zenon
  <2>1. [key |-> k, bucket |-> stamp[f]] \in DOMAIN sink'
    BY <1>1, Applies, Zenon DEF Held
  <2> QED BY <2>1, Zenon DEF Written
<1>3. \A k \in Keys : Written(k) => Written(k)'
  BY <1>1, Applies, Zenon DEF Written
<1>4. \A k \in Keys : events[f][k] = newest[k] => written'[k] = newest[k]
  <2> SUFFICES ASSUME NEW k \in Keys, events[f][k] = newest[k] PROVE written'[k] = newest[k]
    BY Zenon
  <2>1. written'[k] = Newer(written[k], events[f][k]) /\ written[k] <= newest[k]
    BY <1>1, Applies, Zenon DEF Bounded
  <2>2. written[k] \in Nat /\ newest[k] \in Nat
    BY <1>1, SnapshotAssumption DEF BufferTypeOK
  <2> QED BY <2>1, <2>2 DEF Newer
<1>5. \A k \in Keys : written[k] = newest[k] => written'[k] = newest[k]
  <2> SUFFICES ASSUME NEW k \in Keys, written[k] = newest[k] PROVE written'[k] = newest[k]
    BY Zenon
  <2>1. written'[k] = Newer(written[k], events[f][k]) /\ events[f][k] <= newest[k]
    BY <1>1, Applies, Zenon DEF Bounded
  <2>2. events[f][k] \in Nat /\ newest[k] \in Nat
    BY <1>1, SnapshotAssumption DEF BufferTypeOK
  <2> QED BY <2>1, <2>2 DEF Newer
<1>6. \A k \in Keys : written'[k] <= newest[k]
  <2> SUFFICES ASSUME NEW k \in Keys PROVE written'[k] <= newest[k]
    BY Zenon
  <2>1. written'[k] = Newer(written[k], events[f][k])
        /\ events[f][k] <= newest[k] /\ written[k] <= newest[k]
    BY <1>1, Applies, Zenon DEF Bounded
  <2>2. Newer(written[k], events[f][k]) \in {written[k], events[f][k]}
    BY Zenon DEF Newer
  <2> QED BY <2>1, <2>2, Zenon
<1>7. NeverForgotten'
  BY <1>1, <1>2, <1>3, Zenon DEF NeverForgotten
<1>8. LastEventKept'
  BY <1>1, <1>4, <1>5, Zenon DEF LastEventKept
<1>9. DOMAIN sink' \subseteq [key : Keys, bucket : 0..now] /\ written' \in [Keys -> 0..MaxEvents]
  BY <1>1, Applies, Zenon DEF BufferTypeOK
<1> QED BY <1>6, <1>7, <1>8, <1>9, Zenon

\* A call of the sink that succeeds, or fails, applied or not.
LEMMA SinkKeeps ==
    ASSUME BufferInv, NEW f \in Flushers, WriteRealtimeSnapshots(f) \/ SinkFails(f)
    PROVE  BufferInv'
<1>1. /\ latest' = latest /\ stamp' = stamp /\ newest' = newest /\ dropped' = dropped /\ raced' = raced
      /\ observed' = observed /\ now' = now
      /\ Apply(f) \/ (sink' = sink /\ written' = written /\ events' = events)
      /\ \/ pc' = [pc EXCEPT ![f] = "idle"] /\ events' = [events EXCEPT ![f] = None] /\ faults' = faults
         \/ pc' = [pc EXCEPT ![f] = "failed"] /\ events' = events /\ faults' = faults + 1 /\ faults < MaxFaults
  BY Zenon DEF WriteRealtimeSnapshots, SinkFails
<1>2. BufferTypeOK /\ Bounded /\ HeldOnce /\ NeverForgotten /\ LastEventKept
  BY Zenon DEF BufferInv
<1>3. /\ events' \in [Flushers -> [Keys -> 0..MaxEvents]]
      /\ \A g \in Flushers : events'[g] = events[g] \/ (g = f /\ events'[g] = None)
      /\ \A g \in Flushers : pc'[g] = "idle" => events'[g] = None
  <2>1. None \in [Keys -> 0..MaxEvents]
    BY SnapshotAssumption DEF None
  <2>2. CASE events' = events /\ pc' = [pc EXCEPT ![f] = "failed"]
    BY <1>2, <2>2 DEF BufferTypeOK, Bounded
  <2>3. CASE events' = [events EXCEPT ![f] = None] /\ pc' = [pc EXCEPT ![f] = "idle"]
    BY <1>2, <2>1, <2>3, Zenon DEF BufferTypeOK, Bounded
  <2> QED BY <1>1, <2>2, <2>3, Zenon
<1>a. \A g \in Flushers, k \in Keys : events'[g][k] = events[g][k] \/ events'[g][k] = 0
  BY <1>3, Zenon DEF None
<1>4. HeldOnce'
  <2> SUFFICES ASSUME NEW k \in Keys, NEW g \in Flushers, events'[g][k] # 0
               PROVE  /\ latest[k] # events'[g][k]
                      /\ \A h \in Flushers \ {g} : events'[h][k] # events'[g][k]
    BY <1>1, Zenon DEF HeldOnce
  <2>1. events'[g][k] = events[g][k]
    BY <1>a, Zenon
  <2>2. /\ latest[k] # events[g][k]
        /\ \A h \in Flushers \ {g} : events[h][k] # events[g][k]
    BY <1>2, <2>1, Zenon DEF HeldOnce
  <2> QED BY <1>a, <2>1, <2>2, Zenon
<1>5. /\ DOMAIN sink' \subseteq [key : Keys, bucket : 0..now] /\ written' \in [Keys -> 0..MaxEvents]
      /\ \A k \in Keys : written'[k] <= newest[k]
      /\ NeverForgotten' /\ LastEventKept'
  <2>1. CASE Apply(f)
    BY <1>1, <1>3, <2>1, ApplyKeeps, Zenon
  <2>2. CASE ~Apply(f)
    <3>1. sink' = sink /\ written' = written /\ events' = events
      BY <1>1, <2>2, Zenon
    <3>2. NeverForgotten' /\ LastEventKept'
      BY <1>1, <1>2, <3>1, Zenon DEF NeverForgotten, LastEventKept, Written
    <3> QED BY <1>2, <3>1, <3>2, Zenon DEF BufferTypeOK, Bounded
  <2> QED BY <2>1, <2>2, Zenon
<1>6. pc' \in [Flushers -> {"idle", "taken", "stamped", "failed"}] /\ faults' \in 0..MaxFaults
  BY <1>1, <1>2, SnapshotAssumption DEF BufferTypeOK
<1>7. BufferTypeOK'
  BY <1>1, <1>2, <1>3, <1>5, <1>6, Zenon DEF BufferTypeOK
<1>8. Bounded'
  <2>1. \A g \in Flushers, k \in Keys : events'[g][k] <= newest'[k]
    <3> SUFFICES ASSUME NEW g \in Flushers, NEW k \in Keys PROVE events'[g][k] <= newest[k]
      BY <1>1, Zenon
    <3>1. events[g][k] <= newest[k] /\ newest[k] \in Nat
      BY <1>2, SnapshotAssumption DEF BufferTypeOK, Bounded
    <3> QED BY <1>a, <3>1
  <2> QED BY <1>1, <1>2, <1>3, <1>5, <2>1, Zenon DEF Bounded
<1> QED BY <1>4, <1>5, <1>7, <1>8, Zenon DEF BufferInv

\* The second critical section.
LEMMA PutBackKeeps ==
    ASSUME BufferInv, NEW f \in Flushers, PutBack(f)
    PROVE  BufferInv'
<1>1. /\ latest' = [k \in Keys |-> IF events[f][k] # 0 THEN events[f][k] ELSE latest[k]]
      /\ dropped' = [k \in Keys |-> IF events[f][k] # 0 /\ events[f][k] < latest[k]
                                     THEN Newer(dropped[k], latest[k]) ELSE dropped[k]]
      /\ pc' = [pc EXCEPT ![f] = "idle"] /\ events' = [events EXCEPT ![f] = None]
      /\ stamp' = stamp /\ sink' = sink /\ newest' = newest /\ written' = written /\ raced' = raced
      /\ observed' = observed /\ now' = now /\ faults' = faults
  BY Zenon DEF PutBack
<1>2. BufferTypeOK /\ Bounded /\ HeldOnce /\ NeverForgotten /\ LastEventKept
  BY Zenon DEF BufferInv
<1>3. \A k \in Keys : /\ latest[k] \in Nat /\ newest[k] \in Nat /\ dropped[k] \in Nat
                      /\ events[f][k] \in Nat /\ MaxEvents \in Nat
  BY <1>2, SnapshotAssumption DEF BufferTypeOK
<1>4. ASSUME NEW k \in Keys
      PROVE  /\ dropped'[k] \in {dropped[k], latest[k]} /\ dropped'[k] >= dropped[k]
             /\ (events[f][k] # 0 /\ events[f][k] < latest[k]) => dropped'[k] >= latest[k]
  BY <1>1, <1>3 DEF Newer
<1>5. BufferTypeOK'
  <2>1. latest' \in [Keys -> 0..MaxEvents] /\ events' \in [Flushers -> [Keys -> 0..MaxEvents]]
    BY <1>1, <1>2, SnapshotAssumption DEF BufferTypeOK, None
  <2>2. dropped' \in [Keys -> 0..MaxEvents]
    BY <1>1, <1>2, Zenon DEF BufferTypeOK, Newer
  <2>3. pc' \in [Flushers -> {"idle", "taken", "stamped", "failed"}]
    BY <1>1, <1>2 DEF BufferTypeOK
  <2> QED BY <1>1, <1>2, <2>1, <2>2, <2>3, Zenon DEF BufferTypeOK
<1>6. Bounded'
  <2>1. \A k \in Keys : latest'[k] <= newest[k] /\ dropped'[k] <= newest[k]
    BY <1>1, <1>2, <1>4, Zenon DEF Bounded
  <2>2. \A g \in Flushers, k \in Keys : events'[g][k] <= newest[k]
    BY <1>1, <1>2, <1>3 DEF BufferTypeOK, Bounded, None
  <2>3. \A g \in Flushers : pc'[g] = "idle" => events'[g] = None
    BY <1>1, <1>2, Zenon DEF BufferTypeOK, Bounded
  <2> QED BY <1>1, <1>2, <2>1, <2>2, <2>3, Zenon DEF Bounded
<1>7. HeldOnce'
  BY <1>1, <1>2, Zenon DEF BufferTypeOK, HeldOnce, None
<1>8. NeverForgotten'
  BY <1>1, <1>2, Zenon DEF BufferTypeOK, NeverForgotten, None, Written
<1>9. LastEventKept'
  <2> SUFFICES ASSUME NEW k \in Keys, newest[k] # 0
               PROVE  \/ newest[k] \in {latest'[k], written'[k], dropped'[k]}
                      \/ \E g \in Flushers : events'[g][k] = newest[k]
    BY <1>1, Zenon DEF LastEventKept
  <2>1. latest[k] <= newest[k] /\ dropped[k] <= newest[k] /\ events[f][k] <= newest[k]
    BY <1>2, Zenon DEF Bounded
  <2>2. CASE newest[k] = latest[k]
    <3>1. CASE events[f][k] = 0
      BY <1>1, <2>2, <3>1, Zenon
    <3>2. CASE events[f][k] # 0 /\ events[f][k] < latest[k]
      BY <1>3, <1>4, <2>1, <2>2, <3>2
    <3>3. CASE events[f][k] # 0 /\ ~(events[f][k] < latest[k])
      BY <1>1, <1>3, <2>1, <2>2, <3>3
    <3> QED BY <3>1, <3>2, <3>3, Zenon
  <2>3. CASE newest[k] = written[k]
    BY <1>1, <2>3, Zenon
  <2>4. CASE newest[k] = dropped[k]
    BY <1>3, <1>4, <2>1, <2>4
  <2>5. ASSUME NEW g \in Flushers, events[g][k] = newest[k]
        PROVE  \/ newest[k] \in {latest'[k], written'[k], dropped'[k]}
               \/ \E h \in Flushers : events'[h][k] = newest[k]
    <3>1. CASE g = f
      BY <1>1, <2>5, <3>1, Zenon
    <3>2. CASE g # f
      BY <1>1, <1>2, <2>5, <3>2, Zenon DEF BufferTypeOK
    <3> QED BY <3>1, <3>2, Zenon
  <2> QED BY <1>2, <2>2, <2>3, <2>4, <2>5, Zenon DEF LastEventKept
<1> QED BY <1>5, <1>6, <1>7, <1>8, <1>9, Zenon DEF BufferInv

\* Every observation, critical section and sink call keeps the invariant.
LEMMA BufferInvStep == BufferInv /\ [BufferNext]_bufferVars => BufferInv'
<1> SUFFICES ASSUME BufferInv, [BufferNext]_bufferVars PROVE BufferInv'
  BY Zenon
<1>1. CASE BufferTick
  <2>1. /\ latest' = latest /\ newest' = newest /\ pc' = pc /\ events' = events /\ stamp' = stamp
        /\ sink' = sink /\ written' = written /\ dropped' = dropped /\ raced' = raced
        /\ faults' = faults /\ observed' = observed /\ now < MaxTime /\ now' = now + 1
    BY <1>1, Zenon DEF BufferTick, history
  <2>2. BufferTypeOK'
    <3>1. now' \in 0..MaxTime /\ 0..now \subseteq 0..now'
      BY <2>1, SnapshotAssumption DEF BufferInv, BufferTypeOK
    <3>2. stamp' \in [Flushers -> 0..now'] /\ DOMAIN sink' \subseteq [key : Keys, bucket : 0..now']
      BY <2>1, <3>1, Zenon DEF BufferInv, BufferTypeOK
    <3> QED BY <2>1, <3>1, <3>2, Zenon DEF BufferInv, BufferTypeOK
  <2> QED BY <2>1, <2>2, Zenon
          DEF BufferInv, Bounded, HeldOnce, NeverForgotten, LastEventKept, Written
<1>2. ASSUME NEW f \in Flushers, Stamp(f) PROVE BufferInv'
  <2>1. /\ latest' = latest /\ newest' = newest /\ events' = events
        /\ pc[f] = "taken" /\ pc' = [pc EXCEPT ![f] = "stamped"] /\ stamp' = [stamp EXCEPT ![f] = bucket(now)]
        /\ sink' = sink /\ written' = written /\ dropped' = dropped /\ raced' = raced
        /\ faults' = faults /\ observed' = observed /\ now' = now
    BY <1>2, Zenon DEF Stamp, history
  <2>2. bucket(now) \in 0..now
    <3>1. now \in Nat
      BY SnapshotAssumption DEF BufferInv, BufferTypeOK
    <3> QED BY <3>1, BucketStart, Zenon
  <2>3. stamp' \in [Flushers -> 0..now] /\ pc' \in [Flushers -> {"idle", "taken", "stamped", "failed"}]
    BY <2>1, <2>2, Zenon DEF BufferInv, BufferTypeOK
  <2>4. BufferTypeOK'
    BY <2>1, <2>3, Zenon DEF BufferInv, BufferTypeOK
  <2>5. \A g \in Flushers : pc'[g] = "idle" => pc[g] = "idle"
    BY <2>1 DEF BufferInv, BufferTypeOK
  <2> QED BY <2>1, <2>4, <2>5, Zenon
          DEF BufferInv, Bounded, HeldOnce, NeverForgotten, LastEventKept, Written
<1>3. CASE UNCHANGED bufferVars
  <2>1. /\ latest' = latest /\ newest' = newest /\ pc' = pc /\ events' = events /\ stamp' = stamp
        /\ sink' = sink /\ written' = written /\ dropped' = dropped /\ raced' = raced
        /\ faults' = faults /\ observed' = observed /\ now' = now
    BY <1>3, Zenon DEF bufferVars, history
  <2> QED BY <2>1, Zenon
          DEF BufferInv, BufferTypeOK, Bounded, HeldOnce, NeverForgotten, LastEventKept, Written
<1> QED BY <1>1, <1>2, <1>3, ObserveKeeps, TakeKeeps, SinkKeeps, PutBackKeeps, Zenon
        DEF BufferNext, FlushStep

\* BufferTypeOK is an invariant of the worker.
THEOREM WorkerTypeCorrect == BufferSpec => []BufferTypeOK
<1>1. BufferInv => BufferTypeOK
  BY Zenon DEF BufferInv
<1> QED BY <1>1, BufferInvInit, BufferInvStep, PTL DEF BufferSpec

\* However many flushers run and however often the sink fails, an observed key
\* stays in the buffer or with a flusher until a row of it is written.
THEOREM WorkerNeverForgets == BufferSpec => []NeverForgotten
<1>1. BufferInv => NeverForgotten
  BY Zenon DEF BufferInv
<1> QED BY <1>1, BufferInvInit, BufferInvStep, PTL DEF BufferSpec

\* No observation is held twice, so no two calls of Flush write the same one.
THEOREM WorkerHoldsOnce == BufferSpec => []HeldOnce
<1>1. BufferInv => HeldOnce
  BY Zenon DEF BufferInv
<1> QED BY <1>1, BufferInvInit, BufferInvStep, PTL DEF BufferSpec

-----------------------------------------------------------------------------
(* The order of the sink's rows. *)

RowsOf(k) == {x \in DOMAIN sink : x.key = k}

\* A key that no two Flushes held at once: what is on its way to the sink is no
\* older than what is there, and will be written to no earlier bucket.
KeyInOrder(k) ==
    /\ \A f, g \in Flushers : events[f][k] # 0 /\ events[g][k] # 0 => f = g
    /\ \A f \in Flushers : events[f][k] # 0 =>
          /\ written[k] <= events[f][k]
          /\ latest[k] # 0 => events[f][k] <= latest[k]
          /\ pc[f] \in {"stamped", "failed"} => \A x \in RowsOf(k) : x.bucket <= stamp[f]
    /\ latest[k] # 0 => written[k] <= latest[k]
    /\ \A x \in RowsOf(k) : sink[x] <= written[k]
    /\ \A x, y \in RowsOf(k) : x.bucket < y.bucket => sink[x] <= sink[y]
    /\ written[k] # 0 => \E x \in RowsOf(k) : sink[x] = written[k]

OrderInv ==
    /\ \A x \in DOMAIN sink : sink[x] \in 0..MaxEvents /\ x.bucket <= bucket(now)
    /\ \A k \in Keys \ raced : KeyInOrder(k)

\* Time does not go back to an earlier bucket.
LEMMA BucketGrows == ASSUME NEW t \in Nat PROVE bucket(t) <= bucket(t + 1) /\ bucket(t) \in Nat
<1> DEFINE q == t \div Bucket
           p == (t + 1) \div Bucket
<1>1. Bucket \in Nat \ {0}
  BY SnapshotAssumption
<1>2. q \in Int /\ t = (Bucket * q) + (t % Bucket) /\ t % Bucket \in 0..(Bucket - 1)
  BY <1>1, SMT
<1>3. p \in Int /\ t + 1 = (Bucket * p) + ((t + 1) % Bucket) /\ (t + 1) % Bucket \in 0..(Bucket - 1)
  BY <1>1, SMT
<1> HIDE DEF q, p
<1>4. Bucket * q \in Int /\ Bucket * p \in Int
  BY <1>1, <1>2, <1>3, SMT
<1>5. bucket(t) = Bucket * q /\ bucket(t + 1) = Bucket * p
  BY <1>1, <1>2, <1>3, <1>4, SMT DEF bucket
<1>6. q <= p
  <2> SUFFICES ASSUME p + 1 <= q PROVE FALSE
    BY <1>2, <1>3, SMT
  <2>1. Bucket * (p + 1) <= Bucket * q
    BY <1>1, <1>2, <1>3, SMT
  <2>2. Bucket * (p + 1) = Bucket * p + Bucket
    BY <1>1, <1>3, SMT
  <2> QED BY <1>1, <1>2, <1>3, <1>4, <2>1, <2>2, SMT
<1>7. Bucket * q <= Bucket * p
  BY <1>1, <1>2, <1>3, <1>6, SMT
<1>8. bucket(t) \in Nat
  BY BucketStart, SMT
<1> QED BY <1>5, <1>7, <1>8, Zenon

\* Nothing is written at the beginning.
LEMMA OrderInit == BufferInit => OrderInv
  BY SnapshotAssumption DEF BufferInit, OrderInv, KeyInOrder, RowsOf, None

\* The numbers of a key.
LEMMA KeyNumbers ==
    ASSUME BufferInv, NEW k \in Keys
    PROVE  /\ written[k] \in Nat /\ latest[k] \in Nat /\ newest[k] \in Nat /\ observed \in Nat
           /\ \A f \in Flushers : events[f][k] \in Nat /\ events[f][k] <= newest[k] /\ stamp[f] \in Nat
           /\ written[k] <= newest[k] /\ newest[k] <= observed
<1>1. BufferTypeOK /\ Bounded
  BY Zenon DEF BufferInv
<1>2. /\ written[k] \in Nat /\ latest[k] \in Nat /\ newest[k] \in Nat /\ observed \in Nat
  BY <1>1, SnapshotAssumption DEF BufferTypeOK
<1>3. \A f \in Flushers : events[f][k] \in Nat /\ stamp[f] \in Nat
  BY <1>1, SnapshotAssumption DEF BufferTypeOK
<1> QED BY <1>1, <1>2, <1>3, Zenon DEF Bounded

\* An observation does not touch the sink and is newer than all there is.
LEMMA ObserveInOrder ==
    ASSUME BufferInv, OrderInv, NEW j \in Keys \cup {BadKey}, Observe(j)
    PROVE  OrderInv'
<1>1. /\ pc' = pc /\ events' = events /\ stamp' = stamp /\ sink' = sink /\ written' = written
      /\ raced' = raced /\ now' = now /\ DOMAIN sink' = DOMAIN sink
  BY Zenon DEF Observe, history
<1>2. ASSUME NEW k \in Keys \ raced PROVE KeyInOrder(k)'
  <2>1. KeyInOrder(k)
    BY Zenon DEF OrderInv
  <2>2. \/ latest'[k] = latest[k]
        \/ latest'[k] = observed + 1
    BY Zenon DEF Observe, BufferInv, BufferTypeOK
  <2>3. latest'[k] # 0 => /\ written[k] <= latest'[k]
                          /\ \A f \in Flushers : events[f][k] # 0 => events[f][k] <= latest'[k]
    <3>1. CASE latest'[k] = latest[k]
      BY <2>1, <3>1, Zenon DEF KeyInOrder
    <3>2. CASE latest'[k] = observed + 1
      BY <3>2, KeyNumbers
    <3> QED BY <2>2, <3>1, <3>2, Zenon
  <2> QED BY <1>1, <2>1, <2>3, Zenon DEF KeyInOrder, RowsOf
<1> QED BY <1>1, <1>2, Zenon DEF OrderInv, bucket

\* A Flush takes keys that nobody holds, or makes them raced.
LEMMA TakeInOrder ==
    ASSUME BufferInv, OrderInv, NEW f \in Flushers, Take(f)
    PROVE  OrderInv'
<1>1. /\ stamp' = stamp /\ sink' = sink /\ written' = written /\ now' = now /\ DOMAIN sink' = DOMAIN sink
      /\ events' = [events EXCEPT ![f] = latest] /\ latest' = None /\ pc[f] = "idle"
      /\ pc' = [pc EXCEPT ![f] = "taken"]
      /\ raced' = raced \cup {k \in Held(latest) : \E g \in Flushers : events[g][k] # 0}
  BY Zenon DEF Take
<1>2. ASSUME NEW k \in Keys \ raced' PROVE KeyInOrder(k)'
  <2>1. k \in Keys \ raced /\ KeyInOrder(k)
    BY <1>1, Zenon DEF OrderInv
  <2>2. latest[k] # 0 => \A g \in Flushers : events[g][k] = 0
    BY <1>1, <2>1, Zenon DEF Held
  <2>3. /\ events'[f] = latest /\ \A g \in Flushers \ {f} : events'[g] = events[g] /\ pc'[g] = pc[g]
        /\ pc'[f] = "taken" /\ latest'[k] = 0
    BY <1>1, <2>1, Zenon DEF BufferInv, BufferTypeOK, None
  <2>4. \A g \in Flushers : events'[g][k] # 0 =>
           \/ g = f /\ latest[k] # 0 /\ events'[g][k] = latest[k]
           \/ g # f /\ latest[k] = 0 /\ events'[g][k] = events[g][k] /\ pc'[g] = pc[g]
    BY <2>2, <2>3, Zenon
  <2>5. \A g, h \in Flushers : events'[g][k] # 0 /\ events'[h][k] # 0 => g = h
    BY <2>1, <2>4, Zenon DEF KeyInOrder
  <2>6. \A g \in Flushers : events'[g][k] # 0 =>
           /\ written[k] <= events'[g][k]
           /\ pc'[g] \in {"stamped", "failed"} => \A x \in RowsOf(k) : x.bucket <= stamp[g]
    BY <2>1, <2>3, <2>4, Zenon DEF KeyInOrder
  <2> QED BY <1>1, <2>1, <2>3, <2>5, <2>6, Zenon DEF KeyInOrder, RowsOf
<1> QED BY <1>1, <1>2, Zenon DEF OrderInv, bucket

\* The sink takes a key's event: it is no older than the rows there are, and its
\* row is in no earlier bucket.
LEMMA ApplyInOrder ==
    ASSUME BufferInv, OrderInv, NEW f \in Flushers, Apply(f), pc[f] = "stamped",
           stamp[f] <= bucket(now), NEW k \in Keys \ raced
    PROVE  /\ \A x \in RowsOf(k)' : sink'[x] <= written'[k]
           /\ \A x, y \in RowsOf(k)' : x.bucket < y.bucket => sink'[x] <= sink'[y]
           /\ written'[k] # 0 => \E x \in RowsOf(k)' : sink'[x] = written'[k]
           /\ events[f][k] = 0 => written'[k] = written[k] /\ RowsOf(k)' = RowsOf(k)
           /\ events[f][k] # 0 => written'[k] = events[f][k]
                                  /\ \A x \in RowsOf(k)' : x.bucket <= stamp[f]
<1>1. KeyInOrder(k) /\ BufferTypeOK
  BY Zenon DEF OrderInv, BufferInv
<1>2. /\ DOMAIN sink' = DOMAIN sink \cup Rows(f)
      /\ \A x \in Rows(f) : sink'[x] = events[f][x.key] /\ x.bucket = stamp[f] /\ events[f][x.key] # 0
      /\ \A x \in DOMAIN sink \ Rows(f) : sink'[x] = sink[x]
      /\ \A j \in Held(events[f]) : [key |-> j, bucket |-> stamp[f]] \in Rows(f)
      /\ written'[k] = Newer(written[k], events[f][k])
  BY <1>1, Applies, Zenon
<1>3. written[k] \in Nat /\ events[f][k] \in Nat /\ stamp[f] \in Nat
  BY KeyNumbers, Zenon
<1>4. CASE events[f][k] = 0
  <2>1. written'[k] = written[k]
    BY <1>2, <1>3, <1>4 DEF Newer
  <2>2. RowsOf(k)' = RowsOf(k) /\ \A x \in RowsOf(k) : sink'[x] = sink[x]
    BY <1>2, <1>4, Zenon DEF RowsOf
  <2> QED BY <1>1, <1>4, <2>1, <2>2, Zenon DEF KeyInOrder
<1>5. CASE events[f][k] # 0
  <2>1. written'[k] = events[f][k] /\ written[k] <= events[f][k]
    BY <1>1, <1>2, <1>3, <1>5 DEF Newer, KeyInOrder
  <2> DEFINE n == [key |-> k, bucket |-> stamp[f]]
  <2>2. n.key = k /\ n.bucket = stamp[f] /\ n \in Rows(f)
    BY <1>2, <1>5, Zenon DEF Held
  <2>3. sink'[n] = events[f][k] /\ n \in RowsOf(k)'
    BY <1>2, <2>2, Zenon DEF RowsOf
  <2> HIDE DEF n
  <2>4. \A x \in RowsOf(k)' :
           \/ x \in Rows(f) /\ sink'[x] = events[f][k] /\ x.bucket = stamp[f]
           \/ x \in RowsOf(k) /\ sink'[x] = sink[x]
    BY <1>2, Zenon DEF RowsOf
  <2>5. \A x \in RowsOf(k) : /\ sink[x] <= written[k] /\ x.bucket <= stamp[f]
                             /\ sink[x] \in Nat /\ x.bucket \in Nat
    <3>1. \A x \in RowsOf(k) : sink[x] <= written[k] /\ x.bucket <= stamp[f]
      BY <1>1, <1>5, Zenon DEF KeyInOrder
    <3>2. \A x \in RowsOf(k) : sink[x] \in 0..MaxEvents /\ x \in [key : Keys, bucket : 0..now]
      BY <1>1, Zenon DEF OrderInv, BufferTypeOK, RowsOf
    <3> QED BY <3>1, <3>2, SnapshotAssumption
  <2>6. \A x \in RowsOf(k)' : sink'[x] <= written'[k] /\ x.bucket <= stamp[f]
    <3> SUFFICES ASSUME NEW x \in RowsOf(k)' PROVE sink'[x] <= written'[k] /\ x.bucket <= stamp[f]
      BY Zenon
    <3>1. CASE x \in Rows(f) /\ sink'[x] = events[f][k] /\ x.bucket = stamp[f]
      BY <1>3, <2>1, <3>1
    <3>2. CASE x \in RowsOf(k) /\ sink'[x] = sink[x]
      <4>1. sink[x] <= written[k] /\ x.bucket <= stamp[f] /\ sink[x] \in Nat
        BY <2>5, <3>2, Zenon
      <4> QED BY <1>3, <2>1, <3>2, <4>1
    <3> QED BY <2>4, <3>1, <3>2, Zenon
  <2>7. ASSUME NEW x \in RowsOf(k)', NEW y \in RowsOf(k)', x.bucket < y.bucket
        PROVE  sink'[x] <= sink'[y]
    <3>1. CASE y \in Rows(f) /\ sink'[y] = events[f][k] /\ y.bucket = stamp[f]
      BY <2>1, <2>6, <3>1, Zenon
    <3>2. CASE y \in RowsOf(k) /\ sink'[y] = sink[y]
      <4>1. ~(x \in Rows(f) /\ sink'[x] = events[f][k] /\ x.bucket = stamp[f])
        <5>1. y.bucket <= stamp[f] /\ y.bucket \in Nat
          BY <2>5, <3>2, Zenon
        <5> QED BY <1>3, <2>7, <5>1
      <4>2. x \in RowsOf(k) /\ sink'[x] = sink[x]
        BY <2>4, <4>1, Zenon
      <4> QED BY <1>1, <2>7, <3>2, <4>2, Zenon DEF KeyInOrder
    <3> QED BY <2>4, <3>1, <3>2, Zenon
  <2> QED BY <1>5, <2>1, <2>3, <2>6, <2>7, Zenon
<1> QED BY <1>4, <1>5, Zenon

\* A call of the sink keeps the order of the rows.
LEMMA SinkInOrder ==
    ASSUME BufferInv, OrderInv, NEW f \in Flushers, stamp[f] <= bucket(now),
           WriteRealtimeSnapshots(f) \/ SinkFails(f)
    PROVE  OrderInv'
<1>1. /\ latest' = latest /\ stamp' = stamp /\ raced' = raced /\ now' = now /\ pc[f] = "stamped"
      /\ Apply(f) \/ (sink' = sink /\ written' = written)
      /\ \A g \in Flushers : /\ events'[g] = events[g] \/ (g = f /\ events'[g] = None)
                             /\ pc'[g] \in {"stamped", "failed"} => pc[g] \in {"stamped", "failed"}
  <2>1. BufferTypeOK
    BY Zenon DEF BufferInv
  <2>2. CASE WriteRealtimeSnapshots(f)
    BY <2>1, <2>2 DEF WriteRealtimeSnapshots, BufferTypeOK
  <2>3. CASE SinkFails(f)
    BY <2>1, <2>3 DEF SinkFails, BufferTypeOK
  <2> QED BY <2>2, <2>3, Zenon
<1>2. \A g \in Flushers, k \in Keys : events'[g][k] = events[g][k] \/ events'[g][k] = 0
  BY <1>1, Zenon DEF None
<1>3. CASE sink' = sink /\ written' = written
  <2>1. ASSUME NEW k \in Keys \ raced PROVE KeyInOrder(k)'
    <3>1. KeyInOrder(k) /\ RowsOf(k)' = RowsOf(k)
      BY <1>3, Zenon DEF OrderInv, RowsOf
    <3>2. \A g \in Flushers : events'[g][k] # 0 => events'[g][k] = events[g][k]
      BY <1>2, Zenon
    <3> QED BY <1>1, <1>3, <3>1, <3>2, Zenon DEF KeyInOrder
  <2> QED BY <1>1, <1>3, <2>1, Zenon DEF OrderInv, bucket
<1>4. CASE Apply(f)
  <2>1. ASSUME NEW k \in Keys \ raced PROVE KeyInOrder(k)'
    <3>1. KeyInOrder(k)
      BY Zenon DEF OrderInv
    <3>2. \A g \in Flushers : events'[g][k] # 0 => events'[g][k] = events[g][k] /\ events[g][k] # 0
      BY <1>2, Zenon
    <3>3. /\ \A x \in RowsOf(k)' : sink'[x] <= written'[k]
          /\ \A x, y \in RowsOf(k)' : x.bucket < y.bucket => sink'[x] <= sink'[y]
          /\ written'[k] # 0 => \E x \in RowsOf(k)' : sink'[x] = written'[k]
      BY <1>1, <1>4, ApplyInOrder, Zenon
    <3>4. CASE events[f][k] = 0
      <4>1. written'[k] = written[k] /\ RowsOf(k)' = RowsOf(k)
        BY <1>1, <1>4, <3>4, ApplyInOrder, Zenon
      <4> QED BY <1>1, <3>1, <3>2, <3>3, <4>1, Zenon DEF KeyInOrder
    <3>5. CASE events[f][k] # 0
      <4>1. written'[k] = events[f][k] /\ \A x \in RowsOf(k)' : x.bucket <= stamp[f]
        BY <1>1, <1>4, <3>5, ApplyInOrder, Zenon
      <4>2. \A g \in Flushers : events'[g][k] # 0 => g = f
        BY <3>1, <3>2, <3>5, Zenon DEF KeyInOrder
      <4>3. events[f][k] <= events[f][k]
        BY KeyNumbers
      <4> QED BY <1>1, <3>1, <3>2, <3>3, <3>5, <4>1, <4>2, <4>3, Zenon DEF KeyInOrder
    <3> QED BY <3>4, <3>5, Zenon
  <2>2. \A x \in DOMAIN sink' : sink'[x] \in 0..MaxEvents /\ x.bucket <= bucket(now)
    <3>1. BufferTypeOK
      BY Zenon DEF BufferInv
    <3>2. /\ DOMAIN sink' = DOMAIN sink \cup Rows(f)
          /\ \A x \in Rows(f) : sink'[x] = events[f][x.key] /\ x.bucket = stamp[f] /\ x.key \in Keys
          /\ \A x \in DOMAIN sink \ Rows(f) : sink'[x] = sink[x]
      BY <1>4, <3>1, Applies, Zenon
    <3>3. \A k \in Keys : events[f][k] \in 0..MaxEvents
      BY <3>1, Zenon DEF BufferTypeOK
    <3> QED BY <3>2, <3>3, Zenon DEF OrderInv
  <2> QED BY <1>1, <2>1, <2>2, Zenon DEF OrderInv, bucket
<1> QED BY <1>1, <1>3, <1>4, Zenon

\* What is put back is no older than what the sink has.
LEMMA PutBackInOrder ==
    ASSUME BufferInv, OrderInv, NEW f \in Flushers, PutBack(f)
    PROVE  OrderInv'
<1>1. /\ stamp' = stamp /\ sink' = sink /\ written' = written /\ raced' = raced /\ now' = now
      /\ \A k \in Keys : latest'[k] = IF events[f][k] # 0 THEN events[f][k] ELSE latest[k]
      /\ \A g \in Flushers : /\ events'[g] = IF g = f THEN None ELSE events[g]
                             /\ pc'[g] \in {"stamped", "failed"} => pc[g] \in {"stamped", "failed"}
  BY DEF PutBack, BufferInv, BufferTypeOK
<1>2. ASSUME NEW k \in Keys \ raced PROVE KeyInOrder(k)'
  <2>1. KeyInOrder(k) /\ RowsOf(k)' = RowsOf(k)
    BY <1>1, Zenon DEF OrderInv, RowsOf
  <2>2. \A g \in Flushers : events'[g][k] # 0 => g # f /\ events'[g][k] = events[g][k]
    BY <1>1, Zenon DEF None
  <2>3. \A g \in Flushers : events'[g][k] # 0 => events[f][k] = 0
    BY <2>1, <2>2, Zenon DEF KeyInOrder
  <2>4. latest'[k] # 0 => /\ written[k] <= latest'[k]
                          /\ \A g \in Flushers : events'[g][k] # 0 => events'[g][k] <= latest'[k]
    BY <1>1, <2>1, <2>2, <2>3, Zenon DEF KeyInOrder
  <2> QED BY <1>1, <2>1, <2>2, <2>4, Zenon DEF KeyInOrder
<1> QED BY <1>1, <1>2, Zenon DEF OrderInv, bucket

\* The bucket a Flush writes to has begun.
StampInv == \A f \in Flushers : stamp[f] <= bucket(now)

\* Every step keeps the order of the rows.
LEMMA OrderStep ==
    ASSUME BufferInv, OrderInv, StampInv, [BufferNext]_bufferVars
    PROVE  OrderInv' /\ StampInv'
<1>0. now \in Nat
  BY SnapshotAssumption DEF BufferInv, BufferTypeOK
<1>1. CASE BufferTick
  <2>1. /\ latest' = latest /\ pc' = pc /\ events' = events /\ stamp' = stamp /\ sink' = sink
        /\ written' = written /\ raced' = raced /\ now' = now + 1
    BY <1>1, Zenon DEF BufferTick, history
  <2>2. \A k \in Keys : KeyInOrder(k) => KeyInOrder(k)'
    BY <2>1, Zenon DEF KeyInOrder, RowsOf
  <2>3. bucket(now)' = bucket(now + 1) /\ bucket(now) <= bucket(now + 1) /\ bucket(now) \in Nat
        /\ bucket(now + 1) \in Nat
    <3>1. bucket(now)' = bucket(now + 1)
      BY <2>1, Zenon DEF bucket
    <3> QED BY <1>0, <3>1, BucketGrows
  <2>4. \A x \in DOMAIN sink : x.bucket <= bucket(now)'
    <3> SUFFICES ASSUME NEW x \in DOMAIN sink PROVE x.bucket <= bucket(now + 1)
      BY <2>3, Zenon
    <3>1. x.bucket <= bucket(now) /\ x.bucket \in 0..now
      BY Zenon DEF OrderInv, BufferInv, BufferTypeOK
    <3> QED BY <1>0, <2>3, <3>1
  <2>5. \A f \in Flushers : stamp[f] <= bucket(now)'
    <3> SUFFICES ASSUME NEW f \in Flushers PROVE stamp[f] <= bucket(now + 1)
      BY <2>3, Zenon
    <3>1. stamp[f] <= bucket(now) /\ stamp[f] \in 0..now
      BY Zenon DEF StampInv, BufferInv, BufferTypeOK
    <3> QED BY <1>0, <2>3, <3>1
  <2> QED BY <2>1, <2>2, <2>4, <2>5, Zenon DEF OrderInv, StampInv
<1>2. ASSUME NEW f \in Flushers, Stamp(f) PROVE OrderInv' /\ StampInv'
  <2>1. /\ latest' = latest /\ events' = events /\ sink' = sink /\ pc[f] = "taken"
        /\ written' = written /\ raced' = raced /\ now' = now
        /\ \A g \in Flushers \ {f} : stamp'[g] = stamp[g] /\ pc'[g] = pc[g]
        /\ stamp'[f] = bucket(now) /\ bucket(now)' = bucket(now)
    BY <1>2, Zenon DEF Stamp, history, BufferInv, BufferTypeOK, bucket
  <2>2. ASSUME NEW k \in Keys \ raced PROVE KeyInOrder(k)'
    <3>1. KeyInOrder(k) /\ RowsOf(k)' = RowsOf(k) /\ \A x \in RowsOf(k) : x.bucket <= bucket(now)
      BY <2>1, Zenon DEF OrderInv, RowsOf
    <3>2. \A g \in Flushers : events[g][k] # 0 /\ pc'[g] \in {"stamped", "failed"}
             => \A x \in RowsOf(k) : x.bucket <= stamp'[g]
      BY <2>1, <3>1, Zenon DEF KeyInOrder
    <3> QED BY <2>1, <3>1, <3>2, Zenon DEF KeyInOrder
  <2>3. bucket(now) <= bucket(now)
    BY <1>0, BucketGrows
  <2> QED BY <2>1, <2>2, <2>3, Zenon DEF OrderInv, StampInv
<1>3. CASE UNCHANGED bufferVars
  <2>1. /\ latest' = latest /\ pc' = pc /\ events' = events /\ stamp' = stamp /\ sink' = sink
        /\ written' = written /\ raced' = raced /\ now' = now
    BY <1>3, Zenon DEF bufferVars, history
  <2>2. \A k \in Keys : KeyInOrder(k) => KeyInOrder(k)'
    BY <2>1, Zenon DEF KeyInOrder, RowsOf
  <2>3. bucket(now)' = bucket(now)
    BY <2>1, Zenon DEF bucket
  <2> QED BY <2>1, <2>2, <2>3, Zenon DEF OrderInv, StampInv
<1>4. ASSUME stamp' = stamp, now' = now PROVE StampInv'
  BY <1>4, Zenon DEF StampInv, bucket
<1>5. ASSUME NEW j \in Keys \cup {BadKey}, Observe(j) PROVE OrderInv' /\ StampInv'
  BY <1>4, <1>5, ObserveInOrder, Zenon DEF Observe
<1>6. ASSUME NEW f \in Flushers, Take(f) PROVE OrderInv' /\ StampInv'
  BY <1>4, <1>6, TakeInOrder, Zenon DEF Take
<1>7. ASSUME NEW f \in Flushers, WriteRealtimeSnapshots(f) \/ SinkFails(f) PROVE OrderInv' /\ StampInv'
  <2>1. stamp[f] <= bucket(now)
    BY Zenon DEF StampInv
  <2> QED BY <1>4, <1>7, <2>1, SinkInOrder, Zenon DEF WriteRealtimeSnapshots, SinkFails
<1>8. ASSUME NEW f \in Flushers, PutBack(f) PROVE OrderInv' /\ StampInv'
  BY <1>4, <1>8, PutBackInOrder, Zenon DEF PutBack
<1> QED BY <1>1, <1>2, <1>3, <1>5, <1>6, <1>7, <1>8, Zenon DEF BufferNext, FlushStep

\* The last event of a key is lost only to an older one put back over it, and the
\* rows of a key go back only after two Flushes held it at once, for any number of
\* flushers and of failed writes (snapshot.go:48-81).
THEOREM WorkerLatestReachesSink == BufferSpec => []LatestReachesSink
<1> DEFINE SinkInv == BufferInv /\ OrderInv /\ StampInv
<1>1. BufferInit => SinkInv
  <2>1. BufferInit => StampInv
    <3> SUFFICES ASSUME BufferInit PROVE StampInv
      BY Zenon
    <3>1. bucket(0) \in Nat
      BY BucketGrows
    <3>2. now = 0 /\ \A f \in Flushers : stamp[f] = 0
      BY Zenon DEF BufferInit
    <3> QED BY <3>1, <3>2 DEF StampInv
  <2> QED BY <2>1, BufferInvInit, OrderInit, Zenon
<1>2. SinkInv /\ [BufferNext]_bufferVars => SinkInv'
  BY BufferInvStep, OrderStep, Zenon
<1>3. SinkInv => LatestReachesSink
  BY Zenon DEF BufferInv, OrderInv, KeyInOrder, LatestReachesSink, RowsInOrder, RowsOf
<1> HIDE DEF SinkInv
<1> QED BY <1>1, <1>2, <1>3, PTL DEF BufferSpec

-----------------------------------------------------------------------------
(* The reconnect manager. *)

\* The attempts of an outage are forgotten once the stream is up again.
AttemptsReset == loop \in {"open", "failed"} => state.attempt = 0

\* What the loop last heard of a peer that has gone, it heard before.
HeardBefore ==
    /\ state.message <= time /\ state.connected <= time
    /\ peer \in {"dead", "closed"} => state.message <= diedAt /\ state.connected <= diedAt

\* The store keeps a state for a TTL, and the last one published is the loop's.
KeptForTTL ==
    /\ stored # Nothing => expiresAt \in Nat /\ time < expiresAt
    /\ stored # Nothing /\ ~missed => stored = state /\ expiresAt = state.updated + StateTTL

StreamInv == StreamTypeOK /\ AttemptsReset /\ HeardBefore /\ KeptForTTL

-----------------------------------------------------------------------------
\* The larger of two numbers.
LEMMA MaxOfTwo ==
    ASSUME NEW a \in Int, NEW b \in Int
    PROVE  Max({a, b}) \in {a, b} /\ Max({a, b}) >= a /\ Max({a, b}) >= b
<1>1. \E x \in {a, b} : \A y \in {a, b} : x >= y
  OBVIOUS
<1> QED BY <1>1, Zenon DEF Max

\* No wait is negative or longer than the cap (reconnect.go:131-150).
LEMMA BackoffWithinCap ==
    ASSUME ReconnectAssumption, NEW n \in Nat
    PROVE  BackoffDelay(n) \in 0..BackoffMax
<1>1. Max({n, 1}) - 1 \in Nat
  <2>1. Max({n, 1}) \in {n, 1} /\ Max({n, 1}) >= 1
    BY MaxOfTwo
  <2> HIDE DEF Max
  <2> QED BY <2>1
<1>2. 2 ^ (Max({n, 1}) - 1) \in Int
  BY <1>1
<1>3. BackoffMin * 2 ^ (Max({n, 1}) - 1) \in Int /\ BackoffMax \in Nat
  BY <1>2 DEF ReconnectAssumption
<1> QED BY <1>3 DEF BackoffDelay

-----------------------------------------------------------------------------
\* A publication that succeeds is the state at hand and lives for a TTL; one that
\* fails leaves what was there and is remembered as missed (reconnect.go:152-166).
LEMMA StreamUpdateKeeps ==
    ASSUME ReconnectAssumption, StreamInv, NEW s \in States, s.updated = time,
           Update(s), UNCHANGED time
    PROVE  /\ state' \in States /\ stored' \in States \cup {Nothing}
           /\ missed' \in BOOLEAN /\ losses' \in 0..MaxLosses
           /\ KeptForTTL'
<1> USE DEF Update, writeState, StreamInv, StreamTypeOK
<1>1. state' \in States /\ stored' \in States \cup {Nothing} /\ missed' \in BOOLEAN
  BY Zenon
<1>2. losses' \in 0..MaxLosses
  BY DEF ReconnectAssumption
<1>3. KeptForTTL'
  BY DEF KeptForTTL, ReconnectAssumption
<1> QED BY <1>1, <1>2, <1>3, Zenon

\* A new stream has published nothing.
LEMMA StreamInvInit ==
    ASSUME ReconnectAssumption
    PROVE  StreamInit => StreamInv
<1> SUFFICES ASSUME StreamInit PROVE StreamInv
  BY Zenon
<1>1. Zero \in States
  <2>1. 0 \in 0..LastTime /\ 0 \in 0..(MaxAttempt + 1)
    BY DEF ReconnectAssumption
  <2> QED BY <2>1, Zenon DEF States, Zero
<1>2. StreamTypeOK
  <2>1. missed \in BOOLEAN
    BY Zenon DEF StreamInit
  <2> QED BY <1>1, <2>1 DEF ReconnectAssumption, StreamInit, StreamTypeOK
<1>3. AttemptsReset /\ HeardBefore /\ KeptForTTL
  <2>1. state.attempt = 0 /\ state.message = 0 /\ state.connected = 0
    BY Zenon DEF StreamInit, Zero
  <2> QED BY <2>1 DEF StreamInit, AttemptsReset, HeardBefore, KeptForTTL
<1> QED BY <1>2, <1>3, Zenon DEF StreamInv

\* Every call of the loop, and whatever the peer and the clock do, keeps it.
LEMMA StreamInvStep ==
    ASSUME ReconnectAssumption
    PROVE  StreamInv /\ [StreamNext]_streamVars => StreamInv'
<1> SUFFICES ASSUME StreamInv, [StreamNext]_streamVars PROVE StreamInv'
  BY Zenon
<1>0. time \in 1..LastTime /\ state \in States /\ LastTime \in Nat /\ BackoffMax \in Nat
      /\ MaxAttempt \in Nat
  BY Zenon DEF StreamInv, StreamTypeOK, ReconnectAssumption
<1>b. time \in 0..LastTime /\ 0 \in 0..LastTime /\ 0 \in 0..(MaxAttempt + 1)
       /\ state.attempt \in 0..(MaxAttempt + 1)
       /\ state.message \in Nat /\ state.connected \in Nat
  <2>1. state.attempt \in 0..(MaxAttempt + 1) /\ state.message \in 0..LastTime
        /\ state.connected \in 0..LastTime
    BY <1>0, Zenon DEF States
  <2> QED BY <1>0, <2>1
<1>1. CASE StreamTick
  <2>1. StreamTypeOK'
    BY <1>1 DEF StreamTick, StreamInv, StreamTypeOK, ReconnectAssumption
  <2>2. AttemptsReset' /\ HeardBefore'
    BY <1>0, <1>b, <1>1 DEF StreamTick, StreamInv, AttemptsReset, HeardBefore
  <2>3. KeptForTTL'
    BY <1>1, <1>0 DEF StreamTick, StreamInv, KeptForTTL
  <2> QED BY <2>1, <2>2, <2>3, Zenon DEF StreamInv
<1>2. CASE Connected
  <2> DEFINE s == [Zero EXCEPT !.status = "connected", !.connected = time,
                               !.heartbeat = time, !.updated = time]
  <2>1. s \in States /\ s.updated = time /\ s.attempt = 0 /\ s.connected = time /\ s.message = 0
    <3>1. s \in States
      BY <1>b, Zenon DEF States, Zero
    <3> QED BY <3>1, Zenon DEF Zero
  <2>2. Update(s) /\ UNCHANGED <<time, wakeAt>> /\ peer' = "alive" /\ diedAt' = 0 /\ loop' = "open"
        /\ state' = s
    BY <1>2, Zenon DEF Connected, Update
  <2> HIDE DEF s
  <2>3. KeptForTTL' /\ StreamTypeOK'
    BY <1>0, <2>1, <2>2, StreamUpdateKeeps DEF StreamInv, StreamTypeOK
  <2>4. AttemptsReset' /\ HeardBefore'
    BY <1>0, <2>1, <2>2 DEF AttemptsReset, HeardBefore
  <2> QED BY <2>3, <2>4, Zenon DEF StreamInv
<1>3. ASSUME loop' = "waiting", wakeAt' = time + BackoffDelay(state.attempt + 1),
             state.attempt <= MaxAttempt, UNCHANGED time,
             Update([state EXCEPT !.status = "disconnected", !.attempt = @ + 1, !.updated = time]),
             peer' \in {"none", "alive", "dead", "closed"}, diedAt' \in 0..time,
             peer' \in {"dead", "closed"} => UNCHANGED <<peer, diedAt>>
      PROVE  StreamInv'
  <2> DEFINE s == [state EXCEPT !.status = "disconnected", !.attempt = @ + 1, !.updated = time]
  <2>1. s \in States /\ s.updated = time /\ s.message = state.message /\ s.connected = state.connected
    <3>1. state.attempt + 1 \in 0..(MaxAttempt + 1)
      BY <1>0, <1>b, <1>3
    <3>2. s \in States
      BY <1>0, <1>b, <3>1, Zenon DEF States
    <3> QED BY <1>0, <3>2, Zenon DEF States
  <2>2. Update(s) /\ state' = s
    BY <1>3, Zenon DEF Update
  <2> HIDE DEF s
  <2>3. wakeAt' \in 0..(LastTime + BackoffMax)
    <3>1. state.attempt + 1 \in Nat
      BY <1>0, <1>b
    <3> QED BY <3>1, <1>0, <1>3, BackoffWithinCap
  <2>4. KeptForTTL' /\ StreamTypeOK'
    BY <1>0, <1>3, <2>1, <2>2, <2>3, StreamUpdateKeeps, Zenon DEF StreamInv, StreamTypeOK
  <2>5. AttemptsReset' /\ HeardBefore'
    BY <1>3, <2>1, <2>2, Zenon DEF StreamInv, AttemptsReset, HeardBefore
  <2> QED BY <2>4, <2>5, Zenon DEF StreamInv
<1>4. CASE DialFails
  <2>1. state.attempt <= MaxAttempt
    BY <1>0, <1>b, <1>4 DEF DialFails
  <2> QED BY <1>3, <1>4, <2>1, Zenon DEF DialFails, StreamInv, StreamTypeOK
<1>5. CASE Disconnected
  <2>1. state.attempt <= MaxAttempt
    BY <1>0, <1>5 DEF Disconnected, StreamInv, AttemptsReset
  <2>2. diedAt' \in 0..time
    BY <1>0, <1>5 DEF Disconnected
  <2> QED BY <1>3, <1>5, <2>1, <2>2, Zenon DEF Disconnected
<1>6. ASSUME NEW s \in States, Update(s), s.updated = time, s.attempt = state.attempt,
             s.connected = state.connected, s.message = state.message \/ (peer = "alive" /\ s.message = time),
             loop = "open", loop' \in {"open", "failed"},
             UNCHANGED <<time, peer, diedAt, wakeAt>>
      PROVE  StreamInv'
  <2>1. KeptForTTL' /\ StreamTypeOK'
    BY <1>6, StreamUpdateKeeps, Zenon DEF StreamInv, StreamTypeOK
  <2>2. AttemptsReset' /\ HeardBefore'
    <3>1. state' = s
      BY <1>6, Zenon DEF Update
    <3> QED BY <1>0, <1>b, <1>6, <3>1 DEF StreamInv, AttemptsReset, HeardBefore
  <2> QED BY <2>1, <2>2, Zenon DEF StreamInv
<1>7. CASE RecordMessage
  <2> DEFINE s == [state EXCEPT !.status = "connected", !.message = time, !.updated = time]
  <2>1. s \in States /\ s.updated = time /\ s.attempt = state.attempt
        /\ s.connected = state.connected /\ s.message = time
    <3>1. s \in States
      BY <1>0, <1>b, Zenon DEF States
    <3> QED BY <1>0, <3>1, Zenon DEF States
  <2>2. Update(s) /\ peer = "alive" /\ loop = "open" /\ loop' = "open"
        /\ UNCHANGED <<time, peer, diedAt, wakeAt>>
    BY <1>7, Zenon DEF RecordMessage
  <2> HIDE DEF s
  <2> QED BY <1>6, <2>1, <2>2, Zenon
<1>8. CASE Heartbeat
  <2> DEFINE answered == [state EXCEPT !.status = "connected", !.heartbeat = time, !.updated = time]
             failed == [state EXCEPT !.status = "heartbeat_failed", !.updated = time]
  <2>1. \A s \in {answered, failed} :
           s \in States /\ s.updated = time /\ s.attempt = state.attempt
           /\ s.connected = state.connected /\ s.message = state.message
    <3>1. answered \in States /\ failed \in States
      BY <1>0, <1>b, Zenon DEF States
    <3> QED BY <1>0, <3>1, Zenon DEF States
  <2>2. /\ \E s \in {answered, failed} : Update(s)
        /\ loop = "open" /\ loop' \in {"open", "failed"}
        /\ UNCHANGED <<time, peer, diedAt, wakeAt>>
    BY <1>8, Zenon DEF Heartbeat
  <2> HIDE DEF answered, failed
  <2> QED BY <1>6, <2>1, <2>2, Zenon
<1>9. CASE PeerGoes
  <2>1. StreamTypeOK'
    BY <1>9, <1>0 DEF PeerGoes, StreamInv, StreamTypeOK
  <2>2. HeardBefore'
    BY <1>9, Zenon DEF PeerGoes, StreamInv, HeardBefore
  <2>3. AttemptsReset' /\ KeptForTTL'
    BY <1>9, Zenon DEF PeerGoes, StreamInv, AttemptsReset, KeptForTTL
  <2> QED BY <2>1, <2>2, <2>3, Zenon DEF StreamInv
<1>10. CASE UNCHANGED streamVars
  <2>1. StreamTypeOK'
    BY <1>10, Zenon DEF streamVars, StreamInv, StreamTypeOK
  <2>2. AttemptsReset' /\ HeardBefore' /\ KeptForTTL'
    BY <1>10, Zenon DEF streamVars, StreamInv, AttemptsReset, HeardBefore, KeptForTTL
  <2> QED BY <2>1, <2>2, Zenon DEF StreamInv
<1> QED BY <1>1, <1>2, <1>4, <1>5, <1>7, <1>8, <1>9, <1>10, Zenon DEF StreamNext, LoopStep

-----------------------------------------------------------------------------
\* Every variable has its type, and no outage counts more attempts than it had.
THEOREM StreamTypeCorrect ==
    ASSUME ReconnectAssumption
    PROVE  StreamSpec => []StreamTypeOK
<1>1. StreamInv => StreamTypeOK
  BY Zenon DEF StreamInv
<1> QED BY <1>1, StreamInvInit, StreamInvStep, PTL DEF StreamSpec

\* A peer that fell silent is stale StaleAfter later, whatever pings it answered,
\* and what the store tells the API is the loop's own state and younger than its
\* TTL, unless the last publication failed (reconnect.go:119-129, 152-166).
THEOREM StreamTruth ==
    ASSUME ReconnectAssumption
    PROVE  StreamSpec => []StreamStateIsTrue
<1>1. StreamInv => StreamStateIsTrue
  <2> SUFFICES ASSUME StreamInv PROVE StreamStateIsTrue
    BY Zenon
  <2>1. state.message \in 0..LastTime /\ state.connected \in 0..LastTime
    BY Zenon DEF StreamInv, StreamTypeOK, States
  <2>2. time \in Nat /\ diedAt \in Nat /\ StaleAfter \in Nat /\ state.message \in Nat
        /\ state.connected \in Nat
    BY <2>1, SMTT(30) DEF StreamInv, StreamTypeOK, ReconnectAssumption
  <2>3. SilentPeerIsStale
    BY <2>2 DEF StreamInv, HeardBefore, SilentPeerIsStale, IsStale
  <2>4. PublishedIsCurrent
    BY Zenon DEF StreamInv, KeptForTTL, PublishedIsCurrent
  <2> QED BY <2>3, <2>4, Zenon DEF StreamStateIsTrue
<1> QED BY <1>1, StreamInvInit, StreamInvStep, PTL DEF StreamSpec

-----------------------------------------------------------------------------
(* The rate limiter. *)

\* The ideal buckets hold as much as the heaviest request or the burst.
LEMMA CapacityIsMax ==
    /\ Capacity \in Weights \cup {Burst}
    /\ \A w \in Weights \cup {Burst} : Capacity >= w
  BY LimiterAssumption, Zenon DEF Capacity

\* Both capacities are positive.
LEMMA CapacityType == Capacity \in Nat \ {0} /\ MinuteCapacity \in Nat \ {0}
<1>1. Capacity \in Nat \ {0}
  BY CapacityIsMax, LimiterAssumption, Zenon
<1> QED BY <1>1, LimiterAssumption, Zenon DEF MinuteCapacity, Larger

\* Weights are natural numbers.
LEMMA WeightIsNat == \A w \in Weights \cup {0} : w \in Nat
  BY LimiterAssumption

\* A refill stays between nothing and the cap.
LEMMA RefillType ==
    ASSUME NEW tokens \in Nat, NEW rate \in Nat, NEW cap \in Nat, idle \in Nat
    PROVE  Refill(tokens, rate, cap) \in 0..cap
<1>1. idle * rate \in Nat
  BY SMT
<1> QED BY <1>1 DEF Refill, Smaller

\* A delay is a natural number.
LEMMA DelayType ==
    ASSUME NEW missing \in Int, NEW rate \in Nat \ {0}
    PROVE  DelayFor(missing, rate) \in Nat
<1>1. CASE missing <= 0
  BY <1>1, Zenon DEF DelayFor
<1>2. CASE missing > 0
  <2>1. missing \div rate \in Nat
    BY <1>2, SMT
  <2> QED BY <1>2, <2>1, Zenon DEF DelayFor
<1> QED BY <1>1, <1>2

\* What reserve leaves in the buckets and tells its caller.
S(w) == Refill(second, Rate, RaiseBurst(w))
M(w) == Refill(minute, MinuteRate, Larger(MinuteBurst, RaiseBurst(w)))
Enough(w) == S(w) >= w /\ M(w) >= w
Charge(w) == IF Enough(w) THEN w ELSE 0
Delay(w) == IF Enough(w) THEN 0
            ELSE Larger(DelayFor(w - S(w), Rate), DelayFor(w - M(w), MinuteRate))

\* What a reservation changes.
LEMMA ReserveShape ==
    ASSUME NEW c \in Callers, Reserve(c)
    PROVE  LET w == calls[c].weight
           IN  /\ burst' = RaiseBurst(w)
               /\ second' = S(w) - Charge(w) /\ minute' = M(w) - Charge(w)
               /\ \E jitter \in Jitters :
                    SleepOrReturn(c, Charge(w), IF Delay(w) = 0 THEN jitter ELSE Delay(w))
               /\ idle' = 0
  BY Zenon DEF Reserve, S, M, Enough, Charge, Delay

\* The values of one reserve are naturals, and the charge is there to be taken.
LEMMA ReserveTypes ==
    ASSUME TypeOK, NEW w \in Weights \cup {0}
    PROVE  /\ RaiseBurst(w) \in Weights \cup {Burst} /\ RaiseBurst(w) \in Nat
           /\ S(w) \in 0..RaiseBurst(w)
           /\ M(w) \in 0..Larger(MinuteBurst, RaiseBurst(w))
           /\ Charge(w) \in Nat /\ Charge(w) <= S(w) /\ Charge(w) <= M(w)
           /\ Delay(w) \in Nat
<1>1. w \in Nat /\ burst \in Nat /\ idle \in Nat /\ second \in Nat /\ minute \in Nat
  BY LimiterAssumption DEF TypeOK, Larger
<1>2. RaiseBurst(w) \in Weights \cup {Burst} /\ RaiseBurst(w) \in Nat
  BY <1>1, LimiterAssumption DEF TypeOK, RaiseBurst, Larger
<1>3. Larger(MinuteBurst, RaiseBurst(w)) \in Nat
  BY <1>2, LimiterAssumption, Zenon DEF Larger
<1>4. S(w) \in 0..RaiseBurst(w)
  BY <1>1, <1>2, RefillType, LimiterAssumption, Zenon DEF S
<1>5. M(w) \in 0..Larger(MinuteBurst, RaiseBurst(w))
  BY <1>1, <1>3, RefillType, LimiterAssumption, Zenon DEF M
<1>6. Charge(w) \in Nat /\ Charge(w) <= S(w) /\ Charge(w) <= M(w)
  BY <1>1, <1>2, <1>3, <1>4, <1>5 DEF Charge, Enough
<1>7. Delay(w) \in Nat
  <2>1. DelayFor(w - S(w), Rate) \in Nat
    <3>1. w - S(w) \in Int
      BY <1>1, <1>2, <1>4
    <3>2. Rate \in Nat \ {0}
      BY LimiterAssumption, Zenon
    <3> QED BY <3>1, <3>2, DelayType, Zenon
  <2>2. DelayFor(w - M(w), MinuteRate) \in Nat
    <3>1. w - M(w) \in Int
      BY <1>1, <1>3, <1>5
    <3>2. MinuteRate \in Nat \ {0}
      BY LimiterAssumption, Zenon
    <3> QED BY <3>1, <3>2, DelayType, Zenon
  <2> QED BY <2>1, <2>2, Zenon DEF Delay, Larger
<1> QED BY <1>2, <1>4, <1>5, <1>6, <1>7, Zenon

\* A caller's record after its turn in the loop.
LEMMA SleepOrReturnTypes ==
    ASSUME TypeOK, NEW c \in Callers, NEW charge \in Nat, NEW waitFor \in Nat,
           SleepOrReturn(c, charge, waitFor)
    PROVE  calls' \in [Callers -> Call] /\ credit' \in [second : Int, minute : Int]
<1>1. calls[c] \in Call /\ calls[c].weight \in Nat
  <2>1. calls[c] \in Call
    BY Zenon DEF TypeOK
  <2>2. calls[c].weight \in Weights \cup {0}
    BY <2>1, Zenon DEF Call
  <2> QED BY <2>1, <2>2, WeightIsNat, Zenon
<1>2. calls' \in [Callers -> Call]
  <2> DEFINE phase == IF waitFor = 0 THEN "admitted" ELSE "waiting"
             new == [calls[c] EXCEPT !.phase = phase, !.sleep = waitFor, !.charged = @ + charge]
  <2>1. calls' = [calls EXCEPT ![c] = new]
    BY Zenon DEF SleepOrReturn, TypeOK
  <2>2. phase \in {"idle", "waiting", "admitted"} /\ calls[c].charged + charge \in Nat
    BY <1>1 DEF Call
  <2> HIDE DEF phase
  <2>3. new \in Call
    BY <1>1, <2>2, Zenon DEF Call
  <2> HIDE DEF new
  <2> QED BY <2>1, <2>3, Zenon DEF TypeOK
<1>3. credit' \in [second : Int, minute : Int]
  <2>1. credit \in [second : Int, minute : Int]
    BY Zenon DEF TypeOK
  <2>2. CASE waitFor # 0
    BY <2>1, <2>2, Zenon DEF SleepOrReturn
  <2>3. CASE waitFor = 0
    <3>1. credit.second - calls[c].weight \in Int /\ credit.minute - calls[c].weight \in Int
      BY <1>1, <2>1
    <3>2. credit' = [second |-> credit.second - calls[c].weight,
                     minute |-> credit.minute - calls[c].weight]
      BY <2>3, Zenon DEF SleepOrReturn
    <3> QED BY <3>1, <3>2, Zenon
  <2> QED BY <2>2, <2>3, Zenon
<1> QED BY <1>2, <1>3, Zenon

\* A new limiter has its types.
LEMMA TypeInit == Init => TypeOK
  BY LimiterAssumption, CapacityType
     DEF Init, TypeOK, NoCall, Call, Larger

\* Every operation keeps the types.
LEMMA TypeStep == TypeOK /\ [Next]_vars => TypeOK'
<1> SUFFICES ASSUME TypeOK, [Next]_vars PROVE TypeOK'
  BY Zenon
<1>1. ASSUME NEW c \in Callers, NEW w \in Weights, Wait(c, w) PROVE TypeOK'
  BY <1>1, LimiterAssumption, Zenon DEF Wait, TypeOK, Call
<1>2. ASSUME NEW c \in Callers, Reserve(c) PROVE TypeOK'
  <2> DEFINE w == calls[c].weight
  <2>1. w \in Weights \cup {0}
    BY Zenon DEF TypeOK, Call
  <2> HIDE DEF w
  <2>2. PICK jitter \in Jitters :
          SleepOrReturn(c, Charge(w), IF Delay(w) = 0 THEN jitter ELSE Delay(w))
    BY <1>2, ReserveShape, Zenon DEF w
  <2>3. calls' \in [Callers -> Call] /\ credit' \in [second : Int, minute : Int]
    <3>1. (IF Delay(w) = 0 THEN jitter ELSE Delay(w)) \in Nat
      BY <2>1, ReserveTypes, LimiterAssumption, Zenon
    <3>2. Charge(w) \in Nat
      BY <2>1, ReserveTypes, Zenon
    <3> QED BY <2>2, <3>1, <3>2, SleepOrReturnTypes, Zenon
  <2>4. burst' = RaiseBurst(w) /\ second' = S(w) - Charge(w) /\ minute' = M(w) - Charge(w)
        /\ idle' = 0
    BY <1>2, ReserveShape, Zenon DEF w
  <2>5. burst' \in Weights \cup {Burst} /\ second' \in 0..burst'
    BY <2>1, <2>4, ReserveTypes
  <2>6. minute' \in 0..Larger(MinuteBurst, burst')
    <3>1. Larger(MinuteBurst, RaiseBurst(w)) \in Nat
      BY <2>1, ReserveTypes, LimiterAssumption, Zenon DEF Larger
    <3> QED BY <2>1, <2>4, <3>1, ReserveTypes
  <2>7. idle' \in 0..FullAfter
    BY <2>4, LimiterAssumption
  <2> QED BY <2>3, <2>5, <2>6, <2>7, Zenon DEF TypeOK
<1>3. ASSUME NEW c \in Callers, Cancel(c) PROVE TypeOK'
  BY <1>3, Zenon DEF Cancel, TypeOK, NoCall, Call
<1>4. CASE Tick
  <2>1. idle' \in 0..FullAfter
    BY <1>4, LimiterAssumption DEF Tick, TypeOK, Smaller
  <2>2. calls' \in [Callers -> Call]
    <3> DEFINE woken(c) == [calls[c] EXCEPT !.sleep = IF @ > 0 THEN @ - 1 ELSE 0]
    <3>1. ASSUME NEW c \in Callers PROVE woken(c) \in Call
      <4>1. calls[c] \in Call
        BY Zenon DEF TypeOK
      <4>2. (IF calls[c].sleep > 0 THEN calls[c].sleep - 1 ELSE 0) \in Nat
        BY <4>1 DEF Call
      <4> QED BY <4>1, <4>2, Zenon DEF Call
    <3>2. calls' = [c \in Callers |-> woken(c)]
      BY <1>4, Zenon DEF Tick
    <3> HIDE DEF woken
    <3> QED BY <3>1, <3>2, Zenon
  <2>3. credit' \in [second : Int, minute : Int]
    BY <1>4, LimiterAssumption, CapacityType DEF Tick, TypeOK, Smaller
  <2> QED BY <1>4, <2>1, <2>2, <2>3, Zenon DEF Tick, TypeOK
<1>5. CASE UNCHANGED vars
  BY <1>5, Zenon DEF vars, TypeOK
<1> QED BY <1>1, <1>2, <1>3, <1>4, <1>5, Zenon DEF Next

\* For every budget, jitter and mix of weights the buckets stay between nothing
\* and their capacity: reserve never takes what is not there.
THEOREM LimiterTypeCorrect == Spec => []TypeOK
  BY TypeInit, TypeStep, PTL DEF Spec

-----------------------------------------------------------------------------
(* The budget of the collector service: RequestsPerMinute is derived as 60   *)
(* times RequestsPerSecond.  Counted in what a nanosecond refills, both rates *)
(* are 1 and no delay is truncated where RequestsPerSecond divides 10^9, as   *)
(* its default of 5 does.  The jitter is any, as is the wired one of up to    *)
(* 100 ms.                                                                    *)

Derived == Rate = 1 /\ MinuteRate = 1

\* A lazy bucket is never ahead of the ideal one: what it would hold after a
\* refill now, up to the capacity, the ideal bucket holds.
Behind ==
    /\ credit.second >= Smaller(Capacity, second + idle)
    /\ credit.minute >= Smaller(MinuteCapacity, minute + idle)

\* A call that is through has taken its weight, at least once.
AdmittedIsCharged ==
    \A c \in Callers : calls[c].phase = "admitted" => calls[c].charged >= calls[c].weight

\* reserve lets a call through exactly when it charges it.
LEMMA DelayIffShort ==
    ASSUME Derived, TypeOK, NEW w \in Weights \cup {0}
    PROVE  Delay(w) = 0 <=> Enough(w)
<1>1. w \in Nat /\ S(w) \in Nat /\ M(w) \in Nat
  <2>1. w \in Nat
    BY LimiterAssumption
  <2>2. RaiseBurst(w) \in Nat /\ S(w) \in 0..RaiseBurst(w)
    BY ReserveTypes, Zenon
  <2>3. M(w) \in 0..Larger(MinuteBurst, RaiseBurst(w))
    BY ReserveTypes, Zenon
  <2>4. Larger(MinuteBurst, RaiseBurst(w)) \in Nat
    BY <2>2, LimiterAssumption, Zenon DEF Larger
  <2> QED BY <2>1, <2>2, <2>3, <2>4
<1>2. ASSUME NEW n \in Int PROVE DelayFor(n, 1) = IF n <= 0 THEN 0 ELSE n
  BY DEF DelayFor
<1>3. w - S(w) \in Int /\ w - M(w) \in Int
  BY <1>1
<1>4. DelayFor(w - S(w), Rate) = (IF w - S(w) <= 0 THEN 0 ELSE w - S(w))
  BY <1>2, <1>3, Zenon DEF Derived
<1>5. DelayFor(w - M(w), MinuteRate) = (IF w - M(w) <= 0 THEN 0 ELSE w - M(w))
  BY <1>2, <1>3, Zenon DEF Derived
<1> QED BY <1>1, <1>4, <1>5 DEF Delay, Enough, Larger

\* A reserve returns only when it has charged its caller, and may charge one that
\* it sends to sleep for the jitter.
LEMMA ReserveDerived ==
    ASSUME Derived, TypeOK, NEW c \in Callers, Reserve(c)
    PROVE  LET w == calls[c].weight
           IN  \E waitFor \in Nat : SleepOrReturn(c, Charge(w), waitFor) /\ (waitFor = 0 => Enough(w))
<1> DEFINE w == calls[c].weight
<1>1. w \in Weights \cup {0}
  BY Zenon DEF TypeOK, Call
<1>2. PICK jitter \in Jitters :
        SleepOrReturn(c, Charge(w), IF Delay(w) = 0 THEN jitter ELSE Delay(w))
  BY ReserveShape, Zenon
<1>3. Delay(w) = 0 => Enough(w)
  BY <1>1, DelayIffShort, Zenon
<1>4. Delay(w) \in Nat /\ jitter \in Nat
  BY <1>1, ReserveTypes, LimiterAssumption, Zenon
<1> DEFINE waitFor == IF Delay(w) = 0 THEN jitter ELSE Delay(w)
<1>5. waitFor \in Nat /\ (waitFor = 0 => Enough(w)) /\ SleepOrReturn(c, Charge(w), waitFor)
  BY <1>2, <1>3, <1>4, Zenon
<1> QED BY <1>5, Zenon

LInv == TypeOK /\ Behind /\ AdmittedIsCharged

\* A new limiter satisfies the invariant.
LEMMA DerivedInit == Derived /\ Init => LInv
<1> SUFFICES ASSUME Derived, Init PROVE LInv
  BY Zenon
<1>1. Behind
  <2>1. Capacity >= Burst /\ MinuteCapacity >= Larger(MinuteBurst, Burst)
    BY CapacityIsMax, CapacityType, LimiterAssumption DEF MinuteCapacity, Larger
  <2>2. Larger(MinuteBurst, Burst) \in Nat
    BY LimiterAssumption, Zenon DEF Larger
  <2> QED BY <2>1, <2>2, CapacityType, LimiterAssumption DEF Init, Behind, Smaller
<1>2. AdmittedIsCharged
  BY Zenon DEF Init, AdmittedIsCharged, NoCall
<1> QED BY <1>1, <1>2, TypeInit, Zenon DEF LInv

\* Every operation keeps the invariant.
LEMMA DerivedStep == Derived /\ LInv /\ [Next]_vars => LInv'
<1> SUFFICES ASSUME Derived, LInv, [Next]_vars PROVE LInv'
  BY Zenon
<1>0. TypeOK'
  BY TypeStep, Zenon DEF LInv
<1>1. ASSUME NEW c \in Callers, NEW w \in Weights, Wait(c, w) PROVE Behind' /\ AdmittedIsCharged'
  <2>1. Behind'
    BY <1>1, Zenon DEF Wait, LInv, Behind
  <2>2. AdmittedIsCharged'
    BY <1>1, Zenon DEF Wait, LInv, AdmittedIsCharged, TypeOK
  <2> QED BY <2>1, <2>2, Zenon
<1>2. ASSUME NEW c \in Callers, Reserve(c) PROVE Behind' /\ AdmittedIsCharged'
  <2> DEFINE w == calls[c].weight
  <2>1. w \in Weights \cup {0} /\ calls[c] \in Call /\ calls[c].phase = "waiting"
    BY <1>2, Zenon DEF LInv, TypeOK, Call, Reserve
  <2>2. PICK waitFor \in Nat : SleepOrReturn(c, Charge(w), waitFor) /\ (waitFor = 0 => Enough(w))
    BY <1>2, ReserveDerived, Zenon DEF LInv
  <2>3. second' = S(w) - Charge(w) /\ minute' = M(w) - Charge(w) /\ idle' = 0
    BY <1>2, ReserveShape, Zenon
  <2>5. w \in Nat /\ Charge(w) \in Nat /\ S(w) \in Nat /\ M(w) \in Nat
    <3>1. RaiseBurst(w) \in Nat /\ S(w) \in 0..RaiseBurst(w) /\ Charge(w) \in Nat
      BY <2>1, ReserveTypes, Zenon DEF LInv
    <3>2. M(w) \in 0..Larger(MinuteBurst, RaiseBurst(w))
      BY <2>1, ReserveTypes, Zenon DEF LInv
    <3>3. Larger(MinuteBurst, RaiseBurst(w)) \in Nat
      BY <3>1, LimiterAssumption, Zenon DEF Larger
    <3> QED BY <2>1, <3>1, <3>2, <3>3, WeightIsNat
  <2>6. AdmittedIsCharged'
    <3>1. \A d \in Callers \ {c} : calls'[d] = calls[d]
      BY <2>2, Zenon DEF SleepOrReturn, LInv, TypeOK
    <3>2. calls'[c].weight = w /\ calls'[c].charged = calls[c].charged + Charge(w)
          /\ (calls'[c].phase = "admitted" => waitFor = 0)
      BY <2>1, <2>2 DEF SleepOrReturn, LInv, TypeOK, Call
    <3>3. calls'[c].phase = "admitted" => Charge(w) = w
      BY <2>2, <3>2, Zenon DEF Charge
    <3>4. calls[c].charged \in Nat
      BY <2>1, Zenon DEF Call
    <3>5. calls'[c].phase = "admitted" => calls'[c].charged >= calls'[c].weight
      BY <2>5, <3>2, <3>3, <3>4
    <3> QED BY <3>1, <3>5, Zenon DEF LInv, AdmittedIsCharged
  <2>7. Behind'
    <3>1. RaiseBurst(w) \in Nat /\ RaiseBurst(w) <= Capacity
      BY <2>1, ReserveTypes, CapacityIsMax, CapacityType, Zenon DEF LInv
    <3>2. Larger(MinuteBurst, RaiseBurst(w)) \in Nat
          /\ Larger(MinuteBurst, RaiseBurst(w)) <= MinuteCapacity
      BY <3>1, CapacityType, LimiterAssumption DEF Larger, MinuteCapacity
    <3>3. second \in Nat /\ minute \in Nat /\ idle \in Nat
          /\ credit.second \in Int /\ credit.minute \in Int
      BY LimiterAssumption DEF LInv, TypeOK, Larger
    <3>4. S(w) = Smaller(RaiseBurst(w), second + idle)
          /\ M(w) = Smaller(Larger(MinuteBurst, RaiseBurst(w)), minute + idle)
      BY <3>3 DEF S, M, Refill, Derived
    <3>5. credit.second >= S(w) /\ credit.minute >= M(w)
      BY <3>1, <3>2, <3>3, <3>4, CapacityType DEF LInv, Behind, Smaller
    <3>6. credit.second' >= S(w) - Charge(w) /\ credit.minute' >= M(w) - Charge(w)
      <4>1. CASE waitFor = 0
        <5>1. credit' = [second |-> credit.second - w, minute |-> credit.minute - w]
          BY <2>2, <4>1, Zenon DEF SleepOrReturn
        <5>2. Charge(w) = w
          BY <2>2, <4>1, Zenon DEF Charge
        <5>3. credit.second' = credit.second - w /\ credit.minute' = credit.minute - w
          BY <5>1
        <5> HIDE DEF Charge, S, M
        <5> QED BY <2>5, <3>3, <3>5, <5>2, <5>3
      <4>2. CASE waitFor # 0
        <5>1. credit' = credit
          BY <2>2, <4>2, Zenon DEF SleepOrReturn
        <5> QED BY <2>5, <3>3, <3>5, <5>1
      <4> QED BY <4>1, <4>2, Zenon
    <3>7. credit.second' \in Int /\ credit.minute' \in Int
      BY <1>0 DEF TypeOK
    <3> DEFINE s == S(w) - Charge(w)
               m == M(w) - Charge(w)
    <3>8. s \in Int /\ m \in Int /\ second' + idle' = s /\ minute' + idle' = m
      BY <2>3, <2>5
    <3>9. credit.second' >= s /\ credit.minute' >= m
      BY <3>6, Zenon
    <3> HIDE DEF s, m
    <3> QED BY <3>7, <3>8, <3>9, CapacityType DEF Behind, Smaller
  <2> QED BY <2>6, <2>7, Zenon
<1>3. ASSUME NEW c \in Callers, Cancel(c) PROVE Behind' /\ AdmittedIsCharged'
  <2>1. Behind'
    BY <1>3, Zenon DEF Cancel, LInv, Behind
  <2>2. AdmittedIsCharged'
    BY <1>3, Zenon DEF Cancel, LInv, AdmittedIsCharged, TypeOK, NoCall
  <2> QED BY <2>1, <2>2, Zenon
<1>4. ASSUME Tick PROVE Behind' /\ AdmittedIsCharged'
  <2>1. AdmittedIsCharged'
    BY <1>4 DEF Tick, LInv, AdmittedIsCharged, TypeOK, Call
  <2>2. second \in Nat /\ minute \in Nat /\ idle \in 0..FullAfter
        /\ credit.second \in Int /\ credit.minute \in Int
    BY LimiterAssumption DEF LInv, TypeOK, Larger
  <2>3. FullAfter \in Nat /\ FullAfter >= Capacity /\ FullAfter >= MinuteCapacity
    BY CapacityIsMax, CapacityType, LimiterAssumption DEF Derived, MinuteCapacity, Larger
  <2>4. credit.second' = Smaller(credit.second + 1, Capacity)
        /\ credit.minute' = Smaller(credit.minute + 1, MinuteCapacity)
        /\ idle' = Smaller(idle + 1, FullAfter) /\ second' = second /\ minute' = minute
    BY <1>4, Zenon DEF Tick, Derived
  <2>5. Behind'
    BY <2>2, <2>3, <2>4, CapacityType DEF LInv, Behind, Smaller
  <2> QED BY <2>1, <2>5, Zenon
<1>5. ASSUME UNCHANGED vars PROVE Behind' /\ AdmittedIsCharged'
  BY <1>5, Zenon DEF vars, LInv, Behind, AdmittedIsCharged
<1> QED BY <1>0, <1>1, <1>2, <1>3, <1>4, <1>5, Zenon DEF Next, LInv

\* Lazy refills under a burst that heavy requests raise admit no more than an
\* ideal token bucket, for any callers, weights, burst and minute budget, and for
\* any jitter: the rounds it adds to Wait take tokens but admit nobody.
THEOREM LimiterNeverOverdrawn ==
    ASSUME Derived
    PROVE  Spec => []NeverOverdrawn
<1>1. LInv => NeverOverdrawn
  <2> SUFFICES ASSUME LInv PROVE NeverOverdrawn
    BY Zenon
  <2>1. second \in Nat /\ minute \in Nat /\ idle \in Nat
        /\ credit.second \in Int /\ credit.minute \in Int
    BY LimiterAssumption DEF LInv, TypeOK, Larger
  <2> QED BY <2>1, CapacityType DEF LInv, Behind, Smaller, NeverOverdrawn
<1>2. Init => LInv
  BY DerivedInit, Zenon
<1>3. LInv /\ [Next]_vars => LInv'
  BY DerivedStep, Zenon
<1> QED BY <1>1, <1>2, <1>3, PTL DEF Spec

\* No call gets out of Wait without having taken its weight, whatever the jitter;
\* that it takes it only once does not hold with the wired one (limiter.go:66-95).
THEOREM LimiterAdmitsCharged ==
    ASSUME Derived
    PROVE  Spec => []AdmittedIsCharged
<1>1. LInv => AdmittedIsCharged
  BY Zenon DEF LInv
<1>2. Init => LInv
  BY DerivedInit, Zenon
<1>3. LInv /\ [Next]_vars => LInv'
  BY DerivedStep, Zenon
<1> QED BY <1>1, <1>2, <1>3, PTL DEF Spec
=============================================================================
