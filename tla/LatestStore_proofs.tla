------------------------- MODULE LatestStore_proofs -------------------------
(***************************************************************************)
(* Proofs about LatestStore for any processes, names, TTL and maximal age. *)
(***************************************************************************)
EXTENDS LatestStore, TLAPS

StoreKeys == {LatestKey(n) : n \in Names} \ {NoKey}

\* An item was received in the past, and expires its store's TTL later.
ItemsOK(store, ttl) ==
    \A k \in DOMAIN store :
       /\ k \in StoreKeys
       /\ store[k].event.received \in Start..clock
       /\ store[k].expiresAt = IF LatestTTL > 0 THEN store[k].event.received + ttl ELSE 0

Clocks ==
    /\ clock \in Start..(Start + MaxClock) /\ calmSince \in 0..clock
    /\ \A i \in DOMAIN lastWrite : lastWrite[i].received \in Start..clock

ItemsAreOK ==
    /\ ItemsOK(redis, redisTTL(LatestTTL))
    /\ \A p \in Procs : ItemsOK(memory[p], LatestTTL)
    /\ DOMAIN memory = Procs

\* A process's own memory is written only when Redis fails, so that while Redis
\* answers, what a memory holds is older than the last trouble.
MemoryIsOld ==
    up => \A p \in Procs : \A k \in DOMAIN memory[p] : memory[p][k].event.received <= calmSince

\* While Redis answers, what it holds of an instrument is the last event written,
\* or is older than the last trouble.
RedisHasLastOrOld ==
    \A n \in Names :
       LatestKey(n) \in DOMAIN redis /\ LatestKey(n) # NoKey =>
          /\ Instrument(n) \in DOMAIN lastWrite
          /\ up => \/ redis[LatestKey(n)].event = lastWrite[Instrument(n)]
                   \/ redis[LatestKey(n)].event.received <= calmSince

\* While Redis answers, it holds the last event written of an instrument, unless
\* that event is older than the last trouble.
LastIsInRedisOrOld ==
    \A n \in Names :
       up /\ LatestKey(n) # NoKey /\ Instrument(n) \in DOMAIN lastWrite =>
          \/ lastWrite[Instrument(n)].received <= calmSince
          \/ /\ LatestKey(n) \in DOMAIN redis
             /\ redis[LatestKey(n)].event = lastWrite[Instrument(n)]

\* What a read served was alive, and in calm times is the last event written.
ReplyIsAlive ==
    Served =>
       /\ reply.at = clock /\ reply.event.received \in Start..clock
       /\ LatestTTL > 0 => clock - reply.event.received < MaxTTL
       /\ LatestTTL > 0 /\ up /\ clock >= calmSince + MaxTTL => reply.event = lastWrite[reply.of]

ResolverOK ==
    resolver \in [Procs -> [pc : {"idle"}] \cup [pc : {"rest"}, name : Names]
                           \cup [pc : {"fetched"}, name : Names, time : 0..clock]]

StoreInv ==
    /\ Clocks /\ up \in BOOLEAN /\ ItemsAreOK /\ ResolverOK
    /\ MemoryIsOld /\ RedisHasLastOrOld /\ LastIsInRedisOrOld /\ ReplyIsAlive

-----------------------------------------------------------------------------
\* The larger of two numbers.
LEMMA MaxOfTwo ==
    ASSUME NEW a \in Int, NEW b \in Int
    PROVE  Max({a, b}) \in {a, b} /\ Max({a, b}) >= a /\ Max({a, b}) >= b
<1>1. \E x \in {a, b} : \A y \in {a, b} : x >= y
  OBVIOUS
<1> QED BY <1>1, Zenon DEF Max

\* Redis keeps an event for at least its TTL, and for at least a second.
LEMMA TTLs ==
    ASSUME LatestStoreAssumption
    PROVE  /\ redisTTL(LatestTTL) \in Nat /\ redisTTL(LatestTTL) >= 2
           /\ MaxTTL \in Nat /\ MaxTTL >= LatestTTL /\ MaxTTL >= redisTTL(LatestTTL)
<1>1. LatestTTL \in Nat
  BY Zenon DEF LatestStoreAssumption
<1>2. 2 * ((LatestTTL + 1) \div 2) \in Nat
  BY <1>1
<1>3. redisTTL(LatestTTL) \in Nat /\ redisTTL(LatestTTL) >= 2
  <2> DEFINE seconds == 2 * ((LatestTTL + 1) \div 2)
  <2>1. seconds \in Nat /\ redisTTL(LatestTTL) = Max({2, seconds})
    BY <1>2, Zenon DEF redisTTL
  <2> HIDE DEF seconds
  <2>2. Max({2, seconds}) \in {2, seconds} /\ Max({2, seconds}) >= 2
    BY <2>1, MaxOfTwo
  <2> QED BY <2>1, <2>2
<1>4. MaxTTL \in {LatestTTL, redisTTL(LatestTTL)} /\ MaxTTL >= LatestTTL /\ MaxTTL >= redisTTL(LatestTTL)
  <2> DEFINE seconds == redisTTL(LatestTTL)
  <2>1. seconds \in Nat /\ MaxTTL = Max({LatestTTL, seconds})
    BY <1>3, Zenon DEF MaxTTL
  <2> HIDE DEF seconds
  <2>2. MaxTTL \in {LatestTTL, seconds} /\ MaxTTL >= LatestTTL /\ MaxTTL >= seconds
    BY <1>1, <2>1, MaxOfTwo
  <2> QED BY <2>2, Zenon DEF seconds
<1> QED BY <1>1, <1>3, <1>4, Zenon

\* A key says what it is the key of: requests for one instrument have one key.
LEMMA OneKeyPerInstrument ==
    ASSUME NEW m \in Names, NEW n \in Names, Instrument(m) = Instrument(n)
    PROVE  LatestKey(m) = LatestKey(n)
<1>1. /\ m.symbolID = n.symbolID /\ Lower[m.kind] = Lower[n.kind]
      /\ Lower[m.exchange] = Lower[n.exchange] /\ Upper[m.sourceSymbol] = Upper[n.sourceSymbol]
  BY Zenon DEF Instrument
<1> QED BY <1>1, Zenon DEF LatestKey, normalizeExchange, normalizeSourceSymbol

\* An item put into a store is in order, and so is the rest of it.
LEMMA PutKeepsItems ==
    ASSUME LatestStoreAssumption, Clocks, NEW store, NEW key \in StoreKeys, NEW item, NEW ttl \in Nat,
           ItemsOK(store, ttl), item.event.received = clock,
           item.expiresAt = IF LatestTTL > 0 THEN clock + ttl ELSE 0
    PROVE  ItemsOK(Put(store, key, item), ttl)
  BY DEF ItemsOK, Put, Clocks, LatestStoreAssumption, Start

\* No item that is alive has been there for its store's TTL.
LEMMA AliveIsYoung ==
    ASSUME LatestStoreAssumption, Clocks, NEW store, NEW key, NEW ttl \in Nat,
           ItemsOK(store, ttl), Alive(store, key)
    PROVE  /\ store[key].event.received \in Start..clock
           /\ LatestTTL > 0 => clock - store[key].event.received < ttl
<1>1. key \in DOMAIN store /\ store[key].event.received \in Start..clock /\ clock \in Nat
  BY DEF Alive, ItemsOK, Clocks, LatestStoreAssumption, Start
<1>2. LatestTTL > 0 => store[key].expiresAt = store[key].event.received + ttl
  BY <1>1, Zenon DEF ItemsOK
<1>3. LatestTTL > 0 => store[key].expiresAt # 0
  BY <1>1, <1>2 DEF Start
<1> QED BY <1>1, <1>2, <1>3 DEF Alive

-----------------------------------------------------------------------------
(* Writes.                                                                 *)

\* A write, timed out or not, in an outage or not, leaves the stores in order:
\* Redis holds the new event, or the time of trouble is now.
LEMMA StoreWriteKeeps ==
    ASSUME LatestStoreAssumption, StoreInv,
           NEW p \in Procs, NEW name \in Names, NEW t, NEW timedOut \in BOOLEAN,
           WriteEvent(p, name, t, timedOut), UNCHANGED <<clock, up>>
    PROVE  /\ Clocks' /\ ItemsAreOK'
           /\ MemoryIsOld' /\ RedisHasLastOrOld' /\ LastIsInRedisOrOld'
<1> DEFINE key == LatestKey(name)
           event == [time |-> IF t = 0 THEN clock ELSE t, received |-> clock]
           item == redisItem(event)
           own == memoryItem(event)
<1>1. clock \in Nat /\ calmSince \in 0..clock /\ clock >= Start
  BY DEF StoreInv, Clocks, LatestStoreAssumption, Start
<1>2. calmSince' \in {calmSince, clock} /\ (timedOut => up /\ calmSince' = clock)
  BY Zenon DEF WriteEvent, Timing
<1>3. calmSince' \in 0..clock /\ calmSince' >= calmSince
  BY <1>1, <1>2
<1>4. CASE key = NoKey
  <2>1. UNCHANGED <<redis, memory, lastWrite, clock, up>>
    BY <1>4, Zenon DEF WriteEvent, stores
  <2>2. Clocks' /\ ItemsAreOK'
    BY <1>3, <2>1, Zenon DEF StoreInv, Clocks, ItemsAreOK, ItemsOK
  <2>3. MemoryIsOld'
    BY <1>1, <1>3, <2>1 DEF StoreInv, MemoryIsOld, ItemsAreOK, ItemsOK, Start
  <2>4. RedisHasLastOrOld'
    BY <1>1, <1>3, <2>1 DEF StoreInv, RedisHasLastOrOld, ItemsAreOK, ItemsOK, Start
  <2>5. LastIsInRedisOrOld'
    BY <1>1, <1>3, <2>1 DEF StoreInv, LastIsInRedisOrOld, Clocks, Start
  <2> QED BY <2>2, <2>3, <2>4, <2>5, Zenon
<1>5. CASE key # NoKey
  <2>1. /\ lastWrite' = Put(lastWrite, Instrument(name), event)
        /\ \/ up /\ redis' = Put(redis, key, item) /\ UNCHANGED memory
           \/ /\ up /\ calmSince' = clock
              /\ redis' \in {redis, Put(redis, key, item)}
              /\ memory' \in {memory, [memory EXCEPT ![p] = Put(memory[p], key, own)]}
           \/ /\ ~up /\ UNCHANGED redis
              /\ memory' \in {memory, [memory EXCEPT ![p] = Put(memory[p], key, own)]}
    BY <1>2, <1>5, Zenon DEF WriteEvent, SetRaw
  <2>2. /\ event.received = clock /\ item.event = event /\ own.event = event
        /\ item.expiresAt = IF LatestTTL > 0 THEN clock + redisTTL(LatestTTL) ELSE 0
        /\ own.expiresAt = IF LatestTTL > 0 THEN clock + LatestTTL ELSE 0
    BY Zenon DEF redisItem, memoryItem
  <2>3. key \in StoreKeys /\ redisTTL(LatestTTL) \in Nat /\ LatestTTL \in Nat
    BY <1>5, TTLs, Zenon DEF StoreKeys, LatestStoreAssumption
  <2> HIDE DEF key, event, item, own
  <2>4. Clocks'
    BY <1>1, <1>3, <2>1, <2>2 DEF StoreInv, Clocks, Put
  <2>5. ItemsAreOK'
    <3>1. ItemsOK(Put(redis, key, item), redisTTL(LatestTTL)) /\ ItemsOK(Put(memory[p], key, own), LatestTTL)
      BY <2>2, <2>3, PutKeepsItems, Zenon DEF StoreInv, ItemsAreOK
    <3>2. redis' \in {redis, Put(redis, key, item)}
          /\ memory' \in {memory, [memory EXCEPT ![p] = Put(memory[p], key, own)]}
      BY <2>1, Zenon
    <3>3. ItemsOK(redis', redisTTL(LatestTTL)) /\ \A q \in Procs : ItemsOK(memory'[q], LatestTTL)
      BY <3>1, <3>2, Zenon DEF StoreInv, ItemsAreOK
    <3>4. DOMAIN memory' = Procs
      BY <3>2, Zenon DEF StoreInv, ItemsAreOK
    <3> QED BY <3>3, <3>4, Zenon DEF ItemsAreOK, ItemsOK
  <2>6. MemoryIsOld'
    <3>1. up => calmSince' = clock \/ UNCHANGED memory
      BY <2>1, Zenon
    <3>2. up' => calmSince' = clock \/ UNCHANGED memory
      BY <3>1, Zenon
    <3> QED BY <1>1, <1>3, <2>5, <3>2 DEF StoreInv, MemoryIsOld, ItemsAreOK, ItemsOK, Start
  <2>7. ASSUME NEW n \in Names, LatestKey(n) # NoKey
        PROVE  \/ LatestKey(n) = key /\ Instrument(n) = Instrument(name)
               \/ LatestKey(n) # key /\ Instrument(n) # Instrument(name)
    BY <2>7, OneKeyPerInstrument, Zenon DEF LatestStoreAssumption, key
  <2>8. Instrument(name) \in DOMAIN lastWrite' /\ lastWrite'[Instrument(name)] = event
    BY <2>1, Zenon DEF Put
  <2>9. ASSUME NEW i, i # Instrument(name)
        PROVE  /\ i \in DOMAIN lastWrite' <=> i \in DOMAIN lastWrite
               /\ i \in DOMAIN lastWrite => lastWrite'[i] = lastWrite[i]
    BY <2>1, <2>9, Zenon DEF Put
  <2>10. ASSUME NEW k, k # key
         PROVE  /\ k \in DOMAIN redis' <=> k \in DOMAIN redis
                /\ k \in DOMAIN redis => redis'[k] = redis[k]
    BY <2>1, <2>10, Zenon DEF Put
  <2>11. up => \/ key \in DOMAIN redis' /\ redis'[key].event = event
               \/ calmSince' = clock
    BY <2>1, <2>2, Zenon DEF Put
  <2>12. RedisHasLastOrOld'
    <3> SUFFICES ASSUME NEW n \in Names, LatestKey(n) \in DOMAIN redis', LatestKey(n) # NoKey
                 PROVE  /\ Instrument(n) \in DOMAIN lastWrite'
                        /\ up => \/ redis'[LatestKey(n)].event = lastWrite'[Instrument(n)]
                                 \/ redis'[LatestKey(n)].event.received <= calmSince'
      BY Zenon DEF RedisHasLastOrOld
    <3>1. CASE LatestKey(n) = key /\ Instrument(n) = Instrument(name)
      <4>1. redis'[key].event.received <= clock
        BY <1>1, <2>5, <3>1, SMTT(30) DEF ItemsAreOK, ItemsOK, Start
      <4> QED BY <2>8, <2>11, <3>1, <4>1, Zenon
    <3>2. CASE LatestKey(n) # key /\ Instrument(n) # Instrument(name)
      <4>1. LatestKey(n) \in DOMAIN redis /\ redis'[LatestKey(n)] = redis[LatestKey(n)]
        BY <2>10, <3>2, Zenon
      <4>2. redis[LatestKey(n)].event.received \in Nat
        BY <4>1 DEF StoreInv, ItemsAreOK, ItemsOK, Start
      <4> QED BY <1>1, <1>3, <2>9, <3>2, <4>1, <4>2, SMTT(30) DEF StoreInv, RedisHasLastOrOld
    <3> QED BY <2>7, <3>1, <3>2, Zenon
  <2>13. LastIsInRedisOrOld'
    <3> SUFFICES ASSUME NEW n \in Names, up, LatestKey(n) # NoKey, Instrument(n) \in DOMAIN lastWrite'
                 PROVE  \/ lastWrite'[Instrument(n)].received <= calmSince'
                        \/ /\ LatestKey(n) \in DOMAIN redis'
                           /\ redis'[LatestKey(n)].event = lastWrite'[Instrument(n)]
      BY Zenon DEF LastIsInRedisOrOld
    <3>1. CASE LatestKey(n) = key /\ Instrument(n) = Instrument(name)
      BY <1>1, <2>2, <2>8, <2>11, <3>1
    <3>2. CASE LatestKey(n) # key /\ Instrument(n) # Instrument(name)
      <4>1. Instrument(n) \in DOMAIN lastWrite /\ lastWrite'[Instrument(n)] = lastWrite[Instrument(n)]
        BY <2>9, <3>2, Zenon
      <4>2. lastWrite[Instrument(n)].received \in Nat
        BY <4>1 DEF StoreInv, Clocks, Start
      <4>3. \/ lastWrite[Instrument(n)].received <= calmSince
            \/ /\ LatestKey(n) \in DOMAIN redis
               /\ redis[LatestKey(n)].event = lastWrite[Instrument(n)]
        BY <4>1, Zenon DEF StoreInv, LastIsInRedisOrOld
      <4> QED BY <1>1, <1>3, <2>10, <3>2, <4>1, <4>2, <4>3, SMTT(30)
    <3> QED BY <2>7, <3>1, <3>2, Zenon
  <2> QED BY <2>4, <2>5, <2>6, <2>12, <2>13, Zenon
<1> QED BY <1>4, <1>5, Zenon

-----------------------------------------------------------------------------
(* Reads, and the rest.                                                    *)

\* Memory loses a key, or does not.
Purged == \/ UNCHANGED memory
          \/ \E p \in Procs : \E key : memory' = [memory EXCEPT ![p] = Drop(memory[p], key)]

\* A step that writes nothing keeps the stores in order.
LEMMA StoreReadKeeps ==
    ASSUME LatestStoreAssumption, StoreInv, UNCHANGED <<redis, lastWrite>>, Purged, up' => up,
           clock' \in clock..(Start + MaxClock), calmSince' \in calmSince..clock
    PROVE  /\ Clocks' /\ ItemsAreOK'
           /\ MemoryIsOld' /\ RedisHasLastOrOld' /\ LastIsInRedisOrOld'
<1>1. clock \in Nat /\ calmSince \in 0..clock /\ clock >= Start /\ MaxClock \in Nat
      /\ clock' \in Nat /\ clock' >= clock /\ calmSince' \in Nat /\ calmSince' >= calmSince
  BY DEF StoreInv, Clocks, LatestStoreAssumption, Start
<1>2. /\ DOMAIN memory' = Procs
      /\ \A q \in Procs : \A k \in DOMAIN memory'[q] :
            k \in DOMAIN memory[q] /\ memory'[q][k] = memory[q][k]
  <2>0. DOMAIN memory = Procs
    BY Zenon DEF StoreInv, ItemsAreOK
  <2>1. CASE UNCHANGED memory
    BY <2>0, <2>1, Zenon
  <2>2. ASSUME NEW p \in Procs, NEW key, memory' = [memory EXCEPT ![p] = Drop(memory[p], key)]
        PROVE  /\ DOMAIN memory' = Procs
               /\ \A q \in Procs : \A k \in DOMAIN memory'[q] :
                     k \in DOMAIN memory[q] /\ memory'[q][k] = memory[q][k]
    <3>1. DOMAIN memory' = Procs
      BY <2>0, <2>2, Zenon
    <3>2. \A q \in Procs : memory'[q] = IF q = p THEN Drop(memory[p], key) ELSE memory[q]
      BY <2>0, <2>2, Zenon
    <3>3. \A k \in DOMAIN Drop(memory[p], key) :
             k \in DOMAIN memory[p] /\ Drop(memory[p], key)[k] = memory[p][k]
      BY Zenon DEF Drop
    <3> QED BY <3>1, <3>2, <3>3, Zenon
  <2> QED BY <2>1, <2>2, Zenon DEF Purged
<1>3. Clocks'
  BY <1>1 DEF StoreInv, Clocks, Start
<1>4. ItemsAreOK'
  <2>1. ItemsOK(redis, redisTTL(LatestTTL))'
    BY <1>1 DEF StoreInv, ItemsAreOK, ItemsOK, Start
  <2>2. ASSUME NEW q \in Procs PROVE ItemsOK(memory[q], LatestTTL)'
    BY <1>1, <1>2 DEF StoreInv, ItemsAreOK, ItemsOK, Start
  <2> QED BY <1>2, <2>1, <2>2, Zenon DEF ItemsAreOK
<1>5. MemoryIsOld'
  BY <1>1, <1>2 DEF StoreInv, MemoryIsOld, ItemsAreOK, ItemsOK, Start
<1>6. RedisHasLastOrOld'
  BY <1>1 DEF StoreInv, RedisHasLastOrOld, ItemsAreOK, ItemsOK, Start
<1>7. LastIsInRedisOrOld'
  BY <1>1 DEF StoreInv, LastIsInRedisOrOld, Clocks, Start
<1> QED BY <1>3, <1>4, <1>5, <1>6, <1>7, Zenon

\* What GetRaw finds is younger than the TTL, and in calm times it is the last
\* event written: the memories have nothing left that is alive.
LEMMA FoundIsAlive ==
    ASSUME LatestStoreAssumption, StoreInv, NEW p \in Procs, NEW name \in Names,
           LatestKey(name) # NoKey, NEW timedOut \in BOOLEAN,
           Found(p, LatestKey(name), timedOut)
    PROVE  LET e == Value(p, LatestKey(name), timedOut)
           IN  /\ e.received \in Start..clock
               /\ LatestTTL > 0 => clock - e.received < MaxTTL
               /\ LatestTTL > 0 /\ up /\ clock >= calmSince + MaxTTL => e = lastWrite[Instrument(name)]
<1> DEFINE key == LatestKey(name)
<1>0. clock \in Nat /\ calmSince \in Nat /\ LatestTTL \in Nat
      /\ redisTTL(LatestTTL) \in Nat /\ MaxTTL \in Nat /\ MaxTTL >= LatestTTL /\ MaxTTL >= redisTTL(LatestTTL)
  BY TTLs, SMTT(30) DEF StoreInv, Clocks, LatestStoreAssumption, Start
<1>1. CASE Primary(key, timedOut)
  <2>1. Alive(redis, key) /\ up /\ Value(p, key, timedOut) = redis[key].event
    BY <1>1, Zenon DEF Primary, Value
  <2>2. key \in DOMAIN redis
    BY <2>1, Zenon DEF Alive
  <2>3. /\ redis[key].event.received \in Start..clock
        /\ LatestTTL > 0 => clock - redis[key].event.received < redisTTL(LatestTTL)
    BY <1>0, <2>1, AliveIsYoung, Zenon DEF StoreInv, ItemsAreOK
  <2>4. redis[key].event = lastWrite[Instrument(name)] \/ redis[key].event.received <= calmSince
    BY <2>1, <2>2, Zenon DEF StoreInv, RedisHasLastOrOld
  <2> QED BY <1>0, <2>1, <2>3, <2>4, SMTT(30) DEF Start
<1>2. CASE ~Primary(key, timedOut)
  <2>1. Alive(memory[p], key) /\ Value(p, key, timedOut) = memory[p][key].event
    BY <1>2, Zenon DEF Found, Value
  <2>2. /\ memory[p][key].event.received \in Start..clock
        /\ LatestTTL > 0 => clock - memory[p][key].event.received < LatestTTL
    BY <1>0, <2>1, AliveIsYoung, Zenon DEF StoreInv, ItemsAreOK
  <2>3. up => memory[p][key].event.received <= calmSince
    BY <2>1, Zenon DEF Alive, StoreInv, MemoryIsOld
  <2> QED BY <1>0, <2>1, <2>2, <2>3, SMTT(30) DEF Start
<1> QED BY <1>1, <1>2, Zenon

\* The stores are in order in the beginning.
LEMMA StoreInvInit ==
    ASSUME LatestStoreAssumption
    PROVE  StoreInit => StoreInv
<1> SUFFICES ASSUME StoreInit PROVE StoreInv
  BY Zenon
<1>1. up \in BOOLEAN
  BY Zenon DEF StoreInit
<1>2. Clocks /\ ItemsAreOK
  BY DEF StoreInit, Empty, Clocks, ItemsAreOK, ItemsOK, Start, LatestStoreAssumption
<1>3. ResolverOK
  BY Zenon DEF StoreInit, ResolverOK, Idle
<1>4. MemoryIsOld /\ RedisHasLastOrOld /\ LastIsInRedisOrOld
  BY Zenon DEF StoreInit, Empty, MemoryIsOld, RedisHasLastOrOld, LastIsInRedisOrOld
<1>5. ReplyIsAlive
  BY Zenon DEF StoreInit, ReplyIsAlive, Served, NoReply
<1> QED BY <1>1, <1>2, <1>3, <1>4, <1>5, Zenon DEF StoreInv

\* What a read serves is alive, and a read keeps everything else in order.
LEMMA StoreAnswerKeeps ==
    ASSUME LatestStoreAssumption, StoreInv, NEW p \in Procs, NEW name \in Names,
           LatestKey(name) # NoKey, NEW timedOut \in BOOLEAN, NEW source,
           Found(p, LatestKey(name), timedOut),
           Answer(source, name, Value(p, LatestKey(name), timedOut)),
           UNCHANGED <<clock, up, lastWrite>>, calmSince' \in calmSince..clock
    PROVE  ReplyIsAlive'
<1> DEFINE e == Value(p, LatestKey(name), timedOut)
<1>1. /\ e.received \in Start..clock
      /\ LatestTTL > 0 => clock - e.received < MaxTTL
      /\ LatestTTL > 0 /\ up /\ clock >= calmSince + MaxTTL => e = lastWrite[Instrument(name)]
  BY FoundIsAlive, Zenon
<1>2. reply'.at = clock /\ reply'.of = Instrument(name) /\ reply'.event = e
  BY Zenon DEF Answer
<1>3. clock \in Nat /\ calmSince \in Nat /\ MaxTTL \in Nat /\ calmSince' \in Nat /\ calmSince' >= calmSince
  BY TTLs, SMTT(30) DEF StoreInv, Clocks, LatestStoreAssumption, Start
<1> HIDE DEF e
<1>4. clock >= calmSince' + MaxTTL => clock >= calmSince + MaxTTL
  <2>1. \A a, b, c, d \in Nat : a <= b /\ d >= b + c => d >= a + c
    OBVIOUS
  <2> QED BY <1>3, <2>1, Zenon
<1>5. MaxTTL' = MaxTTL
  BY Zenon DEF MaxTTL, redisTTL
<1> QED BY <1>1, <1>2, <1>4, <1>5, Zenon DEF ReplyIsAlive

\* A reply stays true while nothing is written and no time passes.
LEMMA ReplyStays ==
    ASSUME LatestStoreAssumption, StoreInv, UNCHANGED <<clock, reply, lastWrite>>,
           \/ ~up'
           \/ calmSince' = clock
           \/ UNCHANGED <<up, calmSince>>
    PROVE  ReplyIsAlive'
<1>1. clock \in Nat /\ MaxTTL \in Nat /\ MaxTTL >= 2
  BY TTLs DEF StoreInv, Clocks, LatestStoreAssumption, Start
<1>2. MaxTTL' = MaxTTL /\ Served' = Served
  BY Zenon DEF MaxTTL, redisTTL, Served
<1> QED BY <1>1, <1>2 DEF StoreInv, ReplyIsAlive

\* Every step of every process, and whatever happens to Redis, keeps it.
LEMMA StoreInvStep ==
    ASSUME LatestStoreAssumption
    PROVE  StoreInv /\ [StoreNext]_storeVars => StoreInv'
<1> SUFFICES ASSUME StoreInv, [StoreNext]_storeVars PROVE StoreInv'
  BY Zenon
<1>0. clock \in Nat /\ clock >= Start /\ clock <= Start + MaxClock /\ calmSince \in 0..clock
      /\ MaxClock \in Nat /\ up \in BOOLEAN
  BY DEF StoreInv, Clocks, LatestStoreAssumption, Start
<1>1. ASSUME reply' = NoReply \/ reply'.source \notin {"store", "redis"}
      PROVE  ReplyIsAlive'
  BY <1>1 DEF ReplyIsAlive, Served, NoReply
<1>2. ASSUME NEW timedOut \in BOOLEAN, Timing(timedOut)
      PROVE  calmSince' = calmSince \/ calmSince' = clock
  BY <1>2, Zenon DEF Timing
<1>3. CASE StoreTick
  <2>1. clock' \in clock..(Start + MaxClock) /\ calmSince' \in calmSince..clock
        /\ UNCHANGED <<up, redis, memory, lastWrite, resolver>> /\ reply' = NoReply
    BY <1>0, <1>3 DEF StoreTick, stores, Start
  <2>2. ResolverOK'
    <3>1. clock' \in Nat /\ clock <= clock'
      BY <1>0, <2>1 DEF Start
    <3>2. 0..clock \subseteq 0..clock'
      BY <1>0, <3>1
    <3> QED BY <2>1, <3>2, Zenon DEF StoreInv, ResolverOK
  <2> QED BY <1>1, <2>1, <2>2, StoreReadKeeps, Zenon DEF Purged, StoreInv
<1>4. CASE Outage
  <2>1. ~up' /\ up' \in BOOLEAN /\ UNCHANGED <<clock, redis, memory, resolver, reply, lastWrite, calmSince>>
    BY <1>4, Zenon DEF Outage, stores
  <2>2. clock' \in clock..(Start + MaxClock) /\ calmSince' \in calmSince..clock
    BY <1>0, <2>1
  <2>3. ReplyIsAlive'
    BY <2>1, ReplyStays, Zenon
  <2>4. ResolverOK'
    BY <2>1, Zenon DEF StoreInv, ResolverOK
  <2> QED BY <2>1, <2>2, <2>3, <2>4, StoreReadKeeps, Zenon DEF Purged, StoreInv
<1>5. CASE Recover
  <2>1. up' \in BOOLEAN /\ redis' \in {redis, Empty} /\ calmSince' = clock
        /\ UNCHANGED <<clock, memory, resolver, reply, lastWrite>>
    BY <1>5, Zenon DEF Recover
  <2>2. Clocks'
    BY <1>0, <2>1 DEF StoreInv, Clocks, Start
  <2>3. ItemsAreOK'
    BY <2>1, Zenon DEF StoreInv, ItemsAreOK, ItemsOK, Empty
  <2>4. MemoryIsOld'
    BY <1>0, <2>1 DEF StoreInv, ItemsAreOK, ItemsOK, MemoryIsOld, Start
  <2>5. RedisHasLastOrOld'
    <3>1. \A k \in DOMAIN redis' : redis'[k].event.received <= clock
      <4>1. \A k \in DOMAIN redis' : redis'[k].event.received \in Start..clock
        BY <2>1, <2>3, Zenon DEF ItemsAreOK, ItemsOK
      <4> QED BY <1>0, <4>1 DEF Start
    <3>2. \A n \in Names : LatestKey(n) \in DOMAIN redis' /\ LatestKey(n) # NoKey =>
                              Instrument(n) \in DOMAIN lastWrite
      BY <2>1, Zenon DEF StoreInv, RedisHasLastOrOld, Empty
    <3> QED BY <2>1, <3>1, <3>2, Zenon DEF RedisHasLastOrOld
  <2>6. LastIsInRedisOrOld'
    <3>1. \A i \in DOMAIN lastWrite : lastWrite[i].received <= clock
      BY <1>0 DEF StoreInv, Clocks, Start
    <3> QED BY <2>1, <3>1, Zenon DEF LastIsInRedisOrOld
  <2>7. ReplyIsAlive'
    BY <2>1, ReplyStays, Zenon
  <2>8. ResolverOK'
    BY <2>1, Zenon DEF StoreInv, ResolverOK
  <2> QED BY <2>1, <2>2, <2>3, <2>4, <2>5, <2>6, <2>7, <2>8, Zenon DEF StoreInv
<1>6. ASSUME NEW p \in Procs, RESTFallback(p) PROVE StoreInv'
  <2>1. UNCHANGED <<clock, up, redis, memory, reply, lastWrite, calmSince>>
    BY <1>6, Zenon DEF RESTFallback, stores
  <2>2. clock' \in clock..(Start + MaxClock) /\ calmSince' \in calmSince..clock
    BY <1>0, <2>1
  <2>3. ReplyIsAlive'
    BY <2>1, ReplyStays, Zenon
  <2>4. ResolverOK'
    <3>1. resolver[p] \in [pc : {"rest"}, name : Names]
      BY <1>6, Zenon DEF RESTFallback, StoreInv, ResolverOK
    <3>2. 0 \in 0..clock /\ clock \in 0..clock
      BY <1>0
    <3> DEFINE Places == [pc : {"idle"}] \cup [pc : {"rest"}, name : Names]
                         \cup [pc : {"fetched"}, name : Names, time : 0..clock]
    <3>3. Idle \in Places
      BY Zenon DEF Idle
    <3>4. resolver[p].name \in Names
      BY <3>1, Zenon
    <3>5. \A t \in {0, clock} : [pc |-> "fetched", name |-> resolver[p].name, time |-> t] \in Places
      BY <3>2, <3>4, Zenon
    <3> HIDE DEF Places
    <3>6. \E r \in Places : resolver' = [resolver EXCEPT ![p] = r]
      BY <1>6, <3>3, <3>5, Zenon DEF RESTFallback
    <3>7. resolver \in [Procs -> Places]
      BY Zenon DEF StoreInv, ResolverOK, Places
    <3>8. resolver' \in [Procs -> Places]
      BY <3>6, <3>7, Zenon
    <3> QED BY <2>1, <3>8, Zenon DEF ResolverOK, Places
  <2> QED BY <1>0, <2>1, <2>2, <2>3, <2>4, StoreReadKeeps, Zenon DEF Purged, StoreInv
<1>7. ASSUME NEW p \in Procs, NEW timedOut \in BOOLEAN, WriteFallback(p, timedOut)
      PROVE  StoreInv'
  <2>1. /\ UNCHANGED <<clock, up>> /\ reply'.source = "rest_fallback"
        /\ resolver' = [resolver EXCEPT ![p] = Idle]
        /\ WriteEvent(p, resolver[p].name, resolver[p].time, timedOut)
    BY <1>7, Zenon DEF WriteFallback, NoReply
  <2>2. resolver[p].name \in Names
    BY <1>7, Zenon DEF WriteFallback, StoreInv, ResolverOK
  <2>3. ResolverOK'
    BY <2>1, Zenon DEF StoreInv, ResolverOK, Idle
  <2>4. Clocks' /\ ItemsAreOK' /\ MemoryIsOld' /\ RedisHasLastOrOld' /\ LastIsInRedisOrOld'
    BY <2>1, <2>2, StoreWriteKeeps, Zenon
  <2> QED BY <1>0, <1>1, <2>1, <2>3, <2>4, Zenon DEF StoreInv
<1>8. ASSUME NEW p \in Procs, NEW timedOut \in BOOLEAN, NEW name \in Names, NEW t,
             Write(p, name, t, timedOut)
      PROVE  StoreInv'
  <2>1. /\ UNCHANGED <<clock, up, resolver>> /\ reply' = NoReply
        /\ WriteEvent(p, name, t, timedOut)
    BY <1>8, Zenon DEF Write
  <2>2. ResolverOK'
    BY <2>1, Zenon DEF StoreInv, ResolverOK
  <2>3. Clocks' /\ ItemsAreOK' /\ MemoryIsOld' /\ RedisHasLastOrOld' /\ LastIsInRedisOrOld'
    BY <2>1, StoreWriteKeeps, Zenon
  <2> QED BY <1>0, <1>1, <2>1, <2>2, <2>3, Zenon DEF StoreInv
\* What both kinds of read do to the stores.
<1>9. ASSUME NEW p \in Procs, NEW timedOut \in BOOLEAN, NEW name \in Names,
             Purge(p, LatestKey(name), timedOut) \/ UNCHANGED memory,
             Timing(timedOut), UNCHANGED <<clock, up, redis, lastWrite>>
      PROVE  /\ Clocks' /\ ItemsAreOK' /\ MemoryIsOld' /\ RedisHasLastOrOld' /\ LastIsInRedisOrOld'
             /\ (calmSince' = clock \/ UNCHANGED calmSince)
             /\ calmSince' \in calmSince..clock
  <2>1. calmSince' = clock \/ UNCHANGED calmSince
    BY <1>2, <1>9, Zenon
  <2>2. calmSince' \in calmSince..clock /\ clock' \in clock..(Start + MaxClock)
    BY <1>0, <1>9, <2>1
  <2>3. Purged
    BY <1>9, Zenon DEF Purge, Purged, Drop, StoreInv, ItemsAreOK
  <2> QED BY <1>9, <2>1, <2>2, <2>3, StoreReadKeeps, Zenon
<1>10. ASSUME NEW p \in Procs, NEW timedOut \in BOOLEAN, NEW name \in Names,
              readLatest(p, name, timedOut)
       PROVE  StoreInv'
  <2>1. UNCHANGED <<clock, up, redis, resolver, lastWrite>> /\ Timing(timedOut)
        /\ (Purge(p, LatestKey(name), timedOut) \/ UNCHANGED memory)
    BY <1>10, Zenon DEF readLatest
  <2>2. Clocks' /\ ItemsAreOK' /\ MemoryIsOld' /\ RedisHasLastOrOld' /\ LastIsInRedisOrOld'
        /\ calmSince' \in calmSince..clock
    BY <1>9, <2>1, Zenon
  <2>3. ResolverOK'
    BY <2>1, Zenon DEF StoreInv, ResolverOK
  <2>4. ReplyIsAlive'
    <3>1. CASE LatestKey(name) # NoKey /\ Found(p, LatestKey(name), timedOut)
      <4>1. Answer("store", name, Value(p, LatestKey(name), timedOut))
        BY <1>10, <3>1, Zenon DEF readLatest, GetRaw
      <4> QED BY <2>1, <2>2, <3>1, <4>1, StoreAnswerKeeps, Zenon
    <3>2. CASE ~(LatestKey(name) # NoKey /\ Found(p, LatestKey(name), timedOut))
      <4>1. reply'.source \in {"bad_request", "not_found"}
        BY <1>10, <3>2, Zenon DEF readLatest, GetRaw, NoReply
      <4> QED BY <1>1, <4>1, Zenon
    <3> QED BY <3>1, <3>2, Zenon
  <2> QED BY <1>0, <2>1, <2>2, <2>3, <2>4, Zenon DEF StoreInv
<1>11. ASSUME NEW p \in Procs, NEW timedOut \in BOOLEAN, NEW name \in Names,
              LatestOrFallback(p, name, timedOut)
       PROVE  StoreInv'
  <2>1. UNCHANGED <<clock, up, redis, lastWrite>> /\ Timing(timedOut) /\ LatestKey(name) # NoKey
        /\ Purge(p, LatestKey(name), timedOut)
    BY <1>11, Zenon DEF LatestOrFallback
  <2>2. Clocks' /\ ItemsAreOK' /\ MemoryIsOld' /\ RedisHasLastOrOld' /\ LastIsInRedisOrOld'
        /\ calmSince' \in calmSince..clock /\ (calmSince' = clock \/ UNCHANGED calmSince)
    BY <1>9, <2>1, Zenon
  <2>3. CASE UNCHANGED resolver /\ Found(p, LatestKey(name), timedOut)
             /\ Answer("redis", name, Value(p, LatestKey(name), timedOut))
    <3>1. ReplyIsAlive'
      BY <2>1, <2>2, <2>3, StoreAnswerKeeps, Zenon
    <3>2. ResolverOK'
      BY <2>1, <2>3, Zenon DEF StoreInv, ResolverOK
    <3> QED BY <1>0, <2>1, <2>2, <3>1, <3>2, Zenon DEF StoreInv
  <2>4. CASE UNCHANGED reply
             /\ resolver' = [resolver EXCEPT ![p] = [pc |-> "rest", name |-> name]]
    <3>1. ReplyIsAlive'
      BY <2>1, <2>2, <2>4, ReplyStays, Zenon
    <3>2. ResolverOK'
      BY <2>1, <2>4, Zenon DEF StoreInv, ResolverOK
    <3> QED BY <1>0, <2>1, <2>2, <3>1, <3>2, Zenon DEF StoreInv
  <2> QED BY <1>11, <2>3, <2>4, Zenon DEF LatestOrFallback, GetRaw
<1>12. CASE UNCHANGED storeVars
  BY <1>12, Zenon
     DEF storeVars, stores, counters, StoreInv, Clocks, ItemsAreOK, ItemsOK, ResolverOK, MemoryIsOld,
     RedisHasLastOrOld, LastIsInRedisOrOld, ReplyIsAlive, Served, MaxTTL
<1> QED BY <1>3, <1>4, <1>5, <1>6, <1>7, <1>8, <1>10, <1>11, <1>12, Zenon DEF StoreNext

-----------------------------------------------------------------------------
\* Types hold, and Redis never holds an event under no key or under the key of an
\* aggregate without a symbol (keys.go:45-63).
THEOREM StoreTypeCorrect ==
    ASSUME LatestStoreAssumption
    PROVE  StoreSpec => []StoreTypeOK
<1>1. StoreInv => StoreTypeOK
  <2> SUFFICES ASSUME StoreInv PROVE StoreTypeOK
    BY Zenon
  <2>1. clock \in Start..(Start + MaxClock)
        /\ \A k \in DOMAIN redis : redis[k].event.received \in Start..clock /\ k \in StoreKeys
    BY Zenon DEF StoreInv, Clocks, ItemsAreOK, ItemsOK
  <2>2. \A p \in Procs : \A k \in DOMAIN memory[p] : memory[p][k].event.received \in Start..clock
    BY Zenon DEF StoreInv, ItemsAreOK, ItemsOK
  <2>3. \A k \in StoreKeys : k # NoKey /\ (k[1] = "aggregate" => k[2] > 0)
    BY DEF StoreKeys, LatestKey
  <2> QED BY <2>1, <2>2, <2>3, Zenon DEF StoreInv, ResolverOK, StoreTypeOK
<1> QED BY <1>1, StoreInvInit, StoreInvStep, PTL DEF StoreSpec

\* Nothing is served longer than a TTL, and a TTL after the last trouble with
\* Redis every read of every process returns the last event written of the
\* instrument asked for, or nothing (store.go:69-145, redis.go:37-43).
THEOREM StoreOutageExpires ==
    ASSUME LatestStoreAssumption
    PROVE  StoreSpec => []OutageExpires
<1>1. StoreInv => OutageExpires
  BY Zenon DEF StoreInv, ReplyIsAlive, OutageExpires, ServedWithinTTL, CalmReadsAreCurrent
<1> QED BY <1>1, StoreInvInit, StoreInvStep, PTL DEF StoreSpec

\* In calm times, when a resolver goes to the exchange, the last event any
\* process wrote is stale or has expired.
LEMMA AskedBecauseStale ==
    ASSUME LatestStoreAssumption, StoreInv, NEW p \in Procs, NEW name \in Names, NEW timedOut \in BOOLEAN,
           LatestOrFallback(p, name, timedOut),
           ~(Found(p, LatestKey(name), timedOut) /\ isFresh(Value(p, LatestKey(name), timedOut))),
           LatestTTL > 0, up, clock >= calmSince' + MaxTTL, Instrument(name) \in DOMAIN lastWrite
    PROVE  LET age == clock - lastWrite[Instrument(name)].received
           IN  age > MaxAge \/ age >= redisTTL(LatestTTL)
<1> DEFINE key == LatestKey(name)
           last == lastWrite[Instrument(name)]
<1>1. clock \in Nat /\ MaxTTL \in Nat /\ MaxTTL >= 2 /\ redisTTL(LatestTTL) \in Nat
      /\ MaxTTL >= redisTTL(LatestTTL) /\ MaxAge \in Nat /\ calmSince \in Nat /\ last.received \in Nat
      /\ LatestTTL \in Nat
  <2>1. /\ MaxTTL \in Nat /\ MaxTTL >= 2 /\ redisTTL(LatestTTL) \in Nat /\ MaxTTL >= redisTTL(LatestTTL)
    BY TTLs
  <2>2. MaxAge \in Nat /\ LatestTTL \in Nat /\ MaxClock \in Nat
    BY Zenon DEF LatestStoreAssumption
  <2>3. /\ clock \in Start..(Start + MaxClock) /\ calmSince \in 0..clock /\ last.received \in Start..clock
    BY Zenon DEF StoreInv, Clocks
  <2>4. clock \in Nat /\ calmSince \in Nat
    BY <2>2, <2>3, SMTT(30) DEF Start
  <2>5. last.received \in Nat
    BY <2>3, <2>4, SMTT(30) DEF Start
  <2> QED BY <2>1, <2>2, <2>4, <2>5, Zenon
<1>2. ~timedOut /\ UNCHANGED calmSince
  <2>1. calmSince' # clock
    BY <1>1, SMTT(30)
  <2> QED BY <2>1, Zenon DEF LatestOrFallback, Timing
<1>3. key # NoKey
  BY Zenon DEF LatestOrFallback
<1>4. CASE last.received <= calmSince
  <2> DEFINE t == last.received
             d == redisTTL(LatestTTL)
             m == MaxTTL
  <2>1. t \in Nat /\ d \in Nat /\ m \in Nat /\ m >= d /\ clock \in Nat /\ calmSince \in Nat
    BY <1>1, Zenon
  <2>2. t <= calmSince /\ clock >= calmSince + m
    BY <1>2, <1>4, Zenon
  <2> HIDE DEF t, d, m
  <2>3. clock - t >= d
    BY <2>1, <2>2
  <2> QED BY <2>3, Zenon DEF t, d
<1>5. CASE key \in DOMAIN redis /\ redis[key].event = last
  <2>1. redis[key].expiresAt = last.received + redisTTL(LatestTTL)
    BY <1>5, Zenon DEF StoreInv, ItemsAreOK, ItemsOK
  <2>2. CASE Alive(redis, key)
    <3>1. Found(p, key, timedOut) /\ Value(p, key, timedOut) = last
      BY <1>2, <1>5, <2>2, Zenon DEF Found, Value, Primary
    <3>2. ~isFresh(last)
      BY <3>1, Zenon
    <3> DEFINE t == last.received
    <3>3. t \in Nat /\ MaxAge \in Nat /\ clock \in Nat
      BY <1>1, Zenon
    <3>4. ~(clock - t <= MaxAge)
      BY <3>2, Zenon DEF isFresh
    <3> HIDE DEF t
    <3>5. clock - t > MaxAge
      BY <3>3, <3>4
    <3> QED BY <3>5, Zenon DEF t
  <2>3. CASE ~Alive(redis, key)
    <3> DEFINE t == last.received
               d == redisTTL(LatestTTL)
    <3>1. redis[key].expiresAt = t + d /\ t \in Nat /\ d \in Nat /\ clock \in Nat
      BY <1>1, <2>1, Zenon
    <3>2. ~(clock < redis[key].expiresAt)
      BY <1>5, <2>3, Zenon DEF Alive
    <3> HIDE DEF t, d
    <3>3. clock - t >= d
      BY <3>1, <3>2, SMTT(30)
    <3> QED BY <3>3, Zenon DEF t, d
  <2> QED BY <2>2, <2>3, Zenon
<1> QED BY <1>3, <1>4, <1>5, Zenon DEF StoreInv, LastIsInRedisOrOld

\* While Redis is well the exchange is asked only when no process has written a
\* fresh event, by any spelling of the name (fallback.go:30-45).
THEOREM StoreAsksWhenStale ==
    ASSUME LatestStoreAssumption
    PROVE  StoreSpec => RESTOnlyWhenStale
<1>1. StoreInv /\ [StoreNext]_storeVars => [AsksWhenStale]_storeVars
  <2> SUFFICES ASSUME StoreInv, StoreNext, NEW p \in Procs,
                      resolver[p].pc = "idle", resolver'[p].pc = "rest",
                      LatestTTL > 0, up, clock >= calmSince' + MaxTTL,
                      Instrument(resolver'[p].name) \in DOMAIN lastWrite
               PROVE  LET age == clock - lastWrite[Instrument(resolver'[p].name)].received
                      IN  age > MaxAge \/ age >= redisTTL(LatestTTL)
    BY Zenon DEF AsksWhenStale
  <2>1. DOMAIN resolver = Procs
    BY Zenon DEF StoreInv, ResolverOK
  <2>2. PICK q \in Procs, timedOut \in BOOLEAN, name \in Names :
                LatestOrFallback(q, name, timedOut) /\ resolver' # resolver
    <3>1. ASSUME NEW q \in Procs, RESTFallback(q) PROVE FALSE
      BY <2>1, <3>1, Zenon DEF RESTFallback, Idle
    <3>2. ASSUME NEW q \in Procs, NEW timedOut \in BOOLEAN, WriteFallback(q, timedOut) PROVE FALSE
      BY <2>1, <3>2, Zenon DEF WriteFallback, Idle
    <3> QED BY <3>1, <3>2 DEF StoreNext, StoreTick, Outage, Recover, Write, readLatest
  <2>3. /\ resolver' = [resolver EXCEPT ![q] = [pc |-> "rest", name |-> name]]
        /\ ~(Found(q, LatestKey(name), timedOut) /\ isFresh(Value(q, LatestKey(name), timedOut)))
    BY <2>2, Zenon DEF LatestOrFallback, GetRaw
  <2>4. p = q /\ resolver'[p].name = name
    BY <2>1, <2>3, Zenon
  <2> QED BY <2>2, <2>3, <2>4, AskedBecauseStale, Zenon
<1> QED BY <1>1, StoreInvInit, StoreInvStep, PTL DEF StoreSpec, RESTOnlyWhenStale
=============================================================================
