---------------------------- MODULE LatestStore ----------------------------
(***************************************************************************)
(* The realtime latest layer: processes that share one Redis, each with a  *)
(* memory store of its own behind it (FallbackStore), write latest events, *)
(* serve them to API requests and resolve them with a REST fallback.       *)
(* Redis may be down, may time out on a single command, and may lose keys. *)
(*                                                                         *)
(* Abstractions.  One unit of time is half a second, which is what rounds  *)
(* a TTL in RedisStore.SetRaw.  An event is its two times; its payload is  *)
(* never looked at.  JSON and RESP framing succeed or fail as a whole; a   *)
(* command is applied before its client gives up on it, or never.  Names   *)
(* are spelled as in Lower and Upper, which tabulate the conversions.  An  *)
(* event is received when it is written: no writer of the repository sets  *)
(* ReceivedAt itself.                                                      *)
(***************************************************************************)
EXTENDS Integers, FiniteSets, FiniteSetsExt

CONSTANTS
    Procs,             \* processes
    Lower, Upper,      \* spelling -> trimmed lower case, upper case
    Names,             \* requests: [kind, exchange, sourceSymbol, symbolID]
    LatestTTL,         \* of LatestWriter, 0 for none
    MaxAge,            \* of FallbackResolver
    Ages,              \* how old an event may be when it is written
    MaxClock, MaxWrites, MaxTroubles, MaxResolves  \* bounds of the model

VARIABLES
    clock,
    up,        \* Redis answers
    redis,     \* key -> item, for the keys there are
    memory,    \* process -> key -> item
    resolver,  \* process -> where its LatestOrFallback is
    reply,     \* what the last step, a read, returned
    lastWrite, \* history: instrument -> the last event written anywhere
    calmSince, \* history: when Redis last came back, timed out or lost a key
    writes, troubles, resolves

stores == <<redis, memory>>
counters == <<writes, troubles, resolves>>
storeVars == <<clock, up, stores, resolver, reply, lastWrite, calmSince, counters>>

Start == 8   \* the clock's first value: events may be older than the run
NoReply == [source |-> "none", at |-> 0]
Idle == [pc |-> "idle"]
Empty == [k \in {} |-> k]
Put(store, key, item) == [k \in DOMAIN store \cup {key} |-> IF k = key THEN item ELSE store[k]]
Drop(store, key) == [k \in DOMAIN store \ {key} |-> store[k]]

normalizeExchange(value) == Lower[value]
normalizeSourceSymbol(value) == Upper[value]

NoKey == <<"error">>

\* Mutant: an aggregate without a symbol has a key.
LatestKeyAnyAggregate(name) ==
    CASE Lower[name.kind] \in {"market", "oi", "funding", "orderbook_imbalance"} ->
            <<Lower[name.kind], normalizeExchange(name.exchange), normalizeSourceSymbol(name.sourceSymbol)>>
      [] Lower[name.kind] = "aggregate" -> <<"aggregate", name.symbolID>>
      [] OTHER -> NoKey

LatestKey(name) ==
    CASE Lower[name.kind] \in {"market", "oi", "funding", "orderbook_imbalance"} ->
            <<Lower[name.kind], normalizeExchange(name.exchange), normalizeSourceSymbol(name.sourceSymbol)>>
      [] Lower[name.kind] = "aggregate" /\ name.symbolID > 0 -> <<"aggregate", name.symbolID>>
      [] OTHER -> NoKey

\* History's name for what a request asks for.
Instrument(name) == <<name.symbolID, Lower[name.kind], Lower[name.exchange], Upper[name.sourceSymbol]>>

\* Requests with one key ask for one instrument: a source symbol of an exchange
\* belongs to one symbol (no table enforces it), and an aggregate has no exchange.
LatestStoreAssumption ==
    /\ LatestTTL \in Nat /\ MaxAge \in Nat \ {0} /\ Ages \subseteq Nat
    /\ MaxClock \in Nat /\ MaxWrites \in Nat /\ MaxTroubles \in Nat
    /\ \A m, n \in Names : LatestKey(m) = LatestKey(n) /\ LatestKey(m) # NoKey
                           => Instrument(m) = Instrument(n)

\* RedisStore.SetRaw: whole seconds, at least one.
redisTTL(ttl) == Max({2, 2 * ((ttl + 1) \div 2)})

memoryItem(event) == [event |-> event, expiresAt |-> IF LatestTTL > 0 THEN clock + LatestTTL ELSE 0]
redisItem(event) == [event |-> event, expiresAt |-> IF LatestTTL > 0 THEN clock + redisTTL(LatestTTL) ELSE 0]

Alive(store, key) ==
    /\ key \in DOMAIN store
    /\ store[key].expiresAt = 0 \/ clock < store[key].expiresAt

StoreInit ==
    /\ clock = Start /\ up = TRUE
    /\ redis = Empty
    /\ memory = [p \in Procs |-> Empty]
    /\ resolver = [p \in Procs |-> Idle]
    /\ reply = NoReply
    /\ lastWrite = Empty
    /\ calmSince = 0
    /\ writes = 0 /\ troubles = 0 /\ resolves = 0

StoreTick ==
    /\ clock < Start + MaxClock
    /\ clock' = clock + 1
    /\ reply' = NoReply
    /\ UNCHANGED <<up, stores, resolver, lastWrite, calmSince, counters>>

Outage ==
    /\ up
    /\ troubles < MaxTroubles
    /\ troubles' = troubles + 1
    /\ up' = FALSE
    /\ UNCHANGED <<clock, stores, resolver, reply, lastWrite, calmSince, writes, resolves>>

\* Redis is back, with its data or without (a restart, or an eviction meanwhile).
Recover ==
    /\ ~up
    /\ up' = TRUE
    /\ redis' \in {redis, Empty}
    /\ calmSince' = clock
    /\ UNCHANGED <<clock, memory, resolver, reply, lastWrite, counters>>

\* Mutant: a value that Redis still has is not replaced.
SetRawFirst(p, key, event, timedOut) ==
    LET inMemory == [memory EXCEPT ![p] = Put(memory[p], key, memoryItem(event))]
        inRedis == IF Alive(redis, key) THEN redis ELSE Put(redis, key, redisItem(event))
    IN  \/ up /\ ~timedOut /\ redis' = inRedis /\ UNCHANGED memory
        \/ up /\ timedOut /\ redis' \in {redis, inRedis} /\ memory' \in {memory, inMemory}
        \/ ~up /\ memory' \in {memory, inMemory} /\ UNCHANGED redis

\* What FallbackStore.SetRaw leaves, for a command that timed out or did not.  The
\* memory store refuses the event when it is the caller's own context that has ended.
SetRaw(p, key, event, timedOut) ==
    LET inMemory == [memory EXCEPT ![p] = Put(memory[p], key, memoryItem(event))]
        inRedis == Put(redis, key, redisItem(event))
    IN  \/ up /\ ~timedOut /\ redis' = inRedis /\ UNCHANGED memory
        \/ up /\ timedOut /\ redis' \in {redis, inRedis} /\ memory' \in {memory, inMemory}
        \/ ~up /\ memory' \in {memory, inMemory} /\ UNCHANGED redis

\* A command that reaches a working Redis may time out.
Timing(timedOut) ==
    IF timedOut
    THEN up /\ troubles < MaxTroubles /\ troubles' = troubles + 1 /\ calmSince' = clock
    ELSE UNCHANGED <<troubles, calmSince>>

\* LatestWriter.Write of an event made at time t, 0 for an event without a time.
WriteEvent(p, name, t, timedOut) ==
    LET key == LatestKey(name)
        event == [time |-> IF t = 0 THEN clock ELSE t, received |-> clock]
    IN  /\ Timing(timedOut)
        /\ IF key = NoKey
           THEN UNCHANGED <<stores, lastWrite>>
           ELSE /\ SetRaw(p, key, event, timedOut)
                /\ lastWrite' = Put(lastWrite, Instrument(name), event)

Write(p, name, t, timedOut) ==
    /\ writes < MaxWrites
    /\ writes' = writes + 1
    /\ WriteEvent(p, name, t, timedOut)
    /\ reply' = NoReply
    /\ UNCHANGED <<clock, up, resolver, resolves>>

\* FallbackStore.GetRaw: Redis's value, or on a miss or an error the memory's,
\* which drops an expired item as it is read.
Primary(key, timedOut) == up /\ ~timedOut /\ Alive(redis, key)
Found(p, key, timedOut) == Primary(key, timedOut) \/ Alive(memory[p], key)
Value(p, key, timedOut) ==
    IF Primary(key, timedOut) THEN redis[key].event ELSE memory[p][key].event

GetRaw(p, key, timedOut) ==
    [found |-> Found(p, key, timedOut),
     event |-> IF Found(p, key, timedOut) THEN Value(p, key, timedOut) ELSE {}]

Purge(p, key, timedOut) ==
    memory' = IF ~Primary(key, timedOut) /\ key \in DOMAIN memory[p] /\ ~Alive(memory[p], key)
              THEN [memory EXCEPT ![p] = Drop(memory[p], key)] ELSE memory

Answer(source, name, event) ==
    reply' = [source |-> source, at |-> clock, of |-> Instrument(name), event |-> event]

\* RealtimeHandler.latestExchangeSymbol, latestAggregate and readLatest.
readLatest(p, name, timedOut) ==
    LET key == LatestKey(name)
        got == GetRaw(p, key, timedOut)
    IN  /\ IF key = NoKey
           THEN reply' = [NoReply EXCEPT !.source = "bad_request"] /\ UNCHANGED memory
           ELSE /\ Purge(p, key, timedOut)
                /\ IF got.found THEN Answer("store", name, got.event)
                   ELSE reply' = [NoReply EXCEPT !.source = "not_found"]
        /\ Timing(timedOut)
        /\ UNCHANGED <<clock, up, redis, resolver, lastWrite, writes, resolves>>

\* Mutant: an event as old as MaxAge is stale.
isFreshStrict(event) == clock - event.received < MaxAge

isFresh(event) == clock - event.received <= MaxAge

\* LatestOrFallback up to the call of RESTFallback.
LatestOrFallback(p, name, timedOut) ==
    LET key == LatestKey(name)
        got == GetRaw(p, key, timedOut)
    IN  /\ resolver[p].pc = "idle" /\ resolves < MaxResolves /\ key # NoKey
        /\ resolves' = resolves + 1
        /\ Purge(p, key, timedOut)
        /\ IF got.found /\ isFresh(got.event)
           THEN Answer("redis", name, got.event) /\ UNCHANGED resolver
           ELSE /\ resolver' = [resolver EXCEPT ![p] = [pc |-> "rest", name |-> name]]
                /\ UNCHANGED reply
        /\ Timing(timedOut)
        /\ UNCHANGED <<clock, up, redis, lastWrite, writes>>

\* The REST call returns the exchange's current event, dated or not, or fails.
RESTFallback(p) ==
    /\ resolver[p].pc = "rest"
    /\ \/ resolver' = [resolver EXCEPT ![p] = Idle]
       \/ \E t \in {0, clock} :
             resolver' = [resolver EXCEPT ![p] =
                             [pc |-> "fetched", name |-> resolver[p].name, time |-> t]]
    /\ UNCHANGED <<clock, up, stores, reply, lastWrite, calmSince, counters>>

\* LatestOrFallback from r.Writer.Write on.
WriteFallback(p, timedOut) ==
    /\ resolver[p].pc = "fetched"
    /\ WriteEvent(p, resolver[p].name, resolver[p].time, timedOut)
    /\ reply' = [NoReply EXCEPT !.source = "rest_fallback"]
    /\ resolver' = [resolver EXCEPT ![p] = Idle]
    /\ UNCHANGED <<clock, up, writes, resolves>>

StoreNext ==
    \/ StoreTick \/ Outage \/ Recover
    \/ \E p \in Procs : RESTFallback(p)
    \/ \E p \in Procs, timedOut \in BOOLEAN :
          \/ WriteFallback(p, timedOut)
          \/ \E name \in Names :
                \/ readLatest(p, name, timedOut)
                \/ LatestOrFallback(p, name, timedOut)
                \/ \E t \in {0} \cup {clock - a : a \in Ages} : Write(p, name, t, timedOut)

StoreSpec == StoreInit /\ [][StoreNext]_storeVars

-----------------------------------------------------------------------------
MaxTTL == Max({LatestTTL, redisTTL(LatestTTL)})
Served == reply.source \in {"store", "redis"}

\* Every variable has its type, and no event is stored without a key or under an
\* aggregate key without a symbol (keys.go:45-63).
StoreTypeOK ==
    /\ clock \in Start..(Start + MaxClock) /\ up \in BOOLEAN
    /\ \A k \in DOMAIN redis : redis[k].event.received \in Start..clock
    /\ \A p \in Procs : \A k \in DOMAIN memory[p] : memory[p][k].event.received \in Start..clock
    /\ resolver \in [Procs -> [pc : {"idle"}] \cup [pc : {"rest"}, name : Names]
                              \cup [pc : {"fetched"}, name : Names, time : 0..clock]]
    /\ \A k \in DOMAIN redis : k # NoKey /\ (k[1] = "aggregate" => k[2] > 0)

\* No read, whether Redis or a process's memory answers it, serves an event
\* longer than its TTL, as Redis rounds it (store.go:69-97, redis.go:37-43).
ServedWithinTTL == Served /\ LatestTTL > 0 => reply.at - reply.event.received < MaxTTL

\* What an outage, a lost key or a timed out command leaves behind is gone one
\* TTL later: a read of any process, by any spelling of the name, then returns
\* the last event written, or nothing (store.go:116-145, keys.go:45-75).
CalmReadsAreCurrent ==
    Served /\ LatestTTL > 0 /\ up /\ reply.at >= calmSince + MaxTTL =>
       reply.event = lastWrite[reply.of]

\* Whatever goes wrong with Redis is over a TTL later.
OutageExpires == ServedWithinTTL /\ CalmReadsAreCurrent

\* While Redis is well the exchange is asked only when nobody has a fresh event:
\* a resolver falls back to REST only if the last event any process wrote, by any
\* spelling, is older than MaxAge or has outlived its TTL (fallback.go:30-45).
\* Without a TTL a key that Redis lost may have been fresh.
AsksWhenStale ==
    \A p \in Procs :
       resolver[p].pc = "idle" /\ resolver'[p].pc = "rest"
       /\ LatestTTL > 0 /\ up /\ clock >= calmSince' + MaxTTL
       /\ Instrument(resolver'[p].name) \in DOMAIN lastWrite
       => LET age == clock - lastWrite[Instrument(resolver'[p].name)].received
          IN  age > MaxAge \/ age >= redisTTL(LatestTTL)

\* No step of any process asks the exchange for what is still fresh
\* (fallback.go:30-45).
RESTOnlyWhenStale == [][AsksWhenStale]_storeVars
=============================================================================
