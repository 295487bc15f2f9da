---------------------------- MODULE MCRealtime ----------------------------
(* The realtime package: the snapshot buffer, the store of latest events and *)
(* the reconnect manager.  They are wired together by nothing in the         *)
(* repository and share no state, so each is explored while the others rest: *)
(* scene says which one acts.                                                *)
EXTENDS SnapshotWorker, LatestStore, ReconnectManager, Sequences, TLC

CONSTANTS k1, k2, f1, f2, p1, p2

VARIABLE scene

allVars == <<scene, bufferVars, storeVars, streamVars>>

\* Keys, flushers and processes are interchangeable.
Symmetry == Permutations({k1, k2}) \cup Permutations({f1, f2}) \cup Permutations({p1, p2})

-----------------------------------------------------------------------------
Lowered == "Binance" :> "binance" @@ "binance" :> "binance" @@ "market" :> "market"
           @@ "aggregate" :> "aggregate" @@ "tick" :> "tick"
Uppered == "btcusdt" :> "BTCUSDT" @@ "BTCUSDT" :> "BTCUSDT"

Name(kind, exchange, sourceSymbol, symbolID) ==
    [kind |-> kind, exchange |-> exchange, sourceSymbol |-> sourceSymbol, symbolID |-> symbolID]

\* One instrument in two spellings, an aggregate without a symbol, an unknown kind.
Requests == {Name("market", "binance", "BTCUSDT", 1), Name("market", "Binance", "btcusdt", 1),
             Name("aggregate", "binance", "BTCUSDT", 0), Name("tick", "binance", "BTCUSDT", 1)}

ASSUME LatestStoreAssumption /\ ReconnectAssumption

-----------------------------------------------------------------------------
AllInit ==
    /\ scene \in {"buffer", "store", "stream"}
    /\ BufferInit /\ StoreInit /\ StreamInit

AllNext ==
    /\ \/ scene = "buffer" /\ BufferNext /\ UNCHANGED <<storeVars, streamVars>>
       \/ scene = "store" /\ StoreNext /\ UNCHANGED <<bufferVars, streamVars>>
       \/ scene = "stream" /\ StreamNext /\ UNCHANGED <<bufferVars, storeVars>>
    /\ UNCHANGED scene

AllSpec == AllInit /\ [][AllNext]_allVars

-----------------------------------------------------------------------------
\* The variables of the store of latest events and of the reconnect manager have
\* their types (keys.go:45-63, reconnect.go:23-35).
StoreAndStreamTypeOK == StoreTypeOK /\ StreamTypeOK
=============================================================================
