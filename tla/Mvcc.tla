-------------------------------- MODULE Mvcc --------------------------------
(***************************************************************************)
(* What BedrockKV promises its callers, without memtables, logs, tables or *)
(* background work: a map from keys to values that Put and Delete change   *)
(* one key at a time, and snapshots, each a frozen copy of that map.       *)
(*                                                                         *)
(* A write whose call returned an error may or may not have happened: the  *)
(* map does not show it while the process lives, and a restart may bring   *)
(* it back, until a later write of the same key is acknowledged.  Nothing  *)
(* else may change at a restart, and snapshots end with the process.       *)
(***************************************************************************)
EXTENDS Naturals

CONSTANTS Key, Value, Snap

VARIABLES
    store,   \* the value of each key; 0 when it is absent or deleted
    maybe,   \* for each key, what failed writes of it tried to store
    views    \* for each snapshot handle, its frozen map, or NoView

vars == <<store, maybe, views>>

NoView == <<>>

Init ==
    /\ store = [k \in Key |-> 0]
    /\ maybe = [k \in Key |-> {}]
    /\ views = [s \in Snap |-> NoView]

\* An acknowledged Put or Delete (v = 0) of k.
Write(k, v) ==
    /\ store' = [store EXCEPT ![k] = v]
    /\ maybe' = [maybe EXCEPT ![k] = {}]
    /\ UNCHANGED views

\* A Put or Delete of k that returned an error.
FailedWrite(k, v) ==
    /\ maybe' = [maybe EXCEPT ![k] = @ \cup {v}]
    /\ UNCHANGED <<store, views>>

GetSnapshot(s) ==
    /\ views[s] = NoView
    /\ views' = [views EXCEPT ![s] = store]
    /\ UNCHANGED <<store, maybe>>

ReleaseSnapshot(s) ==
    /\ views[s] # NoView
    /\ views' = [views EXCEPT ![s] = NoView]
    /\ UNCHANGED <<store, maybe>>

\* The process ends, by a kill or a power cut.  A key with failed writes may
\* come back with any of them, now or at a later restart.
Restart ==
    /\ \A k \in Key : store'[k] \in {store[k]} \cup maybe[k]
    /\ DOMAIN store' = Key
    /\ maybe' = [k \in Key |-> IF maybe[k] = {} THEN {}
                               ELSE maybe[k] \cup {store[k]}]
    /\ views' = [s \in Snap |-> NoView]

Next ==
    \/ \E k \in Key, v \in Value : Write(k, v) \/ FailedWrite(k, v)
    \/ \E s \in Snap : GetSnapshot(s) \/ ReleaseSnapshot(s)
    \/ Restart

Spec == Init /\ [][Next]_vars

=============================================================================
