------------------------------ MODULE LruCache ------------------------------
(***************************************************************************)
(* The sharded LRU cache of resolved values (lru_cache.h).  Get holds the  *)
(* mutex of one shard from beginning to end and is one step; so does Put,  *)
(* which goes on to its eviction loop, a victim at a time, with the mutex  *)
(* held; Clear takes the shards one after the other, and other calls fall  *)
(* in between.  A value is a pair of an identity and its weight.           *)
(***************************************************************************)
EXTENDS Naturals, Sequences, SequencesExt

CONSTANTS
    CacheKey,
    Value,             \* pairs <<identity, weight>>
    shards,
    max_total_weight,
    ShardOf(_)         \* the hash of a key modulo shards

ASSUME LruCacheAssumption ==
    /\ shards \in Nat \ {0} /\ max_total_weight \in Nat
    /\ \A k \in CacheKey : ShardOf(k) \in 0 .. shards - 1
    /\ \A v \in Value : v[2] \in Nat

VARIABLES
    lru,       \* per shard: the entries, most recently used first
    map,       \* per shard: the keys of the map
    weight,    \* per shard: the weight counted so far
    evicting,  \* per shard: a Put has its mutex and is in the eviction loop
    clearing,  \* the shard Clear comes to next, or shards
    latest,    \* history: per key, the values put last; {} when none
    newer      \* history: pairs of keys, the first one used later

lruVars == <<lru, map, weight, evicting, clearing, latest, newer>>

Shard == 0 .. shards - 1
weight_(v) == v[2]

\* One shard's share of the budget, at least 1.
shard_weight_cap ==
    IF max_total_weight \div shards = 0 THEN 1 ELSE max_total_weight \div shards

LruInit ==
    /\ lru = [s \in Shard |-> <<>>] /\ map = [s \in Shard |-> {}]
    /\ weight = [s \in Shard |-> 0] /\ evicting = [s \in Shard |-> FALSE]
    /\ clearing = shards
    /\ latest = [k \in CacheKey |-> {}] /\ newer = {}

Entry(k, v) == [key |-> k, value |-> v]

\* The iterator the map keeps for a key.
Find(q, k) == CHOOSE i \in DOMAIN q : q[i].key = k

Touch(k) == newer' = (newer \ (CacheKey \X {k})) \cup ({k} \X (CacheKey \ {k}))

\* Mutant: a hit does not move the entry.
CacheGetInPlace(k) ==
    /\ k \in map[ShardOf(k)] /\ ~evicting[ShardOf(k)]
    /\ Touch(k)
    /\ UNCHANGED <<lru, map, weight, evicting, clearing, latest>>

\* A hit moves the entry to the front; a miss changes nothing.
CacheGet(k) ==
    LET s == ShardOf(k)
        i == Find(lru[s], k)
    IN  /\ k \in map[s] /\ ~evicting[s]
        /\ lru' = [lru EXCEPT ![s] = <<lru[s][i]>> \o RemoveAt(@, i)]
        /\ Touch(k)
        /\ UNCHANGED <<map, weight, evicting, clearing, latest>>

\* Mutant: the weight of the replaced value stays counted.
ForgottenWeight(s, k) == 0

\* The weight an overwritten value gives back.
OldWeight(s, k) == IF k \in map[s] THEN weight_(lru[s][Find(lru[s], k)].value) ELSE 0

\* Put: a value heavier than the whole cache is not cached; another one
\* replaces the key's entry or becomes a new one, at the front.
CachePut(k, v) ==
    LET s    == ShardOf(k)
        rest == IF k \in map[s] THEN RemoveAt(lru[s], Find(lru[s], k)) ELSE lru[s]
    IN  /\ weight_(v) <= max_total_weight /\ ~evicting[s]
        /\ lru' = [lru EXCEPT ![s] = <<Entry(k, v)>> \o rest]
        /\ map' = [map EXCEPT ![s] = @ \cup {k}]
        /\ weight' = [weight EXCEPT ![s] = (@ - OldWeight(s, k)) + weight_(v)]
        /\ evicting' = [evicting EXCEPT ![s] = TRUE]
        /\ latest' = [latest EXCEPT ![k] = {v}]
        /\ Touch(k)
        /\ UNCHANGED clearing

\* The eviction loop of Put: victims leave from the back while the shard is
\* over its share.
Evict(s) ==
    /\ evicting[s]
    /\ \/ /\ weight[s] > shard_weight_cap /\ lru[s] # <<>>
          /\ lru' = [lru EXCEPT ![s] = Front(@)]
          /\ map' = [map EXCEPT ![s] = @ \ {Last(lru[s]).key}]
          /\ weight' = [weight EXCEPT ![s] = @ - weight_(Last(lru[s]).value)]
          /\ UNCHANGED evicting
       \/ /\ weight[s] <= shard_weight_cap \/ lru[s] = <<>>
          /\ evicting' = [evicting EXCEPT ![s] = FALSE]
          /\ UNCHANGED <<lru, map, weight>>
    /\ UNCHANGED <<clearing, latest, newer>>

ClearStart ==
    /\ clearing = shards /\ clearing' = 0
    /\ UNCHANGED <<lru, map, weight, evicting, latest, newer>>

ClearShard ==
    /\ clearing < shards /\ ~evicting[clearing]
    /\ lru' = [lru EXCEPT ![clearing] = <<>>]
    /\ map' = [map EXCEPT ![clearing] = {}]
    /\ weight' = [weight EXCEPT ![clearing] = 0]
    /\ clearing' = clearing + 1
    /\ UNCHANGED <<evicting, latest, newer>>

LruNext ==
    \/ \E k \in CacheKey : CacheGet(k) \/ \E v \in Value : CachePut(k, v)
    \/ \E s \in Shard : Evict(s)
    \/ ClearStart \/ ClearShard

LruSpec == LruInit /\ [][LruNext]_lruVars

-----------------------------------------------------------------------------
\* The entries of q weigh w together: upto[i] is the weight of the first i.
Weighs(q, w) ==
    \E upto \in [0 .. Len(q) -> 0 .. w] :
        /\ upto[0] = 0 /\ upto[Len(q)] = w
        /\ \A i \in 1 .. Len(q) : upto[i] = upto[i - 1] + weight_(q[i].value)

\* Every shard counts the weight of what it holds (the subtraction of an
\* unsigned weight never wraps) and keeps its share between calls, the map
\* names exactly the entries of the list, and each key lies in its shard once.
\* A hit is the value put last under the key, of those the cache took: a
\* value heavier than the whole cache is refused and an older one stays.
CacheExact ==
    \A s \in Shard :
        /\ Weighs(lru[s], weight[s])
        /\ ~evicting[s] => weight[s] <= shard_weight_cap
        /\ map[s] = {lru[s][i].key : i \in DOMAIN lru[s]}
        /\ \A i, j \in DOMAIN lru[s] : i # j => lru[s][i].key # lru[s][j].key
        /\ \A i \in DOMAIN lru[s] : /\ ShardOf(lru[s][i].key) = s
                                   /\ latest[lru[s][i].key] = {lru[s][i].value}

\* Eviction is least recently used first: a step that puts an entry out while
\* it keeps another puts out the one used longer ago (unless it clears).
EvictsOldest ==
    [][clearing' = clearing =>
        \A s \in Shard : \A x \in map[s] \ map'[s], y \in map'[s] : <<y, x>> \in newer']_lruVars
=============================================================================
