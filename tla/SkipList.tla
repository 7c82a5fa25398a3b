------------------------------ MODULE SkipList ------------------------------
(***************************************************************************)
(* The insert-only skiplist under the memtable (skiplist.h): one writer    *)
(* links a node level by level, bottom-up, while readers walk the list     *)
(* without a lock.  Every step is one load or one store of a next pointer; *)
(* release and acquire make the stores visible in the order they are made. *)
(* A node is its key; the sentinel is 0, nullptr is Nil, above every key.  *)
(***************************************************************************)
EXTENDS Naturals, FiniteSets

CONSTANTS
    Key,         \* what may be inserted
    Nil,         \* nullptr
    kMaxLevel,
    Reader

ASSUME SkipListAssumption ==
    /\ Nil \in Nat \ {0} /\ Key \subseteq Nat /\ \A k \in Key : 0 < k /\ k < Nil
    /\ kMaxLevel \in Nat \ {0}

VARIABLES
    next,        \* next[level][node]
    linked,      \* history: per level, the nodes a link has been made to
    wpc,         \* Insert: "idle", "find", "wire", "publish" or "count"
    wkey, wx, wlevel, prev, height,   \* its locals
    size_,       \* size_
    rpc,         \* per reader: "idle", "seek" or "at"
    target, rx, rlevel,   \* per reader: the locals of FindGreaterOrEqual
    node,        \* per reader: node_ of its iterator
    before,      \* history: the keys in the list when it began to seek
    seen         \* history: the keys its iterator has passed

list     == <<next, linked, size_>>
inserter == <<wpc, wkey, wx, wlevel, prev, height>>
walkers  == <<rpc, target, rx, rlevel, node, before, seen>>
skipVars == <<list, inserter, walkers>>

head_ == 0
Level == 0 .. kMaxLevel - 1
Node  == Key \cup {head_}

SkipInit ==
    /\ next = [l \in Level |-> [n \in Node |-> Nil]]
    /\ linked = [l \in Level |-> {}]
    /\ size_ = 0
    /\ wpc = "idle" /\ wkey = head_ /\ wx = head_ /\ wlevel = 0
    /\ prev = [l \in Level |-> head_] /\ height = 0
    /\ rpc = [r \in Reader |-> "idle"]
    /\ target = [r \in Reader |-> head_]
    /\ rx = [r \in Reader |-> head_] /\ rlevel = [r \in Reader |-> 0]
    /\ node = [r \in Reader |-> Nil]
    /\ before = [r \in Reader |-> {}] /\ seen = [r \in Reader |-> {}]

\* Mutant: an equal key is passed.
LessOrEqual(n, key) == n # Nil /\ n <= key

\* next != nullptr && less_(next->key, key)
Less(n, key) == n # Nil /\ n < key

-----------------------------------------------------------------------------
\* Insert, by the one writer.

\* The search begins at the sentinel on the top level.
InsertStart(k) ==
    /\ wpc = "idle"
    /\ wpc' = "find" /\ wkey' = k /\ wx' = head_ /\ wlevel' = kMaxLevel - 1
    /\ UNCHANGED <<list, prev, height, walkers>>

\* RandomLevel; the tower is built from level 0, where the search ended.
DrawHeight == wpc' = "wire" /\ height' \in 1 .. kMaxLevel /\ wlevel' = 0

\* One round of FindGreaterOrEqual, filling prev.  At level 0 an equal key
\* ends Insert; otherwise the tower's height is drawn.
FindPrev ==
    /\ wpc = "find"
    /\ LET n == next[wlevel][wx]
       IN  \/ /\ Less(n, wkey)
              /\ wx' = n
              /\ UNCHANGED <<wpc, wlevel, prev, height>>
           \/ /\ ~Less(n, wkey) /\ wlevel > 0
              /\ prev' = [prev EXCEPT ![wlevel] = wx] /\ wlevel' = wlevel - 1
              /\ UNCHANGED <<wpc, wx, height>>
           \/ /\ n = wkey /\ wlevel = 0
              /\ prev' = [prev EXCEPT ![0] = wx] /\ wpc' = "idle"
              /\ UNCHANGED <<wx, wlevel, height>>
           \/ /\ ~Less(n, wkey) /\ n # wkey /\ wlevel = 0
              /\ prev' = [prev EXCEPT ![0] = wx] /\ DrawHeight
              /\ UNCHANGED wx
    /\ UNCHANGED <<list, wkey, walkers>>

\* node->next[level] <- prev[level]->next[level]
WireNode ==
    /\ wpc = "wire"
    /\ next' = [next EXCEPT ![wlevel][wkey] = next[wlevel][prev[wlevel]]]
    /\ wpc' = "publish"
    /\ UNCHANGED <<linked, size_, wkey, wx, wlevel, prev, height, walkers>>

\* prev[level]->next[level] <- node, and on to the next level.
Publish ==
    /\ wpc = "publish"
    /\ next' = [next EXCEPT ![wlevel][prev[wlevel]] = wkey]
    /\ linked' = [linked EXCEPT ![wlevel] = @ \cup {wkey}]
    /\ IF wlevel + 1 < height
       THEN wlevel' = wlevel + 1 /\ wpc' = "wire"
       ELSE wlevel' = wlevel /\ wpc' = "count"
    /\ UNCHANGED <<size_, wkey, wx, prev, height, walkers>>

InsertEnd ==
    /\ wpc = "count"
    /\ size_' = size_ + 1 /\ wpc' = "idle"
    /\ UNCHANGED <<next, linked, wkey, wx, wlevel, prev, height, walkers>>

-----------------------------------------------------------------------------
\* Readers: Contains and the iterator.

Begin(r, t) ==
    /\ target' = [target EXCEPT ![r] = t]
    /\ before' = [before EXCEPT ![r] = linked[0]]
    /\ seen' = [seen EXCEPT ![r] = {}]

Seek(r, t) ==
    /\ rpc[r] = "idle"
    /\ Begin(r, t)
    /\ rpc' = [rpc EXCEPT ![r] = "seek"]
    /\ rx' = [rx EXCEPT ![r] = head_]
    /\ rlevel' = [rlevel EXCEPT ![r] = kMaxLevel - 1]
    /\ UNCHANGED <<list, inserter, node>>

SeekToFirst(r) ==
    /\ rpc[r] = "idle"
    /\ Begin(r, head_)
    /\ rpc' = [rpc EXCEPT ![r] = "at"]
    /\ node' = [node EXCEPT ![r] = next[0][head_]]
    /\ UNCHANGED <<list, inserter, rx, rlevel>>

\* One round of FindGreaterOrEqual.
FindGreaterOrEqual(r) ==
    /\ rpc[r] = "seek"
    /\ LET n == next[rlevel[r]][rx[r]]
       IN  \/ /\ Less(n, target[r])
              /\ rx' = [rx EXCEPT ![r] = n]
              /\ UNCHANGED <<rpc, rlevel, node>>
           \/ /\ ~Less(n, target[r]) /\ rlevel[r] > 0
              /\ rlevel' = [rlevel EXCEPT ![r] = @ - 1]
              /\ UNCHANGED <<rpc, rx, node>>
           \/ /\ ~Less(n, target[r]) /\ rlevel[r] = 0
              /\ node' = [node EXCEPT ![r] = n]
              /\ rpc' = [rpc EXCEPT ![r] = "at"]
              /\ UNCHANGED <<rx, rlevel>>
    /\ UNCHANGED <<list, inserter, target, before, seen>>

IteratorNext(r) ==
    /\ rpc[r] = "at" /\ node[r] # Nil
    /\ seen' = [seen EXCEPT ![r] = @ \cup {node[r]}]
    /\ node' = [node EXCEPT ![r] = next[0][node[r]]]
    /\ UNCHANGED <<list, inserter, rpc, target, rx, rlevel, before>>

\* The caller has its answer.
ReadEnd(r) ==
    /\ rpc[r] = "at"
    /\ rpc' = [rpc EXCEPT ![r] = "idle"]
    /\ UNCHANGED <<list, inserter, target, rx, rlevel, node, before, seen>>

SkipNext ==
    \/ \E k \in Key : InsertStart(k)
    \/ FindPrev \/ WireNode \/ Publish \/ InsertEnd
    \/ \E r \in Reader :
         \/ \E t \in Key : Seek(r, t)
         \/ SeekToFirst(r) \/ FindGreaterOrEqual(r) \/ IteratorNext(r) \/ ReadEnd(r)

SkipSpec == SkipInit /\ [][SkipNext]_skipVars

-----------------------------------------------------------------------------
\* The variables keep their types.
SkipTypeOK ==
    /\ next \in [Level -> [Node -> Key \cup {Nil}]]
    /\ linked \in [Level -> SUBSET Key]
    /\ size_ \in Nat
    /\ wpc \in {"idle", "find", "wire", "publish", "count"}
    /\ wkey \in Node /\ wx \in Node /\ wlevel \in Level
    /\ prev \in [Level -> Node] /\ height \in 0 .. kMaxLevel
    /\ rpc \in [Reader -> {"idle", "seek", "at"}]
    /\ target \in [Reader -> Node] /\ rx \in [Reader -> Node]
    /\ rlevel \in [Reader -> Level] /\ node \in [Reader -> Key \cup {Nil}]
    /\ before \in [Reader -> SUBSET Key] /\ seen \in [Reader -> SUBSET Key]

\* Whatever the writer has linked so far, following a level from the sentinel
\* passes every node of that level in order: a linked node points past none.
LevelsWhole ==
    \A l \in Level : \A n \in linked[l] \cup {head_} :
        /\ next[l][n] > n
        /\ next[l][n] # Nil => next[l][n] \in linked[l]
        /\ \A k \in linked[l] : ~(n < k /\ k < next[l][n])

\* A tower stands on the levels below it: who finds a node on a level can go
\* down from it.
TowersStand == \A l \in Level : l > 0 => linked[l] \subseteq linked[l - 1]

\* A lock-free read misses nothing that was in the list when it began, comes
\* in order, and returns only keys that have been inserted.
NothingMissed ==
    \A r \in Reader : rpc[r] = "at" =>
        /\ \A k \in before[r] : (target[r] <= k /\ k < node[r]) => k \in seen[r]
        /\ \A k \in seen[r] : target[r] <= k /\ k < node[r]
        /\ seen[r] \cup {node[r]} \subseteq linked[0] \cup {Nil}
        /\ node[r] >= target[r]
=============================================================================
