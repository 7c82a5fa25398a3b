-------------------------- MODULE StructureProofs ---------------------------
(***************************************************************************)
(* The structures that stand alone: the skiplist, the LRU cache and the    *)
(* log file.                                                               *)
(*                                                                         *)
(* A lock-free read of the skiplist misses nothing, for every set of keys, *)
(* every number of levels and every number of readers.                     *)
(*                                                                         *)
(* LevelsWhole and NothingMissed are not inductive.  Inv adds where the    *)
(* writer's predecessors are (Writing), that a tower under construction    *)
(* stands on all lower levels (Towers), and that a seeking reader stands   *)
(* on a linked node left of its target and has passed nothing (Walking).   *)
(***************************************************************************)
EXTENDS Wal, SkipList, LruCache, TLAPS, SequenceTheorems, WellFoundedInduction

\* Linked nodes, and the sentinel, that a walk on level l may stand on.
On(l) == linked[l] \cup {head_}

\* prev[l] is the last node before wkey on level l.
Pred(l) ==
    /\ prev[l] \in On(l) /\ prev[l] < wkey
    /\ next[l][prev[l]] >= wkey

Towers == \A l, m \in Level : m <= l => linked[l] \subseteq linked[m]

Writing ==
    /\ wpc # "idle" => wkey \in Key
    /\ wpc = "find" =>
         /\ wx \in On(wlevel) /\ wx < wkey
         /\ \A l \in Level : l > wlevel => Pred(l)
    /\ wpc \in {"wire", "publish"} =>
         /\ wlevel < height
         /\ \A l \in Level : l < wlevel => wkey \in linked[l]
         /\ \A l \in Level : l >= wlevel => wkey \notin linked[l] /\ Pred(l)
    /\ wpc = "publish" => next[wlevel][wkey] = next[wlevel][prev[wlevel]]

Walking ==
    \A r \in Reader :
        /\ rpc[r] # "idle" => before[r] \subseteq linked[0]
        /\ rpc[r] = "seek" => rx[r] \in On(rlevel[r]) /\ rx[r] < target[r] /\ seen[r] = {}

Inv == SkipTypeOK /\ LevelsWhole /\ Towers /\ Writing /\ Walking /\ NothingMissed

\* Numbers: the sentinel is below every key and nullptr above, and level 0
\* exists.
LEMMA Bounds ==
    /\ head_ \in Node /\ head_ \in Nat /\ Nil \in Nat /\ Nil > head_ /\ Nil \notin Key
    /\ Key \subseteq Nat /\ Node \subseteq Nat
    /\ \A k \in Key : 0 < k /\ k < Nil /\ k # head_
    /\ Level \subseteq Nat /\ 0 \in Level /\ kMaxLevel - 1 \in Level /\ kMaxLevel \in Nat
  BY SkipListAssumption DEF head_, Node, Level

\* Less is < because nullptr is above every key.
LEMMA LessIsLess ==
    ASSUME NEW n \in Key \cup {Nil}, NEW k \in Node
    PROVE  /\ Less(n, k) <=> n < k
           /\ ~Less(n, k) <=> n >= k
  BY SkipListAssumption DEF Less, Node, head_

\* Every pointer of every node is a key or nullptr, and a number.
LEMMA NextType ==
    ASSUME SkipTypeOK, NEW l \in Level, NEW n \in Node
    PROVE  next[l][n] \in Key \cup {Nil} /\ next[l][n] \in Nat
  <1>1. next[l] \in [Node -> Key \cup {Nil}]
    BY DEF SkipTypeOK
  <1>2. next[l][n] \in Key \cup {Nil}
    BY <1>1
  <1> QED
    BY <1>2, Bounds

\* The constructor's list satisfies the invariant.
LEMMA InitInv == SkipInit => Inv
  <1> SUFFICES ASSUME SkipInit PROVE Inv
    OBVIOUS
  <1>1. SkipTypeOK
    BY Bounds DEF SkipInit, SkipTypeOK
  <1>2. LevelsWhole
    BY Bounds DEF SkipInit, LevelsWhole
  <1>3. Towers /\ Writing /\ Walking /\ NothingMissed
    BY DEF SkipInit, Towers, Writing, Walking, NothingMissed
  <1> QED
    BY <1>1, <1>2, <1>3 DEF Inv

-----------------------------------------------------------------------------
\* No step gives a variable a value outside its type.
LEMMA TypeStep == Inv /\ [SkipNext]_skipVars => SkipTypeOK'
  <1> SUFFICES ASSUME Inv, [SkipNext]_skipVars PROVE SkipTypeOK'
    OBVIOUS
  <1> USE Bounds DEF Inv
  <1>1. ASSUME NEW k \in Key, InsertStart(k) PROVE SkipTypeOK'
    BY <1>1 DEF InsertStart, SkipTypeOK, list, walkers, Node
  <1>2. CASE FindPrev
    <2> DEFINE n == next[wlevel][wx]
    <2>1. n \in Key \cup {Nil}
      BY DEF SkipTypeOK
    <2>2. Less(n, wkey) => n \in Node
      BY <2>1 DEF Less, Node
    <2>3. wlevel > 0 => wlevel - 1 \in Level
      BY DEF SkipTypeOK, Level
    <2>4. 1 .. kMaxLevel \subseteq 0 .. kMaxLevel
      OBVIOUS
    <2>5. /\ wpc' \in {"find", "idle", "wire"} /\ wkey' \in Node
          /\ wx' \in Node /\ wlevel' \in Level /\ height' \in 0 .. kMaxLevel
      BY <1>2, <2>2, <2>3, <2>4 DEF FindPrev, DrawHeight, SkipTypeOK
    <2>6. prev' \in [Level -> Node]
      BY <1>2 DEF FindPrev, SkipTypeOK
    <2>7. UNCHANGED <<list, walkers>>
      BY <1>2 DEF FindPrev
    <2> QED
      BY <2>5, <2>6, <2>7 DEF SkipTypeOK, list, walkers
  <1>3. CASE WireNode
    <2>0. /\ wlevel \in Level /\ wkey \in Node
          /\ next \in [Level -> [Node -> Key \cup {Nil}]] /\ prev \in [Level -> Node]
      BY DEF SkipTypeOK
    <2> DEFINE m == next[wlevel]
    <2>1. m \in [Node -> Key \cup {Nil}] /\ prev[wlevel] \in Node
      BY <2>0, Zenon
    <2> HIDE DEF m
    <2>2. [m EXCEPT ![wkey] = m[prev[wlevel]]] \in [Node -> Key \cup {Nil}]
      BY <2>0, <2>1, Zenon
    <2>3. next' \in [Level -> [Node -> Key \cup {Nil}]]
      <3>1. next' = [next EXCEPT ![wlevel] = [m EXCEPT ![wkey] = m[prev[wlevel]]]]
        BY <1>3 DEF WireNode, m
      <3> QED
        BY <2>0, <2>2, <3>1, Zenon
    <2>4. /\ UNCHANGED <<linked, size_, wkey, wx, wlevel, prev, height, walkers>>
          /\ wpc' = "publish"
      BY <1>3 DEF WireNode
    <2> QED
      BY <2>3, <2>4 DEF SkipTypeOK, walkers
  <1>4. CASE Publish
    <2>1. wlevel + 1 < height => wlevel + 1 \in Level
      BY DEF SkipTypeOK, Level
    <2>2. wkey \in Key
      BY <1>4 DEF Publish, Writing
    <2> QED
      BY <1>4, <2>1, <2>2 DEF Publish, SkipTypeOK, walkers
  <1>5. CASE InsertEnd
    BY <1>5 DEF InsertEnd, SkipTypeOK, walkers
  <1>6. ASSUME NEW r \in Reader, NEW t \in Key, Seek(r, t) PROVE SkipTypeOK'
    BY <1>6 DEF Seek, Begin, SkipTypeOK, list, inserter, Node
  <1>7. ASSUME NEW r \in Reader, SeekToFirst(r) PROVE SkipTypeOK'
    BY <1>7 DEF SeekToFirst, Begin, SkipTypeOK, list, inserter
  <1>8. ASSUME NEW r \in Reader, FindGreaterOrEqual(r) PROVE SkipTypeOK'
    <2> DEFINE n == next[rlevel[r]][rx[r]]
    <2>0. rlevel[r] \in Level /\ rx[r] \in Node
      BY DEF SkipTypeOK
    <2>1. n \in Key \cup {Nil}
      BY <2>0, NextType
    <2>2. Less(n, target[r]) => n \in Node
      BY <2>1 DEF Less, Node
    <2>3. rlevel[r] > 0 => rlevel[r] - 1 \in Level
      BY DEF SkipTypeOK, Level
    <2> QED
      BY <1>8, <2>1, <2>2, <2>3 DEF FindGreaterOrEqual, SkipTypeOK, list, inserter
  <1>9. ASSUME NEW r \in Reader, IteratorNext(r) PROVE SkipTypeOK'
    <2>1. node[r] \in Key /\ node[r] \in Node
      BY <1>9 DEF IteratorNext, SkipTypeOK, Node
    <2>2. next[0][node[r]] \in Key \cup {Nil}
      BY <2>1, NextType
    <2> QED
      BY <1>9, <2>1, <2>2 DEF IteratorNext, SkipTypeOK, list, inserter
  <1>10. ASSUME NEW r \in Reader, ReadEnd(r) PROVE SkipTypeOK'
    BY <1>10 DEF ReadEnd, SkipTypeOK, list, inserter
  <1>11. CASE UNCHANGED skipVars
    BY <1>11 DEF skipVars, list, inserter, walkers, SkipTypeOK
  <1> QED
    BY <1>1, <1>2, <1>3, <1>4, <1>5, <1>6, <1>7, <1>8, <1>9, <1>10, <1>11 DEF SkipNext

-----------------------------------------------------------------------------
\* The list itself: only WireNode and Publish change it.

\* Under Publish the new node takes its predecessor's successor.
LEMMA WholeStep == Inv /\ [SkipNext]_skipVars => LevelsWhole' /\ Towers'
  <1> SUFFICES ASSUME Inv, [SkipNext]_skipVars PROVE LevelsWhole' /\ Towers'
    OBVIOUS
  <1> USE Bounds DEF Inv
  <1>1. CASE WireNode
    <2>1. wlevel \in Level /\ wkey \in Node
      BY DEF SkipTypeOK
    <2>2. wkey \notin linked[wlevel] /\ wkey \in Key
      BY <1>1, <2>1 DEF WireNode, Writing
    <2>3. \A l \in Level : \A n \in On(l) : next'[l][n] = next[l][n]
      BY <1>1, <2>1, <2>2 DEF WireNode, SkipTypeOK, On, Node
    <2> QED
      BY <1>1, <2>3 DEF WireNode, LevelsWhole, Towers, On
  <1>2. CASE Publish
    <2> DEFINE p == prev[wlevel]  old == next[wlevel][p]
    <2>1. wlevel \in Level /\ wkey \in Key /\ wkey \notin linked[wlevel]
      BY <1>2 DEF Publish, Writing, SkipTypeOK
    <2>2. p \in On(wlevel) /\ p \in Node /\ p < wkey /\ old >= wkey
      BY <1>2, <2>1 DEF Publish, Writing, Pred, SkipTypeOK
    <2>3. old \in Key \cup {Nil} /\ old \in Nat /\ p \in Nat /\ wkey \in Nat
      BY <2>1, <2>2, NextType
    <2>31. old # Nil => old \in linked[wlevel]
      BY <2>1, <2>2 DEF LevelsWhole, On
    <2>4. old > wkey
      <3>1. old # wkey
        BY <2>1, <2>31
      <3> QED
        BY <3>1, <2>2, <2>3
    <2>5. next[wlevel][wkey] = old
      BY <1>2 DEF Publish, Writing
    <2>6. /\ next'[wlevel][p] = wkey
          /\ next'[wlevel][wkey] = old
          /\ \A n \in Node : n # p => next'[wlevel][n] = next[wlevel][n]
      BY <1>2, <2>1, <2>2, <2>5 DEF Publish, SkipTypeOK, Node
    <2>7. \A l \in Level : l # wlevel => next'[l] = next[l] /\ linked'[l] = linked[l]
      BY <1>2 DEF Publish, SkipTypeOK
    <2>8. linked'[wlevel] = linked[wlevel] \cup {wkey}
      BY <1>2, <2>1 DEF Publish, SkipTypeOK
    <2>9. LevelsWhole'
      <3> SUFFICES ASSUME NEW l \in Level, NEW n \in linked'[l] \cup {head_}
                   PROVE  /\ next'[l][n] > n
                          /\ next'[l][n] # Nil => next'[l][n] \in linked'[l]
                          /\ \A k \in linked'[l] : ~(n < k /\ k < next'[l][n])
        BY DEF LevelsWhole
      <3>1. CASE l # wlevel
        BY <3>1, <2>7 DEF LevelsWhole
      <3>2. CASE l = wlevel /\ n = p
        <4>1. \A k \in linked[wlevel] : ~(p < k /\ k < old)
          BY <2>1, <2>2 DEF LevelsWhole, On
        <4>2. \A k \in linked[wlevel] : k \in Nat
          BY <2>1 DEF SkipTypeOK
        <4> QED
          BY <3>2, <4>1, <4>2, <2>1, <2>2, <2>3, <2>31, <2>4, <2>6, <2>8
      <3>3. CASE l = wlevel /\ n = wkey
        <4>1. \A k \in linked[wlevel] : ~(p < k /\ k < old)
          BY <2>1, <2>2 DEF LevelsWhole, On
        <4>2. \A k \in linked[wlevel] : k \in Nat
          BY <2>1 DEF SkipTypeOK
        <4> QED
          BY <3>3, <4>1, <4>2, <2>1, <2>2, <2>3, <2>31, <2>4, <2>6, <2>8
      <3>4. CASE l = wlevel /\ n # p /\ n # wkey
        <4>1. n \in linked[wlevel] \cup {head_} /\ n \in Node /\ next'[l][n] = next[l][n]
          BY <3>4, <2>1, <2>6, <2>8 DEF SkipTypeOK, Node
        <4>2. /\ next[l][n] > n
              /\ next[l][n] # Nil => next[l][n] \in linked[l]
              /\ \A k \in linked[l] : ~(n < k /\ k < next[l][n])
          BY <3>4, <4>1 DEF LevelsWhole
        <4>3. next[l][n] \in Nat /\ n \in Nat /\ old \in Nat /\ p \in Nat
          BY <4>1, <2>3, NextType
        <4>4. ~(n < wkey /\ wkey < next[l][n])
          \* n < p puts p between n and its successor, p < n puts n
          \* between p and old.
          <5>1. CASE n < p
            <6>1. p \in linked[wlevel]
              BY <5>1, <4>3, <2>2 DEF On, head_
            <6>2. ~(n < p /\ p < next[l][n])
              BY <6>1, <3>4, <4>2
            <6> QED
              BY <5>1, <6>2, <4>3, <2>2, <2>3
          <5>2. CASE p < n
            <6>1. n \in linked[wlevel]
              BY <5>2, <4>1, <4>3 DEF head_
            <6>2. ~(p < n /\ n < old)
              BY <6>1, <2>1, <2>2 DEF LevelsWhole, On
            <6> QED
              BY <5>2, <6>2, <4>3, <2>1, <2>4
          <5> QED
            BY <5>1, <5>2, <3>4, <4>3
        <4> QED
          BY <3>4, <4>1, <4>2, <4>4, <2>8
      <3> QED
        BY <3>1, <3>2, <3>3, <3>4
    <2>10. Towers'
      <3> SUFFICES ASSUME NEW l \in Level, NEW m \in Level, m <= l
                   PROVE  linked'[l] \subseteq linked'[m]
        BY DEF Towers
      <3>1. linked[l] \subseteq linked[m]
        BY DEF Towers
      <3>2. l = wlevel /\ m # wlevel => wkey \in linked[m]
        BY <1>2, <2>1 DEF Publish, Writing, Level
      <3> QED
        BY <3>1, <3>2, <2>7, <2>8
    <2> QED
      BY <2>9, <2>10
  <1>3. CASE UNCHANGED <<next, linked>>
    BY <1>3 DEF LevelsWhole, Towers
  <1> QED
    BY <1>1, <1>2, <1>3 DEF SkipNext, skipVars, list, InsertStart, FindPrev, InsertEnd,
       Seek, SeekToFirst, FindGreaterOrEqual, IteratorNext, ReadEnd

-----------------------------------------------------------------------------
\* The writer's search and its unfinished tower.
LEMMA WritingStep == Inv /\ [SkipNext]_skipVars => Writing'
  <1> SUFFICES ASSUME Inv, [SkipNext]_skipVars PROVE Writing'
    OBVIOUS
  <1> USE Bounds DEF Inv
  <1>1. ASSUME NEW k \in Key, InsertStart(k) PROVE Writing'
    <2>1. /\ wpc' = "find" /\ wkey' = k /\ wx' = head_ /\ wlevel' = kMaxLevel - 1
          /\ UNCHANGED <<next, linked, prev>>
      BY <1>1 DEF InsertStart, list
    <2>2. \A l \in Level : ~(l > kMaxLevel - 1)
      BY DEF Level
    <2>3. head_ < k
      BY DEF head_
    <2> QED
      BY <2>1, <2>2, <2>3 DEF Writing, On
  <1>2. CASE FindPrev
    <2> DEFINE n == next[wlevel][wx]
    <2>1. wlevel \in Level /\ wlevel \in Nat /\ wx \in Node /\ wkey \in Key /\ wkey \in Node
      BY <1>2 DEF FindPrev, DrawHeight, SkipTypeOK, Writing, Node
    <2>2. n \in Key \cup {Nil} /\ n \in Nat
      BY <2>1, NextType
    <2>3. /\ wpc = "find" /\ wx \in On(wlevel) /\ wx < wkey
          /\ \A l \in Level : l > wlevel => Pred(l)
      BY <1>2 DEF FindPrev, DrawHeight, Writing
    <2>4. (Less(n, wkey) <=> n < wkey) /\ (~Less(n, wkey) <=> n >= wkey)
      BY <2>1, <2>2, LessIsLess
    <2>5. UNCHANGED <<next, linked, wkey>>
      BY <1>2 DEF FindPrev, DrawHeight, list
    <2>6. CASE Less(n, wkey)
      <3>1. wx' = n /\ UNCHANGED <<wpc, wlevel, prev>>
        BY <1>2, <2>4, <2>6, <2>2, <2>1 DEF FindPrev, DrawHeight
      <3>2. n \in linked[wlevel]
        BY <2>1, <2>3, <2>6 DEF LevelsWhole, On, Less
      <3> QED
        BY <3>1, <3>2, <2>1, <2>3, <2>4, <2>5, <2>6 DEF Writing, On, Pred
    <2>7. CASE ~Less(n, wkey)
      <3>1. prev' = [prev EXCEPT ![wlevel] = wx]
        BY <1>2, <2>7, <2>1 DEF FindPrev, DrawHeight
      <3>2. \A l \in Level : l >= wlevel => Pred(l)'
        <4> SUFFICES ASSUME NEW l \in Level, l >= wlevel PROVE Pred(l)'
          OBVIOUS
        <4>1. CASE l = wlevel
          <5>1. prev'[l] = wx
            BY <4>1, <3>1, <2>1 DEF SkipTypeOK
          <5> QED
            BY <4>1, <5>1, <2>1, <2>3, <2>4, <2>5, <2>7 DEF Pred, On
        <4>2. CASE l > wlevel
          <5>1. prev'[l] = prev[l]
            BY <4>2, <3>1, <2>1 DEF SkipTypeOK
          <5> QED
            BY <4>2, <5>1, <2>3, <2>5 DEF Pred, On
        <4> QED
          BY <4>1, <4>2, <2>1
      <3>3. CASE wlevel > 0
        <4>1. wpc' = "find" /\ wlevel' = wlevel - 1 /\ wx' = wx
          BY <1>2, <2>3, <2>7, <3>3, <2>1 DEF FindPrev, DrawHeight
        <4>2. wlevel' \in Level /\ wlevel' < wlevel
          BY <4>1, <3>3, <2>1 DEF Level
        <4>3. wx \in linked[wlevel'] \cup {head_}
          <5>1. wlevel' <= wlevel
            BY <4>1, <2>1
          <5>2. linked[wlevel] \subseteq linked[wlevel']
            BY <5>1, <4>2, <2>1 DEF Towers
          <5> QED
            BY <5>2, <2>3 DEF On
        <4>4. \A l \in Level : l > wlevel' => Pred(l)'
          BY <3>2, <4>1, <2>1
        <4> QED
          BY <4>1, <4>3, <4>4, <2>1, <2>3, <2>5 DEF Writing, On
      <3>4. CASE wlevel = 0 /\ n = wkey
        <4>1. wpc' = "idle"
          BY <1>2, <2>7, <3>4 DEF FindPrev, DrawHeight
        <4> QED
          BY <4>1 DEF Writing
      <3>5. CASE wlevel = 0 /\ n # wkey
        <4>1. wpc' = "wire" /\ wlevel' = 0 /\ height' \in 1 .. kMaxLevel
          BY <1>2, <2>7, <3>5 DEF FindPrev, DrawHeight
        <4>2. wkey \notin linked[0]
          <5>1. \A k \in linked[0] : ~(wx < k /\ k < n)
            BY <2>1, <2>3, <3>5 DEF LevelsWhole, On
          <5>2. wx < wkey /\ wkey < n
            BY <2>1, <2>2, <2>3, <2>4, <2>7, <3>5
          <5> QED
            BY <5>1, <5>2
        <4>3. \A l \in Level : wkey \notin linked[l]
          <5> SUFFICES ASSUME NEW l \in Level PROVE linked[l] \subseteq linked[0]
            BY <4>2
          <5>1. 0 <= l
            OBVIOUS
          <5>2. Towers /\ 0 \in Level
            OBVIOUS
          <5> QED
            BY ONLY <5>1, <5>2, l \in Level DEF Towers
        <4>4. \A l \in Level : l >= 0 => Pred(l)'
          BY <3>2, <3>5
        <4>5. wlevel' < height' /\ \A l \in Level : ~(l < wlevel')
          BY <4>1
        <4> QED
          BY <4>1, <4>3, <4>4, <4>5, <2>1, <2>5 DEF Writing
      <3> QED
        BY <3>3, <3>4, <3>5, <2>1
    <2> QED
      BY <2>6, <2>7
  <1>3. CASE WireNode
    <2>1. wlevel \in Level /\ wkey \in Key /\ wkey \in Node
      BY <1>3 DEF WireNode, SkipTypeOK, Writing, Node
    <2>2. /\ wlevel < height
          /\ \A l \in Level : l < wlevel => wkey \in linked[l]
          /\ \A l \in Level : l >= wlevel => wkey \notin linked[l] /\ Pred(l)
      BY <1>3 DEF WireNode, Writing
    <2>3. /\ wpc' = "publish"
          /\ UNCHANGED <<linked, wkey, wlevel, prev, height>>
      BY <1>3 DEF WireNode
    <2>4. \A l \in Level : l >= wlevel => next'[l][prev[l]] = next[l][prev[l]] /\ prev[l] # wkey
      BY <1>3, <2>1, <2>2 DEF WireNode, Pred, SkipTypeOK, On
    <2>5. next'[wlevel][wkey] = next[wlevel][prev[wlevel]]
      BY <1>3, <2>1 DEF WireNode, SkipTypeOK
    <2>6. next'[wlevel][wkey] = next'[wlevel][prev[wlevel]]
      <3>1. wlevel >= wlevel
        BY <2>1
      <3> QED
        BY <2>1, <2>4, <2>5, <3>1
    <2>7. \A l \in Level : l >= wlevel => Pred(l)'
      BY <2>2, <2>3, <2>4 DEF Pred, On
    <2> QED
      BY <2>1, <2>2, <2>3, <2>6, <2>7 DEF Writing
  <1>4. CASE Publish
    <2>1. wlevel \in Level /\ wlevel \in Nat /\ height \in Nat /\ wkey \in Key /\ wkey' = wkey
      BY <1>4 DEF Publish, SkipTypeOK, Writing
    <2>2. CASE wlevel + 1 < height
      <3>1. /\ wlevel' = wlevel + 1 /\ wpc' = "wire"
            /\ UNCHANGED <<prev, height>>
        BY <1>4, <2>2 DEF Publish
      <3>2. /\ \A l \in Level : l < wlevel => wkey \in linked[l]
            /\ \A l \in Level : l >= wlevel => wkey \notin linked[l] /\ Pred(l)
        BY <1>4 DEF Publish, Writing
      <3>3. /\ linked'[wlevel] = linked[wlevel] \cup {wkey}
            /\ \A l \in Level : l # wlevel => next'[l] = next[l] /\ linked'[l] = linked[l]
        BY <1>4, <2>1 DEF Publish, SkipTypeOK
      <3>4. \A l \in Level : l < wlevel' => wkey \in linked'[l]
        BY <3>1, <3>2, <3>3, <2>1
      <3>5. \A l \in Level : l >= wlevel' => l # wlevel /\ l >= wlevel
        BY <3>1, <2>1
      <3>6. \A l \in Level : l >= wlevel' => wkey \notin linked'[l] /\ Pred(l)'
        BY <3>1, <3>2, <3>3, <3>5, <2>1 DEF Pred, On
      <3> QED
        BY <3>1, <3>4, <3>6, <2>1, <2>2 DEF Writing
    <2>3. CASE ~(wlevel + 1 < height)
      BY <1>4, <2>1, <2>3 DEF Publish, Writing
    <2> QED
      BY <2>2, <2>3
  <1>5. CASE InsertEnd
    BY <1>5 DEF InsertEnd, Writing
  <1>6. CASE UNCHANGED <<next, linked, wpc, wkey, wx, wlevel, prev, height>>
    BY <1>6 DEF Writing, Pred, On
  <1> QED
    BY <1>1, <1>2, <1>3, <1>4, <1>5, <1>6 DEF SkipNext, skipVars, list, inserter,
       Seek, SeekToFirst, FindGreaterOrEqual, IteratorNext, ReadEnd

-----------------------------------------------------------------------------
\* Readers: links are only added, so where a reader stands stays linked.
LEMMA LinkedGrows == Inv /\ [SkipNext]_skipVars =>
                        \A l \in Level : linked[l] \subseteq linked'[l]
  <1> SUFFICES ASSUME Inv, [SkipNext]_skipVars, NEW l \in Level
               PROVE  linked[l] \subseteq linked'[l]
    OBVIOUS
  <1>1. CASE Publish
    BY <1>1 DEF Publish, Inv, SkipTypeOK
  <1>2. CASE UNCHANGED linked
    BY <1>2
  <1> QED
    BY <1>1, <1>2 DEF SkipNext, skipVars, list, InsertStart, FindPrev, WireNode, InsertEnd,
       Seek, SeekToFirst, FindGreaterOrEqual, IteratorNext, ReadEnd

\* What Inv says of one reader.
Reading(r) ==
    /\ rpc[r] # "idle" => before[r] \subseteq linked[0]
    /\ rpc[r] = "seek" => rx[r] \in On(rlevel[r]) /\ rx[r] < target[r] /\ seen[r] = {}
    /\ rpc[r] = "at" =>
         /\ \A k \in before[r] : (target[r] <= k /\ k < node[r]) => k \in seen[r]
         /\ \A k \in seen[r] : target[r] <= k /\ k < node[r]
         /\ seen[r] \cup {node[r]} \subseteq linked[0] \cup {Nil}
         /\ node[r] >= target[r]

\* Walking and NothingMissed are that, of every reader.
LEMMA ReadingIsBoth == Walking /\ NothingMissed <=> \A r \in Reader : Reading(r)
  BY DEF Walking, NothingMissed, Reading

\* A reader that does not move keeps what it has.
LEMMA ReaderStays ==
    ASSUME Inv, [SkipNext]_skipVars, NEW r \in Reader,
           rpc'[r] = rpc[r], target'[r] = target[r], rx'[r] = rx[r],
           rlevel'[r] = rlevel[r], node'[r] = node[r], before'[r] = before[r],
           seen'[r] = seen[r]
    PROVE  Reading(r)'
  <1>1. Reading(r)
    BY ReadingIsBoth DEF Inv
  <1>2. linked[0] \subseteq linked'[0] /\ linked[rlevel[r]] \subseteq linked'[rlevel[r]]
    BY LinkedGrows, Bounds DEF Inv, SkipTypeOK
  <1> QED
    BY <1>1, <1>2 DEF Reading, On

\* A reader that moves follows a pointer that passes nothing.
LEMMA ReaderMoves ==
    ASSUME Inv, [SkipNext]_skipVars, NEW r \in Reader,
           \/ \E t \in Key : Seek(r, t)
           \/ SeekToFirst(r) \/ FindGreaterOrEqual(r) \/ IteratorNext(r) \/ ReadEnd(r)
    PROVE  Reading(r)'
  <1> USE Bounds DEF Inv
  <1>0. Reading(r)
    BY ReadingIsBoth
  <1>1. ASSUME NEW t \in Key, Seek(r, t) PROVE Reading(r)'
    <2>1. /\ rpc'[r] = "seek" /\ rx'[r] = head_ /\ target'[r] = t
          /\ before'[r] = linked[0] /\ seen'[r] = {} /\ linked' = linked
      BY <1>1 DEF Seek, Begin, SkipTypeOK, list
    <2>2. head_ < t
      BY DEF head_
    <2> QED
      BY <2>1, <2>2 DEF Reading, On
  <1>2. CASE SeekToFirst(r)
    <2>1. /\ rpc'[r] = "at" /\ target'[r] = head_ /\ before'[r] = linked[0]
          /\ seen'[r] = {} /\ node'[r] = next[0][head_] /\ linked' = linked
      BY <1>2 DEF SeekToFirst, Begin, SkipTypeOK, list
    <2>2. /\ next[0][head_] > head_
          /\ next[0][head_] # Nil => next[0][head_] \in linked[0]
          /\ \A k \in linked[0] : ~(head_ < k /\ k < next[0][head_])
      BY DEF LevelsWhole
    <2>3. next[0][head_] \in Nat
      BY NextType
    <2>4. \A k \in linked[0] : head_ < k
      BY DEF SkipTypeOK, head_
    <2> QED
      BY <2>1, <2>2, <2>3, <2>4 DEF Reading
  <1>3. CASE FindGreaterOrEqual(r)
    <2> DEFINE n == next[rlevel[r]][rx[r]]
    <2>1. /\ rlevel[r] \in Level /\ rlevel[r] \in Nat /\ rx[r] \in Node /\ rx[r] \in Nat
          /\ target[r] \in Node /\ target[r] \in Nat /\ before[r] \subseteq Nat
      BY DEF SkipTypeOK
    <2>2. n \in Key \cup {Nil} /\ n \in Nat
      BY <2>1, NextType
    <2>3. (Less(n, target[r]) <=> n < target[r]) /\ (~Less(n, target[r]) <=> n >= target[r])
      BY <2>1, <2>2, LessIsLess
    <2>4. /\ rpc[r] = "seek" /\ rx[r] \in On(rlevel[r]) /\ rx[r] < target[r]
          /\ before[r] \subseteq linked[0] /\ seen[r] = {}
      BY <1>3, <1>0 DEF FindGreaterOrEqual, Reading
    <2>5. linked' = linked /\ target' = target /\ before' = before /\ seen' = seen
      BY <1>3 DEF FindGreaterOrEqual, list
    <2>6. /\ n # Nil => n \in linked[rlevel[r]]
          /\ \A k \in linked[rlevel[r]] : ~(rx[r] < k /\ k < n)
      BY <2>1, <2>4 DEF LevelsWhole, On
    <2>7. CASE Less(n, target[r])
      <3>1. rx'[r] = n /\ rpc'[r] = "seek" /\ rlevel'[r] = rlevel[r]
        BY <1>3, <2>4, <2>7 DEF FindGreaterOrEqual, SkipTypeOK
      <3>2. n \in linked[rlevel[r]]
        BY <2>6, <2>7 DEF Less
      <3> QED
        BY <3>1, <3>2, <2>3, <2>4, <2>5, <2>7 DEF Reading, On
    <2>8. CASE ~Less(n, target[r]) /\ rlevel[r] > 0
      <3>1. rx'[r] = rx[r] /\ rpc'[r] = "seek" /\ rlevel'[r] = rlevel[r] - 1
        BY <1>3, <2>1, <2>4, <2>8 DEF FindGreaterOrEqual, SkipTypeOK
      <3>2. rlevel[r] - 1 \in Level /\ rlevel[r] - 1 <= rlevel[r]
        BY <2>1, <2>8 DEF Level
      <3>3. linked[rlevel[r]] \subseteq linked[rlevel[r] - 1]
        BY <2>1, <3>2 DEF Towers
      <3>4. rx[r] \in linked[rlevel[r] - 1] \cup {head_}
        BY <3>3, <2>4 DEF On
      <3> QED
        BY <3>1, <3>4, <2>4, <2>5 DEF Reading, On
    <2>9. CASE ~Less(n, target[r]) /\ rlevel[r] = 0
      <3>1. node'[r] = n /\ rpc'[r] = "at"
        BY <1>3, <2>4, <2>9 DEF FindGreaterOrEqual, SkipTypeOK
      <3>2. \A k \in before[r] : ~(target[r] <= k /\ k < n)
        BY <2>1, <2>2, <2>4, <2>6, <2>9
      <3> QED
        BY <3>1, <3>2, <2>2, <2>3, <2>4, <2>5, <2>6, <2>9 DEF Reading
    <2> QED
      BY <2>7, <2>8, <2>9, <2>1
  <1>4. CASE IteratorNext(r)
    <2> DEFINE m == node[r]  n == next[0][m]
    <2>1. m \in Key /\ m \in Node /\ m \in Nat /\ target[r] \in Nat
      BY <1>4 DEF IteratorNext, SkipTypeOK, Node
    <2>2. n \in Nat
      BY <2>1, NextType
    <2>3. /\ rpc[r] = "at" /\ m # Nil
          /\ rpc'[r] = "at" /\ node'[r] = n /\ seen'[r] = seen[r] \cup {m}
          /\ linked' = linked /\ target' = target /\ before' = before
      BY <1>4 DEF IteratorNext, list, SkipTypeOK
    <2>4. /\ before[r] \subseteq linked[0] /\ m \in linked[0] /\ m >= target[r]
          /\ \A k \in before[r] : (target[r] <= k /\ k < m) => k \in seen[r]
          /\ \A k \in seen[r] : target[r] <= k /\ k < m
          /\ seen[r] \subseteq linked[0] \cup {Nil}
      BY <2>3, <1>0 DEF Reading
    <2>5. /\ n > m /\ (n # Nil => n \in linked[0])
          /\ \A k \in linked[0] : ~(m < k /\ k < n)
      BY <2>4 DEF LevelsWhole
    <2>6. before[r] \subseteq Nat /\ seen[r] \subseteq Nat
      BY DEF SkipTypeOK
    <2>7. \A k \in before[r] : (target[r] <= k /\ k < n) => k \in seen'[r]
      BY <2>1, <2>2, <2>3, <2>4, <2>5, <2>6
    <2>8. \A k \in seen'[r] : target[r] <= k /\ k < n
      BY <2>1, <2>2, <2>3, <2>4, <2>5, <2>6
    <2>9. n >= target[r]
      BY <2>1, <2>2, <2>4, <2>5
    <2> QED
      BY <2>3, <2>4, <2>5, <2>7, <2>8, <2>9 DEF Reading
  <1>5. CASE ReadEnd(r)
    BY <1>5 DEF ReadEnd, SkipTypeOK, Reading
  <1> QED
    BY <1>1, <1>2, <1>3, <1>4, <1>5

\* Every step keeps what Inv says of the readers: one of them moves, or none.
LEMMA ReadersStep == Inv /\ [SkipNext]_skipVars => Walking' /\ NothingMissed'
  <1> SUFFICES ASSUME Inv, [SkipNext]_skipVars, NEW r \in Reader PROVE Reading(r)'
    BY DEF Walking, NothingMissed, Reading
  <1>1. CASE UNCHANGED walkers
    BY <1>1, ReaderStays DEF walkers
  <1>2. ASSUME NEW q \in Reader,
               \/ \E t \in Key : Seek(q, t)
               \/ SeekToFirst(q) \/ FindGreaterOrEqual(q) \/ IteratorNext(q) \/ ReadEnd(q)
        PROVE  Reading(r)'
    <2>1. CASE q = r
      BY <1>2, <2>1, ReaderMoves
    <2>2. CASE q # r
      <3>1. /\ rpc'[r] = rpc[r] /\ target'[r] = target[r] /\ rx'[r] = rx[r]
            /\ rlevel'[r] = rlevel[r] /\ node'[r] = node[r]
            /\ before'[r] = before[r] /\ seen'[r] = seen[r]
        BY <1>2, <2>2 DEF Seek, SeekToFirst, FindGreaterOrEqual, IteratorNext, ReadEnd,
           Begin, Inv, SkipTypeOK
      <3> QED
        BY <3>1, ReaderStays
    <2> QED
      BY <2>1, <2>2
  <1> QED
    BY <1>1, <1>2 DEF SkipNext, skipVars, InsertStart, FindPrev, WireNode, Publish, InsertEnd

\* Inv is inductive.
LEMMA InvStep == Inv /\ [SkipNext]_skipVars => Inv'
  BY TypeStep, WholeStep, WritingStep, ReadersStep DEF Inv

-----------------------------------------------------------------------------
\* No pointer, level or cursor of the list ever leaves its type.
THEOREM SkipTypeInvariant == SkipSpec => []SkipTypeOK
  <1>1. Inv => SkipTypeOK
    BY DEF Inv
  <1> QED
    BY <1>1, InitInv, InvStep, PTL DEF SkipSpec

\* At every moment of every Insert, the linked nodes of a level are reached
\* in order from the sentinel.
THEOREM LevelsAlwaysWhole == SkipSpec => []LevelsWhole
  <1>1. Inv => LevelsWhole
    BY DEF Inv
  <1> QED
    BY <1>1, InitInv, InvStep, PTL DEF SkipSpec

\* A node is linked on a level only after every level below.
THEOREM TowersAlwaysStand == SkipSpec => []TowersStand
  <1>1. Inv => TowersStand
    <2> SUFFICES ASSUME Towers, NEW l \in Level, l > 0 PROVE linked[l] \subseteq linked[l - 1]
      BY DEF Inv, TowersStand
    <2>1. l - 1 \in Level /\ l - 1 <= l
      BY Bounds DEF Level
    <2> QED
      BY <2>1 DEF Towers
  <1> QED
    BY <1>1, InitInv, InvStep, PTL DEF SkipSpec

\* A lock-free Seek and the walk after it return every key inserted before it
\* began, in order, and no key that was not inserted.
THEOREM ReadersMissNothing == SkipSpec => []NothingMissed
  <1>1. Inv => NothingMissed
    BY DEF Inv
  <1> QED
    BY <1>1, InitInv, InvStep, PTL DEF SkipSpec
-----------------------------------------------------------------------------
(***************************************************************************)
(* The LRU cache counts exactly what it holds, and evicts in the order of  *)
(* use, for any keys, weights, shards and budget.                          *)
(***************************************************************************)
CacheEntry == [key : CacheKey, value : Value]

\* r is q without its i-th entry.
Dropped(r, q, i) ==
    /\ r \in Seq(CacheEntry) /\ Len(r) = Len(q) - 1
    /\ \A j \in 1 .. Len(q) - 1 : r[j] = IF j < i THEN q[j] ELSE q[j + 1]

\* r is q with e in front.
Pushed(r, e, q) ==
    /\ r \in Seq(CacheEntry) /\ Len(r) = Len(q) + 1 /\ r[1] = e
    /\ \A j \in 1 .. Len(q) : r[j + 1] = q[j]

\* splice and erase take out the entry of an iterator.
LEMMA RemovedAt ==
    ASSUME NEW q \in Seq(CacheEntry), NEW i \in 1 .. Len(q)
    PROVE  Dropped(RemoveAt(q, i), q, i)
<1>1. PICK n : n = Len(q)
  OBVIOUS
<1>2. n \in Nat /\ i \in 1 .. n /\ \A j \in 1 .. n : q[j] \in CacheEntry
  BY <1>1, LenProperties, ElementOfSeq
<1>3. PICK a : a = SubSeq(q, 1, i - 1)
  OBVIOUS
<1>4. PICK b : b = SubSeq(q, i + 1, n)
  OBVIOUS
<1>5. a \in Seq(CacheEntry) /\ Len(a) = i - 1 /\ \A j \in 1 .. i - 1 : a[j] = q[j]
  <2>1. 1 \in Int /\ i - 1 \in Int /\ \A j \in 1 .. i - 1 : q[j] \in CacheEntry
    BY <1>2
  <2>2. /\ a \in Seq(CacheEntry) /\ Len(a) = IF 1 <= i - 1 THEN (i - 1) - 1 + 1 ELSE 0
        /\ \A j \in 1 .. (i - 1) - 1 + 1 : a[j] = q[1 + j - 1]
    BY <1>3, <2>1, SubSeqProperties
  <2> QED
    BY <1>2, <2>2
<1>6. b \in Seq(CacheEntry) /\ Len(b) = n - i /\ \A j \in 1 .. n - i : b[j] = q[i + j]
  <2>1. i + 1 \in Int /\ n \in Int /\ \A j \in i + 1 .. n : q[j] \in CacheEntry
    BY <1>2
  <2>2. /\ b \in Seq(CacheEntry) /\ Len(b) = IF i + 1 <= n THEN n - (i + 1) + 1 ELSE 0
        /\ \A j \in 1 .. n - (i + 1) + 1 : b[j] = q[(i + 1) + j - 1]
    BY <1>4, <2>1, SubSeqProperties
  <2> QED
    BY <1>2, <2>2
<1>7. PICK r : r = a \o b
  OBVIOUS
<1>8. /\ r \in Seq(CacheEntry) /\ Len(r) = Len(a) + Len(b)
      /\ \A j \in 1 .. Len(a) + Len(b) : r[j] = IF j <= Len(a) THEN a[j] ELSE b[j - Len(a)]
  BY <1>5, <1>6, <1>7, ConcatProperties
<1>9. Len(r) = n - 1
  BY <1>2, <1>5, <1>6, <1>8
<1>10. ASSUME NEW j \in 1 .. n - 1 PROVE r[j] = IF j < i THEN q[j] ELSE q[j + 1]
  <2>1. r[j] = IF j <= i - 1 THEN a[j] ELSE b[j - (i - 1)]
    BY <1>2, <1>5, <1>6, <1>8
  <2>2. CASE j < i
    BY <1>2, <1>5, <2>1, <2>2
  <2>3. CASE ~(j < i)
    <3>1. j - (i - 1) \in 1 .. n - i /\ i + (j - (i - 1)) = j + 1 /\ ~(j <= i - 1)
      BY <1>2, <2>3
    <3> QED
      BY <1>6, <2>1, <2>3, <3>1
  <2> QED
    BY <2>2, <2>3
<1>11. Dropped(r, q, i)
  BY <1>1, <1>8, <1>9, <1>10 DEF Dropped
<1>12. RemoveAt(q, i) = r
  BY <1>1, <1>3, <1>4, <1>7 DEF RemoveAt
<1> QED
  BY <1>11, <1>12

\* The eviction loop takes out the last entry.
LEMMA LastRemoved ==
    ASSUME NEW q \in Seq(CacheEntry), q # <<>>
    PROVE  Len(q) \in 1 .. Len(q) /\ Dropped(Front(q), q, Len(q))
<1>1. PICK n : n = Len(q)
  OBVIOUS
<1>2. n \in Nat /\ n # 0 /\ \A j \in 1 .. n : q[j] \in CacheEntry
  BY <1>1, LenProperties, ElementOfSeq, EmptySeq
<1>3. PICK a : a = SubSeq(q, 1, n - 1)
  OBVIOUS
<1>4. 1 \in Int /\ n - 1 \in Int /\ \A j \in 1 .. n - 1 : q[j] \in CacheEntry
  BY <1>2
<1>5. /\ a \in Seq(CacheEntry) /\ Len(a) = IF 1 <= n - 1 THEN (n - 1) - 1 + 1 ELSE 0
      /\ \A j \in 1 .. (n - 1) - 1 + 1 : a[j] = q[1 + j - 1]
  BY <1>3, <1>4, SubSeqProperties
<1>6. Len(a) = n - 1 /\ \A j \in 1 .. n - 1 : a[j] = q[j] /\ j < n
  BY <1>2, <1>5
<1>7. Dropped(a, q, n)
  BY <1>1, <1>5, <1>6 DEF Dropped
<1> QED
  BY <1>1, <1>2, <1>3, <1>7 DEF Front

\* An entry goes to the front of the list.
LEMMA PushedInFront ==
    ASSUME NEW q \in Seq(CacheEntry), NEW e \in CacheEntry
    PROVE  Pushed(<<e>> \o q, e, q)
<1>1. PICK n : n = Len(q)
  OBVIOUS
<1>2. PICK a : a = <<e>>
  OBVIOUS
<1>3. PICK r : r = a \o q
  OBVIOUS
<1>4. a \in Seq(CacheEntry) /\ Len(a) = 1 /\ a[1] = e /\ n \in Nat
  BY <1>1, <1>2, LenProperties
<1>5. /\ r \in Seq(CacheEntry) /\ Len(r) = Len(a) + Len(q)
      /\ \A j \in 1 .. Len(a) + Len(q) : r[j] = IF j <= Len(a) THEN a[j] ELSE q[j - Len(a)]
  BY <1>3, <1>4, ConcatProperties
<1>6. Len(r) = n + 1 /\ r[1] = e
  BY <1>1, <1>4, <1>5
<1>7. \A j \in 1 .. n : r[j + 1] = q[j]
  <2> SUFFICES ASSUME NEW j \in 1 .. n PROVE r[j + 1] = q[j]
    OBVIOUS
  <2>1. j + 1 \in 1 .. 1 + n /\ ~(j + 1 <= 1) /\ (j + 1) - 1 = j
    BY <1>4
  <2> QED
    BY <1>1, <1>4, <1>5, <2>1
<1> QED
  BY <1>1, <1>2, <1>3, <1>5, <1>6, <1>7 DEF Pushed

\* A non-empty set of naturals has a least element.
LEMMA LeastExists ==
    ASSUME NEW S \in SUBSET Nat, S # {}
    PROVE  \E m \in S : \A n \in S : m <= n
<1> DEFINE R == OpToRel(<, Nat)
<1>1. IsWellFoundedOn(R, Nat)
  BY NatLessThanWellFounded
<1>2. \A m, n \in Nat : n < m => <<n, m>> \in R
  BY DEF OpToRel
<1> HIDE DEF R
<1>3. PICK m \in S : \A n \in S : ~(<<n, m>> \in R)
  BY <1>1, WFMin
<1>4. \A n \in S : ~(n < m)
  BY <1>2, <1>3
<1> QED
  BY <1>4

\* The weights of the first entries only grow.
UpTo(q, w, upto) ==
    /\ upto \in [0 .. Len(q) -> 0 .. w] /\ upto[0] = 0 /\ upto[Len(q)] = w
    /\ \A i \in 1 .. Len(q) : upto[i] = upto[i - 1] + weight_(q[i].value)

LEMMA WeightsOf ==
    ASSUME NEW q \in Seq(CacheEntry)
    PROVE  Len(q) \in Nat /\ \A i \in 1 .. Len(q) : weight_(q[i].value) \in Nat
<1>1. Len(q) \in Nat
  BY LenProperties
<1>2. ASSUME NEW i \in 1 .. Len(q) PROVE weight_(q[i].value) \in Nat
  <2>1. q[i] \in CacheEntry
    BY ElementOfSeq
  <2>2. q[i].value \in Value
    BY <2>1 DEF CacheEntry
  <2> QED
    BY <2>2, LruCacheAssumption DEF weight_
<1> QED
  BY <1>1, <1>2

LEMMA WeightsGrow ==
    ASSUME NEW q \in Seq(CacheEntry), NEW w \in Nat, NEW upto, UpTo(q, w, upto)
    PROVE  \A i, j \in 0 .. Len(q) : i <= j => upto[i] <= upto[j]
<1>1. PICK n : n = Len(q)
  OBVIOUS
<1>2. /\ n \in Nat /\ \A i \in 0 .. n : upto[i] \in Nat
      /\ \A i \in 1 .. n : upto[i - 1] <= upto[i]
  <2>1. n \in Nat /\ \A i \in 1 .. n : weight_(q[i].value) \in Nat
    BY <1>1, WeightsOf
  <2>2. \A i \in 0 .. n : upto[i] \in Nat
    BY <1>1 DEF UpTo
  <2>3. ASSUME NEW i \in 1 .. n PROVE upto[i - 1] <= upto[i]
    <3>1. upto[i] = upto[i - 1] + weight_(q[i].value) /\ i - 1 \in 0 .. n /\ i \in 0 .. n
      BY <1>1, <2>1 DEF UpTo
    <3> QED
      BY <2>1, <2>2, <3>1
  <2> QED
    BY <2>1, <2>2, <2>3
<1> DEFINE Bad(d) == \E i \in 0 .. n : i + d \in 0 .. n /\ ~(upto[i] <= upto[i + d])
           S == {d \in Nat : Bad(d)}
<1>3. S = {}
  <2> SUFFICES ASSUME S # {} PROVE FALSE
    OBVIOUS
  <2>1. PICK d \in S : \A e \in S : d <= e
    <3>1. S \in SUBSET Nat
      OBVIOUS
    <3> HIDE DEF S
    <3> QED
      BY <3>1, LeastExists
  <2>2. PICK i \in 0 .. n : d \in Nat /\ i + d \in 0 .. n /\ ~(upto[i] <= upto[i + d])
    BY <2>1
  <2>3. d # 0
    <3> SUFFICES ASSUME d = 0 PROVE FALSE
      OBVIOUS
    <3>1. i + d = i /\ upto[i] \in Nat
      BY <1>2, <2>2
    <3> QED
      BY <2>2, <3>1
  <2>4. d - 1 \in Nat /\ d - 1 \notin S
    <3>1. d - 1 \in Nat /\ ~(d <= d - 1)
      BY <2>2, <2>3
    <3> HIDE DEF S
    <3> QED
      BY <2>1, <3>1
  <2>5. i + (d - 1) \in 0 .. n /\ i + d \in 1 .. n /\ (i + d) - 1 = i + (d - 1)
    BY <1>2, <2>2, <2>3
  <2>6. upto[i] <= upto[i + (d - 1)]
    BY <2>2, <2>4, <2>5
  <2>7. upto[i + (d - 1)] <= upto[i + d]
    BY <1>2, <2>5
  <2>8. upto[i] \in Nat /\ upto[i + (d - 1)] \in Nat /\ upto[i + d] \in Nat
    BY <1>2, <2>2, <2>5
  <2> QED
    BY <2>2, <2>6, <2>7, <2>8
<1>4. ASSUME NEW i \in 0 .. n, NEW j \in 0 .. n, i <= j PROVE upto[i] <= upto[j]
  <2>1. j - i \in Nat /\ i + (j - i) = j
    BY <1>2, <1>4
  <2>2. j - i \notin S
    BY <1>3
  <2> QED
    BY <2>1, <2>2
<1> QED
  BY <1>1, <1>4

LEMMA WeighsNothing == ASSUME NEW w \in Nat PROVE Weighs(<<>>, w) <=> w = 0
<1>1. Len(<<>>) = 0
  OBVIOUS
<1>2. ASSUME w = 0 PROVE Weighs(<<>>, w)
  <2>1. PICK u : u = [i \in 0 .. 0 |-> 0]
    OBVIOUS
  <2>2. u \in [0 .. Len(<<>>) -> 0 .. w] /\ u[0] = 0 /\ u[Len(<<>>)] = w
    BY <1>1, <1>2, <2>1
  <2>3. \A i \in 1 .. Len(<<>>) : FALSE
    BY <1>1
  <2> QED
    BY <2>2, <2>3 DEF Weighs
<1> QED
  BY <1>1, <1>2 DEF Weighs

\* One more entry in front.
LEMMA WeighsPushed ==
    ASSUME NEW q \in Seq(CacheEntry), NEW e \in CacheEntry, NEW w \in Nat, Weighs(q, w),
           NEW r, Pushed(r, e, q)
    PROVE  weight_(e.value) \in Nat /\ Weighs(r, w + weight_(e.value))
<1>1. PICK u : UpTo(q, w, u)
  BY DEF Weighs, UpTo
<1>2. PICK n : n = Len(q)
  OBVIOUS
<1>3. PICK x : x = weight_(e.value)
  OBVIOUS
<1>4. n \in Nat /\ x \in Nat
  <2>1. e.value \in Value
    BY DEF CacheEntry
  <2> QED
    BY <1>2, <1>3, <2>1, WeightsOf, LruCacheAssumption DEF weight_
<1>5. /\ \A i \in 0 .. n : u[i] \in 0 .. w
      /\ u[0] = 0 /\ u[n] = w
      /\ \A i \in 1 .. n : u[i] = u[i - 1] + weight_(q[i].value)
  BY <1>1, <1>2 DEF UpTo
<1>6. PICK v : v = [i \in 0 .. n + 1 |-> IF i = 0 THEN 0 ELSE u[i - 1] + x]
  OBVIOUS
<1>7. Len(r) = n + 1 /\ r[1] = e /\ \A j \in 1 .. n : r[j + 1] = q[j]
  BY <1>2 DEF Pushed
<1>8. v \in [0 .. n + 1 -> 0 .. w + x]
  <2>1. ASSUME NEW i \in 0 .. n + 1 PROVE (IF i = 0 THEN 0 ELSE u[i - 1] + x) \in 0 .. w + x
    <3>1. CASE i = 0
      BY <1>4, <3>1
    <3>2. CASE i # 0
      <4>1. i - 1 \in 0 .. n
        BY <1>4, <3>2
      <4>2. u[i - 1] \in 0 .. w
        BY <1>5, <4>1
      <4> QED
        BY <1>4, <3>2, <4>2
    <3> QED
      BY <3>1, <3>2
  <2> QED
    BY <1>6, <2>1
<1>9. v[0] = 0 /\ v[n + 1] = w + x
  BY <1>4, <1>5, <1>6
<1>10. ASSUME NEW i \in 1 .. n + 1 PROVE v[i] = v[i - 1] + weight_(r[i].value)
  <2>1. CASE i = 1
    <3>1. v[1] = u[0] + x /\ v[0] = 0 /\ r[1] = e
      BY <1>4, <1>6, <1>7
    <3> QED
      BY <1>3, <1>4, <1>5, <2>1, <3>1
  <2>2. CASE i # 1
    <3>1. PICK j : j = i - 1
      OBVIOUS
    <3>2. j \in 1 .. n /\ i = j + 1 /\ j - 1 \in 0 .. n /\ j \in 0 .. n
      BY <1>4, <2>2, <3>1
    <3>3. v[i] = u[j] + x /\ v[j] = u[j - 1] + x /\ r[i] = q[j]
      BY <1>4, <1>6, <1>7, <3>2
    <3>4. u[j] = u[j - 1] + weight_(q[j].value) /\ u[j - 1] \in 0 .. w
      BY <1>5, <3>2
    <3>5. weight_(q[j].value) \in Nat
      BY <1>2, <3>2, WeightsOf
    <3> QED
      BY <1>4, <3>1, <3>3, <3>4, <3>5
  <2> QED
    BY <2>1, <2>2
<1>11. Weighs(r, w + x)
  BY <1>7, <1>8, <1>9, <1>10 DEF Weighs
<1> QED
  BY <1>3, <1>4, <1>11

\* One entry less, wherever it was: no wrap.
LEMMA WeighsDropped ==
    ASSUME NEW q \in Seq(CacheEntry), NEW w \in Nat, Weighs(q, w),
           NEW i \in 1 .. Len(q), NEW r, Dropped(r, q, i)
    PROVE  /\ weight_(q[i].value) \in Nat /\ weight_(q[i].value) <= w
           /\ Weighs(r, w - weight_(q[i].value))
<1>1. PICK u : UpTo(q, w, u)
  BY DEF Weighs, UpTo
<1>2. PICK n : n = Len(q)
  OBVIOUS
<1>3. PICK x : x = weight_(q[i].value)
  OBVIOUS
<1>4. n \in Nat /\ x \in Nat /\ i \in 1 .. n /\ \A j \in 1 .. n : weight_(q[j].value) \in Nat
  BY <1>2, <1>3, WeightsOf
<1>5. /\ \A j \in 0 .. n : u[j] \in 0 .. w
      /\ u[0] = 0 /\ u[n] = w
      /\ \A j \in 1 .. n : u[j] = u[j - 1] + weight_(q[j].value)
  BY <1>1, <1>2 DEF UpTo
<1>6. \A j, k \in 0 .. n : j <= k => u[j] <= u[k]
  BY <1>1, <1>2, WeightsGrow
<1>7. u[i] = u[i - 1] + x /\ u[i] \in 0 .. w /\ u[i - 1] \in 0 .. w /\ i - 1 \in 0 .. n /\ i \in 0 .. n
  BY <1>3, <1>4, <1>5
<1>8. x <= w
  BY <1>4, <1>7
<1>9. PICK v : v = [j \in 0 .. n - 1 |-> IF j < i THEN u[j] ELSE u[j + 1] - x]
  OBVIOUS
<1>10. Len(r) = n - 1 /\ \A j \in 1 .. n - 1 : r[j] = IF j < i THEN q[j] ELSE q[j + 1]
  BY <1>2 DEF Dropped
<1>11. v \in [0 .. n - 1 -> 0 .. w - x]
  <2>1. ASSUME NEW j \in 0 .. n - 1 PROVE (IF j < i THEN u[j] ELSE u[j + 1] - x) \in 0 .. w - x
    <3>1. CASE j < i
      <4>1. j \in 0 .. n /\ j <= i - 1
        BY <1>4, <3>1
      <4>2. u[j] <= u[i - 1] /\ u[j] \in 0 .. w
        BY <1>5, <1>6, <1>7, <4>1
      <4> QED
        BY <1>4, <1>7, <3>1, <4>2
    <3>2. CASE ~(j < i)
      <4>1. j + 1 \in 0 .. n /\ i <= j + 1
        BY <1>4, <3>2
      <4>2. u[i] <= u[j + 1] /\ u[j + 1] \in 0 .. w
        BY <1>5, <1>6, <1>7, <4>1
      <4>3. PICK b : b = u[j + 1]
        OBVIOUS
      <4>4. PICK d : d = u[i]
        OBVIOUS
      <4>5. PICK a : a = u[i - 1]
        OBVIOUS
      <4>6. /\ w \in Nat /\ x \in Nat /\ a \in Nat /\ d = a + x /\ d <= b /\ b \in 0 .. w
        <5>1. /\ a \in 0 .. w /\ d = a + x /\ d <= b /\ b \in 0 .. w
          BY <1>7, <4>2, <4>3, <4>4, <4>5, Zenon
        <5> QED
          BY <1>4, <5>1
      <4>7. b - x \in 0 .. w - x
        BY <4>6
      <4> QED
        BY <3>2, <4>3, <4>7, Zenon
    <3> QED
      BY <3>1, <3>2
  <2> QED
    BY <1>9, <2>1
<1>12. v[0] = 0 /\ v[n - 1] = w - x
  <2>1. 0 \in 0 .. n - 1 /\ n - 1 \in 0 .. n - 1 /\ 0 < i /\ (n - 1) + 1 = n
    BY <1>4
  <2>2. v[0] = 0
    BY <1>5, <1>9, <2>1
  <2>3. CASE n - 1 < i
    <3>1. i = n
      BY <1>4, <2>3
    <3>2. v[n - 1] = u[i - 1] /\ u[i] = w
      BY <1>5, <1>9, <2>1, <2>3, <3>1
    <3>3. PICK b : b = u[i - 1]
      OBVIOUS
    <3>4. w = b + x /\ b \in Nat /\ x \in Nat
      BY <1>4, <1>7, <3>2, <3>3
    <3>5. b = w - x
      BY <3>4
    <3> QED
      BY <2>2, <3>2, <3>3, <3>5, Zenon
  <2>4. CASE ~(n - 1 < i)
    BY <1>5, <1>9, <2>1, <2>2, <2>4
  <2> QED
    BY <2>3, <2>4
<1>13. ASSUME NEW j \in 1 .. n - 1 PROVE v[j] = v[j - 1] + weight_(r[j].value)
  <2>1. /\ j \in 0 .. n - 1 /\ j - 1 \in 0 .. n - 1 /\ j \in 1 .. n /\ j + 1 \in 1 .. n
        /\ (j - 1) + 1 = j /\ (j + 1) - 1 = j /\ j - 1 \in 0 .. n /\ j \in 0 .. n
    BY <1>4
  <2>2. u[j] = u[j - 1] + weight_(q[j].value) /\ u[j + 1] = u[j] + weight_(q[j + 1].value)
    BY <1>5, <2>1
  <2>3. /\ u[j] \in 0 .. w /\ u[j - 1] \in 0 .. w
        /\ weight_(q[j].value) \in Nat /\ weight_(q[j + 1].value) \in Nat
    BY <1>4, <1>5, <2>1
  <2>4. CASE j < i
    <3>1. j - 1 < i
      BY <1>4, <2>4
    <3>2. v[j] = u[j] /\ v[j - 1] = u[j - 1] /\ r[j] = q[j]
      BY <1>9, <1>10, <2>1, <2>4, <3>1
    <3> QED
      BY <2>2, <3>2
  <2>5. CASE j = i
    <3>1. ~(j < i) /\ j - 1 < i
      BY <1>4, <2>5
    <3>2. v[j] = u[j + 1] - x /\ v[j - 1] = u[j - 1] /\ r[j] = q[j + 1]
      BY <1>9, <1>10, <2>1, <3>1
    <3>3. x = weight_(q[j].value)
      BY <1>3, <2>5
    <3>4. PICK b : b = u[j]
      OBVIOUS
    <3>5. PICK y : y = weight_(q[j + 1].value)
      OBVIOUS
    <3>6. PICK d : d = u[j - 1]
      OBVIOUS
    <3>7. b \in Nat /\ y \in Nat /\ d \in Nat /\ x \in Nat /\ b = d + x /\ u[j + 1] = b + y
      BY <1>4, <2>2, <2>3, <3>3, <3>4, <3>5, <3>6
    <3>8. (b + y) - x = d + y
      BY <3>7
    <3> QED
      BY <3>2, <3>5, <3>6, <3>7, <3>8, Zenon
  <2>6. CASE i < j
    <3>1. ~(j < i) /\ ~(j - 1 < i)
      BY <1>4, <2>6
    <3>2. v[j] = u[j + 1] - x /\ v[j - 1] = u[j] - x /\ r[j] = q[j + 1]
      BY <1>9, <1>10, <2>1, <3>1
    <3> QED
      BY <1>4, <2>2, <2>3, <3>2
  <2> QED
    BY <1>4, <2>4, <2>5, <2>6
<1>14. Weighs(r, w - x)
  BY <1>10, <1>11, <1>12, <1>13 DEF Weighs
<1> QED
  BY <1>3, <1>4, <1>8, <1>14

\* One shard: the list, the keys of its map, its weight, among the last values
\* and the order of use.
Tidy(q, m, w, s, last, new) ==
    /\ q \in Seq(CacheEntry) /\ w \in Nat /\ Weighs(q, w)
    /\ m = {q[i].key : i \in 1 .. Len(q)}
    /\ \A i, j \in 1 .. Len(q) : i < j => q[i].key # q[j].key /\ <<q[i].key, q[j].key>> \in new
    /\ \A i \in 1 .. Len(q) : ShardOf(q[i].key) = s /\ last[q[i].key] = {q[i].value}

\* The order of use after k was used.
Used(new, k) == (new \ (CacheKey \X {k})) \cup ({k} \X (CacheKey \ {k}))

LEMMA KeysOf ==
    ASSUME NEW q \in Seq(CacheEntry)
    PROVE  Len(q) \in Nat /\ \A i \in 1 .. Len(q) : q[i].key \in CacheKey
<1>1. \A i \in 1 .. Len(q) : q[i] \in CacheEntry
  BY ElementOfSeq
<1> QED
  BY <1>1, LenProperties DEF CacheEntry

\* An empty shard.
LEMMA TidyEmpty == ASSUME NEW s, NEW last, NEW new PROVE Tidy(<<>>, {}, 0, s, last, new)
<1>1. <<>> \in Seq(CacheEntry) /\ Len(<<>>) = 0
  BY EmptySeq
<1>2. Weighs(<<>>, 0)
  BY WeighsNothing
<1>3. \A i \in 1 .. Len(<<>>) : FALSE
  BY <1>1
<1> QED
  BY <1>1, <1>2, <1>3 DEF Tidy

\* Uses of a key the shard does not hold.
LEMMA TidyOther ==
    ASSUME NEW q, NEW m, NEW w, NEW s, NEW last, NEW new, Tidy(q, m, w, s, last, new),
           NEW k \in CacheKey, k \notin m, NEW later,
           \A x \in CacheKey : x # k => later[x] = last[x]
    PROVE  Tidy(q, m, w, s, later, Used(new, k))
<1>1. q \in Seq(CacheEntry) /\ w \in Nat /\ Weighs(q, w) /\ m = {q[i].key : i \in 1 .. Len(q)}
  BY DEF Tidy
<1>2. \A i \in 1 .. Len(q) : q[i].key \in CacheKey /\ q[i].key # k
  BY <1>1, KeysOf
<1>3. \A x, y : <<x, y>> \in new /\ y # k => <<x, y>> \in Used(new, k)
  BY DEF Used
<1>4. ASSUME NEW i \in 1 .. Len(q), NEW j \in 1 .. Len(q), i < j
      PROVE  q[i].key # q[j].key /\ <<q[i].key, q[j].key>> \in Used(new, k)
  <2>1. q[i].key # q[j].key /\ <<q[i].key, q[j].key>> \in new
    BY <1>4 DEF Tidy
  <2> QED
    BY <1>2, <1>3, <2>1
<1>5. \A i \in 1 .. Len(q) : ShardOf(q[i].key) = s /\ later[q[i].key] = {q[i].value}
  BY <1>2 DEF Tidy
<1> QED
  BY <1>1, <1>4, <1>5 DEF Tidy

\* An entry leaves.
LEMMA TidyDropped ==
    ASSUME NEW q, NEW m, NEW w, NEW s, NEW last, NEW new, Tidy(q, m, w, s, last, new),
           NEW i \in 1 .. Len(q), NEW r, Dropped(r, q, i)
    PROVE  /\ weight_(q[i].value) \in Nat /\ weight_(q[i].value) <= w
           /\ Tidy(r, m \ {q[i].key}, w - weight_(q[i].value), s, last, new)
<1>1. q \in Seq(CacheEntry) /\ w \in Nat /\ Weighs(q, w) /\ m = {q[j].key : j \in 1 .. Len(q)}
  BY DEF Tidy
<1>2. PICK n : n = Len(q)
  OBVIOUS
<1>3. n \in Nat /\ i \in 1 .. n
  BY <1>1, <1>2, KeysOf
<1>4. /\ r \in Seq(CacheEntry) /\ Len(r) = n - 1
      /\ \A j \in 1 .. n - 1 : r[j] = IF j < i THEN q[j] ELSE q[j + 1]
  BY <1>2 DEF Dropped
<1>5. PICK x : x = weight_(q[i].value)
  OBVIOUS
<1>6. x \in Nat /\ x <= w /\ Weighs(r, w - x)
  BY <1>1, <1>5, WeighsDropped
<1> DEFINE from(j) == IF j < i THEN j ELSE j + 1
<1>7. \A j \in 1 .. n - 1 : from(j) \in 1 .. n /\ from(j) # i /\ r[j] = q[from(j)]
  BY <1>3, <1>4
<1>8. \A j, k \in 1 .. n - 1 : j < k => from(j) < from(k)
  BY <1>3
<1>9. \A j \in 1 .. n : j # i => \E k \in 1 .. n - 1 : from(k) = j
  <2> SUFFICES ASSUME NEW j \in 1 .. n, j # i PROVE \E k \in 1 .. n - 1 : from(k) = j
    OBVIOUS
  <2>1. CASE j < i
    <3>1. j \in 1 .. n - 1 /\ from(j) = j
      BY <1>3, <2>1
    <3> QED
      BY <3>1
  <2>2. CASE ~(j < i)
    <3>1. j - 1 \in 1 .. n - 1 /\ from(j - 1) = j
      BY <1>3, <2>2
    <3> QED
      BY <3>1
  <2> QED
    BY <2>1, <2>2
<1> HIDE DEF from
<1>10. \A j, k \in 1 .. n : j < k => q[j].key # q[k].key /\ <<q[j].key, q[k].key>> \in new
  BY <1>2 DEF Tidy
<1>11. \A j \in 1 .. n : j # i => q[j].key # q[i].key
  <2> SUFFICES ASSUME NEW j \in 1 .. n, j # i PROVE q[j].key # q[i].key
    OBVIOUS
  <2>1. j < i \/ i < j
    BY <1>3
  <2>2. j < i => q[j].key # q[i].key
    BY <1>3, <1>10, Zenon
  <2>3. i < j => q[i].key # q[j].key
    BY <1>3, <1>10, Zenon
  <2> QED
    BY <2>1, <2>2, <2>3, Zenon
<1>12. m \ {q[i].key} = {r[j].key : j \in 1 .. n - 1}
  <2>1. ASSUME NEW j \in 1 .. n - 1 PROVE r[j].key \in m \ {q[i].key}
    BY <1>1, <1>2, <1>7, <1>11
  <2>2. ASSUME NEW k \in m, k # q[i].key PROVE \E j \in 1 .. n - 1 : r[j].key = k
    <3>1. PICK j \in 1 .. n : q[j].key = k
      BY <1>1, <1>2
    <3>2. j # i
      BY <2>2, <3>1
    <3> QED
      BY <1>7, <1>9, <3>1, <3>2
  <2> QED
    BY <2>1, <2>2
<1>13. \A j, k \in 1 .. n - 1 : j < k => r[j].key # r[k].key /\ <<r[j].key, r[k].key>> \in new
  BY <1>7, <1>8, <1>10
<1>14. \A j \in 1 .. n - 1 : ShardOf(r[j].key) = s /\ last[r[j].key] = {r[j].value}
  <2>1. \A j \in 1 .. n : ShardOf(q[j].key) = s /\ last[q[j].key] = {q[j].value}
    BY <1>2 DEF Tidy
  <2> QED
    BY <1>7, <2>1
<1>15. w - x \in Nat
  BY <1>1, <1>6
<1>16. Tidy(r, m \ {q[i].key}, w - x, s, last, new)
  BY <1>4, <1>6, <1>12, <1>13, <1>14, <1>15 DEF Tidy
<1> QED
  BY <1>5, <1>6, <1>16

\* An entry is put in front.
LEMMA TidyPushed ==
    ASSUME NEW q, NEW m, NEW w, NEW s, NEW last, NEW new, Tidy(q, m, w, s, last, new),
           NEW e \in CacheEntry, e.key \notin m, ShardOf(e.key) = s,
           NEW later, later[e.key] = {e.value},
           \A x \in CacheKey : x # e.key => later[x] = last[x],
           NEW r, Pushed(r, e, q)
    PROVE  Tidy(r, m \cup {e.key}, w + weight_(e.value), s, later, Used(new, e.key))
<1>1. PICK k : k = e.key
  OBVIOUS
<1>2. k \in CacheKey /\ k \notin m
  BY <1>1 DEF CacheEntry
<1>3. Tidy(q, m, w, s, later, Used(new, k))
  BY <1>1, <1>2, TidyOther
<1>4. PICK n : n = Len(q)
  OBVIOUS
<1>5. /\ q \in Seq(CacheEntry) /\ w \in Nat /\ Weighs(q, w) /\ m = {q[j].key : j \in 1 .. n}
      /\ \A i, j \in 1 .. n : i < j => q[i].key # q[j].key /\ <<q[i].key, q[j].key>> \in Used(new, k)
      /\ \A i \in 1 .. n : ShardOf(q[i].key) = s /\ later[q[i].key] = {q[i].value}
  BY <1>3, <1>4 DEF Tidy
<1>6. n \in Nat /\ \A i \in 1 .. n : q[i].key \in CacheKey
  BY <1>4, <1>5, KeysOf
<1>7. /\ r \in Seq(CacheEntry) /\ Len(r) = n + 1 /\ r[1] = e
      /\ \A j \in 1 .. n : r[j + 1] = q[j]
  BY <1>4 DEF Pushed
<1>8. PICK x : x = weight_(e.value)
  OBVIOUS
<1>9. x \in Nat /\ Weighs(r, w + x)
  BY <1>5, <1>8, WeighsPushed
<1>10. \A j \in 1 .. n + 1 : j = 1 \/ (j - 1 \in 1 .. n /\ r[j] = q[j - 1])
  <2> SUFFICES ASSUME NEW j \in 1 .. n + 1, j # 1 PROVE j - 1 \in 1 .. n /\ r[j] = q[j - 1]
    OBVIOUS
  <2>1. j - 1 \in 1 .. n /\ (j - 1) + 1 = j
    BY <1>6
  <2> QED
    BY <1>7, <2>1
<1>11. m \cup {k} = {r[j].key : j \in 1 .. n + 1}
  <2>1. ASSUME NEW j \in 1 .. n + 1 PROVE r[j].key \in m \cup {k}
    BY <1>1, <1>5, <1>7, <1>10
  <2>2. \E j \in 1 .. n + 1 : r[j].key = k
    <3>1. 1 \in 1 .. n + 1
      BY <1>6
    <3> QED
      BY <1>1, <1>7, <3>1
  <2>3. ASSUME NEW y \in m PROVE \E j \in 1 .. n + 1 : r[j].key = y
    <3>1. PICK j \in 1 .. n : q[j].key = y
      BY <1>5
    <3>2. j + 1 \in 1 .. n + 1 /\ r[j + 1].key = y
      BY <1>6, <1>7, <3>1
    <3> QED
      BY <3>2
  <2> QED
    BY <2>1, <2>2, <2>3
<1>12. ASSUME NEW i \in 1 .. n + 1, NEW j \in 1 .. n + 1, i < j
       PROVE  r[i].key # r[j].key /\ <<r[i].key, r[j].key>> \in Used(new, k)
  <2>1. j # 1 /\ j - 1 \in 1 .. n /\ r[j] = q[j - 1]
    BY <1>6, <1>10, <1>12
  <2>2. CASE i = 1
    <3>1. r[i].key = k /\ q[j - 1].key \in m /\ q[j - 1].key \in CacheKey
      BY <1>1, <1>5, <1>6, <1>7, <2>1, <2>2
    <3> QED
      BY <1>2, <2>1, <3>1 DEF Used
  <2>3. CASE i # 1
    <3>1. i - 1 \in 1 .. n /\ r[i] = q[i - 1] /\ i - 1 < j - 1
      BY <1>6, <1>10, <1>12, <2>3
    <3> QED
      BY <1>5, <2>1, <3>1
  <2> QED
    BY <2>2, <2>3
<1>13. ASSUME NEW i \in 1 .. n + 1 PROVE ShardOf(r[i].key) = s /\ later[r[i].key] = {r[i].value}
  <2>1. CASE i = 1
    BY <1>7, <2>1, Zenon
  <2>2. CASE i # 1
    <3>1. i - 1 \in 1 .. n /\ r[i] = q[i - 1]
      BY <1>10, <2>2, Zenon
    <3>2. PICK j : j = i - 1
      OBVIOUS
    <3>3. ShardOf(q[j].key) = s /\ later[q[j].key] = {q[j].value}
      BY <1>5, <3>1, <3>2, Zenon
    <3>4. PICK y : y = q[j]
      OBVIOUS
    <3>5. r[i] = y
      BY <3>1, <3>2, <3>4, Zenon
    <3>6. ShardOf(y.key) = s /\ later[y.key] = {y.value}
      BY <3>3, <3>4, Zenon
    <3> QED
      BY <3>5, <3>6, Zenon
  <2> QED
    BY <2>1, <2>2
<1>14. w + x \in Nat
  BY <1>5, <1>9
<1>15. Tidy(r, m \cup {k}, w + x, s, later, Used(new, k))
  BY <1>7, <1>9, <1>11, <1>12, <1>13, <1>14 DEF Tidy
<1> QED
  BY <1>1, <1>8, <1>15

\* The iterator of a key in the map.
LEMMA FoundInTidy ==
    ASSUME NEW q, NEW m, NEW w, NEW s, NEW last, NEW new, Tidy(q, m, w, s, last, new),
           NEW k \in m
    PROVE  /\ Find(q, k) \in 1 .. Len(q) /\ q[Find(q, k)].key = k
           /\ q[Find(q, k)] \in CacheEntry /\ last[k] = {q[Find(q, k)].value}
<1>1. q \in Seq(CacheEntry) /\ m = {q[j].key : j \in 1 .. Len(q)} /\ DOMAIN q = 1 .. Len(q)
  BY LenProperties DEF Tidy
<1>2. \E i \in DOMAIN q : q[i].key = k
  BY <1>1
<1>3. Find(q, k) \in DOMAIN q /\ q[Find(q, k)].key = k
  BY <1>2 DEF Find
<1>4. PICK i : i = Find(q, k)
  OBVIOUS
<1>5. i \in 1 .. Len(q) /\ q[i].key = k
  BY <1>1, <1>3, <1>4
<1>6. q[i] \in CacheEntry
  BY <1>1, <1>5, ElementOfSeq
<1>7. last[k] = {q[i].value}
  BY <1>5 DEF Tidy
<1> QED
  BY <1>4, <1>5, <1>6, <1>7

\* A hit: the entry of k leaves its place, and e comes to the front.
LEMMA TidyMoved ==
    ASSUME NEW q, NEW m, NEW w, NEW s, NEW last, NEW new, Tidy(q, m, w, s, last, new),
           NEW k \in m, NEW e \in CacheEntry, e.key = k, NEW later, later[k] = {e.value},
           \A x \in CacheKey : x # k => later[x] = last[x]
    PROVE  Tidy(<<e>> \o RemoveAt(q, Find(q, k)), m,
                (w - weight_(q[Find(q, k)].value)) + weight_(e.value), s, later, Used(new, k))
<1>1. PICK i : i = Find(q, k)
  OBVIOUS
<1>2. i \in 1 .. Len(q) /\ q[i].key = k /\ q \in Seq(CacheEntry)
  <2>1. Find(q, k) \in 1 .. Len(q) /\ q[Find(q, k)].key = k
    BY FoundInTidy
  <2>2. q \in Seq(CacheEntry)
    BY DEF Tidy
  <2> QED
    BY <1>1, <2>1, <2>2, Zenon
<1>3. PICK a : a = RemoveAt(q, i)
  OBVIOUS
<1>4. Dropped(a, q, i)
  BY <1>2, <1>3, RemovedAt
<1>5. PICK x : x = weight_(q[i].value)
  OBVIOUS
<1>6. Tidy(a, m \ {k}, w - x, s, last, new)
  <2>1. Tidy(a, m \ {q[i].key}, w - weight_(q[i].value), s, last, new)
    BY <1>2, <1>4, TidyDropped
  <2> QED
    BY <1>2, <1>5, <2>1, Zenon
<1>7. PICK r : r = <<e>> \o a
  OBVIOUS
<1>8. Pushed(r, e, a)
  <2>1. a \in Seq(CacheEntry)
    BY <1>4 DEF Dropped
  <2> QED
    BY <1>7, <2>1, PushedInFront
<1>9. PICK p : p = m \ {k}
  OBVIOUS
<1>10. PICK u : u = w - x
  OBVIOUS
<1>11. Tidy(a, p, u, s, last, new) /\ k \notin p /\ p \cup {k} = m /\ ShardOf(k) = s
  <2>1. ShardOf(q[i].key) = s
    BY <1>2 DEF Tidy
  <2> QED
    BY <1>2, <1>6, <1>9, <1>10, <2>1, Zenon
<1>12. Tidy(r, p \cup {e.key}, u + weight_(e.value), s, later, Used(new, e.key))
  BY <1>8, <1>11, TidyPushed
<1>13. Tidy(r, m, u + weight_(e.value), s, later, Used(new, k))
  BY <1>11, <1>12, Zenon
<1> QED
  BY <1>1, <1>3, <1>5, <1>7, <1>10, <1>13, Zenon

\* A miss: e is new.
LEMMA TidyAdded ==
    ASSUME NEW q, NEW m, NEW w, NEW s, NEW last, NEW new, Tidy(q, m, w, s, last, new),
           NEW k, k \notin m, ShardOf(k) = s,
           NEW e \in CacheEntry, e.key = k, NEW later, later[k] = {e.value},
           \A x \in CacheKey : x # k => later[x] = last[x]
    PROVE  Tidy(<<e>> \o q, m \cup {k}, w + weight_(e.value), s, later, Used(new, k))
<1>1. PICK r : r = <<e>> \o q
  OBVIOUS
<1>2. Pushed(r, e, q)
  <2>1. q \in Seq(CacheEntry)
    BY DEF Tidy
  <2> QED
    BY <1>1, <2>1, PushedInFront
<1>3. Tidy(r, m \cup {e.key}, w + weight_(e.value), s, later, Used(new, e.key))
  BY <1>2, TidyPushed
<1> QED
  BY <1>1, <1>3, Zenon

\* The eviction loop: the last entry leaves, and every other one was used later.
LEMMA TidyEvicted ==
    ASSUME NEW q, NEW m, NEW w, NEW s, NEW last, NEW new, Tidy(q, m, w, s, last, new),
           q # <<>>
    PROVE  /\ Tidy(Front(q), m \ {Last(q).key}, w - weight_(Last(q).value), s, last, new)
           /\ \A y \in m \ {Last(q).key} : <<y, Last(q).key>> \in new
<1>1. q \in Seq(CacheEntry) /\ m = {q[j].key : j \in 1 .. Len(q)}
  BY DEF Tidy
<1>2. PICK n : n = Len(q)
  OBVIOUS
<1>3. PICK a : a = Front(q)
  OBVIOUS
<1>4. n \in 1 .. n /\ Dropped(a, q, n) /\ n \in 1 .. Len(q)
  BY <1>1, <1>2, <1>3, LastRemoved
<1>5. Tidy(a, m \ {q[n].key}, w - weight_(q[n].value), s, last, new)
  BY <1>4, TidyDropped
<1>6. Last(q) = q[n]
  BY <1>2 DEF Last
<1>7. ASSUME NEW y \in m, y # q[n].key PROVE <<y, q[n].key>> \in new
  <2>1. PICK j \in 1 .. n : q[j].key = y
    BY <1>1, <1>2
  <2>2. j # n
    BY <1>7, <2>1
  <2>3. n \in Nat
    BY <1>1, <1>2, LenProperties
  <2>4. j < n
    BY <2>1, <2>2, <2>3
  <2>5. \A b, c \in 1 .. n : b < c => <<q[b].key, q[c].key>> \in new
    BY <1>2 DEF Tidy
  <2>6. <<q[j].key, q[n].key>> \in new
    BY <1>4, <2>1, <2>4, <2>5, Zenon
  <2> QED
    BY <2>1, <2>6, Zenon
<1> QED
  BY <1>3, <1>5, <1>6, <1>7, Zenon

\* An empty shard weighs nothing, and the keys of a shard belong there.
LEMMA TidyFacts ==
    ASSUME NEW q, NEW m, NEW w, NEW s, NEW last, NEW new, Tidy(q, m, w, s, last, new)
    PROVE  /\ q = <<>> => w = 0
           /\ w \in Nat /\ q \in Seq(CacheEntry)
           /\ \A k \in m : k \in CacheKey /\ ShardOf(k) = s
<1>1. q \in Seq(CacheEntry) /\ w \in Nat /\ Weighs(q, w) /\ m = {q[i].key : i \in 1 .. Len(q)}
  BY DEF Tidy
<1>2. q = <<>> => w = 0
  BY <1>1, WeighsNothing
<1>3. \A i \in 1 .. Len(q) : q[i].key \in CacheKey
  BY <1>1, KeysOf
<1>4. \A i \in 1 .. Len(q) : ShardOf(q[i].key) = s
  BY DEF Tidy
<1>5. ASSUME NEW k \in m PROVE k \in CacheKey /\ ShardOf(k) = s
  <2>1. PICK i \in 1 .. Len(q) : q[i].key = k
    BY <1>1
  <2> QED
    BY <1>3, <1>4, <2>1, Zenon
<1> QED
  BY <1>1, <1>2, <1>5

LEMMA CapIsNat == shard_weight_cap \in Nat
  BY LruCacheAssumption DEF shard_weight_cap

LruTypeOK ==
    /\ lru \in [Shard -> Seq(CacheEntry)] /\ map \in [Shard -> SUBSET CacheKey]
    /\ weight \in [Shard -> Nat] /\ evicting \in [Shard -> BOOLEAN]
    /\ clearing \in 0 .. shards /\ latest \in [CacheKey -> SUBSET Value]

ShardTidy(s) == Tidy(lru[s], map[s], weight[s], s, latest, newer)

WithinShare(s) == ~evicting[s] => weight[s] <= shard_weight_cap

LruInv == LruTypeOK /\ \A s \in Shard : ShardTidy(s) /\ WithinShare(s)

LEMMA LruInvInit == LruInit => LruInv
<1> SUFFICES ASSUME LruInit PROVE LruInv
  OBVIOUS
<1>1. LruTypeOK
  BY LruCacheAssumption, EmptySeq DEF LruInit, LruTypeOK
<1>2. ASSUME NEW s \in Shard PROVE ShardTidy(s) /\ WithinShare(s)
  <2>1. lru[s] = <<>> /\ map[s] = {} /\ weight[s] = 0
    BY DEF LruInit
  <2>2. Tidy(<<>>, {}, 0, s, latest, newer)
    BY TidyEmpty
  <2>3. WithinShare(s)
    BY <2>1, CapIsNat DEF WithinShare
  <2> QED
    BY <2>1, <2>2, <2>3 DEF ShardTidy
<1> QED
  BY <1>1, <1>2 DEF LruInv

LEMMA HomeOf == ASSUME NEW k \in CacheKey PROVE ShardOf(k) \in Shard
  BY LruCacheAssumption DEF Shard

\* The other shards do not hold the key that is used.
LEMMA OthersTidy ==
    ASSUME LruInv, NEW k \in CacheKey, NEW t \in Shard, t # ShardOf(k), NEW later,
           \A x \in CacheKey : x # k => later[x] = latest[x]
    PROVE  Tidy(lru[t], map[t], weight[t], t, later, Used(newer, k))
<1>1. PICK q : q = lru[t]
  OBVIOUS
<1>2. PICK m : m = map[t]
  OBVIOUS
<1>3. PICK w : w = weight[t]
  OBVIOUS
<1>4. PICK last : last = latest
  OBVIOUS
<1>5. PICK new : new = newer
  OBVIOUS
<1>6. Tidy(q, m, w, t, last, new)
  BY <1>1, <1>2, <1>3, <1>4, <1>5 DEF LruInv, ShardTidy
<1>7. k \notin m
  BY <1>6, TidyFacts
<1>8. \A x \in CacheKey : x # k => later[x] = last[x]
  BY <1>4
<1>9. Tidy(q, m, w, t, later, Used(new, k))
  BY <1>6, <1>7, <1>8, TidyOther
<1> QED
  BY <1>1, <1>2, <1>3, <1>5, <1>9, Zenon

\* The shard in hand, its parts named.
Held(s, q, m, w, last, new) ==
    /\ q = lru[s] /\ m = map[s] /\ w = weight[s] /\ last = latest /\ new = newer
    /\ Tidy(q, m, w, s, last, new)

LEMMA TakeShard ==
    ASSUME LruInv, NEW s \in Shard
    PROVE  \E q, m, w, last, new : Held(s, q, m, w, last, new)
<1>1. Held(s, lru[s], map[s], weight[s], latest, newer)
  BY DEF Held, LruInv, ShardTidy
<1> QED
  BY <1>1

LEMMA GetStep == ASSUME LruInv, NEW k \in CacheKey, CacheGet(k) PROVE LruInv'
<1>1. PICK s \in Shard : s = ShardOf(k)
  BY HomeOf
<1>2. PICK q, m, w, last, new : Held(s, q, m, w, last, new)
  BY TakeShard
<1>3. /\ q = lru[s] /\ m = map[s] /\ w = weight[s] /\ last = latest /\ new = newer
      /\ Tidy(q, m, w, s, last, new)
  BY <1>2 DEF Held
<1>4. PICK e : e = q[Find(q, k)]
  OBVIOUS
<1>5. PICK r : r = <<e>> \o RemoveAt(q, Find(q, k))
  OBVIOUS
<1>6. /\ k \in m /\ ~evicting[s]
      /\ lru' = [lru EXCEPT ![s] = r]
      /\ newer' = Used(newer, k)
      /\ map' = map /\ weight' = weight /\ evicting' = evicting
      /\ clearing' = clearing /\ latest' = latest
  BY <1>1, <1>3, <1>4, <1>5, Zenon DEF CacheGet, Touch, Used
<1>7. e \in CacheEntry /\ e.key = k /\ last[k] = {e.value} /\ weight_(e.value) \in Nat /\ weight_(e.value) <= w
  <2>1. Find(q, k) \in 1 .. Len(q) /\ e \in CacheEntry /\ e.key = k /\ last[k] = {e.value}
    BY <1>3, <1>4, <1>6, FoundInTidy
  <2>2. q \in Seq(CacheEntry) /\ w \in Nat /\ Weighs(q, w)
    BY <1>3 DEF Tidy
  <2>3. Dropped(RemoveAt(q, Find(q, k)), q, Find(q, k))
    BY <2>1, <2>2, RemovedAt
  <2>4. weight_(q[Find(q, k)].value) \in Nat /\ weight_(q[Find(q, k)].value) <= w
    BY <2>1, <2>2, <2>3, WeighsDropped
  <2> QED
    BY <1>4, <2>1, <2>4, Zenon
<1>8. Tidy(r, m, w, s, last, Used(new, k))
  <2>1. Tidy(r, m, (w - weight_(q[Find(q, k)].value)) + weight_(e.value), s, last, Used(new, k))
    BY <1>3, <1>5, <1>6, <1>7, TidyMoved
  <2>2. Tidy(r, m, (w - weight_(e.value)) + weight_(e.value), s, last, Used(new, k))
    BY <1>4, <2>1, Zenon
  <2>3. w \in Nat
    BY <1>3 DEF Tidy
  <2>4. (w - weight_(e.value)) + weight_(e.value) = w
    BY <1>7, <2>3
  <2> QED
    BY <2>2, <2>4, Zenon
<1>9. r \in Seq(CacheEntry)
  BY <1>8 DEF Tidy
<1>10. LruTypeOK'
  BY <1>6, <1>9 DEF LruInv, LruTypeOK
<1>11. ASSUME NEW t \in Shard PROVE ShardTidy(t)' /\ WithinShare(t)'
  <2>1. WithinShare(t)'
    BY <1>6 DEF LruInv, WithinShare
  <2>2. CASE t = s
    <3>1. lru'[t] = r
      BY <1>6, <2>2 DEF LruInv, LruTypeOK
    <3>2. map'[t] = m /\ weight'[t] = w /\ latest' = last /\ newer' = Used(new, k)
      BY <1>3, <1>6, <2>2, Zenon
    <3>3. ShardTidy(t)'
      BY <1>8, <2>2, <3>1, <3>2, Zenon DEF ShardTidy
    <3> QED
      BY <2>1, <3>3
  <2>3. CASE t # s
    <3>1. lru'[t] = lru[t]
      BY <1>6, <2>3 DEF LruInv, LruTypeOK
    <3>2. Tidy(lru[t], map[t], weight[t], t, last, Used(newer, k))
      BY <1>1, <1>3, <2>3, OthersTidy
    <3>3. ShardTidy(t)'
      BY <1>3, <1>6, <3>1, <3>2, Zenon DEF ShardTidy
    <3> QED
      BY <2>1, <3>3
  <2> QED
    BY <2>2, <2>3
<1> QED
  BY <1>10, <1>11 DEF LruInv

\* What Put leaves of the shard, hit or miss.
LEMMA PutShard ==
    ASSUME LruInv, NEW k \in CacheKey, NEW v \in Value, CachePut(k, v), NEW s \in Shard, s = ShardOf(k),
           NEW later, later[k] = {v}, \A x \in CacheKey : x # k => later[x] = latest[x]
    PROVE  \E r, m, w : /\ lru' = [lru EXCEPT ![s] = r] /\ map' = [map EXCEPT ![s] = m]
                        /\ weight' = [weight EXCEPT ![s] = w]
                        /\ map[s] \subseteq m
                        /\ Tidy(r, m, w, s, later, Used(newer, k))
<1>1. PICK q, m, w, last, new : Held(s, q, m, w, last, new)
  BY TakeShard
<1>2. /\ q = lru[s] /\ m = map[s] /\ w = weight[s] /\ last = latest /\ new = newer
      /\ Tidy(q, m, w, s, last, new)
  BY <1>1 DEF Held
<1>3. PICK e : e = Entry(k, v)
  OBVIOUS
<1>4. e \in CacheEntry /\ e.key = k /\ e.value = v
  BY <1>3 DEF Entry, CacheEntry
<1>5. \A x \in CacheKey : x # k => later[x] = last[x]
  BY <1>2
<1>6. CASE k \in m
  <2>1. PICK r : r = <<e>> \o RemoveAt(q, Find(q, k))
    OBVIOUS
  <2>2. PICK u : u = (w - weight_(q[Find(q, k)].value)) + weight_(v)
    OBVIOUS
  <2>3. Tidy(r, m, u, s, later, Used(new, k))
    <3>1. later[k] = {e.value}
      BY <1>4
    <3>2. Tidy(r, m, (w - weight_(q[Find(q, k)].value)) + weight_(e.value), s, later, Used(new, k))
      <4>1. Tidy(q, m, w, s, last, new)
        BY <1>2
      <4>2. e \in CacheEntry /\ e.key = k
        BY <1>4
      <4>3. Tidy(<<e>> \o RemoveAt(q, Find(q, k)), m,
                 (w - weight_(q[Find(q, k)].value)) + weight_(e.value), s, later, Used(new, k))
        BY <1>5, <1>6, <3>1, <4>1, <4>2, TidyMoved
      <4> QED
        BY <2>1, <4>3, Zenon
    <3> QED
      BY <1>4, <2>2, <3>2, Zenon
  <2>4. lru' = [lru EXCEPT ![s] = r]
    BY <1>2, <1>3, <1>6, <2>1 DEF CachePut
  <2>5. map' = [map EXCEPT ![s] = m]
    <3>1. map' = [map EXCEPT ![s] = @ \cup {k}]
      BY DEF CachePut
    <3>2. m \cup {k} = m
      BY <1>6
    <3> QED
      BY <1>2, <3>1, <3>2
  <2>6. weight' = [weight EXCEPT ![s] = u]
    BY <1>2, <1>6, <2>2 DEF CachePut, OldWeight
  <2> QED
    BY <1>2, <2>3, <2>4, <2>5, <2>6
<1>7. CASE k \notin m
  <2>1. PICK r : r = <<e>> \o q
    OBVIOUS
  <2>2. PICK u : u = w + weight_(v)
    OBVIOUS
  <2>3. Tidy(r, m \cup {k}, u, s, later, Used(new, k))
    <3>1. later[k] = {e.value}
      BY <1>4
    <3>2. Tidy(r, m \cup {k}, w + weight_(e.value), s, later, Used(new, k))
      <4>1. Tidy(q, m, w, s, last, new)
        BY <1>2
      <4>2. e \in CacheEntry /\ e.key = k
        BY <1>4
      <4>3. Tidy(<<e>> \o q, m \cup {k}, w + weight_(e.value), s, later, Used(new, k))
        BY <1>5, <1>7, <3>1, <4>1, <4>2, TidyAdded
      <4> QED
        BY <2>1, <4>3, Zenon
    <3> QED
      BY <1>4, <2>2, <3>2, Zenon
  <2>4. lru' = [lru EXCEPT ![s] = r]
    BY <1>2, <1>3, <1>7, <2>1 DEF CachePut
  <2>5. map' = [map EXCEPT ![s] = m \cup {k}]
    BY <1>2 DEF CachePut
  <2>6. weight' = [weight EXCEPT ![s] = u]
    <3>1. weight' = [weight EXCEPT ![s] = (w - 0) + weight_(v)]
      BY <1>2, <1>7 DEF CachePut, OldWeight
    <3>2. w \in Nat
      BY <1>2 DEF Tidy
    <3>3. w - 0 = w
      BY <3>2
    <3> QED
      BY <2>2, <3>1, <3>3, Zenon
  <2> QED
    BY <1>2, <2>3, <2>4, <2>5, <2>6
<1> QED
  BY <1>6, <1>7

LEMMA PutStep == ASSUME LruInv, NEW k \in CacheKey, NEW v \in Value, CachePut(k, v) PROVE LruInv'
<1>1. PICK s \in Shard : s = ShardOf(k)
  BY HomeOf
<1>2. PICK later : later = [latest EXCEPT ![k] = {v}]
  OBVIOUS
<1>3. later[k] = {v} /\ later \in [CacheKey -> SUBSET Value] /\ \A x \in CacheKey : x # k => later[x] = latest[x]
  BY <1>2 DEF LruInv, LruTypeOK
<1>4. PICK r, m, w : /\ lru' = [lru EXCEPT ![s] = r] /\ map' = [map EXCEPT ![s] = m]
                     /\ weight' = [weight EXCEPT ![s] = w]
                     /\ map[s] \subseteq m
                     /\ Tidy(r, m, w, s, later, Used(newer, k))
  BY <1>1, <1>3, PutShard
<1>5. /\ evicting' = [evicting EXCEPT ![s] = TRUE] /\ latest' = later
      /\ newer' = Used(newer, k) /\ clearing' = clearing
  BY <1>1, <1>2, Zenon DEF CachePut, Touch, Used
<1>6. r \in Seq(CacheEntry) /\ w \in Nat /\ m \in SUBSET CacheKey
  BY <1>4, TidyFacts
<1>7. LruTypeOK'
  BY <1>3, <1>4, <1>5, <1>6 DEF LruInv, LruTypeOK
<1>8. ASSUME NEW t \in Shard PROVE ShardTidy(t)' /\ WithinShare(t)'
  <2>1. CASE t = s
    <3>1. lru'[t] = r /\ map'[t] = m /\ weight'[t] = w /\ evicting'[t] = TRUE
      BY <1>4, <1>5, <2>1 DEF LruInv, LruTypeOK
    <3>2. ShardTidy(t)'
      BY <1>4, <1>5, <2>1, <3>1, Zenon DEF ShardTidy
    <3> QED
      BY <3>1, <3>2 DEF WithinShare
  <2>2. CASE t # s
    <3>1. lru'[t] = lru[t] /\ map'[t] = map[t] /\ weight'[t] = weight[t] /\ evicting'[t] = evicting[t]
      BY <1>4, <1>5, <2>2 DEF LruInv, LruTypeOK
    <3>2. Tidy(lru[t], map[t], weight[t], t, later, Used(newer, k))
      BY <1>1, <1>3, <2>2, OthersTidy
    <3>3. ShardTidy(t)'
      BY <1>5, <3>1, <3>2, Zenon DEF ShardTidy
    <3> QED
      BY <3>1, <3>3 DEF LruInv, WithinShare
  <2> QED
    BY <2>1, <2>2
<1> QED
  BY <1>7, <1>8 DEF LruInv

LEMMA EvictStep == ASSUME LruInv, NEW s \in Shard, Evict(s) PROVE LruInv'
<1>1. PICK q, m, w, last, new : Held(s, q, m, w, last, new)
  BY TakeShard
<1>2. /\ q = lru[s] /\ m = map[s] /\ w = weight[s] /\ last = latest /\ new = newer
      /\ Tidy(q, m, w, s, last, new)
  BY <1>1 DEF Held
<1>3. evicting[s] /\ clearing' = clearing /\ latest' = latest /\ newer' = newer
  BY DEF Evict
<1>4. CASE /\ weight[s] > shard_weight_cap /\ lru[s] # <<>>
           /\ lru' = [lru EXCEPT ![s] = Front(@)]
           /\ map' = [map EXCEPT ![s] = @ \ {Last(lru[s]).key}]
           /\ weight' = [weight EXCEPT ![s] = @ - weight_(Last(lru[s]).value)]
           /\ UNCHANGED evicting
  <2>1. PICK r : r = Front(q)
    OBVIOUS
  <2>2. PICK p : p = m \ {Last(q).key}
    OBVIOUS
  <2>3. PICK u : u = w - weight_(Last(q).value)
    OBVIOUS
  <2>4. Tidy(r, p, u, s, last, new)
    BY <1>2, <1>4, <2>1, <2>2, <2>3, TidyEvicted
  <2>5. /\ lru' = [lru EXCEPT ![s] = r] /\ map' = [map EXCEPT ![s] = p]
        /\ weight' = [weight EXCEPT ![s] = u] /\ evicting' = evicting
    BY <1>2, <1>4, <2>1, <2>2, <2>3
  <2>6. r \in Seq(CacheEntry) /\ u \in Nat /\ p \in SUBSET CacheKey
    BY <2>4, TidyFacts
  <2>7. LruTypeOK'
    BY <1>3, <2>5, <2>6 DEF LruInv, LruTypeOK
  <2>8. ASSUME NEW t \in Shard PROVE ShardTidy(t)' /\ WithinShare(t)'
    <3>1. CASE t = s
      <4>1. lru'[t] = r /\ map'[t] = p /\ weight'[t] = u /\ evicting'[t] = evicting[s]
        BY <2>5, <3>1 DEF LruInv, LruTypeOK
      <4>2. ShardTidy(t)'
        BY <1>2, <1>3, <2>4, <3>1, <4>1, Zenon DEF ShardTidy
      <4> QED
        BY <1>3, <4>1, <4>2 DEF WithinShare
    <3>2. CASE t # s
      <4>1. lru'[t] = lru[t] /\ map'[t] = map[t] /\ weight'[t] = weight[t] /\ evicting'[t] = evicting[t]
        BY <2>5, <3>2 DEF LruInv, LruTypeOK
      <4> QED
        BY <1>3, <4>1 DEF LruInv, WithinShare, ShardTidy
    <3> QED
      BY <3>1, <3>2
  <2> QED
    BY <2>7, <2>8 DEF LruInv
<1>5. CASE /\ weight[s] <= shard_weight_cap \/ lru[s] = <<>>
           /\ evicting' = [evicting EXCEPT ![s] = FALSE]
           /\ UNCHANGED <<lru, map, weight>>
  <2>1. weight[s] <= shard_weight_cap
    <3>1. lru[s] = <<>> => weight[s] = 0
      BY <1>2, TidyFacts
    <3> QED
      BY <1>5, <3>1, CapIsNat
  <2>2. LruTypeOK'
    BY <1>3, <1>5 DEF LruInv, LruTypeOK
  <2>3. ASSUME NEW t \in Shard PROVE ShardTidy(t)' /\ WithinShare(t)'
    <3>1. ShardTidy(t)'
      BY <1>3, <1>5 DEF LruInv, ShardTidy
    <3>2. CASE t = s
      BY <1>5, <2>1, <3>1, <3>2 DEF WithinShare
    <3>3. CASE t # s
      <4>1. evicting'[t] = evicting[t] /\ weight'[t] = weight[t]
        BY <1>5, <3>3 DEF LruInv, LruTypeOK
      <4> QED
        BY <3>1, <4>1 DEF LruInv, WithinShare
    <3> QED
      BY <3>2, <3>3
  <2> QED
    BY <2>2, <2>3 DEF LruInv
<1> QED
  BY <1>4, <1>5 DEF Evict

LEMMA ClearStep == ASSUME LruInv, ClearStart \/ ClearShard PROVE LruInv'
<1>1. CASE ClearStart
  <2>1. LruTypeOK'
    BY <1>1, LruCacheAssumption DEF ClearStart, LruInv, LruTypeOK
  <2>2. \A s \in Shard : ShardTidy(s)' /\ WithinShare(s)'
    BY <1>1 DEF ClearStart, LruInv, ShardTidy, WithinShare
  <2> QED
    BY <2>1, <2>2 DEF LruInv
<1>2. CASE ClearShard
  <2>1. PICK s : s = clearing
    OBVIOUS
  <2>2. s \in Shard /\ s + 1 \in 0 .. shards
    BY <1>2, <2>1, LruCacheAssumption DEF ClearShard, LruInv, LruTypeOK, Shard
  <2>3. /\ lru' = [lru EXCEPT ![s] = <<>>] /\ map' = [map EXCEPT ![s] = {}]
        /\ weight' = [weight EXCEPT ![s] = 0] /\ clearing' = s + 1
        /\ evicting' = evicting /\ latest' = latest /\ newer' = newer
    BY <1>2, <2>1 DEF ClearShard
  <2>4. LruTypeOK'
    BY <2>2, <2>3, EmptySeq DEF LruInv, LruTypeOK
  <2>5. ASSUME NEW t \in Shard PROVE ShardTidy(t)' /\ WithinShare(t)'
    <3>1. CASE t = s
      <4>1. lru'[t] = <<>> /\ map'[t] = {} /\ weight'[t] = 0
        BY <2>3, <3>1 DEF LruInv, LruTypeOK
      <4>2. PICK last : last = latest
        OBVIOUS
      <4>3. PICK new : new = newer
        OBVIOUS
      <4>4. Tidy(<<>>, {}, 0, t, last, new)
        BY TidyEmpty
      <4>5. ShardTidy(t)'
        BY <2>3, <4>1, <4>2, <4>3, <4>4, Zenon DEF ShardTidy
      <4> QED
        BY <4>1, <4>5, CapIsNat DEF WithinShare
    <3>2. CASE t # s
      <4>1. lru'[t] = lru[t] /\ map'[t] = map[t] /\ weight'[t] = weight[t]
        BY <2>3, <3>2 DEF LruInv, LruTypeOK
      <4> QED
        BY <2>3, <4>1 DEF LruInv, WithinShare, ShardTidy
    <3> QED
      BY <3>1, <3>2
  <2> QED
    BY <2>4, <2>5 DEF LruInv
<1> QED
  BY <1>1, <1>2

LEMMA LruStep == LruInv /\ [LruNext]_lruVars => LruInv'
<1> SUFFICES ASSUME LruInv, [LruNext]_lruVars PROVE LruInv'
  OBVIOUS
<1>1. CASE \E k \in CacheKey : CacheGet(k)
  BY <1>1, GetStep
<1>2. CASE \E k \in CacheKey : \E v \in Value : CachePut(k, v)
  BY <1>2, PutStep
<1>3. CASE \E s \in Shard : Evict(s)
  BY <1>3, EvictStep
<1>4. CASE ClearStart \/ ClearShard
  BY <1>4, ClearStep
<1>5. CASE UNCHANGED lruVars
  BY <1>5 DEF lruVars, LruInv, LruTypeOK, ShardTidy, WithinShare
<1> QED
  BY <1>1, <1>2, <1>3, <1>4, <1>5 DEF LruNext

(***************************************************************************)
(* Every shard of the cache counts exactly the weight of what it holds, so *)
(* the unsigned subtraction of Put and of its eviction loop never wraps,   *)
(* and keeps its share of the budget between calls; map and list name the  *)
(* same entries, each key once and in its shard; and a hit is the value    *)
(* put last under the key: for every number of shards, every budget and    *)
(* every hash of the keys.                                                 *)
(***************************************************************************)
THEOREM CacheExactHolds == LruSpec => []CacheExact
<1>1. LruInv => CacheExact
  <2> SUFFICES ASSUME LruInv, NEW s \in Shard
               PROVE  /\ Weighs(lru[s], weight[s])
                      /\ ~evicting[s] => weight[s] <= shard_weight_cap
                      /\ map[s] = {lru[s][i].key : i \in DOMAIN lru[s]}
                      /\ \A i, j \in DOMAIN lru[s] : i # j => lru[s][i].key # lru[s][j].key
                      /\ \A i \in DOMAIN lru[s] : /\ ShardOf(lru[s][i].key) = s
                                                 /\ latest[lru[s][i].key] = {lru[s][i].value}
    BY DEF CacheExact
  <2>1. PICK q, m, w, last, new : Held(s, q, m, w, last, new)
    BY TakeShard
  <2>2. /\ q = lru[s] /\ m = map[s] /\ w = weight[s] /\ last = latest
        /\ q \in Seq(CacheEntry) /\ Weighs(q, w) /\ m = {q[i].key : i \in 1 .. Len(q)}
        /\ \A i, j \in 1 .. Len(q) : i < j => q[i].key # q[j].key
        /\ \A i \in 1 .. Len(q) : ShardOf(q[i].key) = s /\ last[q[i].key] = {q[i].value}
    BY <2>1 DEF Held, Tidy
  <2>3. DOMAIN q = 1 .. Len(q) /\ Len(q) \in Nat
    BY <2>2, LenProperties
  <2>4. ASSUME NEW i \in DOMAIN q, NEW j \in DOMAIN q, i # j PROVE q[i].key # q[j].key
    <3>1. i \in 1 .. Len(q) /\ j \in 1 .. Len(q)
      BY <2>3
    <3>2. i < j \/ j < i
      BY <2>3, <2>4, <3>1
    <3>3. i < j => q[i].key # q[j].key
      BY <2>2, <3>1, Zenon
    <3>4. j < i => q[j].key # q[i].key
      BY <2>2, <3>1, Zenon
    <3> QED
      BY <3>2, <3>3, <3>4, Zenon
  <2>5. m = {q[i].key : i \in DOMAIN q}
    BY <2>2, <2>3, Zenon
  <2>6. \A i \in DOMAIN q : ShardOf(q[i].key) = s /\ last[q[i].key] = {q[i].value}
    BY <2>2, <2>3, Zenon
  <2>7. ~evicting[s] => weight[s] <= shard_weight_cap
    BY DEF LruInv, WithinShare
  <2>8. q = lru[s] /\ m = map[s] /\ w = weight[s] /\ last = latest /\ Weighs(q, w)
    BY <2>2
  <2>9. Weighs(lru[s], weight[s])
    BY <2>8, Zenon
  <2>10. map[s] = {lru[s][i].key : i \in DOMAIN lru[s]}
    BY <2>5, <2>8, Zenon
  <2>11. ASSUME NEW i \in DOMAIN lru[s], NEW j \in DOMAIN lru[s], i # j PROVE lru[s][i].key # lru[s][j].key
    BY <2>4, <2>8, <2>11, Zenon
  <2>12. ASSUME NEW i \in DOMAIN lru[s]
         PROVE  ShardOf(lru[s][i].key) = s /\ latest[lru[s][i].key] = {lru[s][i].value}
    BY <2>6, <2>8, Zenon
  <2> QED
    BY <2>7, <2>9, <2>10, <2>11, <2>12, Zenon
<1> QED
  BY <1>1, LruInvInit, LruStep, PTL DEF LruSpec

(***************************************************************************)
(* The eviction loop of Put always puts out the entry of the shard that    *)
(* was used longest ago, whatever calls, evictions in other shards and     *)
(* half-done Clear came before.                                            *)
(***************************************************************************)
THEOREM EvictsOldestHolds == LruSpec => EvictsOldest
<1> DEFINE Oldest == clearing' = clearing =>
        \A s \in Shard : \A x \in map[s] \ map'[s], y \in map'[s] : <<y, x>> \in newer'
<1>1. LruInv /\ [LruNext]_lruVars => [Oldest]_lruVars
  <2> SUFFICES ASSUME LruInv, LruNext, clearing' = clearing, NEW t \in Shard,
                      NEW x \in map[t] \ map'[t], NEW y \in map'[t]
               PROVE  <<y, x>> \in newer'
    OBVIOUS
  <2>1. CASE \E k \in CacheKey : CacheGet(k)
    BY <2>1 DEF CacheGet
  <2>2. ASSUME NEW k \in CacheKey, NEW v \in Value, CachePut(k, v) PROVE FALSE
    <3>1. map' = [map EXCEPT ![ShardOf(k)] = @ \cup {k}]
      BY <2>2 DEF CachePut
    <3>2. map[t] \subseteq map'[t]
      BY <3>1 DEF LruInv, LruTypeOK
    <3> QED
      BY <3>2
  <2>3. ASSUME NEW s \in Shard, Evict(s) PROVE <<y, x>> \in newer'
    <3>1. PICK q, m, w, last, new : Held(s, q, m, w, last, new)
      BY TakeShard
    <3>2. q = lru[s] /\ m = map[s] /\ new = newer /\ Tidy(q, m, w, s, last, new)
      BY <3>1 DEF Held
    <3>3. map' # map
      OBVIOUS
    <3>4. q # <<>> /\ map' = [map EXCEPT ![s] = m \ {Last(q).key}] /\ newer' = newer
      BY <2>3, <3>2, <3>3 DEF Evict
    <3>5. t = s
      BY <3>4 DEF LruInv, LruTypeOK
    <3>6. map'[t] = m \ {Last(q).key}
      BY <3>4, <3>5 DEF LruInv, LruTypeOK
    <3>7. x = Last(q).key /\ y \in m \ {Last(q).key}
      BY <3>2, <3>5, <3>6
    <3>8. \A z \in m \ {Last(q).key} : <<z, Last(q).key>> \in new
      BY <3>2, <3>4, TidyEvicted
    <3>9. <<y, Last(q).key>> \in new
      BY <3>7, <3>8, Zenon
    <3> QED
      BY <3>2, <3>4, <3>7, <3>9, Zenon
  <2>4. CASE ClearStart
    BY <2>4, LruCacheAssumption DEF ClearStart
  <2>5. CASE ClearShard
    BY <2>5 DEF ClearShard, LruInv, LruTypeOK
  <2> QED
    BY <2>1, <2>2, <2>3, <2>4, <2>5 DEF LruNext
<1> QED
  BY <1>1, LruInvInit, LruStep, PTL DEF LruSpec, EvictsOldest

-----------------------------------------------------------------------------
(***************************************************************************)
(* The log file.  A recovery is exact because of where the records lie:    *)
(* Layout says that the file holds them one after the other, each behind   *)
(* the padding its offset calls for and cut into fragments where the       *)
(* blocks end, as far as the file goes: a crash leaves less of it and      *)
(* never something else.  The reader walks along that layout (ReaderAt),   *)
(* and whatever ends its walk lies behind what the last fsync has covered  *)
(* (Whole).  The encoder keeps up with the layout fragment by fragment     *)
(* (SoFar) although it computes with offsets inside a block only.          *)
(***************************************************************************)

\* Where the block of p ends.
EndOf(p) == (p \div kBlockSize + 1) * kBlockSize

LEMMA Division ==
    ASSUME NEW p \in Nat, NEW B \in Nat, B > 0
    PROVE  /\ p \div B \in Nat /\ p % B \in 0 .. B - 1
           /\ p = B * (p \div B) + (p % B)
  OBVIOUS

\* p lies in its block.
LEMMA InBlock ==
    ASSUME NEW p \in Nat
    PROVE  /\ EndOf(p) \in Nat /\ p < EndOf(p) /\ EndOf(p) - p <= kBlockSize
           /\ EndOf(p) - p = kBlockSize - (p % kBlockSize)
<1>1. PICK B : B = kBlockSize
  OBVIOUS
<1>2. B \in Nat /\ B > 0
  BY <1>1, FormatAssumption
<1>3. PICK q : q = p \div B
  OBVIOUS
<1>4. PICK r : r = p % B
  OBVIOUS
<1>5. q \in Nat /\ r \in 0 .. B - 1 /\ p = B * q + r
  BY <1>2, <1>3, <1>4, Division
<1>6. (q + 1) * B = B * q + B /\ B * q \in Nat
  BY <1>2, <1>5
<1>7. PICK e : e = (q + 1) * B
  OBVIOUS
<1>8. e \in Nat /\ p < e /\ e - p <= B /\ e - p = B - r
  BY <1>2, <1>5, <1>6, <1>7
<1>9. EndOf(p) = e
  BY <1>1, <1>3, <1>7 DEF EndOf
<1> QED
  BY <1>1, <1>4, <1>8, <1>9, Zenon

\* All of a block ends at the same place.
LEMMA SameBlock ==
    ASSUME NEW p \in Nat, NEW x \in Nat, p <= x, x < EndOf(p)
    PROVE  EndOf(x) = EndOf(p)
<1>1. PICK B : B = kBlockSize
  OBVIOUS
<1>2. B \in Nat /\ B > 0
  BY <1>1, FormatAssumption
<1>3. PICK q, r : q = p \div B /\ r = p % B
  OBVIOUS
<1>4. PICK t, u : t = x \div B /\ u = x % B
  OBVIOUS
<1>5. q \in Nat /\ r \in 0 .. B - 1 /\ p = B * q + r
  BY <1>2, <1>3, Division
<1>6. t \in Nat /\ u \in 0 .. B - 1 /\ x = B * t + u
  BY <1>2, <1>4, Division
<1>7. EndOf(p) = (q + 1) * B /\ EndOf(x) = (t + 1) * B
  BY <1>1, <1>3, <1>4 DEF EndOf
<1>8. ~(t < q)
  <2> SUFFICES ASSUME t < q PROVE FALSE
    OBVIOUS
  <2>1. B * (t + 1) <= B * q /\ B * (t + 1) = B * t + B
    BY <1>2, <1>5, <1>6
  <2>2. B * t \in Nat /\ B * q \in Nat
    BY <1>2, <1>5, <1>6
  <2> QED
    BY <1>2, <1>5, <1>6, <2>1, <2>2
<1>9. ~(q < t)
  <2> SUFFICES ASSUME q < t PROVE FALSE
    OBVIOUS
  <2>1. B * (q + 1) <= B * t /\ B * (q + 1) = (q + 1) * B
    BY <1>2, <1>5, <1>6
  <2>2. PICK a, b : a = B * t /\ b = (q + 1) * B
    OBVIOUS
  <2>3. a \in Nat /\ b \in Nat /\ b <= a /\ x = a + u /\ x < b /\ u \in Nat
    BY <1>2, <1>5, <1>6, <1>7, <2>1, <2>2
  <2> QED
    BY <2>3
<1> QED
  BY <1>5, <1>6, <1>7, <1>8, <1>9

\* The end of a block is the beginning of the next.
LEMMA NextBlock ==
    ASSUME NEW p \in Nat
    PROVE  EndOf(EndOf(p)) = EndOf(p) + kBlockSize /\ EndOf(p) % kBlockSize = 0
<1>1. PICK B : B = kBlockSize
  OBVIOUS
<1>2. B \in Nat /\ B > 0
  BY <1>1, FormatAssumption
<1>3. PICK q : q = p \div B
  OBVIOUS
<1>4. q \in Nat
  BY <1>2, <1>3, Division
<1>5. PICK e : e = (q + 1) * B
  OBVIOUS
<1>6. e \in Nat
  BY <1>2, <1>4, <1>5
<1>7. PICK t, u : t = e \div B /\ u = e % B
  OBVIOUS
<1>8. t \in Nat /\ u \in 0 .. B - 1 /\ e = B * t + u
  BY <1>2, <1>6, <1>7, Division
<1>9. t = q + 1 /\ u = 0
  <2>1. B * t + u = B * (q + 1) + 0 /\ q + 1 \in Nat
    BY <1>2, <1>4, <1>5, <1>8
  <2>2. ~(t < q + 1)
    <3> SUFFICES ASSUME t < q + 1 PROVE FALSE
      OBVIOUS
    <3>1. B * (t + 1) <= B * (q + 1) /\ B * (t + 1) = B * t + B /\ B * t \in Nat
      BY <1>2, <1>4, <1>8
    <3> QED
      BY <1>2, <1>8, <2>1, <3>1
  <2>3. ~(q + 1 < t)
    <3> SUFFICES ASSUME q + 1 < t PROVE FALSE
      OBVIOUS
    <3>1. B * ((q + 1) + 1) <= B * t /\ B * ((q + 1) + 1) = B * (q + 1) + B /\ B * (q + 1) \in Nat
      BY <1>2, <1>4, <1>8
    <3> QED
      BY <1>2, <1>8, <2>1, <3>1
  <2>4. t = q + 1
    BY <1>4, <1>8, <2>2, <2>3
  <2>5. B * t \in Nat /\ B * t + u = B * t + 0
    BY <1>2, <1>8, <2>1, <2>4
  <2> QED
    BY <1>8, <2>4, <2>5
<1>10. (t + 1) * B = e + B
  <2>1. ((q + 1) + 1) * B = (q + 1) * B + B
    BY <1>2, <1>4
  <2> QED
    BY <1>5, <1>9, <2>1
<1>11. EndOf(p) = e /\ EndOf(e) = (t + 1) * B /\ e % B = 0
  BY <1>1, <1>3, <1>5, <1>7, <1>9 DEF EndOf
<1> QED
  BY <1>1, <1>10, <1>11, Zenon

LEMMA Sizes ==
    /\ kHeaderSize \in Nat /\ kHeaderSize > 0
    /\ kBlockSize \in Nat /\ kBlockSize > kHeaderSize
  BY FormatAssumption

\* Where a fragment begins that is written at p: behind the padding, if any.
Padded(p) == IF EndOf(p) - p < kHeaderSize THEN EndOf(p) ELSE p

LEMMA PaddedRoom ==
    ASSUME NEW p \in Nat
    PROVE  /\ Padded(p) \in Nat /\ p <= Padded(p) /\ Padded(p) <= EndOf(p)
           /\ EndOf(Padded(p)) \in Nat /\ Padded(p) + kHeaderSize <= EndOf(Padded(p))
           /\ Padded(p) < p + kHeaderSize
<1>1. EndOf(p) \in Nat /\ p < EndOf(p)
  BY InBlock
<1>2. CASE EndOf(p) - p < kHeaderSize
  <2>1. Padded(p) = EndOf(p)
    BY <1>2 DEF Padded
  <2>2. EndOf(EndOf(p)) = EndOf(p) + kBlockSize
    BY NextBlock
  <2> QED
    BY <1>1, <1>2, <2>1, <2>2, Sizes
<1>3. CASE ~(EndOf(p) - p < kHeaderSize)
  <2>1. Padded(p) = p
    BY <1>3 DEF Padded
  <2> QED
    BY <1>1, <1>3, <2>1, Sizes
<1> QED
  BY <1>2, <1>3

LEMMA PaddedBetween ==
    ASSUME NEW p \in Nat, NEW x \in Nat, p <= x, x <= Padded(p)
    PROVE  Padded(x) = Padded(p)
<1>1. EndOf(p) \in Nat /\ p < EndOf(p) /\ EndOf(x) \in Nat /\ x < EndOf(x)
  BY InBlock
<1>2. CASE EndOf(p) - p < kHeaderSize
  <2>1. Padded(p) = EndOf(p)
    BY <1>2 DEF Padded
  <2>2. CASE x < EndOf(p)
    <3>1. EndOf(x) = EndOf(p)
      BY <2>2, SameBlock
    <3>2. EndOf(x) - x < kHeaderSize
      BY <1>1, <1>2, <3>1, Sizes
    <3> QED
      BY <2>1, <3>1, <3>2 DEF Padded
  <2>3. CASE x = EndOf(p)
    <3>1. EndOf(x) = x + kBlockSize
      BY <2>3, NextBlock
    <3>2. ~(EndOf(x) - x < kHeaderSize)
      BY <3>1, Sizes
    <3> QED
      BY <2>1, <2>3, <3>2 DEF Padded
  <2> QED
    BY <1>1, <2>1, <2>2, <2>3
<1>3. CASE ~(EndOf(p) - p < kHeaderSize)
  <2>1. Padded(p) = p
    BY <1>3 DEF Padded
  <2>2. x = p
    BY <2>1
  <2> QED
    BY <2>2
<1> QED
  BY <1>2, <1>3

-----------------------------------------------------------------------------
CellOf(r, f, t, len, i) == [rec |-> r, frag |-> f, type |-> t, len |-> len, at |-> i]
Types == {"zero", "full", "first", "middle", "last"}
Cells == [rec : Nat, frag : Nat, type : Types, len : Nat, at : Nat]

\* As far as the file g goes: a fragment at p; padding from p to e.
Holds(g, p, r, f, t, len) ==
    \A i \in 1 .. kHeaderSize + len : p + i <= Len(g) => g[p + i] = CellOf(r, f, t, len, i)
Zeros(g, p, e) == \A x \in p + 1 .. e : x <= Len(g) => g[x] = Zero

TypeOf(f, k) == IF f = 1 THEN (IF k = 1 THEN "full" ELSE "first")
                         ELSE (IF f = k THEN "last" ELSE "middle")

\* Fragment f of k, from a to b.
Placed(g, r, f, k, a, b) ==
    /\ a + kHeaderSize <= b /\ b <= EndOf(a) /\ (f < k => b = EndOf(a))
    /\ Holds(g, a, r, f, TypeOf(f, k), b - a - kHeaderSize)

\* Record r lies from p to e, in k fragments that begin at starts.
RecordBy(g, p, e, r, k, starts) ==
    /\ k \in Nat \ {0} /\ starts \in [1 .. k + 1 -> Nat]
    /\ starts[1] = Padded(p) /\ Zeros(g, p, Padded(p)) /\ starts[k + 1] = e
    /\ \A f \in 1 .. k : Placed(g, r, f, k, starts[f], starts[f + 1])

RecordAt(g, p, e, r) == \E k, starts : RecordBy(g, p, e, r, k, starts)

\* The records of a, one after the other.
Layout(g, a, ends) ==
    /\ ends \in [0 .. Len(a) -> Nat] /\ ends[0] = 0
    /\ \A i \in 1 .. Len(a) : RecordAt(g, ends[i - 1], ends[i], a[i])

\* What may lie behind the last record: padding.
OnlyPadding(g, e) == Len(g) <= Padded(e) /\ Zeros(g, e, Len(g))

\* A function that rises from each argument to the next rises.
LEMMA Rises ==
    ASSUME NEW lo \in Nat, NEW n \in Nat, NEW u, \A i \in lo .. n : u[i] \in Nat,
           \A i \in lo .. n : i < n => u[i] <= u[i + 1]
    PROVE  \A i, j \in lo .. n : i <= j => u[i] <= u[j]
<1> DEFINE Bad(d) == \E i \in lo .. n : i + d \in lo .. n /\ ~(u[i] <= u[i + d])
           S == {d \in Nat : Bad(d)}
<1>3. S = {}
  <2> SUFFICES ASSUME S # {} PROVE FALSE
    OBVIOUS
  <2>1. PICK d \in S : \A e \in S : d <= e
    <3>1. S \in SUBSET Nat
      OBVIOUS
    <3> HIDE DEF S
    <3> QED
      BY <3>1, LeastExists
  <2>2. PICK i \in lo .. n : d \in Nat /\ i + d \in lo .. n /\ ~(u[i] <= u[i + d])
    BY <2>1
  <2>3. d # 0
    <3> SUFFICES ASSUME d = 0 PROVE FALSE
      OBVIOUS
    <3>1. i + d = i /\ u[i] \in Nat
      BY <2>2
    <3> QED
      BY <2>2, <3>1
  <2>4. d - 1 \in Nat /\ d - 1 \notin S
    <3>1. d - 1 \in Nat /\ ~(d <= d - 1)
      BY <2>2, <2>3
    <3> HIDE DEF S
    <3> QED
      BY <2>1, <3>1
  <2>5. i + (d - 1) \in lo .. n /\ i + (d - 1) < n /\ (i + (d - 1)) + 1 = i + d
    BY <2>2, <2>3
  <2>6. u[i] <= u[i + (d - 1)]
    BY <2>2, <2>4, <2>5
  <2>7. u[i + (d - 1)] <= u[i + d]
    BY <2>5
  <2>8. u[i] \in Nat /\ u[i + (d - 1)] \in Nat /\ u[i + d] \in Nat
    BY <2>2, <2>5
  <2> QED
    BY <2>2, <2>6, <2>7, <2>8
<1>4. ASSUME NEW i \in lo .. n, NEW j \in lo .. n, i <= j PROVE u[i] <= u[j]
  <2>1. j - i \in Nat /\ i + (j - i) = j
    BY <1>4
  <2>2. j - i \notin S
    BY <1>3
  <2> QED
    BY <2>1, <2>2
<1> QED
  BY <1>4

\* The fragments follow one another up to the end of the record.
LEMMA StartsRise ==
    ASSUME NEW g, NEW p \in Nat, NEW e, NEW r, NEW k, NEW starts, RecordBy(g, p, e, r, k, starts)
    PROVE  /\ e \in Nat /\ Padded(p) + kHeaderSize <= e /\ Padded(p) \in Nat /\ k \in Nat /\ k >= 1
           /\ \A f \in 1 .. k : /\ starts[f] \in Nat /\ starts[f + 1] \in Nat
                                /\ starts[f] + kHeaderSize <= starts[f + 1]
                                /\ starts[f + 1] <= e /\ Padded(p) <= starts[f]
<1>1. /\ k \in Nat /\ k >= 1 /\ \A f \in 1 .. k + 1 : starts[f] \in Nat
      /\ starts[1] = Padded(p) /\ starts[k + 1] = e
  BY DEF RecordBy
<1>2. \A f \in 1 .. k : starts[f] + kHeaderSize <= starts[f + 1]
  BY DEF RecordBy, Placed
<1>3. \A f \in 1 .. k + 1 : f < k + 1 => starts[f] <= starts[f + 1]
  <2> SUFFICES ASSUME NEW f \in 1 .. k + 1, f < k + 1 PROVE starts[f] <= starts[f + 1]
    OBVIOUS
  <2>1. f \in 1 .. k /\ f + 1 \in 1 .. k + 1
    BY <1>1
  <2>2. starts[f] \in Nat /\ starts[f + 1] \in Nat /\ starts[f] + kHeaderSize <= starts[f + 1]
    BY <1>1, <1>2, <2>1
  <2> QED
    BY <2>2, Sizes
<1>4. \A f, h \in 1 .. k + 1 : f <= h => starts[f] <= starts[h]
  <2>1. k + 1 \in Nat /\ 1 \in Nat
    BY <1>1
  <2> QED
    BY <1>1, <1>3, <2>1, Rises
<1>5. ASSUME NEW f \in 1 .. k
      PROVE  /\ starts[f] \in Nat /\ starts[f + 1] \in Nat
             /\ starts[f] + kHeaderSize <= starts[f + 1]
             /\ starts[f + 1] <= e /\ Padded(p) <= starts[f]
  <2>1. f \in 1 .. k + 1 /\ f + 1 \in 1 .. k + 1 /\ k + 1 \in 1 .. k + 1 /\ 1 \in 1 .. k + 1
        /\ 1 <= f /\ f + 1 <= k + 1
    BY <1>1
  <2>2. starts[1] <= starts[f] /\ starts[f + 1] <= starts[k + 1]
    BY <1>4, <2>1
  <2> QED
    BY <1>1, <1>2, <2>1, <2>2
<1>6. e \in Nat /\ Padded(p) \in Nat /\ Padded(p) + kHeaderSize <= e
  <2>1. 1 \in 1 .. k /\ 1 \in 1 .. k + 1 /\ k + 1 \in 1 .. k + 1
    BY <1>1
  <2>2. starts[1] + kHeaderSize <= starts[1 + 1] /\ starts[1 + 1] <= e /\ starts[1 + 1] \in Nat
    BY <1>5, <2>1
  <2>3. e \in Nat /\ Padded(p) \in Nat
    BY <1>1, <2>1
  <2> QED
    BY <1>1, <2>2, <2>3, Sizes
<1> QED
  BY <1>1, <1>5, <1>6

\* The file h is the beginning of the file g.
Begins(h, g) ==
    /\ Len(h) \in Nat /\ Len(g) \in Nat /\ Len(h) <= Len(g)
    /\ \A x \in 1 .. Len(h) : h[x] = g[x]

\* A record of a file that is cut is still one as far as the file goes.
LEMMA RecordShorter ==
    ASSUME NEW g, NEW h, Begins(h, g), NEW p \in Nat, NEW e, NEW r, NEW k, NEW starts,
           RecordBy(g, p, e, r, k, starts)
    PROVE  RecordBy(h, p, e, r, k, starts)
<1>1. \A x \in Nat : 1 <= x /\ x <= Len(h) => x <= Len(g) /\ h[x] = g[x]
  BY DEF Begins
<1>2. PICK P : P = Padded(p)
  OBVIOUS
<1>3. P \in Nat
  BY <1>2, StartsRise
<1>4. Zeros(h, p, P)
  <2> SUFFICES ASSUME NEW x \in p + 1 .. P, x <= Len(h) PROVE h[x] = Zero
    BY DEF Zeros
  <2>1. Zeros(g, p, P)
    BY <1>2 DEF RecordBy
  <2>2. x \in Nat /\ 1 <= x
    BY <1>3
  <2>3. x <= Len(g) /\ h[x] = g[x]
    BY <1>1, <2>2
  <2> QED
    BY <2>1, <2>3 DEF Zeros
<1>5. ASSUME NEW f \in 1 .. k PROVE Placed(h, r, f, k, starts[f], starts[f + 1])
  <2>1. PICK a, b : a = starts[f] /\ b = starts[f + 1]
    OBVIOUS
  <2>2. a \in Nat /\ b \in Nat /\ a + kHeaderSize <= b
    BY <2>1, StartsRise
  <2>3. Placed(g, r, f, k, a, b)
    BY <2>1 DEF RecordBy
  <2>4. PICK len : len = b - a - kHeaderSize
    OBVIOUS
  <2>5. PICK t : t = TypeOf(f, k)
    OBVIOUS
  <2>6. Holds(g, a, r, f, t, len) /\ len \in Nat
    BY <2>2, <2>3, <2>4, <2>5, Sizes DEF Placed
  <2>7. Holds(h, a, r, f, t, len)
    <3> SUFFICES ASSUME NEW i \in 1 .. kHeaderSize + len, a + i <= Len(h)
                 PROVE  h[a + i] = CellOf(r, f, t, len, i)
      BY DEF Holds
    <3>1. a + i \in Nat /\ 1 <= a + i
      BY <2>2, <2>6, Sizes
    <3>2. a + i <= Len(g) /\ h[a + i] = g[a + i]
      BY <1>1, <3>1
    <3> QED
      BY <2>6, <3>2 DEF Holds
  <2>8. Placed(h, r, f, k, a, b)
    BY <2>3, <2>4, <2>5, <2>7 DEF Placed
  <2> QED
    BY <2>1, <2>8
<1> QED
  BY <1>2, <1>4, <1>5 DEF RecordBy

\* A whole record stays one when the file grows.
LEMMA RecordLonger ==
    ASSUME NEW g, NEW h, Begins(g, h), NEW p \in Nat, NEW e, NEW r, NEW k, NEW starts,
           RecordBy(g, p, e, r, k, starts), e <= Len(g)
    PROVE  RecordBy(h, p, e, r, k, starts)
<1>1. Len(g) \in Nat /\ \A x \in Nat : 1 <= x /\ x <= Len(g) => h[x] = g[x]
  BY DEF Begins
<1>2. PICK P : P = Padded(p)
  OBVIOUS
<1>3. P \in Nat /\ e \in Nat /\ P + kHeaderSize <= e
  BY <1>2, StartsRise
<1>4. Zeros(h, p, P)
  <2> SUFFICES ASSUME NEW x \in p + 1 .. P PROVE h[x] = Zero
    BY DEF Zeros
  <2>1. Zeros(g, p, P)
    BY <1>2 DEF RecordBy
  <2>2. x \in Nat /\ 1 <= x /\ x <= Len(g)
    BY <1>1, <1>3, Sizes
  <2>3. h[x] = g[x]
    BY <1>1, <2>2
  <2> QED
    BY <2>1, <2>2, <2>3 DEF Zeros
<1>5. ASSUME NEW f \in 1 .. k PROVE Placed(h, r, f, k, starts[f], starts[f + 1])
  <2>1. PICK a, b : a = starts[f] /\ b = starts[f + 1]
    OBVIOUS
  <2>2. a \in Nat /\ b \in Nat /\ a + kHeaderSize <= b /\ b <= e
    BY <2>1, StartsRise
  <2>3. Placed(g, r, f, k, a, b)
    BY <2>1 DEF RecordBy
  <2>4. PICK len : len = b - a - kHeaderSize
    OBVIOUS
  <2>5. PICK t : t = TypeOf(f, k)
    OBVIOUS
  <2>6. Holds(g, a, r, f, t, len) /\ len \in Nat /\ a + (kHeaderSize + len) = b
    BY <2>2, <2>3, <2>4, <2>5, Sizes DEF Placed
  <2>7. Holds(h, a, r, f, t, len)
    <3> SUFFICES ASSUME NEW i \in 1 .. kHeaderSize + len PROVE h[a + i] = CellOf(r, f, t, len, i)
      BY DEF Holds
    <3>1. a + i \in Nat /\ 1 <= a + i /\ a + i <= Len(g)
      BY <1>1, <1>3, <2>2, <2>6, Sizes
    <3>2. h[a + i] = g[a + i]
      BY <1>1, <3>1
    <3> QED
      BY <2>6, <3>1, <3>2 DEF Holds
  <2>8. Placed(h, r, f, k, a, b)
    BY <2>3, <2>4, <2>5, <2>7 DEF Placed
  <2> QED
    BY <2>1, <2>8
<1> QED
  BY <1>2, <1>4, <1>5 DEF RecordBy

LEMMA EndsRise ==
    ASSUME NEW g, NEW a \in Seq(Nat), NEW ends, Layout(g, a, ends)
    PROVE  /\ Len(a) \in Nat /\ \A i \in 0 .. Len(a) : ends[i] \in Nat
           /\ \A i \in 0 .. Len(a) : i < Len(a) => Padded(ends[i]) + kHeaderSize <= ends[i + 1]
           /\ \A i, j \in 0 .. Len(a) : i <= j => ends[i] <= ends[j]
<1>1. PICK n : n = Len(a)
  OBVIOUS
<1>2. n \in Nat /\ \A i \in 0 .. n : ends[i] \in Nat
  BY <1>1, LenProperties DEF Layout
<1>3. ASSUME NEW i \in 0 .. n, i < n
      PROVE  Padded(ends[i]) + kHeaderSize <= ends[i + 1] /\ ends[i] <= ends[i + 1]
  <2>1. i + 1 \in 1 .. n /\ (i + 1) - 1 = i /\ i + 1 \in 0 .. n
    BY <1>2, <1>3
  <2>2. RecordAt(g, ends[i], ends[i + 1], a[i + 1])
    BY <1>1, <2>1 DEF Layout
  <2>3. PICK k, starts : RecordBy(g, ends[i], ends[i + 1], a[i + 1], k, starts)
    BY <2>2 DEF RecordAt
  <2>4. ends[i] \in Nat /\ ends[i + 1] \in Nat
    BY <1>2, <2>1
  <2>5. Padded(ends[i]) + kHeaderSize <= ends[i + 1]
    BY <2>3, <2>4, StartsRise
  <2>6. Padded(ends[i]) \in Nat /\ ends[i] <= Padded(ends[i])
    BY <2>4, PaddedRoom
  <2> QED
    BY <2>4, <2>5, <2>6, Sizes
<1>4. \A i, j \in 0 .. n : i <= j => ends[i] <= ends[j]
  <2>1. \A i \in 0 .. n : i < n => ends[i] <= ends[i + 1]
    BY <1>3
  <2>2. 0 \in Nat
    OBVIOUS
  <2> QED
    BY <1>2, <2>1, <2>2, Rises
<1> QED
  BY <1>1, <1>2, <1>3, <1>4

LEMMA LayoutShorter ==
    ASSUME NEW g, NEW h, Begins(h, g), NEW a \in Seq(Nat), NEW ends, Layout(g, a, ends)
    PROVE  Layout(h, a, ends)
<1>1. ASSUME NEW i \in 1 .. Len(a) PROVE RecordAt(h, ends[i - 1], ends[i], a[i])
  <2>1. PICK k, starts : RecordBy(g, ends[i - 1], ends[i], a[i], k, starts)
    BY DEF Layout, RecordAt
  <2>2. i - 1 \in 0 .. Len(a)
    BY LenProperties
  <2>3. ends[i - 1] \in Nat
    BY <2>2, EndsRise
  <2>4. RecordBy(h, ends[i - 1], ends[i], a[i], k, starts)
    BY <2>1, <2>3, RecordShorter
  <2> QED
    BY <2>4 DEF RecordAt
<1> QED
  BY <1>1 DEF Layout

LEMMA LayoutLonger ==
    ASSUME NEW g, NEW h, Begins(g, h), NEW a \in Seq(Nat), NEW ends, Layout(g, a, ends),
           ends[Len(a)] <= Len(g)
    PROVE  Layout(h, a, ends)
<1>1. ASSUME NEW i \in 1 .. Len(a) PROVE RecordAt(h, ends[i - 1], ends[i], a[i])
  <2>1. PICK k, starts : RecordBy(g, ends[i - 1], ends[i], a[i], k, starts)
    BY DEF Layout, RecordAt
  <2>2. i - 1 \in 0 .. Len(a) /\ i \in 0 .. Len(a) /\ Len(a) \in 0 .. Len(a) /\ i <= Len(a)
    BY LenProperties
  <2>3. ends[i - 1] \in Nat /\ ends[i] \in Nat /\ ends[Len(a)] \in Nat /\ ends[i] <= ends[Len(a)]
    BY <2>2, EndsRise
  <2>4. ends[i] <= Len(g)
    BY <2>3 DEF Begins
  <2>5. RecordBy(h, ends[i - 1], ends[i], a[i], k, starts)
    BY <2>1, <2>3, <2>4, RecordLonger
  <2> QED
    BY <2>5 DEF RecordAt
<1> QED
  BY <1>1 DEF Layout

\* Fewer records.
LEMMA LayoutFewer ==
    ASSUME NEW g, NEW a \in Seq(Nat), NEW ends, Layout(g, a, ends), NEW b \in Seq(Nat),
           Len(b) <= Len(a), \A i \in 1 .. Len(b) : b[i] = a[i], NEW fewer,
           fewer = [i \in 0 .. Len(b) |-> ends[i]]
    PROVE  Layout(g, b, fewer)
<1>1. PICK m, n : m = Len(b) /\ n = Len(a)
  OBVIOUS
<1>2. m \in Nat /\ n \in Nat /\ m <= n
  BY <1>1, LenProperties
<1>3. \A i \in 0 .. m : i \in 0 .. n /\ fewer[i] = ends[i] /\ ends[i] \in Nat
  <2>1. \A i \in 0 .. n : ends[i] \in Nat
    BY <1>1, EndsRise
  <2> QED
    BY <1>1, <1>2, <2>1
<1>4. fewer \in [0 .. m -> Nat] /\ fewer[0] = 0
  <2>1. ends[0] = 0 /\ 0 \in 0 .. m
    BY <1>2 DEF Layout
  <2>2. fewer \in [0 .. m -> Nat]
    BY <1>1, <1>3
  <2> QED
    BY <1>3, <2>1, <2>2
<1>5. ASSUME NEW i \in 1 .. m PROVE RecordAt(g, fewer[i - 1], fewer[i], b[i])
  <2>1. i \in 1 .. n /\ i \in 0 .. m /\ i - 1 \in 0 .. m
    BY <1>2
  <2>2. RecordAt(g, ends[i - 1], ends[i], a[i])
    BY <1>1, <2>1 DEF Layout
  <2>3. fewer[i - 1] = ends[i - 1] /\ fewer[i] = ends[i] /\ b[i] = a[i]
    BY <1>1, <1>3, <2>1
  <2> QED
    BY <2>2, <2>3
<1> QED
  BY <1>1, <1>4, <1>5 DEF Layout

LEMMA TailShorter ==
    ASSUME NEW g, NEW h, Begins(h, g), NEW e \in Nat, OnlyPadding(g, e) PROVE OnlyPadding(h, e)
<1>1. Padded(e) \in Nat
  BY PaddedRoom
<1>2. Len(h) <= Padded(e)
  BY <1>1 DEF OnlyPadding, Begins
<1>3. ASSUME NEW x \in e + 1 .. Len(h) PROVE h[x] = Zero
  <2>1. x \in 1 .. Len(h) /\ x \in e + 1 .. Len(g) /\ x <= Len(g)
    BY DEF Begins
  <2> QED
    BY <2>1 DEF OnlyPadding, Zeros, Begins
<1> QED
  BY <1>2, <1>3 DEF OnlyPadding, Zeros

-----------------------------------------------------------------------------
LEMMA Glued ==
    ASSUME NEW s \in Seq(Cells), NEW t \in Seq(Cells)
    PROVE  /\ s \o t \in Seq(Cells) /\ Len(s) \in Nat /\ Len(t) \in Nat
           /\ Len(s \o t) = Len(s) + Len(t) /\ Begins(s, s \o t)
           /\ \A i \in 1 .. Len(t) : (s \o t)[Len(s) + i] = t[i]
<1>1. PICK g : g = s \o t
  OBVIOUS
<1>2. PICK m, n : m = Len(s) /\ n = Len(t)
  OBVIOUS
<1>3. m \in Nat /\ n \in Nat
  BY <1>2, LenProperties
<1>4. /\ g \in Seq(Cells) /\ Len(g) = m + n
      /\ \A i \in 1 .. m + n : g[i] = IF i <= m THEN s[i] ELSE t[i - m]
  BY <1>1, <1>2, ConcatProperties
<1>5. Begins(s, g)
  BY <1>2, <1>3, <1>4 DEF Begins
<1>6. ASSUME NEW i \in 1 .. n PROVE g[m + i] = t[i]
  <2>1. m + i \in 1 .. m + n /\ ~(m + i <= m) /\ (m + i) - m = i
    BY <1>3
  <2> QED
    BY <1>4, <2>1
<1> QED
  BY <1>1, <1>2, <1>3, <1>4, <1>5, <1>6, Zenon

LEMMA CutFile ==
    ASSUME NEW g \in Seq(Cells), NEW n \in 0 .. Len(g)
    PROVE  SubSeq(g, 1, n) \in Seq(Cells) /\ Len(SubSeq(g, 1, n)) = n /\ Begins(SubSeq(g, 1, n), g)
<1>1. PICK h : h = SubSeq(g, 1, n)
  OBVIOUS
<1>2. Len(g) \in Nat /\ n \in Nat /\ n <= Len(g) /\ 1 \in Int /\ n \in Int
  BY LenProperties
<1>3. \A i \in 1 .. n : g[i] \in Cells
  BY <1>2, ElementOfSeq
<1>4. /\ h \in Seq(Cells) /\ Len(h) = (IF 1 <= n THEN n - 1 + 1 ELSE 0)
      /\ \A i \in 1 .. n - 1 + 1 : h[i] = g[1 + i - 1]
  BY <1>1, <1>2, <1>3, SubSeqProperties
<1>5. Len(h) = n /\ \A i \in 1 .. n : h[i] = g[i]
  BY <1>2, <1>4
<1>6. Begins(h, g)
  BY <1>2, <1>5 DEF Begins
<1> QED
  BY <1>1, <1>4, <1>5, <1>6, Zenon

\* off bytes of the block are used when the file is n bytes long.
BytesUsed(n, off) == off = n % kBlockSize \/ (off = kBlockSize /\ n % kBlockSize = 0)

\* EncodeRecord with off bytes of the block used: the padding, where in the
\* block the fragment begins, how much of todo payload bytes it takes.
PadOf(off)         == IF kBlockSize - off < kHeaderSize THEN kBlockSize - off ELSE 0
StartOf(off)       == IF kBlockSize - off < kHeaderSize THEN 0 ELSE off
TakenOf(off, todo) == IF todo < kBlockSize - StartOf(off) - kHeaderSize
                      THEN todo ELSE kBlockSize - StartOf(off) - kHeaderSize

LEMMA Room ==
    ASSUME NEW n \in Nat, NEW off, BytesUsed(n, off)
    PROVE  /\ PadOf(off) = Padded(n) - n
           /\ kBlockSize - StartOf(off) - kHeaderSize
                = EndOf(Padded(n)) - Padded(n) - kHeaderSize
<1>1. EndOf(n) \in Nat /\ n < EndOf(n) /\ EndOf(n) - n = kBlockSize - (n % kBlockSize)
  BY InBlock
<1>2. n % kBlockSize \in Nat
  BY Sizes, Division
<1>3. EndOf(EndOf(n)) = EndOf(n) + kBlockSize
  BY NextBlock
<1>4. CASE off = n % kBlockSize
  <2>1. kBlockSize - off = EndOf(n) - n
    BY <1>1, <1>4
  <2>2. CASE EndOf(n) - n < kHeaderSize
    <3>1. kBlockSize - off < kHeaderSize /\ Padded(n) = EndOf(n)
      BY <2>1, <2>2 DEF Padded
    <3> QED
      BY <1>1, <1>3, <2>1, <3>1, Sizes DEF PadOf, StartOf
  <2>3. CASE ~(EndOf(n) - n < kHeaderSize)
    <3>1. ~(kBlockSize - off < kHeaderSize) /\ Padded(n) = n
      BY <2>1, <2>3 DEF Padded
    <3> QED
      BY <1>1, <1>2, <1>4, <2>1, <3>1, Sizes DEF PadOf, StartOf
  <2> QED
    BY <2>2, <2>3
<1>5. CASE off = kBlockSize /\ n % kBlockSize = 0
  <2>1. EndOf(n) - n = kBlockSize
    BY <1>1, <1>5, Sizes
  <2>2. Padded(n) = n /\ kBlockSize - off = 0
    BY <1>5, <2>1, Sizes DEF Padded
  <2> QED
    BY <1>5, <2>1, <2>2, Sizes DEF PadOf, StartOf
<1> QED
  BY <1>4, <1>5 DEF BytesUsed

\* The first f - 1 fragments of record r are there, and g ends where the
\* next one begins or its padding.
SoFar(g, p, r, f, starts) ==
    /\ f \in Nat \ {0} /\ starts \in [1 .. f -> Nat]
    /\ starts[1] = Padded(p) /\ starts[f] = Padded(Len(g)) /\ Zeros(g, p, Padded(p))
    /\ \A h \in 1 .. f - 1 : Placed(g, r, h, f, starts[h], starts[h + 1]) /\ starts[h + 1] <= Len(g)

\* The file h is g, padding and the fragment f with len of left payload bytes.
NextFragment(h, g, r, f, left_, len) ==
    LET a == Padded(Len(g))
        t == IF f = 1 THEN (IF len = left_ THEN "full" ELSE "first")
                      ELSE (IF len = left_ THEN "last" ELSE "middle")
    IN  /\ Begins(g, h) /\ Len(h) = a + (kHeaderSize + len)
        /\ \A x \in Len(g) + 1 .. a : h[x] = Zero
        /\ \A i \in 1 .. kHeaderSize + len : h[a + i] = CellOf(r, f, t, len, i)

\* A fragment that is there stays where it is, whatever comes behind.
LEMMA PlacedLonger ==
    ASSUME NEW g, NEW h, Begins(g, h), NEW r, NEW f \in Nat, NEW m \in Nat, NEW k \in Nat, f < m, m <= k,
           NEW a \in Nat, NEW b \in Nat, Placed(g, r, f, m, a, b), b <= Len(g)
    PROVE  Placed(h, r, f, k, a, b)
<1>1. PICK len : len = b - a - kHeaderSize
  OBVIOUS
<1>2. PICK t : t = TypeOf(f, k)
  OBVIOUS
<1>3. a + kHeaderSize <= b /\ b <= EndOf(a) /\ b = EndOf(a)
  BY DEF Placed
<1>4. TypeOf(f, m) = t
  BY <1>2 DEF TypeOf
<1>5. Holds(g, a, r, f, t, len)
  BY <1>1, <1>4 DEF Placed
<1>6. len \in Nat /\ a + (kHeaderSize + len) = b
  BY <1>1, <1>3, Sizes
<1>7. Holds(h, a, r, f, t, len)
  <2> SUFFICES ASSUME NEW i \in 1 .. kHeaderSize + len PROVE h[a + i] = CellOf(r, f, t, len, i)
    BY DEF Holds
  <2>1. a + i \in 1 .. Len(g) /\ a + i <= Len(g)
    BY <1>6, Sizes DEF Begins
  <2>2. h[a + i] = g[a + i]
    BY <2>1 DEF Begins
  <2> QED
    BY <1>5, <2>1, <2>2 DEF Holds
<1> QED
  BY <1>1, <1>2, <1>3, <1>7 DEF Placed

\* One round of the loop of EncodeRecord.
LEMMA EncodeMore ==
    ASSUME NEW g, NEW p \in Nat, p <= Len(g), NEW r, NEW f, NEW starts, SoFar(g, p, r, f, starts),
           NEW h, NEW todo \in Nat, NEW len \in Nat, NextFragment(h, g, r, f, todo, len),
           Padded(Len(g)) + (kHeaderSize + len) <= EndOf(Padded(Len(g))),
           len # todo => Padded(Len(g)) + (kHeaderSize + len) = EndOf(Padded(Len(g)))
    PROVE  /\ len = todo => RecordAt(h, p, Len(h), r)
           /\ len # todo => /\ \E later : SoFar(h, p, r, f + 1, later)
                            /\ Len(h) % kBlockSize = 0
<1>1. PICK a : a = Padded(Len(g))
  OBVIOUS
<1>2. PICK b : b = a + (kHeaderSize + len)
  OBVIOUS
<1>3. PICK k : k = IF len = todo THEN f ELSE f + 1
  OBVIOUS
<1>4. PICK s2 : s2 = [i \in 1 .. f + 1 |-> IF i <= f THEN starts[i] ELSE b]
  OBVIOUS
<1>5. /\ f \in Nat /\ f >= 1 /\ (\A i \in 1 .. f : starts[i] \in Nat)
      /\ starts[1] = Padded(p) /\ starts[f] = a
  BY <1>1 DEF SoFar
<1>6. Len(g) \in Nat /\ Len(h) \in Nat /\ Begins(g, h) /\ Len(g) <= Len(h)
  BY DEF NextFragment, Begins
<1>7. a \in Nat /\ b \in Nat /\ Len(g) <= a /\ a + kHeaderSize <= b /\ Len(h) = b /\ b - a - kHeaderSize = len
  <2>1. a \in Nat /\ Len(g) <= a
    BY <1>1, <1>6, PaddedRoom
  <2>2. Len(h) = a + (kHeaderSize + len)
    BY <1>1 DEF NextFragment
  <2> QED
    BY <1>2, <2>1, <2>2, Sizes
<1>8. k \in Nat /\ k \in f .. f + 1 /\ k >= 1
  BY <1>3, <1>5
<1>9. (\A i \in 1 .. f : s2[i] = starts[i]) /\ s2[f + 1] = b
  BY <1>4, <1>5
<1>10. s2 \in [1 .. f + 1 -> Nat]
  BY <1>4, <1>5, <1>7
<1>11. Placed(h, r, f, k, a, b)
  <2>1. b <= EndOf(a)
    BY <1>1, <1>2
  <2>2. f < k => b = EndOf(a)
    <3>1. f < k => len # todo
      BY <1>3, <1>5
    <3> QED
      BY <1>1, <1>2, <3>1
  <2>3. PICK t : t = TypeOf(f, k)
    OBVIOUS
  <2>4. t = IF f = 1 THEN (IF len = todo THEN "full" ELSE "first")
                     ELSE (IF len = todo THEN "last" ELSE "middle")
    BY <1>3, <1>5, <2>3 DEF TypeOf
  <2>5. \A i \in 1 .. kHeaderSize + len : h[a + i] = CellOf(r, f, t, len, i)
    BY <1>1, <2>4, Zenon DEF NextFragment
  <2>6. Holds(h, a, r, f, t, len)
    BY <2>5 DEF Holds
  <2> QED
    BY <1>7, <2>1, <2>2, <2>3, <2>6 DEF Placed
<1>12. ASSUME NEW i \in 1 .. f - 1 PROVE Placed(h, r, i, k, s2[i], s2[i + 1]) /\ s2[i + 1] <= Len(g)
  <2>1. i \in 1 .. f /\ i + 1 \in 1 .. f /\ i \in Nat /\ i < f /\ f <= k
    BY <1>5, <1>8
  <2>2. s2[i] = starts[i] /\ s2[i + 1] = starts[i + 1] /\ starts[i] \in Nat /\ starts[i + 1] \in Nat
    BY <1>5, <1>9, <2>1
  <2>3. Placed(g, r, i, f, starts[i], starts[i + 1]) /\ starts[i + 1] <= Len(g)
    BY DEF SoFar
  <2>4. Placed(h, r, i, k, starts[i], starts[i + 1])
    BY <1>5, <1>6, <1>8, <2>1, <2>2, <2>3, PlacedLonger
  <2> QED
    BY <2>2, <2>3, <2>4
<1>13. Zeros(h, p, Padded(p))
  <2> SUFFICES ASSUME NEW x \in p + 1 .. Padded(p) PROVE h[x] = Zero
    BY DEF Zeros
  <2>1. Padded(p) \in Nat
    BY PaddedRoom
  <2>2. CASE x <= Len(g)
    <3>1. x \in 1 .. Len(g)
      BY <1>6, <2>1, <2>2
    <3>2. h[x] = g[x]
      BY <1>6, <3>1 DEF Begins
    <3>3. g[x] = Zero
      BY <2>2 DEF SoFar, Zeros
    <3> QED
      BY <3>2, <3>3
  <2>3. CASE ~(x <= Len(g))
    <3>1. f = 1
      <4> SUFFICES ASSUME f # 1 PROVE FALSE
        OBVIOUS
      <4>1. 1 \in 1 .. f - 1 /\ 1 \in 1 .. f /\ 1 + 1 \in 1 .. f
        BY <1>5
      <4>2. starts[1] + kHeaderSize <= starts[1 + 1] /\ starts[1 + 1] <= Len(g)
        BY <4>1 DEF SoFar, Placed
      <4>3. starts[1 + 1] \in Nat
        BY <1>5, <4>1
      <4> QED
        BY <1>5, <1>6, <2>1, <2>3, <4>2, <4>3, Sizes
    <3>2. x \in Len(g) + 1 .. a
      BY <1>5, <1>6, <2>1, <2>3, <3>1
    <3> QED
      BY <1>1, <3>2 DEF NextFragment
  <2> QED
    BY <2>2, <2>3
<1>14. ASSUME len = todo PROVE RecordAt(h, p, Len(h), r)
  <2>1. k = f
    BY <1>3, <1>14
  <2>2. ASSUME NEW i \in 1 .. k PROVE Placed(h, r, i, k, s2[i], s2[i + 1])
    <3>1. CASE i = k
      <4>1. s2[i] = a /\ s2[i + 1] = b
        BY <1>5, <1>9, <2>1, <3>1
      <4> QED
        BY <1>11, <2>1, <3>1, <4>1
    <3>2. CASE i # k
      <4>1. i \in 1 .. f - 1
        BY <1>5, <2>1, <3>2
      <4> QED
        BY <1>12, <4>1
    <3> QED
      BY <3>1, <3>2
  <2>3. s2[1] = Padded(p) /\ s2[k + 1] = Len(h) /\ k \in Nat \ {0} /\ s2 \in [1 .. k + 1 -> Nat]
    BY <1>5, <1>7, <1>9, <1>10, <2>1
  <2>4. RecordBy(h, p, Len(h), r, k, s2)
    BY <1>13, <2>2, <2>3 DEF RecordBy
  <2> QED
    BY <2>4 DEF RecordAt
<1>15. ASSUME len # todo
       PROVE  SoFar(h, p, r, f + 1, s2) /\ Len(h) % kBlockSize = 0
  <2>1. k = f + 1
    BY <1>3, <1>15
  <2>2. b = EndOf(a)
    BY <1>1, <1>2, <1>15
  <2>3. b % kBlockSize = 0 /\ EndOf(b) = b + kBlockSize
    BY <1>7, <2>2, NextBlock
  <2>4. Padded(b) = b
    BY <1>7, <2>3, Sizes DEF Padded
  <2>5. ASSUME NEW i \in 1 .. (f + 1) - 1
        PROVE  Placed(h, r, i, f + 1, s2[i], s2[i + 1]) /\ s2[i + 1] <= Len(h)
    <3>1. CASE i = f
      <4>1. s2[i] = a /\ s2[i + 1] = b
        BY <1>5, <1>9, <3>1
      <4> QED
        BY <1>7, <1>11, <2>1, <3>1, <4>1
    <3>2. CASE i # f
      <4>1. i \in 1 .. f - 1 /\ i + 1 \in 1 .. f
        BY <1>5, <3>2
      <4>2. Placed(h, r, i, k, s2[i], s2[i + 1]) /\ s2[i + 1] <= Len(g)
        BY <1>12, <4>1
      <4>3. s2[i + 1] \in Nat
        BY <1>5, <1>9, <4>1
      <4> QED
        BY <1>6, <2>1, <4>2, <4>3
    <3> QED
      BY <3>1, <3>2
  <2>6. s2[1] = Padded(p) /\ s2[f + 1] = Padded(Len(h)) /\ f + 1 \in Nat \ {0}
    BY <1>5, <1>7, <1>9, <2>4
  <2>7. SoFar(h, p, r, f + 1, s2)
    BY <1>10, <1>13, <2>5, <2>6 DEF SoFar
  <2> QED
    BY <1>7, <2>3, <2>7
<1> QED
  BY <1>14, <1>15

LEMMA Padding ==
    ASSUME NEW n \in Nat, NEW pad, pad = [i \in 1 .. n |-> Zero]
    PROVE  pad \in Seq(Cells) /\ Len(pad) = n /\ \A i \in 1 .. n : pad[i] = Zero
<1>1. Zero \in Cells
  BY DEF Zero, Cells, Types
<1>2. pad \in [1 .. n -> Cells]
  BY <1>1
<1>3. \A i \in 1 .. n : pad[i] = Zero
  OBVIOUS
<1> QED
  BY <1>2, <1>3

\* The cells of a fragment.
IsFragment(F, r, f, t, len) ==
    /\ F \in Seq(Cells) /\ Len(F) = kHeaderSize + len
    /\ \A i \in 1 .. kHeaderSize + len : F[i] = CellOf(r, f, t, len, i)

LEMMA FragmentCells ==
    ASSUME NEW r \in Nat, NEW f \in Nat, NEW t \in Types, NEW len \in Nat
    PROVE  IsFragment(Fragment(r, f, t, len), r, f, t, len)
<1>1. PICK n : n = kHeaderSize + len
  OBVIOUS
<1>2. n \in Nat
  BY <1>1, Sizes
<1>3. PICK F : F = Fragment(r, f, t, len)
  OBVIOUS
<1>4. F = [i \in 1 .. n |-> CellOf(r, f, t, len, i)]
  BY <1>1, <1>3 DEF Fragment, CellOf
<1>5. \A i \in 1 .. n : CellOf(r, f, t, len, i) \in Cells
  BY <1>2 DEF CellOf, Cells
<1>6. F \in [1 .. n -> Cells]
  BY <1>4, <1>5
<1>7. F \in Seq(Cells) /\ Len(F) = n
  BY <1>2, <1>6
<1>8. \A i \in 1 .. n : F[i] = CellOf(r, f, t, len, i)
  BY <1>4
<1> QED
  BY <1>1, <1>3, <1>7, <1>8 DEF IsFragment

LEMMA Regroup ==
    ASSUME NEW s \in Seq(Cells), NEW t \in Seq(Cells), NEW u \in Seq(Cells)
    PROVE  (s \o t) \o u = s \o (t \o u)
  BY ConcatAssociative

\* A fragment takes what is left or what there is room for.
LEMMA TakesRoom ==
    ASSUME NEW n \in Nat, NEW off, BytesUsed(n, off), NEW todo \in Nat
    PROVE  /\ PadOf(off) = Padded(n) - n /\ Padded(n) - n \in Nat
           /\ TakenOf(off, todo) \in Nat /\ TakenOf(off, todo) <= todo
           /\ Padded(n) + (kHeaderSize + TakenOf(off, todo)) <= EndOf(Padded(n))
           /\ TakenOf(off, todo) # todo =>
                /\ Padded(n) + (kHeaderSize + TakenOf(off, todo)) = EndOf(Padded(n))
                /\ StartOf(off) + kHeaderSize + TakenOf(off, todo) = kBlockSize
<1>1. PICK a, z : a = Padded(n) /\ z = EndOf(Padded(n))
  OBVIOUS
<1>2. a \in Nat /\ n <= a /\ z \in Nat /\ a + kHeaderSize <= z
  BY <1>1, PaddedRoom
<1>3. PICK start, len, room : /\ start = StartOf(off) /\ len = TakenOf(off, todo)
                              /\ room = kBlockSize - start - kHeaderSize
  OBVIOUS
<1>4. PadOf(off) = a - n /\ room = z - a - kHeaderSize
  BY <1>1, <1>3, Room
<1>5. off \in Nat
  BY Sizes, Division DEF BytesUsed
<1>6. start \in Nat /\ room \in Nat /\ len = IF todo < room THEN todo ELSE room
  <2>1. start \in Nat
    BY <1>3, <1>5 DEF StartOf
  <2>2. room \in Nat
    BY <1>2, <1>4, Sizes
  <2>3. len = IF todo < room THEN todo ELSE room
    BY <1>3 DEF TakenOf
  <2> QED
    BY <2>1, <2>2, <2>3
<1>7. len \in Nat /\ len <= todo /\ len <= room /\ (len # todo => len = room)
  BY <1>6
<1>8. /\ a + (kHeaderSize + len) <= z
      /\ len = room => a + (kHeaderSize + len) = z /\ start + kHeaderSize + len = kBlockSize
  BY <1>2, <1>3, <1>4, <1>6, <1>7, Sizes
<1>9. a - n \in Nat
  BY <1>2
<1> QED
  BY <1>1, <1>3, <1>4, <1>7, <1>8, <1>9, Zenon

LEMMA BeginsTransitive ==
    ASSUME NEW a, NEW b, NEW c, Begins(a, b), Begins(b, c) PROVE Begins(a, c)
BY DEF Begins

\* A round of the loop of EncodeRecord, from the encoding t to t2, and what it
\* makes of the file and the encoding, g before and h after.
IsRound(t, r, f, off, todo, len, t2) ==
    LET type == IF f = 1 THEN (IF len = todo THEN "full" ELSE "first")
                         ELSE (IF len = todo THEN "last" ELSE "middle")
    IN  /\ len = TakenOf(off, todo)
        /\ t2 = (t \o [i \in 1 .. PadOf(off) |-> Zero]) \o Fragment(r, f, type, len)

IsRounded(h, g, r, f, off, todo, len, t2) ==
    /\ t2 \in Seq(Cells) /\ len \in Nat /\ len <= todo
    /\ NextFragment(h, g, r, f, todo, len)
    /\ Padded(Len(g)) + (kHeaderSize + len) <= EndOf(Padded(Len(g)))
    /\ len # todo => /\ Padded(Len(g)) + (kHeaderSize + len) = EndOf(Padded(Len(g)))
                     /\ StartOf(off) + kHeaderSize + len = kBlockSize

\* The arithmetic of EncodeRecord is that of the file: with the file and the
\* encoding so far g bytes long, the next fragment comes where it belongs.
LEMMA EncodeRound ==
    ASSUME NEW s \in Seq(Cells), NEW t \in Seq(Cells), NEW r \in Nat, NEW f \in Nat, NEW todo \in Nat,
           NEW off, BytesUsed(Len(s \o t), off), NEW len, NEW t2, IsRound(t, r, f, off, todo, len, t2)
    PROVE  IsRounded(s \o t2, s \o t, r, f, off, todo, len, t2)
<1>1. PICK pad : pad = [i \in 1 .. PadOf(off) |-> Zero]
  OBVIOUS
<1>2. PICK type : type = IF f = 1 THEN (IF len = todo THEN "full" ELSE "first")
                                  ELSE (IF len = todo THEN "last" ELSE "middle")
  OBVIOUS
<1>3. len = TakenOf(off, todo) /\ t2 = (t \o pad) \o Fragment(r, f, type, len)
  BY <1>1, <1>2, Zenon DEF IsRound
<1>4. PICK g : g = s \o t
  OBVIOUS
<1>5. BytesUsed(Len(g), off)
  BY <1>4
<1>6. PICK L : L = Len(g)
  OBVIOUS
<1>7. g \in Seq(Cells) /\ L \in Nat
  <2>1. g \in Seq(Cells)
    BY <1>4, Glued
  <2> QED
    BY <1>6, <2>1, LenProperties
<1>8. PICK a, z : a = Padded(L) /\ z = EndOf(Padded(L))
  OBVIOUS
<1>9. a \in Nat /\ L <= a /\ z \in Nat /\ a + kHeaderSize <= z
  BY <1>7, <1>8, PaddedRoom
<1>10. PadOf(off) = a - L /\ a - L \in Nat
  BY <1>6, <1>7, <1>8, <1>5, TakesRoom
<1>12. /\ len \in Nat /\ len <= todo /\ a + (kHeaderSize + len) <= z
       /\ len # todo => /\ a + (kHeaderSize + len) = z
                        /\ StartOf(off) + kHeaderSize + len = kBlockSize
  <2>1. L \in Nat /\ BytesUsed(L, off)
    BY <1>5, <1>6, <1>7
  <2>2. /\ TakenOf(off, todo) \in Nat /\ TakenOf(off, todo) <= todo
        /\ Padded(L) + (kHeaderSize + TakenOf(off, todo)) <= EndOf(Padded(L))
        /\ TakenOf(off, todo) # todo =>
             /\ Padded(L) + (kHeaderSize + TakenOf(off, todo)) = EndOf(Padded(L))
             /\ StartOf(off) + kHeaderSize + TakenOf(off, todo) = kBlockSize
    BY <2>1, TakesRoom
  <2> QED
    BY ONLY <1>3, <1>8, <2>2
<1>13. pad \in Seq(Cells) /\ Len(pad) = a - L /\ \A i \in 1 .. a - L : pad[i] = Zero
  <2>1. a - L \in Nat
    BY <1>7, <1>9
  <2>2. pad = [i \in 1 .. a - L |-> Zero]
    BY <1>10, <1>1
  <2> QED
    BY <2>1, <2>2, Padding
<1>14. PICK F : F = Fragment(r, f, type, len)
  OBVIOUS
<1>15. /\ F \in Seq(Cells) /\ Len(F) = kHeaderSize + len
       /\ \A i \in 1 .. kHeaderSize + len : F[i] = CellOf(r, f, type, len, i)
  <2>1. type \in Types
    BY <1>2 DEF Types
  <2>4. len \in Nat
    BY <1>12
  <2>2. IsFragment(Fragment(r, f, type, len), r, f, type, len)
    BY <2>1, <2>4, FragmentCells
  <2>3. IsFragment(F, r, f, type, len)
    BY <1>14, <2>2, Zenon
  <2> QED
    BY <2>2, <2>3, Zenon DEF IsFragment
<1>16. PICK u : u = t \o pad
  OBVIOUS
<1>17. PICK v : v = g \o pad
  OBVIOUS
<1>18. u \in Seq(Cells) /\ t2 \in Seq(Cells) /\ t2 = u \o F
  <2>1. u \in Seq(Cells)
    BY <1>13, <1>16, Glued
  <2>2. t2 = u \o F
    BY <1>14, <1>16, <1>3
  <2> QED
    BY <1>15, <2>1, <2>2, Glued
<1>19. s \o u = v
  <2>1. (s \o t) \o pad = s \o (t \o pad)
    BY <1>13, Regroup
  <2> QED
    BY <1>16, <1>17, <1>4, <2>1, Zenon
<1>20. s \o t2 = v \o F
  <2>1. (s \o u) \o F = s \o (u \o F)
    BY <1>15, <1>18, Regroup
  <2> QED
    BY <1>18, <1>19, <2>1, Zenon
<1>21. PICK h : h = s \o t2
  OBVIOUS
<1>22. /\ v \in Seq(Cells) /\ Len(v) = L + (a - L) /\ Begins(g, v)
       /\ \A i \in 1 .. a - L : v[L + i] = pad[i]
  <2>1. /\ g \o pad \in Seq(Cells) /\ Len(g \o pad) = Len(g) + Len(pad) /\ Begins(g, g \o pad)
        /\ \A i \in 1 .. Len(pad) : (g \o pad)[Len(g) + i] = pad[i]
    BY <1>7, <1>13, Glued
  <2> QED
    BY <1>6, <1>13, <1>17, <2>1, Zenon
<1>23. Len(v) = a
  BY <1>7, <1>9, <1>22
<1>24. /\ Len(h) = a + (kHeaderSize + len) /\ Begins(v, h)
       /\ \A i \in 1 .. kHeaderSize + len : h[a + i] = F[i]
  <2>1. /\ Len(v \o F) = Len(v) + Len(F) /\ Begins(v, v \o F)
        /\ \A i \in 1 .. Len(F) : (v \o F)[Len(v) + i] = F[i]
    BY <1>15, <1>22, Glued
  <2>2. h = v \o F
    BY <1>20, <1>21, Zenon
  <2>3. Len(F) = kHeaderSize + len
    BY <1>15
  <2> QED
    BY <1>23, <2>1, <2>2, <2>3, Zenon
<1>25. Begins(g, h)
  BY <1>22, <1>24, BeginsTransitive
<1>26. \A x \in L + 1 .. a : h[x] = Zero
  <2> SUFFICES ASSUME NEW x \in L + 1 .. a PROVE h[x] = Zero
    OBVIOUS
  <2>1. x \in 1 .. Len(v) /\ x - L \in 1 .. a - L /\ L + (x - L) = x
    BY <1>7, <1>9, <1>23
  <2>2. h[x] = v[x]
    BY <1>24, <2>1 DEF Begins
  <2>3. v[x] = pad[x - L]
    BY <1>22, <2>1
  <2> QED
    BY <1>13, <2>1, <2>2, <2>3
<1>27. \A i \in 1 .. kHeaderSize + len : h[a + i] = CellOf(r, f, type, len, i)
  BY <1>15, <1>24
<1>28. NextFragment(h, g, r, f, todo, len)
  BY <1>6, <1>8, <1>24, <1>25, <1>26, <1>27, <1>2 DEF NextFragment
<1>29. IsRounded(h, g, r, f, off, todo, len, t2)
  <2>1. Padded(Len(g)) = a /\ EndOf(Padded(Len(g))) = z
    BY <1>6, <1>8
  <2> QED
    BY <1>12, <1>18, <1>28, <2>1, Zenon DEF IsRounded
<1> QED
  BY <1>21, <1>29, <1>4, Zenon

-----------------------------------------------------------------------------
\* A file that ends in no part of the first header of a record.
CleanEnd(g) == \/ Len(g) = 0
               \/ g[Len(g)] = Zero
               \/ g[Len(g)].at >= kHeaderSize
               \/ g[Len(g)].frag > 1

\* The reader is in the record after the first i of a, with m fragments read.
InRecord(g, a, ends, i, m, ps) ==
    /\ i < Len(a)
    /\ \E k, starts : /\ RecordBy(g, ends[i], ends[i + 1], a[i + 1], k, starts)
                      /\ m < k /\ ps = starts[m + 1]

\* The records on file, and that an fsync has covered the first d of them.
Whole(g, a, d, s, ends) ==
    /\ Layout(g, a, ends) /\ OnlyPadding(g, ends[Len(a)]) /\ ends[d] <= s /\ s <= Len(g)

\* The reader has returned the first i records and comes to ps.
ReaderAt(g, a, ends, ps, m, lge, rep, i) ==
    /\ i <= Len(a) /\ (\A j \in 1 .. i : rep[j] = a[j])
    /\ lge = ends[i] /\ ends[i] <= ps /\ ps <= Len(g) /\ CleanEnd(g)
    /\ \/ m = 0 /\ (ps = ends[i] \/ ps = Padded(ends[i]))
       \/ m > 0 /\ InRecord(g, a, ends, i, m, ps)

\* The recovery has ended after the first i records.
Recovered(g, a, d, s, ends, rep, i, cut) ==
    /\ i <= Len(a) /\ (\A j \in 1 .. i : rep[j] = a[j])
    /\ d <= i /\ ends[i] <= Len(g) /\ OnlyPadding(g, ends[i]) /\ (cut => ends[i] <= s)

\* The reader waits for the next recovery.
AtWork(g, e, fo, ps, m, lge, rep, cut) ==
    e <= Len(g) /\ fo = Len(g) /\ ps = 0 /\ m = 0 /\ lge = 0 /\ rep = <<>> /\ ~cut

WalTyped ==
    /\ file \in Seq(Cells) /\ buf \in Seq(Cells)
    /\ acked \in Seq(Nat) /\ replayed \in Seq(Nat) /\ fragments \in Seq(Nat \X Nat)
    /\ calls \in Nat /\ synced \in Nat /\ left \in Nat /\ frag \in Nat
    /\ pos \in Nat /\ last_good_end \in Nat /\ durable \in 0 .. Len(acked)
    /\ pc \in {"writing", "encoding", "encoded", "reading", "replayed"}

WalBody(ends) ==
    /\ Whole(file, acked, durable, synced, ends)
    /\ pc \in {"writing", "encoding", "encoded"} =>
         AtWork(file, ends[Len(acked)], file_offset, pos, Len(fragments), last_good_end, replayed, truncated)
    /\ pc = "encoding" =>
         /\ \E starts : SoFar(file \o buf, ends[Len(acked)], calls, frag, starts)
         /\ BytesUsed(Len(file \o buf), block_off)
    /\ pc = "encoded" => RecordAt(file \o buf, ends[Len(acked)], Len(file \o buf), calls)
    /\ pc = "reading" =>
         /\ ReaderAt(file, acked, ends, pos, Len(fragments), last_good_end, replayed, Len(replayed))
         /\ ~truncated
    /\ pc = "replayed" =>
         Recovered(file, acked, durable, synced, ends, replayed, Len(replayed), truncated)

WalInv == WalTyped /\ \E ends : WalBody(ends)

\* A file of whole records and padding has a clean end.
LEMMA WholeIsClean ==
    ASSUME NEW g \in Seq(Cells), NEW a \in Seq(Nat), NEW ends, Layout(g, a, ends),
           ends[Len(a)] <= Len(g), OnlyPadding(g, ends[Len(a)])
    PROVE  CleanEnd(g)
<1>1. PICK n, L : n = Len(a) /\ L = Len(g)
  OBVIOUS
<1>2. n \in Nat /\ L \in Nat
  BY <1>1, LenProperties
<1>3. PICK e : e = ends[n]
  OBVIOUS
<1>4. e \in Nat /\ e <= L
  <2>1. n \in 0 .. n
    BY <1>2
  <2>2. ends[n] \in Nat
    BY <1>1, <2>1, EndsRise
  <2> QED
    BY <1>1, <1>3, <2>2
<1>5. CASE e < L
  <2>1. L \in e + 1 .. L /\ L <= L
    BY <1>2, <1>4, <1>5
  <2>2. g[L] = Zero
    BY <1>1, <1>3, <2>1 DEF OnlyPadding, Zeros
  <2> QED
    BY <1>1, <2>2 DEF CleanEnd
<1>6. CASE e = L /\ n = 0
  <2>1. e = 0
    BY <1>3, <1>6 DEF Layout
  <2> QED
    BY <1>1, <1>6, <2>1 DEF CleanEnd
<1>7. CASE e = L /\ n # 0
  <2>1. n \in 1 .. n /\ n - 1 \in 0 .. n
    BY <1>2, <1>7
  <2>2. PICK k, starts : RecordBy(g, ends[n - 1], ends[n], a[n], k, starts)
    BY <1>1, <2>1 DEF Layout, RecordAt
  <2>3. ends[n - 1] \in Nat
    BY <1>1, <2>1, EndsRise
  <2>4. k \in Nat /\ k >= 1 /\ k \in 1 .. k
    <3>1. k \in Nat /\ k >= 1
      BY <2>2 DEF RecordBy
    <3> QED
      BY <3>1
  <2>5. starts[k] \in Nat /\ starts[k + 1] \in Nat /\ starts[k] + kHeaderSize <= starts[k + 1]
    BY <2>2, <2>3, <2>4, StartsRise
  <2>6. PICK p : p = starts[k]
    OBVIOUS
  <2>7. starts[k + 1] = L
    BY <1>3, <1>7, <2>2 DEF RecordBy
  <2>8. PICK len, t : len = L - p - kHeaderSize /\ t = TypeOf(k, k)
    OBVIOUS
  <2>9. Holds(g, p, a[n], k, t, len)
    BY <2>2, <2>4, <2>6, <2>7, <2>8 DEF RecordBy, Placed
  <2>10. len \in Nat /\ kHeaderSize + len \in 1 .. kHeaderSize + len /\ p + (kHeaderSize + len) = L
         /\ kHeaderSize + len >= kHeaderSize /\ kHeaderSize + len \in Nat /\ L <= L
    BY <1>2, <2>5, <2>6, <2>7, <2>8, Sizes
  <2>11. g[L] = CellOf(a[n], k, t, len, kHeaderSize + len)
    BY <1>1, <2>9, <2>10 DEF Holds
  <2>12. g[L].at = kHeaderSize + len
    BY <2>11 DEF CellOf
  <2> QED
    BY <1>1, <2>10, <2>12 DEF CleanEnd
<1> QED
  BY <1>2, <1>4, <1>5, <1>6, <1>7

\* What the reader finds at ps, m fragments into the record after the i-th.
Found(g, a, ends, i, m, ps, t, len) ==
    /\ len \in Nat /\ i < Len(a) /\ Holds(g, ps, a[i + 1], m + 1, t, len)
    /\ t \in (IF m = 0 THEN {"full", "first"} ELSE {"middle", "last"})
    /\ ps + (kHeaderSize + len) <= EndOf(ps) /\ ps + (kHeaderSize + len) <= ends[i + 1]
    /\ IF t \in {"full", "last"} THEN ps + (kHeaderSize + len) = ends[i + 1]
                                 ELSE InRecord(g, a, ends, i, m + 1, ps + (kHeaderSize + len))

LEMMA FragmentFound ==
    ASSUME NEW g \in Seq(Cells), NEW a \in Seq(Nat), NEW ends, Layout(g, a, ends),
           NEW i \in Nat, NEW m \in Nat, NEW ps \in Nat, InRecord(g, a, ends, i, m, ps)
    PROVE  \E t, len : Found(g, a, ends, i, m, ps, t, len)
<1>1. i < Len(a) /\ Len(a) \in Nat /\ i \in 0 .. Len(a)
  BY LenProperties DEF InRecord
<1>2. PICK k, starts : /\ RecordBy(g, ends[i], ends[i + 1], a[i + 1], k, starts)
                       /\ m < k /\ ps = starts[m + 1]
  BY DEF InRecord
<1>3. ends[i] \in Nat
  BY <1>1, EndsRise
<1>4. k \in Nat /\ k >= 1
  BY <1>2, <1>3, StartsRise
<1>5. PICK f : f = m + 1
  OBVIOUS
<1>6. f \in 1 .. k /\ f \in Nat
  BY <1>2, <1>4, <1>5
<1>7. PICK b : b = starts[f + 1]
  OBVIOUS
<1>8. /\ ps = starts[f] /\ b \in Nat /\ ps + kHeaderSize <= b /\ b <= ends[i + 1]
  BY <1>2, <1>3, <1>5, <1>6, <1>7, StartsRise
<1>9. Placed(g, a[i + 1], f, k, ps, b)
  BY <1>2, <1>6, <1>7, <1>8 DEF RecordBy
<1>10. PICK t, len : t = TypeOf(f, k) /\ len = b - ps - kHeaderSize
  OBVIOUS
<1>11. len \in Nat /\ ps + (kHeaderSize + len) = b
  <2>1. b \in Nat /\ ps + kHeaderSize <= b /\ len = b - ps - kHeaderSize
    BY <1>8, <1>10
  <2> QED
    BY <2>1, Sizes
<1>12. Holds(g, ps, a[i + 1], m + 1, t, len) /\ b <= EndOf(ps)
  BY <1>5, <1>9, <1>10 DEF Placed
<1>13. t \in (IF m = 0 THEN {"full", "first"} ELSE {"middle", "last"})
  <2>1. m = 0 <=> f = 1
    BY <1>5
  <2> QED
    BY <1>10, <2>1 DEF TypeOf
<1>14. t \in {"full", "last"} => b = ends[i + 1]
  <2>1. t \in {"full", "last"} => f = k
    BY <1>10 DEF TypeOf
  <2>2. starts[k + 1] = ends[i + 1]
    BY <1>2 DEF RecordBy
  <2> QED
    BY <1>7, <2>1, <2>2
<1>15. ~(t \in {"full", "last"}) => InRecord(g, a, ends, i, m + 1, b)
  <2>1. ~(t \in {"full", "last"}) => f # k
    BY <1>10 DEF TypeOf
  <2>2. ~(t \in {"full", "last"}) => m + 1 < k
    BY <1>4, <1>5, <1>6, <2>1
  <2>3. b = starts[(m + 1) + 1]
    BY <1>5, <1>7
  <2> QED
    BY <1>1, <1>2, <2>2, <2>3 DEF InRecord
<1>16. Found(g, a, ends, i, m, ps, t, len)
  <2>1. b <= EndOf(ps) /\ b <= ends[i + 1] /\ i < Len(a)
    BY <1>1, <1>8, <1>12
  <2>2. IF t \in {"full", "last"} THEN b = ends[i + 1] ELSE InRecord(g, a, ends, i, m + 1, b)
    BY <1>14, <1>15
  <2> QED
    BY <1>11, <1>12, <1>13, <2>1, <2>2 DEF Found
<1> QED
  BY <1>16

\* Where there is room for a header, the reader has come to a fragment.
LEMMA RoomHasFragment ==
    ASSUME NEW g \in Seq(Cells), NEW a \in Seq(Nat), NEW ends, Layout(g, a, ends),
           OnlyPadding(g, ends[Len(a)]), NEW i \in Nat, NEW m \in Nat, NEW ps \in Nat, NEW lge, NEW rep,
           ReaderAt(g, a, ends, ps, m, lge, rep, i),
           ps + kHeaderSize <= Len(g), ps + kHeaderSize <= EndOf(ps)
    PROVE  InRecord(g, a, ends, i, m, ps)
<1>1. i <= Len(a) /\ Len(a) \in Nat /\ i \in 0 .. Len(a)
  BY LenProperties DEF ReaderAt
<1>2. CASE m = 0
  <2>1. ps = ends[i] \/ ps = Padded(ends[i])
    BY <1>2 DEF ReaderAt
  <2>2. ends[i] \in Nat
    BY <1>1, EndsRise
  <2>3. ps = Padded(ends[i])
    <3>1. ASSUME ps = ends[i] PROVE Padded(ps) = ps
      <4>1. EndOf(ps) \in Nat
        BY InBlock
      <4>2. ~(EndOf(ps) - ps < kHeaderSize)
        BY <4>1, Sizes
      <4> QED
        BY <4>2 DEF Padded
    <3> QED
      BY <2>1, <3>1
  <2>4. i # Len(a)
    <3> SUFFICES ASSUME i = Len(a) PROVE FALSE
      OBVIOUS
    <3>1. Len(g) <= ps /\ Len(g) \in Nat
      BY <2>3, LenProperties DEF OnlyPadding
    <3> QED
      BY <3>1, Sizes
  <2>5. i + 1 \in 1 .. Len(a) /\ (i + 1) - 1 = i
    BY <1>1, <2>4
  <2>6. PICK k, starts : RecordBy(g, ends[i], ends[i + 1], a[i + 1], k, starts)
    <3>1. RecordAt(g, ends[(i + 1) - 1], ends[i + 1], a[i + 1])
      BY <2>5 DEF Layout
    <3> QED
      BY <2>5, <3>1 DEF RecordAt
  <2>7. m < k /\ ps = starts[m + 1]
    <3>1. k \in Nat /\ k >= 1 /\ starts[1] = Padded(ends[i])
      BY <2>6 DEF RecordBy
    <3>2. m + 1 = 1
      BY <1>2
    <3> QED
      BY <1>2, <2>3, <3>1, <3>2
  <2> QED
    BY <1>1, <2>4, <2>6, <2>7 DEF InRecord
<1>3. CASE m # 0
  BY <1>3 DEF ReaderAt
<1> QED
  BY <1>2, <1>3

\* A record that the file does not hold whole is not one an fsync covered.
LEMMA NotCovered ==
    ASSUME NEW g \in Seq(Cells), NEW a \in Seq(Nat), NEW d \in 0 .. Len(a), NEW s \in Nat, NEW ends,
           Whole(g, a, d, s, ends), NEW i \in Nat, i < Len(a), Len(g) < ends[i + 1]
    PROVE  d <= i
<1> SUFFICES ASSUME ~(d <= i) PROVE FALSE
  OBVIOUS
<1>1. Len(a) \in Nat /\ Len(g) \in Nat
  BY LenProperties
<1>2. i + 1 \in 0 .. Len(a) /\ i + 1 <= d /\ d \in 0 .. Len(a)
  BY <1>1
<1>3. ends[i + 1] \in Nat /\ ends[d] \in Nat /\ ends[i + 1] <= ends[d]
  BY <1>2, EndsRise DEF Whole
<1>4. ends[d] <= s /\ s <= Len(g)
  BY DEF Whole
<1> QED
  BY <1>1, <1>3, <1>4

-----------------------------------------------------------------------------
LEMMA WalBegins ==
    ASSUME Init PROVE WalInv
<1>1. PICK ends : ends = [i \in 0 .. 0 |-> 0]
  OBVIOUS
<1>2. WalTyped
  <2>1. file \in Seq(Cells) /\ buf \in Seq(Cells) /\ acked \in Seq(Nat) /\ replayed \in Seq(Nat)
        /\ fragments \in Seq(Nat \X Nat) /\ Len(acked) = 0
    BY EmptySeq DEF Init
  <2>2. durable \in 0 .. Len(acked)
    BY <2>1 DEF Init
  <2> QED
    BY <2>1, <2>2 DEF Init, WalTyped
<1>3. Len(file) = 0 /\ Len(acked) = 0 /\ Len(fragments) = 0
  BY EmptySeq DEF Init
<1>4. ends[0] = 0 /\ ends \in [0 .. 0 -> Nat]
  BY <1>1
<1>5. Layout(file, acked, ends)
  <2>1. 1 .. Len(acked) = {}
    BY <1>3
  <2> QED
    BY <1>3, <1>4, <2>1 DEF Layout
<1>6. OnlyPadding(file, 0)
  <2>1. Padded(0) \in Nat
    BY PaddedRoom
  <2>2. 0 + 1 .. 0 = {}
    OBVIOUS
  <2> QED
    BY <1>3, <2>1, <2>2 DEF OnlyPadding, Zeros
<1>7. Whole(file, acked, durable, synced, ends)
  BY <1>3, <1>4, <1>5, <1>6 DEF Whole, Init
<1>8. AtWork(file, ends[Len(acked)], file_offset, pos, Len(fragments), last_good_end, replayed, truncated)
  BY <1>3, <1>4 DEF AtWork, Init
<1>9. WalBody(ends)
  BY <1>7, <1>8 DEF WalBody, Init
<1> QED
  BY <1>2, <1>9 DEF WalInv

LEMMA KeptByAddRecord ==
    ASSUME WalInv, NEW size \in PayloadSizes, AddRecord(size) PROVE WalInv'
<1> USE DEF AddRecord
<1>1. WalTyped
  BY DEF WalInv
<1>2. PICK ends : WalBody(ends)
  BY DEF WalInv
<1>3. /\ file' = file /\ acked' = acked /\ durable' = durable /\ synced' = synced /\ pc' = "encoding"
      /\ file_offset' = file_offset /\ pos' = pos /\ fragments' = fragments
      /\ last_good_end' = last_good_end /\ replayed' = replayed /\ truncated' = truncated
      /\ calls' = calls + 1 /\ frag' = 1 /\ buf' = <<>> /\ left' = size
  BY DEF writer, reader
<1>4. WalTyped'
  <2>1. size \in Nat
    BY FormatAssumption
  <2>2. buf' \in Seq(Cells)
    BY <1>3, EmptySeq
  <2> QED
    BY <1>1, <1>3, <2>1, <2>2 DEF WalTyped
<1>5. AtWork(file, ends[Len(acked)], file_offset, pos, Len(fragments), last_good_end, replayed, truncated)
      /\ Whole(file, acked, durable, synced, ends)
  BY <1>2 DEF WalBody
<1>6. PICK e : e = ends[Len(acked)]
  OBVIOUS
<1>7. e \in Nat /\ Len(file) \in Nat /\ e <= Len(file) /\ OnlyPadding(file, e) /\ file_offset = Len(file)
  <2>1. Len(acked) \in 0 .. Len(acked) /\ Len(file) \in Nat /\ acked \in Seq(Nat)
    BY <1>1, LenProperties DEF WalTyped
  <2>2. ends[Len(acked)] \in Nat
    BY <1>5, <2>1, EndsRise DEF Whole
  <2> QED
    BY <1>5, <1>6, <2>1, <2>2 DEF AtWork, Whole
<1>8. file \o <<>> = file
  BY <1>1, ConcatEmptySeq DEF WalTyped
<1>9. PICK starts : starts = [i \in 1 .. 1 |-> Padded(e)]
  OBVIOUS
<1>10. SoFar(file, e, calls + 1, 1, starts)
  <2>1. Padded(e) \in Nat
    BY <1>7, PaddedRoom
  <2>2. Padded(Len(file)) = Padded(e)
    <3>1. Len(file) <= Padded(e)
      BY <1>7 DEF OnlyPadding
    <3> QED
      BY <1>7, <3>1, PaddedBetween
  <2>3. starts \in [1 .. 1 -> Nat] /\ starts[1] = Padded(e)
    BY <1>9, <2>1
  <2>4. Zeros(file, e, Padded(e))
    <3> SUFFICES ASSUME NEW x \in e + 1 .. Padded(e), x <= Len(file) PROVE file[x] = Zero
      BY DEF Zeros
    <3>1. x \in e + 1 .. Len(file)
      BY <1>7, <2>1
    <3> QED
      BY <1>7, <3>1 DEF OnlyPadding, Zeros
  <2>5. 1 .. 1 - 1 = {}
    OBVIOUS
  <2> QED
    BY <2>2, <2>3, <2>4, <2>5 DEF SoFar
<1>11. BytesUsed(Len(file), file_offset % kBlockSize)
  BY <1>7 DEF BytesUsed
<1>12. WalBody(ends)'
  <2>1. file' \o buf' = file
    BY <1>3, <1>8
  <2>2. SoFar(file' \o buf', ends[Len(acked')], calls', frag', starts)
    BY <1>3, <1>6, <1>10, <2>1
  <2>3. BytesUsed(Len(file' \o buf'), block_off')
    BY <1>11, <2>1
  <2>4. Whole(file', acked', durable', synced', ends)
    BY <1>3, <1>5
  <2>5. AtWork(file', ends[Len(acked')], file_offset', pos', Len(fragments'), last_good_end', replayed', truncated')
    BY <1>3, <1>5
  <2>6. pc' = "encoding"
    BY <1>3
  <2> HIDE DEF AddRecord
  <2> QED
    BY <2>2, <2>3, <2>4, <2>5, <2>6 DEF WalBody
<1> QED
  BY <1>4, <1>12 DEF WalInv

LEMMA KeptByEncodeFragment ==
    ASSUME WalInv, EncodeFragment PROVE WalInv'
<1>1. WalTyped /\ pc = "encoding"
  BY DEF WalInv, EncodeFragment
<1>2. PICK ends : WalBody(ends)
  BY DEF WalInv
<1>3. PICK e, g : e = ends[Len(acked)] /\ g = file \o buf
  OBVIOUS
<1>4. /\ AtWork(file, e, file_offset, pos, Len(fragments), last_good_end, replayed, truncated)
      /\ Whole(file, acked, durable, synced, ends) /\ BytesUsed(Len(g), block_off)
      /\ \E starts : SoFar(g, e, calls, frag, starts)
  BY <1>1, <1>2, <1>3 DEF WalBody
<1>5. PICK pad, len : pad = [i \in 1 .. PadOf(block_off) |-> Zero] /\ len = TakenOf(block_off, left)
  OBVIOUS
<1>6. PICK type : type = IF frag = 1 THEN (IF len = left THEN "full" ELSE "first")
                                     ELSE (IF len = left THEN "last" ELSE "middle")
  OBVIOUS
<1>7. /\ buf' = (buf \o pad) \o Fragment(calls, frag, type, len)
      /\ left' = left - len /\ frag' = frag + 1
      /\ block_off' = StartOf(block_off) + kHeaderSize + len
      /\ pc' = IF left - len = 0 THEN "encoded" ELSE "encoding"
  BY <1>5, <1>6, Zenon DEF EncodeFragment, PadOf, StartOf, TakenOf
<1>8. /\ file' = file /\ acked' = acked /\ durable' = durable /\ synced' = synced
      /\ file_offset' = file_offset /\ pos' = pos /\ fragments' = fragments
      /\ last_good_end' = last_good_end /\ replayed' = replayed /\ truncated' = truncated
      /\ calls' = calls
  BY DEF EncodeFragment, writer, reader, history
<1>9. file \in Seq(Cells) /\ buf \in Seq(Cells) /\ calls \in Nat /\ frag \in Nat /\ left \in Nat
  BY <1>1 DEF WalTyped
<1>10. PICK t2 : t2 = (buf \o pad) \o Fragment(calls, frag, type, len)
  OBVIOUS
<1>11. /\ t2 \in Seq(Cells) /\ len \in Nat /\ len <= left
       /\ NextFragment(file \o t2, g, calls, frag, left, len)
       /\ Padded(Len(g)) + (kHeaderSize + len) <= EndOf(Padded(Len(g)))
       /\ len # left => /\ Padded(Len(g)) + (kHeaderSize + len) = EndOf(Padded(Len(g)))
                        /\ StartOf(block_off) + kHeaderSize + len = kBlockSize
  <2>1. IsRound(buf, calls, frag, block_off, left, len, t2)
    BY <1>5, <1>6, <1>10, Zenon DEF IsRound
  <2>2. BytesUsed(Len(file \o buf), block_off)
    BY <1>3, <1>4
  <2>3. IsRounded(file \o t2, file \o buf, calls, frag, block_off, left, len, t2)
    BY <1>9, <2>1, <2>2, EncodeRound
  <2>4. IsRounded(file \o t2, g, calls, frag, block_off, left, len, t2)
    BY <1>3, <2>3, Zenon
  <2> QED
    BY <2>4 DEF IsRounded
<1>12. PICK h : h = file \o t2
  OBVIOUS
<1>13. e \in Nat /\ e <= Len(g)
  <2>1. Len(acked) \in 0 .. Len(acked) /\ acked \in Seq(Nat)
    BY <1>1, LenProperties DEF WalTyped
  <2>2. e \in Nat
    BY <1>3, <1>4, <2>1, EndsRise DEF Whole
  <2>3. Begins(file, g)
    BY <1>3, <1>9, Glued
  <2> QED
    BY <1>4, <2>2, <2>3 DEF Begins, AtWork
<1>14. PICK starts : SoFar(g, e, calls, frag, starts)
  BY <1>4
<1>15. /\ len = left => RecordAt(h, e, Len(h), calls)
       /\ len # left => /\ \E later : SoFar(h, e, calls, frag + 1, later)
                        /\ Len(h) % kBlockSize = 0
  <2>1. NextFragment(h, g, calls, frag, left, len)
    BY <1>11, <1>12
  <2> QED
    BY <1>9, <1>11, <1>13, <1>14, <2>1, EncodeMore
<1>16. buf' = t2 /\ file' \o buf' = h
  BY <1>7, <1>8, <1>10, <1>12, Zenon
<1>17. left' \in Nat /\ frag' \in Nat /\ (left - len = 0 <=> len = left)
  BY <1>7, <1>9, <1>11
<1>18. WalTyped'
  <2>1. buf' \in Seq(Cells) /\ left' \in Nat /\ frag' \in Nat
    BY <1>11, <1>16, <1>17
  <2>2. pc' \in {"writing", "encoding", "encoded", "reading", "replayed"}
    BY <1>7
  <2> QED
    BY <1>1, <1>8, <2>1, <2>2 DEF WalTyped
<1>19. /\ Whole(file', acked', durable', synced', ends)
       /\ AtWork(file', ends[Len(acked')], file_offset', pos', Len(fragments'), last_good_end', replayed', truncated')
  BY <1>3, <1>4, <1>8
<1>20. CASE len = left
  <2>1. pc' = "encoded"
    BY <1>7, <1>17, <1>20
  <2>2. RecordAt(file' \o buf', ends[Len(acked')], Len(file' \o buf'), calls')
    BY <1>3, <1>8, <1>15, <1>16, <1>20
  <2>3. WalBody(ends)'
    BY <1>19, <2>1, <2>2 DEF WalBody
  <2> QED
    BY <1>18, <2>3 DEF WalInv
<1>21. CASE len # left
  <2>1. pc' = "encoding"
    BY <1>7, <1>17, <1>21
  <2>2. PICK later : SoFar(h, e, calls, frag + 1, later)
    BY <1>15, <1>21
  <2>3. SoFar(file' \o buf', ends[Len(acked')], calls', frag', later)
    BY <1>3, <1>7, <1>8, <1>16, <2>2
  <2>4. block_off' = kBlockSize
    BY <1>7, <1>11, <1>21
  <2>5. BytesUsed(Len(file' \o buf'), block_off')
    BY <1>15, <1>16, <1>21, <2>4 DEF BytesUsed
  <2>6. WalBody(ends)'
    BY <1>19, <2>1, <2>3, <2>5 DEF WalBody
  <2> QED
    BY <1>18, <2>6 DEF WalInv
<1> QED
  BY <1>20, <1>21

\* A record is added behind the others.
LEMMA LayoutAppend ==
    ASSUME NEW g \in Seq(Cells), NEW h \in Seq(Cells), Begins(g, h), NEW a \in Seq(Nat), NEW ends,
           Layout(g, a, ends), ends[Len(a)] <= Len(g), NEW r \in Nat,
           RecordAt(h, ends[Len(a)], Len(h), r)
    PROVE  \E e2 : /\ Layout(h, Append(a, r), e2) /\ e2[Len(a) + 1] = Len(h)
                   /\ \A i \in 0 .. Len(a) : e2[i] = ends[i]
<1>1. PICK n, b : n = Len(a) /\ b = Append(a, r)
  OBVIOUS
<1>2. n \in Nat /\ b \in Seq(Nat) /\ Len(b) = n + 1 /\ b[n + 1] = r /\ \A i \in 1 .. n : b[i] = a[i]
  BY <1>1, LenProperties, AppendProperties
<1>3. PICK e2 : e2 = [i \in 0 .. n + 1 |-> IF i = n + 1 THEN Len(h) ELSE ends[i]]
  OBVIOUS
<1>4. Layout(h, a, ends)
  BY LayoutLonger
<1>5. (\A i \in 0 .. n : ends[i] \in Nat) /\ Len(h) \in Nat
  BY <1>1, EndsRise, LenProperties
<1>6. e2[n + 1] = Len(h) /\ \A i \in 0 .. n : e2[i] = ends[i]
  BY <1>2, <1>3
<1>7. e2 \in [0 .. n + 1 -> Nat]
  BY <1>2, <1>3, <1>5
<1>8. e2[0] = 0
  <2>1. 0 \in 0 .. n /\ ends[0] = 0
    BY <1>2 DEF Layout
  <2> QED
    BY <1>6, <2>1
<1>9. ASSUME NEW i \in 1 .. n + 1 PROVE RecordAt(h, e2[i - 1], e2[i], b[i])
  <2>1. CASE i = n + 1
    <3>1. i - 1 = n /\ n \in 0 .. n
      BY <1>2, <2>1
    <3>2. e2[i - 1] = ends[n] /\ e2[i] = Len(h) /\ b[i] = r
      BY <1>2, <1>6, <2>1, <3>1
    <3> QED
      BY <1>1, <3>2
  <2>2. CASE i # n + 1
    <3>1. i \in 1 .. n /\ i \in 0 .. n /\ i - 1 \in 0 .. n
      BY <1>2, <2>2
    <3>2. e2[i - 1] = ends[i - 1] /\ e2[i] = ends[i] /\ b[i] = a[i]
      BY <1>2, <1>6, <3>1
    <3>3. RecordAt(h, ends[i - 1], ends[i], a[i])
      BY <1>1, <1>4, <3>1 DEF Layout
    <3> QED
      BY <3>2, <3>3
  <2> QED
    BY <2>1, <2>2
<1>10. Layout(h, b, e2)
  BY <1>2, <1>7, <1>8, <1>9 DEF Layout
<1> QED
  BY <1>1, <1>6, <1>10

\* A file ends in padding only, if any, behind its own end.
LEMMA NothingBehind ==
    ASSUME NEW g \in Seq(Cells) PROVE OnlyPadding(g, Len(g))
<1>1. Len(g) \in Nat
  BY LenProperties
<1>2. Padded(Len(g)) \in Nat /\ Len(g) <= Padded(Len(g))
  BY <1>1, PaddedRoom
<1>3. Len(g) + 1 .. Len(g) = {}
  BY <1>1
<1> QED
  BY <1>2, <1>3 DEF OnlyPadding, Zeros

LEMMA KeptByWriteAll ==
    ASSUME WalInv, Damage = {}, WriteAll PROVE WalInv'
<1>1. WalTyped /\ pc = "encoded"
  BY DEF WalInv, WriteAll
<1>2. PICK ends : WalBody(ends)
  BY DEF WalInv
<1>3. PICK n, e, h : n = Len(acked) /\ e = ends[Len(acked)] /\ h = file \o buf
  OBVIOUS
<1>4. /\ AtWork(file, e, file_offset, pos, Len(fragments), last_good_end, replayed, truncated)
      /\ Whole(file, acked, durable, synced, ends) /\ RecordAt(h, e, Len(h), calls)
  BY <1>1, <1>2, <1>3 DEF WalBody
<1>5. /\ file \in Seq(Cells) /\ buf \in Seq(Cells) /\ acked \in Seq(Nat) /\ calls \in Nat
      /\ durable \in 0 .. n /\ synced \in Nat
  BY <1>1, <1>3 DEF WalTyped
<1>6. n \in Nat /\ Len(file) \in Nat /\ Len(buf) \in Nat
  BY <1>3, <1>5, LenProperties
<1>7. /\ durable' = durable /\ synced' = synced /\ pos' = pos /\ fragments' = fragments
      /\ last_good_end' = last_good_end /\ replayed' = replayed /\ truncated' = truncated
      /\ calls' = calls /\ pc' = "writing" /\ buf' = <<>> /\ left' = 0 /\ frag' = 1
  BY DEF WriteAll, reader
<1>8. buf' \in Seq(Cells) /\ left' \in Nat /\ frag' \in Nat
  BY <1>7, EmptySeq
<1>9. CASE file' = file \o buf /\ file_offset' = file_offset + Len(buf) /\ acked' = Append(acked, calls)
  <2>1. h \in Seq(Cells) /\ Len(h) = Len(file) + Len(buf) /\ Begins(file, h)
    BY <1>3, <1>5, Glued
  <2>2. /\ acked' \in Seq(Nat) /\ Len(acked') = n + 1
    BY <1>3, <1>5, <1>9, AppendProperties
  <2>3. PICK e2 : /\ Layout(h, Append(acked, calls), e2) /\ e2[Len(acked) + 1] = Len(h)
                  /\ \A i \in 0 .. Len(acked) : e2[i] = ends[i]
    <3>1. Layout(file, acked, ends) /\ ends[Len(acked)] <= Len(file)
      BY <1>3, <1>4 DEF Whole, AtWork
    <3>2. RecordAt(h, ends[Len(acked)], Len(h), calls)
      BY <1>3, <1>4
    <3>3. file \in Seq(Cells) /\ h \in Seq(Cells) /\ Begins(file, h) /\ acked \in Seq(Nat) /\ calls \in Nat
      BY <1>5, <2>1
    <3>4. \E e2 : /\ Layout(h, Append(acked, calls), e2) /\ e2[Len(acked) + 1] = Len(h)
                  /\ \A i \in 0 .. Len(acked) : e2[i] = ends[i]
      BY <3>1, <3>2, <3>3, LayoutAppend
    <3> QED
      BY <3>4, Zenon
  <2>4. file' = h /\ Len(h) \in Nat /\ Len(file) <= Len(h)
    BY <1>3, <1>6, <1>9, <2>1
  <2>5. e2[Len(acked')] = Len(h) /\ e2[durable'] = ends[durable]
    BY <1>3, <1>5, <1>7, <2>2, <2>3
  <2>6. Whole(file', acked', durable', synced', e2)
    <3>1. Layout(file', acked', e2)
      BY <1>9, <2>3, <2>4
    <3>2. OnlyPadding(file', e2[Len(acked')])
      BY <2>1, <2>4, <2>5, NothingBehind
    <3>3. ends[durable] <= synced /\ synced <= Len(file)
      BY <1>4 DEF Whole
    <3>4. e2[durable'] <= synced' /\ synced' <= Len(file')
      BY <1>5, <1>6, <1>7, <2>4, <2>5, <3>3
    <3> QED
      BY <3>1, <3>2, <3>4 DEF Whole
  <2>7. AtWork(file', e2[Len(acked')], file_offset', pos', Len(fragments'), last_good_end', replayed', truncated')
    <3>1. e2[Len(acked')] <= Len(file') /\ file_offset' = Len(file')
      BY <1>4, <1>9, <2>1, <2>4, <2>5 DEF AtWork
    <3> QED
      BY <1>4, <1>7, <3>1 DEF AtWork
  <2>8. WalBody(e2)'
    BY <1>7, <2>6, <2>7 DEF WalBody
  <2>9. WalTyped'
    <3>1. durable' \in 0 .. Len(acked')
      BY <1>5, <1>6, <1>7, <2>2
    <3>2. file' \in Seq(Cells)
      BY <2>1, <2>4
    <3> QED
      BY <1>1, <1>7, <1>8, <2>2, <3>1, <3>2 DEF WalTyped
  <2> QED
    BY <2>8, <2>9 DEF WalInv
<1>10. CASE /\ \E k \in 0 .. (IF "partial" \in Damage THEN Len(buf) - 1 ELSE 0) :
                  file' = file \o SubSeq(buf, 1, k)
            /\ UNCHANGED <<file_offset, acked>>
  <2>1. file' = file
    <3>1. file' = file \o SubSeq(buf, 1, 0)
      <4>1. PICK k \in 0 .. (IF "partial" \in Damage THEN Len(buf) - 1 ELSE 0) :
                  file' = file \o SubSeq(buf, 1, k)
        BY <1>10
      <4>2. k = 0
        BY <4>1
      <4> QED
        BY <4>1, <4>2
    <3>2. SubSeq(buf, 1, 0) = <<>>
      BY SubSeqEmpty
    <3>3. file \o <<>> = file
      BY <1>5, ConcatEmptySeq
    <3> QED
      BY <3>1, <3>2, <3>3
  <2>2. acked' = acked /\ file_offset' = file_offset
    BY <1>10
  <2>3. WalBody(ends)'
    <3>1. Whole(file', acked', durable', synced', ends)
      BY <1>4, <1>7, <2>1, <2>2
    <3>2. AtWork(file', ends[Len(acked')], file_offset', pos', Len(fragments'), last_good_end', replayed', truncated')
      BY <1>3, <1>4, <1>7, <2>1, <2>2
    <3> QED
      BY <1>7, <3>1, <3>2 DEF WalBody
  <2>4. WalTyped'
    BY <1>1, <1>7, <1>8, <2>1, <2>2 DEF WalTyped
  <2> QED
    BY <2>3, <2>4 DEF WalInv
<1> QED
  BY <1>9, <1>10 DEF WriteAll

LEMMA KeptBySync ==
    ASSUME WalInv, Sync PROVE WalInv'
<1>1. WalTyped /\ pc = "writing"
  BY DEF WalInv, Sync
<1>2. PICK ends : WalBody(ends)
  BY DEF WalInv
<1>3. /\ AtWork(file, ends[Len(acked)], file_offset, pos, Len(fragments), last_good_end, replayed, truncated)
      /\ Whole(file, acked, durable, synced, ends)
  BY <1>1, <1>2 DEF WalBody
<1>4. /\ synced' = Len(file) /\ durable' = Len(acked) /\ file' = file /\ acked' = acked /\ pc' = pc
      /\ file_offset' = file_offset /\ pos' = pos /\ fragments' = fragments /\ buf' = buf
      /\ last_good_end' = last_good_end /\ replayed' = replayed /\ truncated' = truncated
      /\ calls' = calls /\ left' = left /\ frag' = frag
  BY DEF Sync, writer, encoder, reader
<1>5. Len(file) \in Nat /\ Len(acked) \in 0 .. Len(acked) /\ Len(file) <= Len(file)
  BY <1>1, LenProperties DEF WalTyped
<1>6. WalTyped'
  BY <1>1, <1>4, <1>5 DEF WalTyped
<1>7. Whole(file', acked', durable', synced', ends)
  BY <1>3, <1>4, <1>5 DEF Whole, AtWork
<1>8. AtWork(file', ends[Len(acked')], file_offset', pos', Len(fragments'), last_good_end', replayed', truncated')
  BY <1>3, <1>4
<1>9. WalBody(ends)'
  BY <1>1, <1>4, <1>7, <1>8 DEF WalBody
<1> QED
  BY <1>6, <1>9 DEF WalInv

LEMMA KeptByRestart ==
    ASSUME WalInv, Damage = {}, Restart PROVE WalInv'
<1>1. WalTyped /\ pc = "writing"
  BY DEF WalInv, Restart
<1>2. PICK ends : WalBody(ends)
  BY DEF WalInv
<1>3. /\ AtWork(file, ends[Len(acked)], file_offset, pos, Len(fragments), last_good_end, replayed, truncated)
      /\ Whole(file, acked, durable, synced, ends)
  BY <1>1, <1>2 DEF WalBody
<1>4. /\ synced' = synced /\ durable' = durable /\ acked' = acked /\ pc' = "reading"
      /\ file_offset' = file_offset /\ pos' = pos /\ fragments' = fragments /\ buf' = buf
      /\ last_good_end' = last_good_end /\ replayed' = replayed /\ truncated' = truncated
      /\ calls' = calls /\ left' = left /\ frag' = frag
  BY DEF Restart, writer, encoder, reader
<1>5. PICK c \in Cuts \cup {Len(file)} : file' = SubSeq(file, 1, c)
  BY DEF Restart
<1>6. /\ file \in Seq(Cells) /\ acked \in Seq(Nat) /\ Len(file) \in Nat /\ Len(acked) \in Nat
      /\ synced \in Nat /\ synced <= Len(file)
  BY <1>1, <1>3, LenProperties DEF WalTyped, Whole
<1>7. c \in 0 .. Len(file) /\ synced <= c /\ c \in Nat
  <2>1. CASE c \in Cuts
    <3>1. c \in synced .. Len(file)
      BY <2>1 DEF Cuts
    <3> QED
      BY <1>6, <3>1
  <2>2. CASE c = Len(file)
    BY <1>6, <2>2
  <2> QED
    BY <1>5, <2>1, <2>2
<1>8. PICK h : h = file'
  OBVIOUS
<1>9. h \in Seq(Cells) /\ Len(h) = c /\ Begins(h, file)
  BY <1>5, <1>6, <1>7, <1>8, CutFile
<1>10. PICK e : e = ends[Len(acked)]
  OBVIOUS
<1>11. e \in Nat /\ Layout(file, acked, ends) /\ OnlyPadding(file, e) /\ e <= Len(file)
  <2>1. Len(acked) \in 0 .. Len(acked)
    BY <1>6
  <2>2. Layout(file, acked, ends)
    BY <1>3 DEF Whole
  <2>3. e \in Nat
    BY <1>6, <1>10, <2>1, <2>2, EndsRise
  <2> QED
    BY <1>3, <1>10, <2>2, <2>3 DEF Whole, AtWork
<1>12. Whole(h, acked, durable, synced, ends)
  <2>1. Layout(h, acked, ends)
    BY <1>6, <1>9, <1>11, LayoutShorter
  <2>2. OnlyPadding(h, e)
    BY <1>9, <1>11, TailShorter
  <2> QED
    BY <1>3, <1>7, <1>9, <1>10, <2>1, <2>2 DEF Whole
<1>13. CleanEnd(h)
  <2>1. CASE c = 0
    BY <1>9, <2>1 DEF CleanEnd
  <2>2. CASE c # 0 /\ c = Len(file)
    <3>1. h[c] = file[c]
      BY <1>7, <1>9, <2>2 DEF Begins
    <3>2. CleanEnd(file)
      BY <1>6, <1>10, <1>11, WholeIsClean
    <3> QED
      BY <1>9, <2>2, <3>1, <3>2 DEF CleanEnd
  <2>3. CASE c # 0 /\ c # Len(file)
    <3>1. h[c] = file[c]
      BY <1>7, <1>9, <2>3 DEF Begins
    <3>2. c \in Cuts
      BY <1>5, <2>3
    <3>3. file[c] = Zero \/ file[c].at >= kHeaderSize \/ file[c].frag > 1
      BY <2>3, <3>2 DEF Cuts
    <3> QED
      BY <1>9, <3>1, <3>3 DEF CleanEnd
  <2> QED
    BY <2>1, <2>2, <2>3
<1>14. ReaderAt(h, acked, ends, pos, Len(fragments), last_good_end, replayed, Len(replayed)) /\ ~truncated
  <2>1. pos = 0 /\ Len(fragments) = 0 /\ last_good_end = 0 /\ replayed = <<>> /\ ~truncated
    BY <1>3 DEF AtWork
  <2>2. Len(replayed) = 0
    BY <2>1, EmptySeq
  <2>3. ends[0] = 0 /\ 1 .. 0 = {}
    BY <1>11 DEF Layout
  <2> QED
    BY <1>6, <1>7, <1>9, <1>13, <2>1, <2>2, <2>3 DEF ReaderAt
<1>15. WalTyped'
  BY <1>1, <1>4, <1>8, <1>9 DEF WalTyped
<1>16. WalBody(ends)'
  <2>1. Whole(file', acked', durable', synced', ends)
    BY <1>4, <1>8, <1>12
  <2>2. ReaderAt(file', acked', ends, pos', Len(fragments'), last_good_end', replayed', Len(replayed')) /\ ~truncated'
    BY <1>4, <1>8, <1>14
  <2> QED
    BY <1>4, <2>1, <2>2 DEF WalBody
<1> QED
  BY <1>15, <1>16 DEF WalInv

-----------------------------------------------------------------------------
\* The reader's variables while it reads.
LEMMA WhileReading ==
    ASSUME WalTyped, NEW ends, WalBody(ends), pc = "reading"
    PROVE  /\ file \in Seq(Cells) /\ acked \in Seq(Nat) /\ replayed \in Seq(Nat) /\ fragments \in Seq(Nat \X Nat)
           /\ Len(file) \in Nat /\ Len(acked) \in Nat /\ Len(replayed) \in Nat /\ Len(fragments) \in Nat
           /\ pos \in Nat /\ synced \in Nat /\ durable \in 0 .. Len(acked)
           /\ (fragments = <<>> <=> Len(fragments) = 0)
           /\ Whole(file, acked, durable, synced, ends)
           /\ Layout(file, acked, ends) /\ OnlyPadding(file, ends[Len(acked)])
           /\ ReaderAt(file, acked, ends, pos, Len(fragments), last_good_end, replayed, Len(replayed))
           /\ ~truncated
<1>1. /\ file \in Seq(Cells) /\ acked \in Seq(Nat) /\ replayed \in Seq(Nat) /\ fragments \in Seq(Nat \X Nat)
      /\ pos \in Nat /\ synced \in Nat /\ durable \in 0 .. Len(acked)
  BY DEF WalTyped
<1>2. Len(file) \in Nat /\ Len(acked) \in Nat /\ Len(replayed) \in Nat /\ Len(fragments) \in Nat
  BY <1>1, LenProperties
<1>3. fragments = <<>> <=> Len(fragments) = 0
  BY <1>1, EmptySeq
<1>4. /\ Whole(file, acked, durable, synced, ends) /\ ~truncated
      /\ ReaderAt(file, acked, ends, pos, Len(fragments), last_good_end, replayed, Len(replayed))
  BY DEF WalBody
<1> QED
  BY <1>1, <1>2, <1>3, <1>4 DEF Whole

\* BlockEnd is the end of the block or of the file.
LEMMA BlockEndIs ==
    ASSUME file \in Seq(Cells), NEW p \in Nat
    PROVE  /\ BlockEnd(p) \in Nat /\ BlockEnd(p) <= Len(file) /\ BlockEnd(p) <= EndOf(p)
           /\ BlockEnd(p) = EndOf(p) \/ BlockEnd(p) = Len(file)
           /\ EndOf(p) \in Nat /\ Len(file) \in Nat
<1>1. EndOf(p) \in Nat /\ Len(file) \in Nat
  BY InBlock, LenProperties
<1>2. BlockEnd(p) = IF EndOf(p) < Len(file) THEN EndOf(p) ELSE Len(file)
  BY DEF BlockEnd, EndOf
<1> QED
  BY <1>1, <1>2

\* With room for a header, the reader has come to a fragment.
LEMMA FindsFragment ==
    ASSUME WalTyped, NEW ends, WalBody(ends), pc = "reading", ~ShortOfHeader
    PROVE  /\ pos + kHeaderSize <= Len(file)
           /\ \E t, len : /\ Found(file, acked, ends, Len(replayed), Len(fragments), pos, t, len)
                          /\ Cell(pos) = CellOf(acked[Len(replayed) + 1], Len(fragments) + 1, t, len, 1)
<1>1. /\ file \in Seq(Cells) /\ acked \in Seq(Nat) /\ Len(replayed) \in Nat /\ Len(fragments) \in Nat
      /\ pos \in Nat /\ Layout(file, acked, ends) /\ OnlyPadding(file, ends[Len(acked)])
      /\ ReaderAt(file, acked, ends, pos, Len(fragments), last_good_end, replayed, Len(replayed))
  BY WhileReading
<1>2. BlockEnd(pos) \in Nat /\ BlockEnd(pos) <= Len(file) /\ BlockEnd(pos) <= EndOf(pos)
      /\ EndOf(pos) \in Nat /\ Len(file) \in Nat
  BY <1>1, BlockEndIs
<1>3. pos + kHeaderSize <= Len(file) /\ pos + kHeaderSize <= EndOf(pos)
  BY <1>1, <1>2, Sizes DEF ShortOfHeader
<1>4. InRecord(file, acked, ends, Len(replayed), Len(fragments), pos)
  BY <1>1, <1>3, RoomHasFragment
<1>5. PICK t, len : Found(file, acked, ends, Len(replayed), Len(fragments), pos, t, len)
  BY <1>1, <1>4, FragmentFound
<1>6. Cell(pos) = CellOf(acked[Len(replayed) + 1], Len(fragments) + 1, t, len, 1)
  <2>1. len \in Nat /\ Holds(file, pos, acked[Len(replayed) + 1], Len(fragments) + 1, t, len)
    BY <1>5 DEF Found
  <2>2. 1 \in 1 .. kHeaderSize + len /\ pos + 1 <= Len(file)
    BY <1>1, <1>2, <1>3, <2>1, Sizes
  <2>3. file[pos + 1] = CellOf(acked[Len(replayed) + 1], Len(fragments) + 1, t, len, 1)
    BY <2>1, <2>2 DEF Holds
  <2> QED
    BY <2>3 DEF Cell
<1> QED
  BY <1>3, <1>5, <1>6

\* A cell of a fragment is no padding.
LEMMA NotZero ==
    ASSUME NEW r, NEW f, NEW t, NEW len, NEW i,
           t \in {"full", "first"} \/ t \in {"middle", "last"}
    PROVE  CellOf(r, f, t, len, i) # Zero
<1>1. CellOf(r, f, t, len, i).type = t
  BY DEF CellOf
<1>2. Zero.type = "zero"
  BY DEF Zero
<1> QED
  BY <1>1, <1>2

LEMMA KeptBySkipBlock ==
    ASSUME WalInv, SkipBlock PROVE WalInv'
<1>1. WalTyped /\ pc = "reading"
  BY DEF WalInv, SkipBlock
<1>2. PICK ends : WalBody(ends)
  BY DEF WalInv
<1>3. /\ file \in Seq(Cells) /\ acked \in Seq(Nat) /\ Len(acked) \in Nat
      /\ Len(replayed) \in Nat /\ Len(fragments) \in Nat
      /\ pos \in Nat /\ Layout(file, acked, ends) /\ Whole(file, acked, durable, synced, ends) /\ ~truncated
      /\ ReaderAt(file, acked, ends, pos, Len(fragments), last_good_end, replayed, Len(replayed))
  BY <1>1, <1>2, WhileReading
<1>4. ShortOfHeader /\ BlockEnd(pos) < Len(file)
  <2> SUFFICES ASSUME ~ShortOfHeader, ZeroHeader(pos) PROVE FALSE
    BY DEF SkipBlock
  <2>1. PICK t, len : /\ Found(file, acked, ends, Len(replayed), Len(fragments), pos, t, len)
                      /\ Cell(pos) = CellOf(acked[Len(replayed) + 1], Len(fragments) + 1, t, len, 1)
    BY <1>1, <1>2, FindsFragment
  <2>2. t \in {"full", "first"} \/ t \in {"middle", "last"}
    BY <2>1 DEF Found
  <2>3. 0 \in 0 .. kHeaderSize - 1 /\ pos + 0 = pos
    BY <1>3, Sizes
  <2>4. Cell(pos) = Zero
    <3>1. Cell(pos + 0) = Zero
      BY <2>3 DEF ZeroHeader
    <3> QED
      BY <2>3, <3>1
  <2> QED
    BY <2>1, <2>2, <2>4, NotZero
<1>5. /\ BlockEnd(pos) = EndOf(pos) /\ EndOf(pos) \in Nat /\ Len(file) \in Nat
      /\ EndOf(pos) < Len(file) /\ EndOf(pos) - pos < kHeaderSize /\ pos < EndOf(pos)
  <2>1. /\ BlockEnd(pos) \in Nat
        /\ BlockEnd(pos) = EndOf(pos) \/ BlockEnd(pos) = Len(file)
        /\ EndOf(pos) \in Nat /\ Len(file) \in Nat
    BY <1>3, BlockEndIs
  <2>2. BlockEnd(pos) = EndOf(pos)
    BY <1>4, <2>1
  <2>3. pos < EndOf(pos)
    BY <1>3, InBlock
  <2> QED
    BY <1>3, <1>4, <2>1, <2>2, <2>3, Sizes DEF ShortOfHeader
<1>6. PICK i, m, e, q : i = Len(replayed) /\ m = Len(fragments) /\ e = ends[i] /\ q = EndOf(pos)
  OBVIOUS
<1>7. i \in Nat /\ i <= Len(acked) /\ e \in Nat /\ m \in Nat
  <2>1. i \in Nat /\ i <= Len(acked) /\ m \in Nat
    BY <1>3, <1>6 DEF ReaderAt
  <2>2. i \in 0 .. Len(acked)
    BY <1>3, <2>1
  <2> QED
    BY <1>3, <1>6, <2>1, <2>2, EndsRise
<1>8. m = 0
  <2> SUFFICES ASSUME m # 0 PROVE FALSE
    OBVIOUS
  <2>1. InRecord(file, acked, ends, i, m, pos)
    BY <1>3, <1>6 DEF ReaderAt
  <2>2. PICK t, len : Found(file, acked, ends, i, m, pos, t, len)
    BY <1>3, <1>7, <2>1, FragmentFound
  <2>3. len \in Nat /\ pos + (kHeaderSize + len) <= EndOf(pos)
    BY <2>2 DEF Found
  <2> QED
    BY <1>3, <1>5, <2>3, Sizes
<1>9. pos = e /\ q = Padded(e)
  <2>1. pos # Padded(e)
    <3> SUFFICES ASSUME pos = Padded(e) PROVE FALSE
      OBVIOUS
    <3>1. Padded(e) + kHeaderSize <= EndOf(Padded(e))
      BY <1>7, PaddedRoom
    <3>2. pos + kHeaderSize <= EndOf(pos)
      BY <3>1
    <3> QED
      BY <1>3, <1>5, <3>2, Sizes
  <2>2. pos = e
    BY <1>3, <1>6, <1>8, <2>1 DEF ReaderAt
  <2>3. Padded(pos) = EndOf(pos)
    BY <1>5 DEF Padded
  <2> QED
    BY <1>6, <2>2, <2>3
<1>10. ReaderAt(file, acked, ends, q, m, last_good_end, replayed, i)
  <2>1. e <= q /\ q <= Len(file)
    BY <1>3, <1>5, <1>6, <1>9
  <2>2. m = 0 /\ (q = ends[i] \/ q = Padded(ends[i]))
    BY <1>6, <1>8, <1>9
  <2>3. /\ i <= Len(acked) /\ (\A j \in 1 .. i : replayed[j] = acked[j])
        /\ last_good_end = ends[i] /\ CleanEnd(file)
    BY <1>3, <1>6 DEF ReaderAt
  <2>4. ends[i] <= q
    BY <1>6, <2>1
  <2> QED
    BY <2>1, <2>2, <2>3, <2>4 DEF ReaderAt
<1>11. /\ synced' = synced /\ durable' = durable /\ acked' = acked /\ pc' = pc /\ file' = file
       /\ fragments' = fragments /\ buf' = buf
       /\ last_good_end' = last_good_end /\ replayed' = replayed /\ truncated' = truncated
       /\ calls' = calls /\ left' = left /\ frag' = frag /\ pos' = q
  BY <1>5, <1>6 DEF SkipBlock, encoder, history
<1>12. WalTyped'
  <2>1. pos' \in Nat
    BY <1>5, <1>6, <1>11
  <2> QED
    BY <1>1, <1>11, <2>1 DEF WalTyped
<1>13. WalBody(ends)'
  <2>1. Whole(file', acked', durable', synced', ends)
    BY <1>3, <1>11
  <2>2. ReaderAt(file', acked', ends, pos', Len(fragments'), last_good_end', replayed', Len(replayed')) /\ ~truncated'
    BY <1>3, <1>6, <1>10, <1>11
  <2> QED
    BY <1>1, <1>11, <2>1, <2>2 DEF WalBody
<1> QED
  BY <1>12, <1>13 DEF WalInv

LEMMA KeptByReadFragment ==
    ASSUME WalInv, ReadFragment PROVE WalInv'
<1>1. WalTyped /\ pc = "reading"
  BY DEF WalInv, ReadFragment
<1>2. PICK ends : WalBody(ends)
  BY DEF WalInv
<1>3. /\ file \in Seq(Cells) /\ acked \in Seq(Nat) /\ Len(acked) \in Nat /\ Len(file) \in Nat
      /\ replayed \in Seq(Nat) /\ fragments \in Seq(Nat \X Nat)
      /\ Len(replayed) \in Nat /\ Len(fragments) \in Nat
      /\ pos \in Nat /\ Layout(file, acked, ends) /\ Whole(file, acked, durable, synced, ends) /\ ~truncated
      /\ ReaderAt(file, acked, ends, pos, Len(fragments), last_good_end, replayed, Len(replayed))
  BY <1>1, <1>2, WhileReading
<1>4. ~ShortOfHeader /\ Intact(pos)
  BY DEF ReadFragment, AtFragment, Accepts
<1>5. PICK i, m : i = Len(replayed) /\ m = Len(fragments)
  OBVIOUS
<1>6. PICK t, len : /\ Found(file, acked, ends, i, m, pos, t, len)
                    /\ Cell(pos) = CellOf(acked[i + 1], m + 1, t, len, 1)
  BY <1>1, <1>2, <1>4, <1>5, FindsFragment
<1>7. Cell(pos).rec = acked[i + 1] /\ Cell(pos).frag = m + 1 /\ Cell(pos).type = t /\ Cell(pos).len = len
  BY <1>6 DEF CellOf
<1>8. PICK q : q = pos + (kHeaderSize + len)
  OBVIOUS
<1>9. /\ len \in Nat /\ q <= EndOf(pos) /\ q <= ends[i + 1] /\ i < Len(acked)
      /\ IF t \in {"full", "last"} THEN q = ends[i + 1] ELSE InRecord(file, acked, ends, i, m + 1, q)
  BY <1>6, <1>8 DEF Found
<1>10. q \in Nat /\ pos + kHeaderSize + len = q /\ pos <= q
  BY <1>3, <1>8, <1>9, Sizes
<1>11. q <= Len(file)
  <2>1. pos + kHeaderSize + len <= BlockEnd(pos)
    BY <1>4, <1>7 DEF Intact
  <2>2. BlockEnd(pos) \in Nat /\ BlockEnd(pos) <= Len(file)
    BY <1>3, BlockEndIs
  <2> QED
    BY <1>3, <1>10, <2>1, <2>2
<1>12. /\ synced' = synced /\ durable' = durable /\ acked' = acked /\ pc' = pc /\ file' = file
       /\ buf' = buf /\ truncated' = truncated
       /\ calls' = calls /\ left' = left /\ frag' = frag /\ pos' = q
       /\ IF t \in {"full", "last"}
          THEN replayed' = Append(replayed, acked[i + 1]) /\ last_good_end' = q /\ fragments' = <<>>
          ELSE fragments' = Append(fragments, <<acked[i + 1], m + 1>>) /\ UNCHANGED <<replayed, last_good_end>>
  <2>1. /\ synced' = synced /\ durable' = durable /\ acked' = acked /\ pc' = pc /\ file' = file
        /\ buf' = buf /\ truncated' = truncated
        /\ calls' = calls /\ left' = left /\ frag' = frag
    BY DEF ReadFragment, encoder, history
  <2>2. /\ pos' = pos + kHeaderSize + len
        /\ IF t \in {"full", "last"}
           THEN replayed' = Append(replayed, acked[i + 1]) /\ last_good_end' = pos + kHeaderSize + len /\ fragments' = <<>>
           ELSE fragments' = Append(fragments, <<acked[i + 1], m + 1>>) /\ UNCHANGED <<replayed, last_good_end>>
    BY <1>7, Zenon DEF ReadFragment
  <2> QED
    BY <1>10, <2>1, <2>2, Zenon
<1>13. i + 1 \in 1 .. Len(acked) /\ i + 1 \in 0 .. Len(acked) /\ i \in Nat /\ m \in Nat
  BY <1>3, <1>5, <1>9
<1>14. acked[i + 1] \in Nat /\ ends[i + 1] \in Nat
  <2>1. acked[i + 1] \in Nat
    BY <1>3, <1>13, ElementOfSeq
  <2>2. ends[i + 1] \in Nat
    BY <1>3, <1>13, EndsRise
  <2> QED
    BY <2>1, <2>2
<1>15. /\ i <= Len(acked) /\ (\A j \in 1 .. i : replayed[j] = acked[j])
       /\ last_good_end = ends[i] /\ ends[i] <= pos /\ CleanEnd(file) /\ ends[i] \in Nat
  <2>1. /\ i <= Len(acked) /\ (\A j \in 1 .. i : replayed[j] = acked[j])
        /\ last_good_end = ends[i] /\ ends[i] <= pos /\ CleanEnd(file)
    BY <1>3, <1>5 DEF ReaderAt
  <2>2. i \in 0 .. Len(acked)
    BY <1>3, <1>13, <2>1
  <2>3. ends[i] \in Nat
    BY <1>3, <2>2, EndsRise
  <2> QED
    BY <2>1, <2>3
<1>16. Whole(file', acked', durable', synced', ends) /\ ~truncated' /\ pc' = "reading"
  BY <1>1, <1>3, <1>12
<1>17. CASE t \in {"full", "last"}
  <2>1. PICK rep : rep = replayed'
    OBVIOUS
  <2>2. rep = Append(replayed, acked[i + 1]) /\ last_good_end' = q /\ fragments' = <<>> /\ q = ends[i + 1]
    BY <1>9, <1>12, <1>17, <2>1
  <2>3. /\ rep \in Seq(Nat) /\ Len(rep) = i + 1 /\ rep[i + 1] = acked[i + 1]
        /\ \A j \in 1 .. i : rep[j] = replayed[j]
    <3>1. /\ Append(replayed, acked[i + 1]) \in Seq(Nat) /\ Len(Append(replayed, acked[i + 1])) = Len(replayed) + 1
          /\ Append(replayed, acked[i + 1])[Len(replayed) + 1] = acked[i + 1]
          /\ \A j \in 1 .. Len(replayed) : Append(replayed, acked[i + 1])[j] = replayed[j]
      BY <1>3, <1>14, AppendProperties
    <3> QED
      BY <1>5, <2>2, <3>1, Zenon
  <2>4. fragments' \in Seq(Nat \X Nat) /\ Len(fragments') = 0
    BY <2>2, EmptySeq
  <2>5. \A j \in 1 .. i + 1 : rep[j] = acked[j]
    <3> SUFFICES ASSUME NEW j \in 1 .. i + 1 PROVE rep[j] = acked[j]
      OBVIOUS
    <3>1. CASE j = i + 1
      BY <2>3, <3>1
    <3>2. CASE j # i + 1
      <4>1. j \in 1 .. i
        BY <1>13, <3>2
      <4> QED
        BY <1>15, <2>3, <4>1
    <3> QED
      BY <3>1, <3>2
  <2>6. ReaderAt(file, acked, ends, q, 0, q, rep, i + 1)
    <3>1. i + 1 <= Len(acked) /\ ends[i + 1] <= q
      BY <1>3, <1>10, <1>13, <2>2
    <3> QED
      BY <1>11, <1>15, <2>2, <2>5, <3>1 DEF ReaderAt
  <2>7. ReaderAt(file', acked', ends, pos', Len(fragments'), last_good_end', replayed', Len(replayed'))
    BY <1>12, <2>1, <2>2, <2>3, <2>4, <2>6
  <2>8. WalBody(ends)'
    BY <1>16, <2>7 DEF WalBody
  <2>9. WalTyped'
    <3>1. replayed' \in Seq(Nat) /\ last_good_end' \in Nat /\ pos' \in Nat
      BY <1>10, <1>12, <2>1, <2>2, <2>3
    <3> QED
      BY <1>1, <1>12, <2>4, <3>1 DEF WalTyped
  <2> QED
    BY <2>8, <2>9 DEF WalInv
<1>18. CASE ~(t \in {"full", "last"})
  <2>1. fragments' = Append(fragments, <<acked[i + 1], m + 1>>) /\ replayed' = replayed /\ last_good_end' = last_good_end
    BY <1>12, <1>18
  <2>2. fragments' \in Seq(Nat \X Nat) /\ Len(fragments') = m + 1
    <3>1. <<acked[i + 1], m + 1>> \in Nat \X Nat
      BY <1>13, <1>14
    <3> QED
      BY <1>3, <1>5, <2>1, <3>1, AppendProperties
  <2>3. ReaderAt(file, acked, ends, q, m + 1, last_good_end, replayed, i)
    <3>1. InRecord(file, acked, ends, i, m + 1, q)
      BY <1>9, <1>18
    <3>2. m + 1 > 0 /\ ends[i] <= q
      BY <1>3, <1>10, <1>13, <1>15
    <3> QED
      BY <1>11, <1>15, <3>1, <3>2 DEF ReaderAt
  <2>4. ReaderAt(file', acked', ends, pos', Len(fragments'), last_good_end', replayed', Len(replayed'))
    BY <1>5, <1>12, <2>1, <2>2, <2>3
  <2>5. WalBody(ends)'
    BY <1>16, <2>4 DEF WalBody
  <2>6. WalTyped'
    <3>1. pos' \in Nat
      BY <1>10, <1>12
    <3> QED
      BY <1>1, <1>12, <2>1, <2>2, <3>1 DEF WalTyped
  <2> QED
    BY <2>5, <2>6 DEF WalInv
<1> QED
  BY <1>17, <1>18

\* The reader stops inside a record only where the file does.
LEMMA StopsAtTear ==
    ASSUME WalTyped, NEW ends, WalBody(ends), pc = "reading",
           (AtFragment /\ ~Accepts) \/ (AtEof /\ fragments # <<>>)
    PROVE  Len(replayed) < Len(acked) /\ Len(file) < ends[Len(replayed) + 1]
<1>1. /\ file \in Seq(Cells) /\ acked \in Seq(Nat) /\ Len(acked) \in Nat /\ Len(file) \in Nat
      /\ Len(replayed) \in Nat /\ Len(fragments) \in Nat /\ (fragments = <<>> <=> Len(fragments) = 0)
      /\ pos \in Nat /\ Layout(file, acked, ends)
      /\ ReaderAt(file, acked, ends, pos, Len(fragments), last_good_end, replayed, Len(replayed))
  BY WhileReading
<1>2. PICK i, m : i = Len(replayed) /\ m = Len(fragments)
  OBVIOUS
<1>3. /\ BlockEnd(pos) \in Nat /\ BlockEnd(pos) <= Len(file) /\ BlockEnd(pos) <= EndOf(pos)
      /\ BlockEnd(pos) = EndOf(pos) \/ BlockEnd(pos) = Len(file)
      /\ EndOf(pos) \in Nat
  BY <1>1, BlockEndIs
<1>4. ASSUME NEW t, NEW len, Found(file, acked, ends, i, m, pos, t, len)
      PROVE  /\ i < Len(acked) /\ len \in Nat /\ ends[i + 1] \in Nat
             /\ pos + (kHeaderSize + len) <= EndOf(pos) /\ pos + (kHeaderSize + len) <= ends[i + 1]
  <2>1. /\ i < Len(acked) /\ len \in Nat
        /\ pos + (kHeaderSize + len) <= EndOf(pos) /\ pos + (kHeaderSize + len) <= ends[i + 1]
    BY <1>4 DEF Found
  <2>2. i + 1 \in 0 .. Len(acked)
    BY <1>1, <1>2, <2>1
  <2>3. ends[i + 1] \in Nat
    BY <1>1, <2>2, EndsRise
  <2> QED
    BY <2>1, <2>3
<1>5. CASE AtEof /\ fragments # <<>>
  <2>1. m # 0 /\ m \in Nat /\ i \in Nat
    BY <1>1, <1>2, <1>5
  <2>2. InRecord(file, acked, ends, i, m, pos)
    BY <1>1, <1>2, <2>1 DEF ReaderAt
  <2>3. PICK t, len : Found(file, acked, ends, i, m, pos, t, len)
    BY <1>1, <2>1, <2>2, FragmentFound
  <2>4. pos + kHeaderSize > Len(file)
    BY <1>5 DEF AtEof, ShortOfHeader
  <2>5. /\ i < Len(acked) /\ len \in Nat /\ ends[i + 1] \in Nat /\ pos + (kHeaderSize + len) <= ends[i + 1]
    BY <1>4, <2>3
  <2>6. Len(file) < ends[i + 1]
    BY <1>1, <2>4, <2>5, Sizes
  <2> QED
    BY <1>2, <2>5, <2>6
<1>6. CASE AtFragment /\ ~Accepts
  <2>1. PICK t, len : /\ Found(file, acked, ends, i, m, pos, t, len)
                      /\ Cell(pos) = CellOf(acked[i + 1], m + 1, t, len, 1)
    BY <1>2, <1>6, FindsFragment DEF AtFragment
  <2>2. /\ i < Len(acked) /\ len \in Nat /\ ends[i + 1] \in Nat
        /\ pos + (kHeaderSize + len) <= EndOf(pos) /\ pos + (kHeaderSize + len) <= ends[i + 1]
    BY <1>4, <2>1
  <2>3. /\ t \in (IF m = 0 THEN {"full", "first"} ELSE {"middle", "last"})
        /\ Holds(file, pos, acked[i + 1], m + 1, t, len)
    BY <2>1 DEF Found
  <2>4. Cell(pos).type = t /\ Cell(pos).len = len
    BY <2>1 DEF CellOf
  <2>5. ~Intact(pos)
    <3>1. m = 0 <=> fragments = <<>>
      BY <1>1, <1>2
    <3>2. Cell(pos).type \in (IF fragments = <<>> THEN {"full", "first"} ELSE {"middle", "last"})
      BY <2>3, <2>4, <3>1
    <3> QED
      BY <1>6, <3>2 DEF Accepts
  <2>6. Len(file) < pos + (kHeaderSize + len)
    <3> SUFFICES ASSUME ~(Len(file) < pos + (kHeaderSize + len)) PROVE Intact(pos)
      BY <2>5
    <3>1. pos + kHeaderSize + Cell(pos).len <= BlockEnd(pos)
      BY <1>1, <1>3, <2>2, <2>4, Sizes
    <3>2. Cell(pos) # Zero
      <4>1. t \in {"full", "first"} \/ t \in {"middle", "last"}
        BY <2>3
      <4> QED
        BY <2>1, <4>1, NotZero
    <3>3. ASSUME NEW j \in 0 .. kHeaderSize + Cell(pos).len - 1
          PROVE  Cell(pos + j) = [Cell(pos) EXCEPT !.at = j + 1]
      <4>1. j + 1 \in 1 .. kHeaderSize + len /\ pos + (j + 1) <= Len(file) /\ pos + (j + 1) = (pos + j) + 1
        BY <1>1, <2>2, <2>4, Sizes
      <4>2. file[pos + (j + 1)] = CellOf(acked[i + 1], m + 1, t, len, j + 1)
        BY <2>3, <4>1 DEF Holds
      <4>3. Cell(pos + j) = CellOf(acked[i + 1], m + 1, t, len, j + 1)
        BY <4>1, <4>2 DEF Cell
      <4>4. [Cell(pos) EXCEPT !.at = j + 1] = CellOf(acked[i + 1], m + 1, t, len, j + 1)
        BY <2>1 DEF CellOf
      <4> QED
        BY <4>3, <4>4
    <3> QED
      BY <3>1, <3>2, <3>3, Zenon DEF Intact
  <2>7. Len(file) < ends[i + 1]
    BY <1>1, <2>2, <2>6, Sizes
  <2> QED
    BY <1>2, <2>2, <2>7
<1> QED
  BY <1>5, <1>6

LEMMA KeptByTruncateTail ==
    ASSUME WalInv, TruncateTail PROVE WalInv'
<1>1. WalTyped /\ pc = "reading"
  BY DEF WalInv, TruncateTail
<1>2. PICK ends : WalBody(ends)
  BY DEF WalInv
<1>3. /\ file \in Seq(Cells) /\ acked \in Seq(Nat) /\ Len(acked) \in Nat /\ Len(file) \in Nat
      /\ Len(replayed) \in Nat /\ pos \in Nat /\ synced \in Nat /\ durable \in 0 .. Len(acked)
      /\ Layout(file, acked, ends) /\ OnlyPadding(file, ends[Len(acked)])
      /\ Whole(file, acked, durable, synced, ends)
      /\ ReaderAt(file, acked, ends, pos, Len(fragments), last_good_end, replayed, Len(replayed))
  BY <1>1, <1>2, WhileReading
<1>4. PICK i, h, e : i = Len(replayed) /\ h = file' /\ e = ends[i]
  OBVIOUS
<1>5. i \in Nat /\ i < Len(acked) /\ Len(file) < ends[i + 1]
  <2>1. Len(replayed) < Len(acked) /\ Len(file) < ends[Len(replayed) + 1]
    BY <1>1, <1>2, StopsAtTear DEF TruncateTail
  <2> QED
    BY <1>3, <1>4, <2>1
<1>6. durable <= i
  BY <1>3, <1>5, NotCovered
<1>7. /\ i <= Len(acked) /\ (\A j \in 1 .. i : replayed[j] = acked[j])
      /\ last_good_end = e /\ e <= Len(file) /\ e \in Nat
  <2>1. /\ i <= Len(acked) /\ (\A j \in 1 .. i : replayed[j] = acked[j])
        /\ last_good_end = e /\ e <= pos /\ pos <= Len(file)
    BY <1>3, <1>4 DEF ReaderAt
  <2>2. i \in 0 .. Len(acked)
    BY <1>3, <1>5
  <2>3. e \in Nat
    BY <1>3, <1>4, <2>2, EndsRise
  <2> QED
    BY <1>3, <2>1, <2>3
<1>8. h \in Seq(Cells) /\ Len(h) = e /\ Begins(h, file)
  <2>1. e \in 0 .. Len(file) /\ h = SubSeq(file, 1, e)
    BY <1>3, <1>4, <1>7 DEF TruncateTail
  <2> QED
    BY <1>3, <2>1, CutFile
<1>9. /\ synced' = e /\ durable' = durable /\ acked' = acked /\ pc' = "replayed"
      /\ pos' = pos /\ fragments' = fragments /\ buf' = buf
      /\ last_good_end' = last_good_end /\ replayed' = replayed /\ truncated'
      /\ calls' = calls /\ left' = left /\ frag' = frag
  BY <1>7 DEF TruncateTail, encoder, history
<1>10. Whole(h, acked, durable, e, ends)
  <2>1. Layout(h, acked, ends)
    BY <1>3, <1>8, LayoutShorter
  <2>2. Len(acked) \in 0 .. Len(acked) /\ i \in 0 .. Len(acked)
    BY <1>3, <1>5
  <2>3. ends[Len(acked)] \in Nat /\ ends[durable] <= ends[i]
    BY <1>3, <1>6, <2>2, EndsRise
  <2>4. OnlyPadding(h, ends[Len(acked)])
    BY <1>3, <1>8, <2>3, TailShorter
  <2>5. ends[durable] <= e /\ e <= Len(h)
    BY <1>4, <1>7, <1>8, <2>3
  <2> QED
    BY <2>1, <2>4, <2>5 DEF Whole
<1>11. Recovered(h, acked, durable, e, ends, replayed, i, TRUE)
  <2>1. OnlyPadding(h, e)
    BY <1>8, NothingBehind
  <2>2. ends[i] <= Len(h) /\ ends[i] <= e
    BY <1>4, <1>7, <1>8
  <2> QED
    BY <1>4, <1>6, <1>7, <2>1, <2>2 DEF Recovered
<1>12. WalTyped'
  <2>1. file' \in Seq(Cells) /\ synced' \in Nat
    BY <1>4, <1>7, <1>8, <1>9
  <2> QED
    BY <1>1, <1>9, <2>1 DEF WalTyped
<1>13. WalBody(ends)'
  <2>1. Whole(file', acked', durable', synced', ends)
    BY <1>4, <1>9, <1>10
  <2>2. Recovered(file', acked', durable', synced', ends, replayed', Len(replayed'), truncated')
    <3>1. Recovered(h, acked, durable, e, ends, replayed, i, truncated')
      BY <1>9, <1>11 DEF Recovered
    <3> QED
      BY <1>4, <1>9, <3>1
  <2> QED
    BY <1>9, <2>1, <2>2 DEF WalBody
<1> QED
  BY <1>12, <1>13 DEF WalInv

\* A file that ends between two records holds only padding behind the first.
LEMMA EndsBetween ==
    ASSUME NEW g \in Seq(Cells), NEW a \in Seq(Nat), NEW ends, Layout(g, a, ends), CleanEnd(g),
           NEW i \in Nat, i < Len(a), Len(g) < Padded(ends[i]) + kHeaderSize
    PROVE  OnlyPadding(g, ends[i])
<1>1. Len(a) \in Nat /\ Len(g) \in Nat
  BY LenProperties
<1>2. i + 1 \in 1 .. Len(a) /\ (i + 1) - 1 = i /\ i \in 0 .. Len(a)
  BY <1>1
<1>3. PICK k, starts : RecordBy(g, ends[i], ends[i + 1], a[i + 1], k, starts)
  <2>1. RecordAt(g, ends[(i + 1) - 1], ends[i + 1], a[i + 1])
    BY <1>2 DEF Layout
  <2> QED
    BY <1>2, <2>1 DEF RecordAt
<1>4. PICK e, p, L : e = ends[i] /\ p = Padded(ends[i]) /\ L = Len(g)
  OBVIOUS
<1>5. e \in Nat
  BY <1>2, <1>4, EndsRise
<1>6. p \in Nat /\ L \in Nat /\ L < p + kHeaderSize
  BY <1>1, <1>4, <1>5, PaddedRoom
<1>7. k \in Nat /\ k >= 1 /\ starts[1] = p /\ 1 \in 1 .. k
  <2>1. k \in Nat /\ k >= 1 /\ starts[1] = p
    BY <1>3, <1>4 DEF RecordBy
  <2> QED
    BY <2>1
<1>8. L <= p
  <2> SUFFICES ASSUME ~(L <= p) PROVE FALSE
    OBVIOUS
  <2>1. PICK b, len, t : b = starts[1 + 1] /\ len = b - p - kHeaderSize /\ t = TypeOf(1, k)
    OBVIOUS
  <2>2. b \in Nat /\ p + kHeaderSize <= b
    BY <1>3, <1>4, <1>5, <1>7, <2>1, StartsRise
  <2>3. len \in Nat
    BY <1>6, <2>1, <2>2, Sizes
  <2>4. Holds(g, p, a[i + 1], 1, t, len)
    BY <1>3, <1>7, <2>1 DEF RecordBy, Placed
  <2>5. L - p \in 1 .. kHeaderSize + len /\ p + (L - p) = L /\ L <= L /\ L - p < kHeaderSize /\ L # 0 /\ L - p \in Nat
    BY <1>6, <2>3, Sizes
  <2>6. g[L] = CellOf(a[i + 1], 1, t, len, L - p)
    BY <1>4, <2>4, <2>5 DEF Holds
  <2>7. g[L].at = L - p /\ g[L].frag = 1
    BY <2>6 DEF CellOf
  <2>8. t \in {"full", "first"}
    BY <2>1 DEF TypeOf
  <2>9. g[L] # Zero
    BY <2>6, <2>8, NotZero
  <2>10. ~(g[L].at >= kHeaderSize) /\ ~(g[L].frag > 1)
    BY <2>5, <2>7, Sizes
  <2> QED
    BY <1>4, <2>5, <2>9, <2>10 DEF CleanEnd
<1>9. Zeros(g, e, L)
  <2> SUFFICES ASSUME NEW x \in e + 1 .. L, x <= Len(g) PROVE g[x] = Zero
    BY DEF Zeros
  <2>1. Zeros(g, e, p)
    BY <1>3, <1>4 DEF RecordBy
  <2>2. x \in e + 1 .. p
    BY <1>5, <1>6, <1>8
  <2> QED
    BY <2>1, <2>2 DEF Zeros
<1> QED
  BY <1>4, <1>8, <1>9 DEF OnlyPadding

LEMMA KeptByEndOfLog ==
    ASSUME WalInv, EndOfLog PROVE WalInv'
<1>1. WalTyped /\ pc = "reading"
  BY DEF WalInv, EndOfLog
<1>2. PICK ends : WalBody(ends)
  BY DEF WalInv
<1>3. /\ file \in Seq(Cells) /\ acked \in Seq(Nat) /\ Len(acked) \in Nat /\ Len(file) \in Nat
      /\ Len(replayed) \in Nat /\ pos \in Nat /\ synced \in Nat /\ durable \in 0 .. Len(acked)
      /\ Layout(file, acked, ends) /\ OnlyPadding(file, ends[Len(acked)]) /\ (fragments = <<>> <=> Len(fragments) = 0)
      /\ Whole(file, acked, durable, synced, ends) /\ ~truncated
      /\ ReaderAt(file, acked, ends, pos, Len(fragments), last_good_end, replayed, Len(replayed))
  BY <1>1, <1>2, WhileReading
<1>4. PICK i, e : i = Len(replayed) /\ e = ends[i]
  OBVIOUS
<1>5. pos + kHeaderSize > Len(file) /\ Len(fragments) = 0
  BY <1>3 DEF EndOfLog, AtEof, ShortOfHeader
<1>6. /\ i <= Len(acked) /\ (\A j \in 1 .. i : replayed[j] = acked[j]) /\ CleanEnd(file)
      /\ e <= pos /\ pos <= Len(file) /\ (pos = e \/ pos = Padded(e)) /\ i \in Nat
  BY <1>3, <1>4, <1>5 DEF ReaderAt
<1>7. e \in Nat /\ Padded(e) \in Nat /\ pos <= Padded(e)
  <2>1. i \in 0 .. Len(acked)
    BY <1>3, <1>6
  <2>2. e \in Nat
    BY <1>3, <1>4, <2>1, EndsRise
  <2>3. Padded(e) \in Nat /\ e <= Padded(e)
    BY <2>2, PaddedRoom
  <2> QED
    BY <1>6, <2>2, <2>3
<1>8. OnlyPadding(file, e) /\ durable <= i
  <2>1. CASE i = Len(acked)
    BY <1>3, <1>4, <2>1
  <2>2. CASE i # Len(acked)
    <3>1. i < Len(acked) /\ i \in 0 .. Len(acked) /\ i + 1 \in 0 .. Len(acked)
      BY <1>3, <1>6, <2>2
    <3>2. Len(file) < Padded(e) + kHeaderSize
      BY <1>3, <1>5, <1>7, Sizes
    <3>3. OnlyPadding(file, e)
      BY <1>3, <1>4, <1>6, <3>1, <3>2, EndsBetween
    <3>4. Padded(e) + kHeaderSize <= ends[i + 1] /\ ends[i + 1] \in Nat
      BY <1>3, <1>4, <3>1, EndsRise
    <3>5. Len(file) < ends[i + 1]
      BY <1>3, <1>7, <3>2, <3>4, Sizes
    <3>6. durable <= i
      BY <1>3, <1>6, <3>1, <3>5, NotCovered
    <3> QED
      BY <3>3, <3>6
  <2> QED
    BY <2>1, <2>2
<1>9. e <= Len(file)
  BY <1>3, <1>6, <1>7
<1>10. Recovered(file, acked, durable, synced, ends, replayed, i, truncated)
  BY <1>3, <1>4, <1>6, <1>8, <1>9 DEF Recovered
<1>11. /\ file' = file /\ synced' = synced /\ durable' = durable /\ acked' = acked /\ pc' = "replayed"
       /\ pos' = pos /\ fragments' = fragments /\ buf' = buf
       /\ last_good_end' = last_good_end /\ replayed' = replayed /\ truncated' = truncated
       /\ calls' = calls /\ left' = left /\ frag' = frag
  BY DEF EndOfLog, encoder, reader, history
<1>12. WalTyped'
  BY <1>1, <1>11 DEF WalTyped
<1>13. WalBody(ends)'
  <2>1. Whole(file', acked', durable', synced', ends)
    BY <1>3, <1>11
  <2>2. Recovered(file', acked', durable', synced', ends, replayed', Len(replayed'), truncated')
    BY <1>4, <1>10, <1>11
  <2> QED
    BY <1>11, <2>1, <2>2 DEF WalBody
<1> QED
  BY <1>12, <1>13 DEF WalInv

LEMMA KeptByAttachWriter ==
    ASSUME WalInv, AttachWriter PROVE WalInv'
<1>1. WalTyped /\ pc = "replayed"
  BY DEF WalInv, AttachWriter
<1>2. PICK ends : WalBody(ends)
  BY DEF WalInv
<1>3. /\ Recovered(file, acked, durable, synced, ends, replayed, Len(replayed), truncated)
      /\ Whole(file, acked, durable, synced, ends)
  BY <1>1, <1>2 DEF WalBody
<1>4. /\ file \in Seq(Cells) /\ acked \in Seq(Nat) /\ replayed \in Seq(Nat)
      /\ Len(file) \in Nat /\ Len(acked) \in Nat /\ Len(replayed) \in Nat /\ durable \in 0 .. Len(acked)
  BY <1>1, LenProperties DEF WalTyped
<1>5. PICK i : i = Len(replayed)
  OBVIOUS
<1>6. /\ i \in Nat /\ i <= Len(acked) /\ (\A j \in 1 .. i : replayed[j] = acked[j])
      /\ durable <= i /\ ends[i] <= Len(file) /\ OnlyPadding(file, ends[i]) /\ (truncated => ends[i] <= synced)
  BY <1>3, <1>4, <1>5 DEF Recovered
<1>7. PICK fewer : fewer = [j \in 0 .. i |-> ends[j]]
  OBVIOUS
<1>8. Layout(file, replayed, fewer)
  BY <1>3, <1>4, <1>5, <1>6, <1>7, LayoutFewer DEF Whole
<1>9. \A j \in 0 .. i : fewer[j] = ends[j]
  BY <1>7
<1>10. /\ file' = file /\ file_offset' = Len(file) /\ acked' = replayed /\ pc' = "writing"
       /\ durable' = (IF truncated THEN i ELSE durable) /\ synced' = synced
       /\ pos' = 0 /\ fragments' = <<>> /\ last_good_end' = 0 /\ replayed' = <<>> /\ truncated' = FALSE
       /\ buf' = buf /\ left' = left /\ frag' = frag /\ calls' = calls
  BY <1>5 DEF AttachWriter, encoder
<1>11. durable' \in 0 .. i /\ ends[durable'] <= synced
  <2>1. ends[durable] <= synced
    BY <1>3 DEF Whole
  <2> QED
    BY <1>4, <1>6, <1>10, <2>1
<1>12. fewer[i] = ends[i] /\ fewer[durable'] = ends[durable']
  <2>1. i \in 0 .. i
    BY <1>6
  <2> QED
    BY <1>9, <1>11, <2>1
<1>13. Len(fragments') = 0 /\ fragments' \in Seq(Nat \X Nat) /\ replayed' \in Seq(Nat)
  BY <1>10, EmptySeq
<1>14. WalTyped'
  BY <1>1, <1>4, <1>5, <1>10, <1>11, <1>13 DEF WalTyped
<1>15. WalBody(fewer)'
  <2>1. synced <= Len(file)
    BY <1>3 DEF Whole
  <2>2. Whole(file', acked', durable', synced', fewer)
    BY <1>5, <1>6, <1>8, <1>10, <1>11, <1>12, <2>1 DEF Whole
  <2>3. AtWork(file', fewer[Len(acked')], file_offset', pos', Len(fragments'), last_good_end', replayed', truncated')
    BY <1>5, <1>6, <1>10, <1>12, <1>13 DEF AtWork
  <2> QED
    BY <1>10, <2>2, <2>3 DEF WalBody
<1> QED
  BY <1>14, <1>15 DEF WalInv

LEMMA WalStep ==
    ASSUME WalInv, Damage = {}, [Next]_vars PROVE WalInv'
<1>1. CASE \E size \in PayloadSizes : AddRecord(size)
  BY <1>1, KeptByAddRecord
<1>2. CASE EncodeFragment
  BY <1>2, KeptByEncodeFragment
<1>3. CASE WriteAll
  BY <1>3, KeptByWriteAll
<1>4. CASE Sync
  BY <1>4, KeptBySync
<1>5. CASE Restart
  BY <1>5, KeptByRestart
<1>6. CASE SkipBlock
  BY <1>6, KeptBySkipBlock
<1>7. CASE ReadFragment
  BY <1>7, KeptByReadFragment
<1>8. CASE TruncateTail
  BY <1>8, KeptByTruncateTail
<1>9. CASE EndOfLog
  BY <1>9, KeptByEndOfLog
<1>10. CASE AttachWriter
  BY <1>10, KeptByAttachWriter
<1>11. CASE UNCHANGED vars
  <2>1. /\ file' = file /\ synced' = synced /\ durable' = durable /\ acked' = acked /\ pc' = pc
        /\ pos' = pos /\ fragments' = fragments /\ buf' = buf /\ file_offset' = file_offset
        /\ last_good_end' = last_good_end /\ replayed' = replayed /\ truncated' = truncated
        /\ calls' = calls /\ left' = left /\ frag' = frag /\ block_off' = block_off
    BY <1>11 DEF vars, writer, encoder, reader, history
  <2>2. WalTyped'
    BY <2>1 DEF WalInv, WalTyped
  <2>3. PICK ends : WalBody(ends)
    BY DEF WalInv
  <2>4. WalBody(ends)'
    BY <2>1, <2>3 DEF WalBody
  <2> QED
    BY <2>2, <2>4 DEF WalInv
<1> QED
  BY <1>1, <1>2, <1>3, <1>4, <1>5, <1>6, <1>7, <1>8, <1>9, <1>10, <1>11 DEF Next

\* One sequence is a prefix of another.
LEMMA PrefixOf ==
    ASSUME NEW s \in Seq(Nat), NEW t \in Seq(Nat), Len(s) <= Len(t), \A i \in 1 .. Len(s) : s[i] = t[i]
    PROVE  IsPrefix(s, t)
<1>1. PICK n, u, v : n = Len(s) /\ u = SubSeq(s, 1, n) /\ v = SubSeq(t, 1, n)
  OBVIOUS
<1>2. n \in Nat /\ Len(t) \in Nat /\ 1 \in Int /\ n \in Int
  BY <1>1, LenProperties
<1>3. \A i \in 1 .. n : s[i] \in Nat /\ t[i] \in Nat /\ s[i] = t[i]
  <2>1. \A i \in 1 .. n : i \in 1 .. Len(t)
    BY <1>1, <1>2
  <2> QED
    BY <1>1, <2>1, ElementOfSeq
<1>4. /\ u \in Seq(Nat) /\ Len(u) = (IF 1 <= n THEN n - 1 + 1 ELSE 0)
      /\ \A i \in 1 .. n - 1 + 1 : u[i] = s[1 + i - 1]
  BY <1>1, <1>2, <1>3, SubSeqProperties
<1>5. /\ v \in Seq(Nat) /\ Len(v) = (IF 1 <= n THEN n - 1 + 1 ELSE 0)
      /\ \A i \in 1 .. n - 1 + 1 : v[i] = t[1 + i - 1]
  BY <1>1, <1>2, <1>3, SubSeqProperties
<1>6. Len(u) = n /\ Len(v) = n /\ \A i \in 1 .. n : u[i] = v[i]
  BY <1>2, <1>3, <1>4, <1>5
<1>7. u = v
  BY <1>4, <1>5, <1>6, SeqEqual
<1> QED
  BY <1>1, <1>7 DEF IsPrefix

LEMMA RecoversExactly ==
    ASSUME WalInv PROVE RecoveryExact
<1> SUFFICES ASSUME pc = "replayed"
             PROVE  IsPrefix(SubSeq(acked, 1, durable), replayed) /\ IsPrefix(replayed, acked)
  BY DEF RecoveryExact
<1>1. PICK ends : WalBody(ends)
  BY DEF WalInv
<1>2. /\ acked \in Seq(Nat) /\ replayed \in Seq(Nat)
      /\ Len(acked) \in Nat /\ Len(replayed) \in Nat /\ durable \in 0 .. Len(acked)
  BY LenProperties DEF WalInv, WalTyped
<1>3. /\ Len(replayed) <= Len(acked) /\ (\A j \in 1 .. Len(replayed) : replayed[j] = acked[j])
      /\ durable <= Len(replayed)
  BY <1>1 DEF WalBody, Recovered
<1>4. IsPrefix(replayed, acked)
  BY <1>2, <1>3, PrefixOf
<1>5. PICK d, s : d = durable /\ s = SubSeq(acked, 1, durable)
  OBVIOUS
<1>6. d \in Nat /\ 1 \in Int /\ d \in Int /\ d <= Len(acked) /\ d <= Len(replayed)
  BY <1>2, <1>3, <1>5
<1>7. \A i \in 1 .. d : acked[i] \in Nat /\ i \in 1 .. Len(replayed)
  <2>1. \A i \in 1 .. d : i \in 1 .. Len(acked) /\ i \in 1 .. Len(replayed)
    BY <1>2, <1>6
  <2> QED
    BY <1>2, <2>1, ElementOfSeq
<1>8. /\ s \in Seq(Nat) /\ Len(s) = (IF 1 <= d THEN d - 1 + 1 ELSE 0)
      /\ \A i \in 1 .. d - 1 + 1 : s[i] = acked[1 + i - 1]
  BY <1>5, <1>6, <1>7, SubSeqProperties
<1>9. Len(s) = d /\ \A i \in 1 .. d : s[i] = acked[i]
  BY <1>6, <1>8
<1>10. \A i \in 1 .. d : s[i] = replayed[i]
  BY <1>3, <1>7, <1>9
<1>11. IsPrefix(s, replayed)
  BY <1>2, <1>6, <1>8, <1>9, <1>10, PrefixOf
<1> QED
  BY <1>4, <1>5, <1>11

\* Where a crash leaves no part of a record's first header and a failed write
\* nothing, a recovery of the log replays the records that were appended up to
\* some point at or behind the last fsync, whole and in order, however they lie
\* across the blocks and whatever crashes and recoveries came before.
THEOREM RecoveryExactHolds ==
    ASSUME Damage = {} PROVE Spec => []RecoveryExact
<1>1. Init => WalInv
  BY WalBegins
<1>2. WalInv /\ [Next]_vars => WalInv'
  BY WalStep
<1>3. WalInv => RecoveryExact
  BY RecoversExactly
<1> QED
  BY <1>1, <1>2, <1>3, PTL DEF Spec

=============================================================================
