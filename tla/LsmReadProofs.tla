---------------------------- MODULE LsmReadProofs ---------------------------
(***************************************************************************)
(* Get and Scan answer correctly.  However far rotations, flushes,         *)
(* compactions, failed I/O, crashes and recoveries have carried the        *)
(* versions, and however old the view a reader copied, the tables of a     *)
(* view are ordered: of every key, a table LookupIn asks earlier holds the *)
(* newer versions.  So the first hit is the newest version, which is what  *)
(* the merge of Scan yields, and no step but a write changes an answer.    *)
(***************************************************************************)
EXTENDS LsmProofs

\* The files a version (or a MANIFEST) names, and what is in them.
Files(v) == FilesOf(v.l0) \cup UNION {v.levels[i] : i \in Level}
SstEntries(S, v) == UNION {S[f] : f \in Files(v)}

\* A version whose SSTs S are in order: L0 newest first, by file number as
\* well; L0 newer than the levels, a level newer than the ones below it, and
\* within one level no two key ranges that meet.
Ordered(S, v) ==
    /\ \A f \in Files(v) : S[f] # {} /\ Table(S[f])
    /\ \A i, j \in 1..Len(v.l0) : i < j => v.l0[j] <= v.l0[i]
    /\ \A f, g \in FilesOf(v.l0) : g < f => NewerThan(S[f], S[g])
    /\ \A f \in FilesOf(v.l0), i \in Level : \A g \in v.levels[i] : NewerThan(S[f], S[g])
    /\ \A i, j \in Level : i < j =>
          \A f \in v.levels[i], g \in v.levels[j] : NewerThan(S[f], S[g])
    /\ \A i \in Level : \A f, g \in v.levels[i] : f # g => Apart(S[f], S[g])

\* A view in order.  A flush whose MANIFEST write failed leaves the immutable
\* memtable beside the SST made of it.
ViewOrdered(S, m, im, v) ==
    /\ Table(m) /\ Table(im)
    /\ NewerThan(m, im)
    /\ NewerThan(m, SstEntries(S, v))
    /\ \A f \in FilesOf(v.l0) : S[f] = im \/ NewerThan(im, S[f])
    /\ \A i \in Level : \A f \in v.levels[i] : NewerThan(im, S[f])
    /\ Ordered(S, v)

\* The type of a version or a MANIFEST.
IsVersion(v) == v.l0 \in Seq(File) /\ v.levels \in [Level -> SUBSET File]

-----------------------------------------------------------------------------
\* Membership in Files and SstEntries.
LEMMA FilesMembers ==
    ASSUME NEW v PROVE
        /\ \A f \in Files(v) : f \in FilesOf(v.l0) \/ \E i \in Level : f \in v.levels[i]
        /\ FilesOf(v.l0) \subseteq Files(v)
        /\ \A i \in Level : v.levels[i] \subseteq Files(v)
        /\ \A i \in 1..Len(v.l0) : v.l0[i] \in FilesOf(v.l0)
        /\ \A f \in FilesOf(v.l0) : \E i \in 1..Len(v.l0) : f = v.l0[i]
BY DEF Files, FilesOf

\* The entries of each file are among the entries of its version.
LEMMA SstMembers ==
    ASSUME NEW S, NEW v PROVE
        /\ \A f \in Files(v) : S[f] \subseteq SstEntries(S, v)
        /\ \A e \in SstEntries(S, v) : \E f \in Files(v) : e \in S[f]
BY DEF SstEntries

\* A version names files.
LEMMA FilesAreFiles == ASSUME NEW v, IsVersion(v) PROVE Files(v) \subseteq File
<1>1. FilesOf(v.l0) \subseteq File
  BY ElementOfSeq DEF FilesOf, IsVersion
<1> QED
  BY <1>1 DEF Files, IsVersion

\* LookupIn opens at most one file of a level, and that is the one that holds
\* the key, if any does.
LEMMA LevelTableExact ==
    ASSUME ssts \in [File -> SUBSET Entry], NEW v, IsVersion(v), Ordered(ssts, v),
           NEW i \in Level, NEW k \in Key
    PROVE  /\ \/ LevelTable(v.levels[i], k) = {}
              \/ \E f \in v.levels[i] : LevelTable(v.levels[i], k) = ssts[f]
           /\ \A f \in v.levels[i] : \A e \in ssts[f] :
                 e.key = k => e \in LevelTable(v.levels[i], k)
<1> DEFINE files == v.levels[i]
           small(f) == SmallestKey(ssts[f])
           left  == {f \in files : small(f) <= k}
           last  == CHOOSE f \in left : \A g \in left : small(g) <= small(f)
<1>1. LevelTable(files, k) =
        IF left = {} \/ k > LargestKey(ssts[last]) THEN {} ELSE ssts[last]
  BY DEF LevelTable
<1>2. \A f \in files : /\ ssts[f] \in SUBSET Entry /\ ssts[f] # {}
                       /\ small(f) \in Nat /\ LargestKey(ssts[f]) \in Nat
                       /\ \E e \in ssts[f] : e.key = small(f)
                       /\ \A e \in ssts[f] : /\ e.key \in Nat /\ small(f) <= e.key
                                             /\ e.key <= LargestKey(ssts[f])
  <2> SUFFICES ASSUME NEW f \in files
               PROVE  /\ ssts[f] \in SUBSET Entry /\ ssts[f] # {}
                      /\ small(f) \in Nat /\ LargestKey(ssts[f]) \in Nat
                      /\ \E e \in ssts[f] : e.key = small(f)
                      /\ \A e \in ssts[f] : /\ e.key \in Nat /\ small(f) <= e.key
                                            /\ e.key <= LargestKey(ssts[f])
    OBVIOUS
  <2>1. f \in Files(v) /\ f \in File
    BY FilesMembers DEF IsVersion
  <2>2. ssts[f] \in SUBSET Entry /\ ssts[f] # {}
    BY <2>1 DEF Ordered
  <2> QED
    BY <2>2, RangeEnds
<1>3. k \in Nat
  BY KeyAssumption
<1>4. left # {} => last \in left /\ \A g \in left : small(g) <= small(last)
  <2> SUFFICES ASSUME left # {} PROVE \E f \in left : \A g \in left : small(g) <= small(f)
    OBVIOUS
  <2> DEFINE Q == {small(f) : f \in left}
  <2>1. Q \in SUBSET Nat /\ Q # {} /\ \A q \in Q : q <= k
    <3> HIDE DEF small
    <3> QED BY <1>2
  <2>2. \E q \in Q : \A p \in Q : p <= q
    <3> HIDE DEF Q
    <3> QED BY <1>3, <2>1, LargestExists
  <2> QED
    BY <2>2
<1> HIDE DEF last
<1>5. \/ LevelTable(files, k) = {}
      \/ \E f \in files : LevelTable(files, k) = ssts[f]
  BY <1>1, <1>4
<1>6. ASSUME NEW f \in files, NEW e \in ssts[f], e.key = k
      PROVE  e \in LevelTable(files, k)
  <2> HIDE DEF small
  <2>1. f \in left /\ last \in left /\ small(f) <= small(last) /\ small(last) <= k
    BY <1>2, <1>4, <1>6
  <2>2. last = f
    <3> SUFFICES ASSUME last # f PROVE FALSE
      OBVIOUS
    <3>1. Apart(ssts[last], ssts[f])
      BY <2>1 DEF Ordered
    <3>2. PICK a \in ssts[last] : a.key = small(last)
      BY <1>2, <2>1
    <3>3. PICK b \in ssts[f] : b.key = small(f)
      BY <1>2
    <3>4. a.key < b.key \/ e.key < a.key
      BY <3>1 DEF Apart
    <3>5. small(last) \in Nat /\ small(f) \in Nat
      BY <1>2, <2>1
    <3> QED
      BY <1>3, <1>6, <2>1, <3>2, <3>3, <3>4, <3>5
  <2>3. ~(k > LargestKey(ssts[last]))
    BY <1>2, <1>3, <1>6, <2>2
  <2> QED
    BY <1>1, <2>1, <2>2, <2>3
<1> QED
  BY <1>5, <1>6

\* The tables LookupIn asks, by position.
SourcesShape(m, im, v, k, src) ==
    /\ Len(v.l0) \in Nat /\ kMaxLevels - 1 \in Nat
    /\ DOMAIN src = 1..2 + Len(v.l0) + (kMaxLevels - 1)
    /\ src[1] = m /\ src[2] = im
    /\ \A i \in 1..Len(v.l0) : src[2 + i] = ssts[v.l0[i]]
    /\ \A i \in Level : src[2 + Len(v.l0) + i] = LevelTable(v.levels[i], k)

\* The list has that shape.
LEMMA SourcesAt ==
    ASSUME NEW m, NEW im, NEW v, IsVersion(v), NEW k
    PROVE  SourcesShape(m, im, v, k, Sources(View(m, im, v), k))
<1> DEFINE L  == Len(v.l0)
           K  == kMaxLevels - 1
           s1 == <<m, im>>
           s2 == [i \in 1..L |-> ssts[v.l0[i]]]
           s3 == [i \in 1..K |-> LevelTable(v.levels[i], k)]
           A  == {m, im} \cup {ssts[v.l0[i]] : i \in 1..L}
                   \cup {LevelTable(v.levels[i], k) : i \in 1..K}
<1>1. L \in Nat /\ K \in Nat /\ Level = 1..K
  BY LenProperties, OptionsAssumption DEF IsVersion, Level
<1>2. Sources(View(m, im, v), k) = s1 \o s2 \o s3
  BY <1>1 DEF Sources, View
<1>3. s1 \in Seq(A) /\ Len(s1) = 2 /\ s1[1] = m /\ s1[2] = im
  OBVIOUS
<1>4. s2 \in Seq(A) /\ Len(s2) = L /\ \A i \in 1..L : s2[i] = ssts[v.l0[i]]
  <2>1. s2 \in [1..L -> A]
    OBVIOUS
  <2>2. s2 \in Seq(A) /\ Len(s2) = L
    <3> HIDE DEF s2, A, L
    <3> QED BY <1>1, <2>1, SeqDef, LenProperties
  <2> QED
    BY <2>2
<1>5. s3 \in Seq(A) /\ Len(s3) = K /\ \A i \in 1..K : s3[i] = LevelTable(v.levels[i], k)
  <2>1. s3 \in [1..K -> A]
    OBVIOUS
  <2>2. s3 \in Seq(A) /\ Len(s3) = K
    <3> HIDE DEF s3, A, K
    <3> QED BY <1>1, <2>1, SeqDef, LenProperties
  <2> QED
    BY <2>2
<1> DEFINE src == Sources(View(m, im, v), k)
<1> HIDE DEF s1, s2, s3, A, L, K, src
<1>6. /\ s1 \o s2 \in Seq(A) /\ Len(s1 \o s2) = 2 + L
      /\ \A i \in 1..2 + L : (s1 \o s2)[i] = IF i <= 2 THEN s1[i] ELSE s2[i - 2]
  <2>1. /\ s1 \o s2 \in Seq(A) /\ Len(s1 \o s2) = Len(s1) + Len(s2)
        /\ \A i \in 1..Len(s1) + Len(s2) : (s1 \o s2)[i] =
              IF i <= Len(s1) THEN s1[i] ELSE s2[i - Len(s1)]
    BY <1>3, <1>4, ConcatProperties
  <2> QED
    BY <1>3, <1>4, <2>1
<1>7. /\ s1 \o s2 \o s3 \in Seq(A) /\ Len(s1 \o s2 \o s3) = 2 + L + K
      /\ \A i \in 1..2 + L + K : (s1 \o s2 \o s3)[i] =
            IF i <= 2 + L THEN (s1 \o s2)[i] ELSE s3[i - (2 + L)]
  <2> DEFINE t == s1 \o s2
  <2> HIDE DEF t
  <2>1. t \in Seq(A) /\ s3 \in Seq(A) /\ Len(t) = 2 + L
    BY <1>5, <1>6 DEF t
  <2>2. /\ t \o s3 \in Seq(A) /\ Len(t \o s3) = Len(t) + Len(s3)
        /\ \A i \in 1..Len(t) + Len(s3) : (t \o s3)[i] =
              IF i <= Len(t) THEN t[i] ELSE s3[i - Len(t)]
    BY <2>1, ConcatProperties
  <2>3. /\ t \o s3 \in Seq(A) /\ Len(t \o s3) = 2 + L + K
        /\ \A i \in 1..2 + L + K : (t \o s3)[i] =
              IF i <= 2 + L THEN t[i] ELSE s3[i - (2 + L)]
    BY <1>5, <2>1, <2>2
  <2> QED
    BY <2>3 DEF t
<1>8. src = s1 \o s2 \o s3
  BY <1>2 DEF src
<1>9. /\ DOMAIN src = 1..2 + L + K
      /\ \A i \in 1..2 + L + K : src[i] =
            IF i <= 2 + L THEN (s1 \o s2)[i] ELSE s3[i - (2 + L)]
  BY <1>7, <1>8, LenProperties
<1>10. src[1] = m /\ src[2] = im
  <2>1. /\ 1 \in 1..2 + L + K /\ 2 \in 1..2 + L + K /\ 1 \in 1..2 + L /\ 2 \in 1..2 + L
        /\ 1 <= 2 + L /\ 2 <= 2 + L
    BY <1>1
  <2>2. src[1] = (s1 \o s2)[1] /\ src[2] = (s1 \o s2)[2]
    BY <1>9, <2>1
  <2>3. (s1 \o s2)[1] = s1[1] /\ (s1 \o s2)[2] = s1[2]
    BY <1>6, <2>1
  <2> QED
    BY <1>3, <2>2, <2>3
<1>11. ASSUME NEW i \in 1..L PROVE src[2 + i] = ssts[v.l0[i]]
  <2>1. /\ 2 + i \in 1..2 + L + K /\ 2 + i \in 1..2 + L
        /\ ~(2 + i <= 2) /\ (2 + i) - 2 = i /\ 2 + i <= 2 + L
    BY <1>1
  <2> QED
    BY <1>4, <1>6, <1>9, <2>1
<1>12. ASSUME NEW i \in Level PROVE src[2 + L + i] = LevelTable(v.levels[i], k)
  <2>1. /\ i \in 1..K /\ 2 + L + i \in 1..2 + L + K /\ ~(2 + L + i <= 2 + L)
        /\ (2 + L + i) - (2 + L) = i
    BY <1>1
  <2> QED
    BY <1>5, <1>9, <2>1
<1> QED
  BY <1>1, <1>9, <1>10, <1>11, <1>12 DEF SourcesShape, src, L, K

\* What a position of that list is.
SourceKind(v, src, i) ==
    \/ i = 1
    \/ i = 2
    \/ \E a \in 1..Len(v.l0) : i = 2 + a /\ src[i] = ssts[v.l0[a]]
    \/ \E a \in Level : i = 2 + Len(v.l0) + a /\ (src[i] = {} \/ \E f \in v.levels[a] : src[i] = ssts[f])

\* LookupIn asks the newer tables first.
LEMMA SourcesOrdered ==
    ASSUME ssts \in [File -> SUBSET Entry], NEW m, NEW im, NEW v, IsVersion(v),
           ViewOrdered(ssts, m, im, v), NEW k \in Key,
           NEW src, src = Sources(View(m, im, v), k)
    PROVE  /\ \A i \in DOMAIN src : Table(src[i])
           /\ \A i, j \in DOMAIN src : i < j => src[i] = src[j] \/ NewerThan(src[i], src[j])
<1> DEFINE L == Len(v.l0)
           K == kMaxLevels - 1
<1>1. /\ L \in Nat /\ K \in Nat
      /\ DOMAIN src = 1..2 + L + K
      /\ src[1] = m /\ src[2] = im
      /\ \A i \in 1..L : src[2 + i] = ssts[v.l0[i]]
      /\ \A i \in Level : src[2 + L + i] = LevelTable(v.levels[i], k)
  <2>1. SourcesShape(m, im, v, k, src)
    BY SourcesAt
  <2> QED
    BY <2>1 DEF SourcesShape
<1>2. Level = 1..K /\ Ordered(ssts, v)
  BY DEF Level, ViewOrdered
<1>3. ASSUME NEW i \in DOMAIN src PROVE SourceKind(v, src, i)
  <2> HIDE DEF K
  <2>1. \/ i = 1 \/ i = 2
        \/ i - 2 \in 1..L /\ i = 2 + (i - 2)
        \/ i - (2 + L) \in 1..K /\ i = 2 + L + (i - (2 + L))
    <3> HIDE DEF L
    <3>1. i \in 1..2 + L + K
      BY <1>1
    <3> QED
      BY <1>1, <3>1
  <2>2. CASE i - 2 \in 1..L /\ i = 2 + (i - 2)
    BY <1>1, <2>2 DEF SourceKind
  <2>3. CASE i - (2 + L) \in 1..K /\ i = 2 + L + (i - (2 + L))
    <3> DEFINE a == i - (2 + L)
    <3>1. a \in Level /\ i = 2 + L + a
      BY <1>2, <2>3
    <3> HIDE DEF a
    <3>2. src[i] = LevelTable(v.levels[a], k)
      BY <1>1, <3>1
    <3>3. \/ LevelTable(v.levels[a], k) = {}
          \/ \E f \in v.levels[a] : LevelTable(v.levels[a], k) = ssts[f]
      <4>1. a \in Level
        BY <3>1
      <4> QED
        BY <1>2, <4>1, LevelTableExact
    <3> QED
      BY <3>1, <3>2, <3>3 DEF SourceKind
  <2> QED
    BY <2>1, <2>2, <2>3 DEF SourceKind
<1> HIDE DEF K
<1>4. Table({})
  BY DEF Table
<1>5. ASSUME NEW i \in DOMAIN src PROVE Table(src[i])
  <2>1. SourceKind(v, src, i)
    BY <1>3
  <2>2. \A f \in Files(v) : Table(ssts[f])
    BY <1>2 DEF Ordered
  <2> QED
    BY <1>1, <1>4, <2>1, <2>2, FilesMembers DEF SourceKind, ViewOrdered
<1>6. ASSUME NEW i \in DOMAIN src, NEW j \in DOMAIN src, i < j
      PROVE  src[i] = src[j] \/ NewerThan(src[i], src[j])
  <2>1. SourceKind(v, src, i) /\ SourceKind(v, src, j)
    BY <1>3
  <2>2. i \in Nat /\ j \in Nat /\ i >= 1
    BY <1>1
  <2>3. \A S : NewerThan(S, {}) /\ NewerThan({}, S)
    BY DEF NewerThan
  <2>4. CASE i = 1
    <3>1. \A f \in Files(v) : NewerThan(m, ssts[f])
      BY PartsNewerApart, SstMembers DEF ViewOrdered
    <3> QED
      BY <1>1, <1>6, <2>1, <2>2, <2>3, <2>4, <3>1, FilesMembers DEF SourceKind, ViewOrdered
  <2>5. CASE i = 2
    <3>1. j # 1 /\ j # 2
      BY <1>6, <2>2, <2>5
    <3> QED
      BY <1>1, <2>1, <2>3, <2>5, <3>1, FilesMembers DEF SourceKind, ViewOrdered
  <2>6. CASE \E a \in 1..L : i = 2 + a /\ src[i] = ssts[v.l0[a]]
    <3>1. PICK a \in 1..L : i = 2 + a /\ src[i] = ssts[v.l0[a]]
      BY <2>6
    <3>2. j # 1 /\ j # 2
      BY <1>1, <1>6, <2>2, <3>1
    <3>3. CASE \E b \in 1..L : j = 2 + b /\ src[j] = ssts[v.l0[b]]
      <4>1. PICK b \in 1..L : j = 2 + b /\ src[j] = ssts[v.l0[b]]
        BY <3>3
      <4>2. a < b
        BY <1>1, <1>6, <3>1, <4>1
      <4>3. v.l0[b] <= v.l0[a] /\ v.l0[a] \in FilesOf(v.l0) /\ v.l0[b] \in FilesOf(v.l0)
        BY <1>2, <4>2, FilesMembers DEF Ordered
      <4>4. v.l0[a] \in Nat /\ v.l0[b] \in Nat
        BY ElementOfSeq, FileNumbers DEF IsVersion
      <4>5. v.l0[a] = v.l0[b] \/ v.l0[b] < v.l0[a]
        BY <4>3, <4>4
      <4> QED
        BY <1>2, <3>1, <4>1, <4>3, <4>5 DEF Ordered
    <3>4. CASE \E b \in Level : j = 2 + L + b /\ (src[j] = {} \/ \E f \in v.levels[b] : src[j] = ssts[f])
      BY <1>2, <2>3, <3>1, <3>4, FilesMembers DEF Ordered
    <3> QED
      BY <2>1, <3>2, <3>3, <3>4 DEF SourceKind
  <2>7. CASE \E a \in Level : i = 2 + L + a /\ (src[i] = {} \/ \E f \in v.levels[a] : src[i] = ssts[f])
    <3>1. PICK a \in Level : i = 2 + L + a /\ (src[i] = {} \/ \E f \in v.levels[a] : src[i] = ssts[f])
      BY <2>7
    <3>2. a \in Nat /\ a >= 1 /\ i > 2 + L
      BY <1>1, <1>2, <3>1
    <3>3. j # 1 /\ j # 2 /\ \A b \in 1..L : j # 2 + b
      BY <1>1, <1>6, <2>2, <3>2
    <3>4. PICK b \in Level : j = 2 + L + b /\ (src[j] = {} \/ \E f \in v.levels[b] : src[j] = ssts[f])
      BY <2>1, <3>3 DEF SourceKind
    <3>5. a < b
      BY <1>1, <1>2, <1>6, <3>1, <3>4
    <3> QED
      BY <1>2, <2>3, <3>1, <3>4, <3>5 DEF Ordered
  <2> QED
    BY <2>1, <2>4, <2>5, <2>6, <2>7 DEF SourceKind
<1> QED
  BY <1>5, <1>6

-----------------------------------------------------------------------------
\* Everything a view holds.
ViewEntries(S, m, im, v) == m \cup im \cup SstEntries(S, v)

\* Two tables of a view hold no two entries with one internal key.
LEMMA NoClash ==
    ASSUME NEW S, Table(S), NEW T, Table(T),
           S = T \/ NewerThan(S, T) \/ NewerThan(T, S) \/ Apart(S, T),
           NEW e \in S, NEW f \in T, SameInternalKey(e, f)
    PROVE  e = f
<1>1. e \in Entry /\ f \in Entry /\ e.seq \in Nat /\ f.seq \in Nat
  BY DEF Table, Entry
<1>2. CASE S = T
  BY <1>2 DEF Table
<1>3. CASE NewerThan(S, T) \/ NewerThan(T, S)
  BY <1>1, <1>3 DEF NewerThan, SameInternalKey
<1>4. CASE Apart(S, T)
  <2>1. S \in SUBSET Entry /\ T \in SUBSET Entry
    BY DEF Table
  <2>2. e.key # f.key
    BY <1>4, <2>1, ApartKeys
  <2> QED
    BY <2>2 DEF SameInternalKey
<1> QED
  BY <1>2, <1>3, <1>4

\* So do the SSTs of a version.
LEMMA VersionTable ==
    ASSUME NEW S, NEW v, IsVersion(v), Ordered(S, v)
    PROVE  Table(SstEntries(S, v))
<1>1. \A f \in Files(v) : Table(S[f])
  BY DEF Ordered
<1>2. ASSUME NEW f \in Files(v), NEW g \in Files(v)
      PROVE  \/ S[f] = S[g] \/ NewerThan(S[f], S[g]) \/ NewerThan(S[g], S[f])
             \/ Apart(S[f], S[g])
  <2>1. f \in Nat /\ g \in Nat
    BY FilesAreFiles, FileNumbers
  <2>2. CASE f \in FilesOf(v.l0) /\ g \in FilesOf(v.l0)
    <3>1. f = g \/ f < g \/ g < f
      BY <2>1
    <3> QED
      BY <2>2, <3>1 DEF Ordered
  <2>3. CASE \/ f \in FilesOf(v.l0) /\ \E i \in Level : g \in v.levels[i]
             \/ g \in FilesOf(v.l0) /\ \E i \in Level : f \in v.levels[i]
    BY <2>3 DEF Ordered
  <2>4. CASE \E i, j \in Level : f \in v.levels[i] /\ g \in v.levels[j]
    <3>1. PICK i \in Level, j \in Level : f \in v.levels[i] /\ g \in v.levels[j]
      BY <2>4
    <3>2. i < j \/ j < i \/ i = j
      BY OptionsAssumption DEF Level
    <3>3. CASE i < j
      BY <3>1, <3>3 DEF Ordered
    <3>4. CASE j < i
      BY <3>1, <3>4 DEF Ordered
    <3>5. CASE i = j
      BY <3>1, <3>5 DEF Ordered
    <3> QED
      BY <3>2, <3>3, <3>4, <3>5
  <2> QED
    BY <2>2, <2>3, <2>4, FilesMembers
<1>3. ASSUME NEW e \in SstEntries(S, v), NEW h \in SstEntries(S, v), SameInternalKey(e, h)
      PROVE  e = h
  <2>1. PICK f \in Files(v) : e \in S[f]
    BY SstMembers
  <2>2. PICK g \in Files(v) : h \in S[g]
    BY SstMembers
  <2>3. Table(S[f]) /\ Table(S[g])
    BY <1>1
  <2>4. \/ S[f] = S[g] \/ NewerThan(S[f], S[g]) \/ NewerThan(S[g], S[f])
        \/ Apart(S[f], S[g])
    BY <1>2
  <2> QED
    BY <1>3, <2>1, <2>2, <2>3, <2>4, NoClash
<1>4. SstEntries(S, v) \subseteq Entry /\ \A e \in SstEntries(S, v) : e.seq <= kMaxSeq
  BY <1>1, SstMembers DEF Table
<1> QED
  BY <1>3, <1>4 DEF Table

\* And a whole view.
LEMMA ViewTable ==
    ASSUME NEW S, NEW m, NEW im, NEW v, IsVersion(v), ViewOrdered(S, m, im, v)
    PROVE  Table(ViewEntries(S, m, im, v))
<1> DEFINE D == SstEntries(S, v)
<1>1. Table(m) /\ Table(im) /\ Table(D) /\ Ordered(S, v)
  BY VersionTable DEF ViewOrdered
<1>2. ASSUME NEW e \in im, NEW h \in D, SameInternalKey(e, h) \/ SameInternalKey(h, e)
      PROVE  e = h
  <2>1. PICK f \in Files(v) : h \in S[f]
    BY SstMembers
  <2>2. S[f] = im \/ NewerThan(im, S[f])
    BY FilesMembers DEF ViewOrdered
  <2>3. Table(S[f]) /\ SameInternalKey(e, h)
    BY <1>1, <1>2 DEF Ordered, SameInternalKey
  <2> QED
    BY <1>1, <2>1, <2>2, <2>3, NoClash
<1>3. Table(im \cup D)
  BY <1>1, <1>2 DEF Table
<1>4. NewerThan(m, im \cup D)
  BY DEF ViewOrdered, NewerThan
<1>5. Table(m \cup (im \cup D))
  BY <1>1, <1>3, <1>4, NewerTables
<1>6. m \cup (im \cup D) = ViewEntries(S, m, im, v)
  BY DEF ViewEntries
<1> QED
  BY <1>5, <1>6

\* What Scan merges is everything the view holds.
LEMMA AllEntriesIs ==
    ASSUME NEW m, NEW im, NEW v
    PROVE  AllEntries(View(m, im, v)) = ViewEntries(ssts, m, im, v)
<1>1. AllEntries(View(m, im, v)) =
        m \cup im \cup (UNION {ssts[v.l0[i]] : i \in 1..Len(v.l0)})
          \cup (UNION {ssts[f] : f \in UNION {v.levels[i] : i \in Level}})
  BY DEF AllEntries, View
<1>2. UNION {ssts[v.l0[i]] : i \in 1..Len(v.l0)} = UNION {ssts[f] : f \in FilesOf(v.l0)}
  BY DEF FilesOf
<1> QED
  BY <1>1, <1>2 DEF ViewEntries, SstEntries, Files

\* An ordered view: the first table with a visible version of the key holds the
\* newest visible version of all, so Get and Scan agree.
THEOREM LookupExact ==
    ASSUME ssts \in [File -> SUBSET Entry], NEW m, NEW im, NEW v, IsVersion(v),
           ViewOrdered(ssts, m, im, v), NEW k \in Key, NEW s \in Nat
    PROVE  LookupIn(View(m, im, v), k, s) = ValueIn(ViewEntries(ssts, m, im, v), k, s)
<1> DEFINE src  == Sources(View(m, im, v), k)
           all  == ViewEntries(ssts, m, im, v)
           hits == {i \in DOMAIN src : Visible(src[i], k, s) # {}}
           hit  == CHOOSE i \in hits : \A j \in hits : i <= j
<1>1. /\ \A i \in DOMAIN src : Table(src[i])
      /\ \A i, j \in DOMAIN src : i < j => src[i] = src[j] \/ NewerThan(src[i], src[j])
  BY SourcesOrdered
<1>2. LookupIn(View(m, im, v), k, s) =
        IF hits = {} THEN NotFound ELSE ValueIn(src[hit], k, s)
  BY DEF LookupIn
<1>3. SourcesShape(m, im, v, k, src)
  BY SourcesAt
<1>4. ASSUME NEW e \in all, e.key = k PROVE \E i \in DOMAIN src : e \in src[i]
  <2> HIDE DEF src
  <2>1. CASE e \in m \/ e \in im
    <3>1. 1 \in DOMAIN src /\ 2 \in DOMAIN src
      BY <1>3 DEF SourcesShape
    <3> QED
      BY <1>3, <2>1, <3>1 DEF SourcesShape
  <2>2. CASE e \in SstEntries(ssts, v)
    <3>1. PICK f \in Files(v) : e \in ssts[f]
      BY <2>2, SstMembers
    <3>2. CASE f \in FilesOf(v.l0)
      <4>1. PICK a \in 1..Len(v.l0) : f = v.l0[a]
        BY <3>2, FilesMembers
      <4>2. 2 + a \in DOMAIN src
        BY <1>3 DEF SourcesShape
      <4> QED
        BY <1>3, <3>1, <4>1, <4>2 DEF SourcesShape
    <3>3. CASE \E i \in Level : f \in v.levels[i]
      <4>1. PICK a \in Level : f \in v.levels[a]
        BY <3>3
      <4>2. Ordered(ssts, v)
        BY DEF ViewOrdered
      <4>3. e \in LevelTable(v.levels[a], k)
        BY <1>4, <3>1, <4>1, <4>2, LevelTableExact
      <4>4. 2 + Len(v.l0) + a \in DOMAIN src
        BY <1>3 DEF SourcesShape, Level
      <4> QED
        BY <1>3, <4>3, <4>4 DEF SourcesShape
    <3> QED
      BY <3>1, <3>2, <3>3, FilesMembers
  <2> QED
    BY <1>4, <2>1, <2>2 DEF ViewEntries
<1>5. ASSUME NEW i \in DOMAIN src, NEW e \in src[i] PROVE e \in all
  <2> HIDE DEF src
  <2>1. Ordered(ssts, v)
    BY DEF ViewOrdered
  <2>2. i \in 1..2 + Len(v.l0) + (kMaxLevels - 1) /\ Len(v.l0) \in Nat /\ kMaxLevels - 1 \in Nat
    BY <1>3 DEF SourcesShape
  <2>3. i = 1 \/ i = 2 \/ (\E a \in 1..Len(v.l0) : i = 2 + a) \/ (\E a \in Level : i = 2 + Len(v.l0) + a)
    <3>1. \/ i = 1 \/ i = 2
          \/ i - 2 \in 1..Len(v.l0) /\ i = 2 + (i - 2)
          \/ i - (2 + Len(v.l0)) \in Level /\ i = 2 + Len(v.l0) + (i - (2 + Len(v.l0)))
      BY <2>2 DEF Level
    <3> QED
      BY <3>1
  <2>4. CASE i = 1 \/ i = 2
    BY <1>3, <1>5, <2>4 DEF SourcesShape, ViewEntries
  <2>5. CASE \E a \in 1..Len(v.l0) : i = 2 + a
    <3>1. PICK a \in 1..Len(v.l0) : i = 2 + a
      BY <2>5
    <3>2. e \in ssts[v.l0[a]] /\ v.l0[a] \in Files(v)
      BY <1>3, <1>5, <3>1, FilesMembers DEF SourcesShape
    <3> QED
      BY <3>2, SstMembers DEF ViewEntries
  <2>6. CASE \E a \in Level : i = 2 + Len(v.l0) + a
    <3>1. PICK a \in Level : i = 2 + Len(v.l0) + a
      BY <2>6
    <3>2. e \in LevelTable(v.levels[a], k)
      BY <1>3, <1>5, <3>1 DEF SourcesShape
    <3>3. \E f \in v.levels[a] : LevelTable(v.levels[a], k) = ssts[f]
      BY <2>1, <3>2, LevelTableExact
    <3>4. PICK f \in Files(v) : e \in ssts[f]
      BY <3>2, <3>3, FilesMembers
    <3> QED
      BY <3>4, SstMembers DEF ViewEntries
  <2> QED
    BY <2>3, <2>4, <2>5, <2>6
<1>6. Table(all)
  BY ViewTable
<1>7. hits \in SUBSET Nat
  <2> HIDE DEF src
  <2> QED BY <1>3 DEF SourcesShape
<1>8. CASE hits = {}
  <2>1. Visible(all, k, s) = {}
    BY <1>4, <1>8 DEF Visible
  <2> QED
    BY <1>2, <1>8, <2>1 DEF ValueIn
<1>9. CASE hits # {}
  <2>1. hit \in hits /\ \A j \in hits : hit <= j
    <3>1. \E i \in hits : \A j \in hits : i <= j
      <4> HIDE DEF hits
      <4> QED BY <1>7, <1>9, LeastExists
    <3> HIDE DEF hits
    <3> QED BY <3>1
  <2> HIDE DEF hit
  <2> DEFINE n == Newest(src[hit], k, s)
  <2>2. hit \in DOMAIN src /\ Table(src[hit]) /\ Visible(src[hit], k, s) # {}
    BY <1>1, <2>1
  <2>3. n \in Visible(src[hit], k, s) /\ \A f \in Visible(src[hit], k, s) : Tag(f) <= Tag(n)
    <3> HIDE DEF src
    <3> QED BY <2>2, NewestIsNewest
  <2>4. ValueIn(src[hit], k, s) = ValueOf(n)
    BY <2>2 DEF ValueIn
  <2> HIDE DEF n, src
  <2>5. n \in Visible(all, k, s) /\ n \in all /\ n.key = k /\ n \in src[hit]
    BY <1>5, <2>2, <2>3 DEF Visible
  <2>6. ASSUME NEW f \in Visible(all, k, s) PROVE Tag(f) <= Tag(n)
    <3>1. f \in all /\ f.key = k /\ f.seq <= s
      BY DEF Visible
    <3>2. PICK j \in DOMAIN src : f \in src[j]
      BY <1>4, <3>1
    <3>3. j \in hits
      BY <3>1, <3>2 DEF Visible
    <3>4. hit \in Nat /\ j \in Nat /\ hit <= j
      BY <1>7, <2>1, <3>3
    <3>5. CASE f \in src[hit]
      BY <2>3, <3>1, <3>5 DEF Visible
    <3>6. CASE f \notin src[hit]
      <4>1. hit < j
        BY <3>2, <3>4, <3>6
      <4>2. NewerThan(src[hit], src[j])
        BY <1>1, <2>2, <3>2, <3>6, <4>1
      <4>3. f.seq < n.seq
        BY <2>5, <3>1, <3>2, <4>2 DEF NewerThan
      <4>4. Tag(f) < Tag(n) /\ Tag(f) \in Nat /\ Tag(n) \in Nat
        BY <1>6, <2>5, <3>1, <4>3, TagOrder
      <4> QED
        BY <4>4
    <3> QED
      BY <3>5, <3>6
  <2>7. ValueIn(all, k, s) = ValueOf(n)
    <3> HIDE DEF all
    <3> QED BY <1>6, <2>5, <2>6, AnswerIs
  <2> QED
    BY <1>2, <1>9, <2>4, <2>7 DEF src
<1> QED
  BY <1>8, <1>9

-----------------------------------------------------------------------------
(***************************************************************************)
(* The inductive invariant.                                                *)
(***************************************************************************)

MemOf(n) == IF n = NoFile THEN {} ELSE memtables[n]

LiveEntries == ViewEntries(ssts, memtables[logNumber], ImmTable, current)

ReaderEntries(r) ==
    ViewEntries(ssts, memtables[readers[r].mem], MemOf(readers[r].imm), readers[r].ver)

\* The records of a log.
Records(log) == {log[i] : i \in 1..Len(log)}

\* The versions a thread or a later Open may read.
InUse == {current, manifest} \cup {readers[r].ver : r \in Reader}

\* What Get and Scan would copy now is in order.
LiveOrdered ==
    status = "up" => ViewOrdered(ssts, memtables[logNumber], ImmTable, current)

\* So is what the running Gets and Scans have copied.
ReadersOrdered ==
    \A r \in Reader : readers[r] # NoRead =>
        ViewOrdered(ssts, memtables[readers[r].mem], MemOf(readers[r].imm), readers[r].ver)

\* And what Open would find: the published SSTs are in order, and the logs at
\* or above the floor are newer.  The live log is newer than all that a flush
\* or a compaction may publish beside it.
DiskOrdered ==
    /\ Ordered(ssts, manifest)
    /\ \A n \in File : manifest.floor <= n =>
          NewerThan(Records(logs[n]), SstEntries(ssts, manifest))
    /\ status = "up" =>
          /\ NewerThan(Records(logs[logNumber]), ImmTable)
          /\ NewerThan(Records(logs[logNumber]), SstEntries(ssts, current))
          /\ \A n \in File : logNumber < n => logs[n] = <<>>
    /\ status # "up" => \A n \in File \ logFiles : logs[n] = <<>>

\* Sequence numbers: none is handed out twice to entries that can meet in one
\* view, and kMaxSeq is never reached.
Sequences ==
    /\ nextSeq <= calls + 1
    /\ \A n \in File : \A e \in Records(logs[n]) : e.seq <= calls
    /\ \A e \in SstEntries(ssts, manifest) : e.seq <= calls /\ (status = "up" => e.seq < nextSeq)
    /\ status = "up" => \A e \in LiveEntries : e.seq < nextSeq
    /\ \A s \in Snap : snaps[s] # kMaxSeq => snaps[s] < nextSeq
    /\ \A r \in Reader : readers[r] # NoRead =>
          /\ readers[r].seq = kMaxSeq \/ readers[r].seq < nextSeq
          /\ \A e \in ReaderEntries(r) : e.seq < nextSeq

\* File numbers: what is in use is below next_file_number_, and a memtable a
\* reader copied is the live one or one that takes no more writes.  A closed
\* engine has no readers, no snapshots and no memtables.
Numbers ==
    /\ status = "up" =>
          /\ \A v \in InUse : \A f \in Files(v) : f < nextFile
          /\ \A n \in File : nextFile <= n => memtables[n] = {}
          /\ \A r \in Reader : readers[r] # NoRead =>
                /\ readers[r].mem \in File /\ readers[r].mem <= logNumber
                /\ readers[r].imm < logNumber
    /\ status # "up" =>
          /\ \A r \in Reader : readers[r] = NoRead
          /\ \A s \in Snap : snaps[s] = kMaxSeq
          /\ \A n \in File : memtables[n] = {}

\* The flush: its SST, wherever it is already listed, holds the immutable
\* memtable, and is newer than the rest of L0.
FlushState ==
    /\ imm # NoFile =>
          /\ memtables[imm] # {} /\ immSst < nextFile
          /\ \A f \in FilesOf(current.l0) :
                f <= immSst /\ (f < immSst => NewerThan(memtables[imm], ssts[f]))
          /\ \A v \in InUse : immSst \in Files(v) => ssts[immSst] = memtables[imm]
    /\ bg = "install_flush" => ssts[immSst] = memtables[imm]
    /\ bg \in {"unlink_log", "flushed"} => immSst \in FilesOf(current.l0)

\* The entries a compaction merges.
Inputs == UNION {ssts[f] : f \in job.inA \cup job.inB}

\* The compaction: all of L0 or files of one level, with every file of the next
\* level whose key range meets theirs.  A memtable rotated meanwhile is not
\* flushed before it ends.
JobPlan ==
    bg \in {"floor", "merge"} =>
        /\ job.src + 1 \in Level
        /\ IF job.src = 0 THEN job.inA = FilesOf(current.l0)
                          ELSE job.inA \subseteq current.levels[job.src]
        /\ job.inB \subseteq current.levels[job.src + 1]
        /\ \A g \in current.levels[job.src + 1] \ job.inB : Apart(ssts[g], Inputs)
        /\ bg = "floor" => job.outs = {}
        /\ imm # NoFile => immSst \notin FilesOf(current.l0)

\* Its outputs, with what is left to write, are what the retention rule keeps,
\* cut between keys; and the floor is at or below every live snapshot, or the
\* snapshot is above every input version.
JobOutput ==
    bg = "merge" =>
        /\ job.todo \cup UNION {ssts[f] : f \in job.outs} =
              Retain(Inputs, job.floor, job.src + 1 = kMaxLevels - 1)
        /\ job.floor <= kMaxSeq
        /\ \A s \in Snap : job.floor <= snaps[s] \/ \A e \in Inputs : e.seq <= snaps[s]
        /\ \A f \in job.outs :
              /\ ssts[f] # {} /\ f < nextFile /\ (imm # NoFile => f # immSst)
              /\ \A e \in ssts[f], t \in job.todo : e.key < t.key
              /\ \A g \in job.outs : f # g => Apart(ssts[f], ssts[g])

\* The live view answers with the acknowledged writes, and through a snapshot
\* with those before it.
Answers ==
    status = "up" => \A k \in Key :
        /\ ValueIn(LiveEntries, k, kMaxSeq) = store[k]
        /\ \A s \in Snap : snaps[s] # kMaxSeq => ValueIn(LiveEntries, k, snaps[s]) = views[s][k]

\* A copied view answers with what was acknowledged at some moment since.
ReaderAnswers ==
    \A r \in Reader : readers[r] # NoRead => \A k \in Key :
        ValueIn(ReaderEntries(r), k, readers[r].seq) \in readers[r].ok[k]

\* All of it.  Flushes and compactions are the middle part.
CoreInv == LiveOrdered /\ ReadersOrdered /\ DiskOrdered /\ Sequences /\ Numbers
             /\ Answers /\ ReaderAnswers
WorkInv == FlushState /\ JobPlan /\ JobOutput
ReadInv == CoreInv /\ WorkInv

-----------------------------------------------------------------------------
\* Types of the versions in use.
LEMMA VersionTypes ==
    ASSUME TypeInv
    PROVE  /\ IsVersion(current) /\ IsVersion(manifest)
           /\ \A r \in Reader : IsVersion(readers[r].ver)
           /\ ssts \in [File -> SUBSET Entry]
           /\ \A v \in InUse : IsVersion(v) /\ Files(v) \subseteq File
<1>1. /\ IsVersion(current) /\ IsVersion(manifest)
      /\ \A r \in Reader : IsVersion(readers[r].ver)
  BY DEF TypeInv, TypeOK, MemoryType, DiskType, ThreadType, Read, Version, Manifest, IsVersion
<1>2. \A v \in InUse : IsVersion(v)
  BY <1>1 DEF InUse
<1> QED
  BY <1>1, <1>2, FilesAreFiles DEF TypeInv, TypeOK, DiskType

\* The entries of a version are entries.
LEMMA SstEntriesType ==
    ASSUME NEW S \in [File -> SUBSET Entry], NEW v, IsVersion(v)
    PROVE  SstEntries(S, v) \subseteq Entry
BY FilesAreFiles DEF SstEntries

\* Order and contents of a version depend on its own files only.
LEMMA SameSsts ==
    ASSUME NEW S, NEW T, NEW v, \A f \in Files(v) : T[f] = S[f]
    PROVE  /\ SstEntries(T, v) = SstEntries(S, v)
           /\ Ordered(S, v) => Ordered(T, v)
           /\ \A m, im : /\ ViewEntries(T, m, im, v) = ViewEntries(S, m, im, v)
                         /\ ViewOrdered(S, m, im, v) => ViewOrdered(T, m, im, v)
<1>1. SstEntries(T, v) = SstEntries(S, v)
  BY DEF SstEntries
<1>2. Ordered(S, v) => Ordered(T, v)
  <2> SUFFICES ASSUME Ordered(S, v) PROVE Ordered(T, v)
    OBVIOUS
  <2>1. \A f \in FilesOf(v.l0) : T[f] = S[f]
    BY FilesMembers
  <2>2. \A i \in Level : \A f \in v.levels[i] : T[f] = S[f]
    BY FilesMembers
  <2>3. \A f \in Files(v) : T[f] # {} /\ Table(T[f])
    BY DEF Ordered
  <2>4. /\ \A i, j \in 1..Len(v.l0) : i < j => v.l0[j] <= v.l0[i]
        /\ \A f, g \in FilesOf(v.l0) : g < f => NewerThan(T[f], T[g])
        /\ \A f \in FilesOf(v.l0), i \in Level : \A g \in v.levels[i] : NewerThan(T[f], T[g])
    BY <2>1, <2>2 DEF Ordered
  <2>5. /\ \A i, j \in Level : i < j =>
              \A f \in v.levels[i], g \in v.levels[j] : NewerThan(T[f], T[g])
        /\ \A i \in Level : \A f, g \in v.levels[i] : f # g => Apart(T[f], T[g])
    BY <2>2 DEF Ordered
  <2> QED
    BY <2>3, <2>4, <2>5 DEF Ordered
<1>3. ASSUME NEW m, NEW im
      PROVE  /\ ViewEntries(T, m, im, v) = ViewEntries(S, m, im, v)
             /\ ViewOrdered(S, m, im, v) => ViewOrdered(T, m, im, v)
  <2>1. \A f \in FilesOf(v.l0) : T[f] = S[f]
    BY FilesMembers
  <2>2. \A i \in Level : \A f \in v.levels[i] : T[f] = S[f]
    BY FilesMembers
  <2> QED
    BY <1>1, <1>2, <2>1, <2>2 DEF ViewEntries, ViewOrdered
<1> QED
  BY <1>1, <1>2, <1>3

\* A read of everything below nextSeq and a read at kMaxSeq see the same.
LEMMA ReadAtTop ==
    ASSUME NEW T \in SUBSET Entry, NEW q \in Nat, q <= kMaxSeq, \A e \in T : e.seq <= q, NEW k
    PROVE  ValueIn(T, k, q) = ValueIn(T, k, kMaxSeq)
<1>1. Visible(T, k, q) = Visible(T, k, kMaxSeq)
  BY CallsAssumption DEF Visible, Entry
<1> QED
  BY <1>1, SameVisible

-----------------------------------------------------------------------------
(***************************************************************************)
(* Steps that leave the live view as it is: they write tables nobody reads *)
(* yet, retire logs, take or drop captures and snapshots.                  *)
(***************************************************************************)

\* A reader goes on, ends, or starts from the live view.
ReaderStep(r) ==
    \/ readers'[r] \in {readers[r], NoRead}
    \/ /\ status = "up"
       /\ \/ readers'[r] = Capture(kMaxSeq, store)
          \/ \E s \in Snap : snaps[s] # kMaxSeq /\ readers'[r] = Capture(snaps[s], views[s])

\* A snapshot stays, ends, or is taken of the live view.
SnapshotStep(s) ==
    \/ snaps'[s] = snaps[s] /\ views'[s] = views[s]
    \/ snaps'[s] = kMaxSeq
    \/ status = "up" /\ snaps'[s] = nextSeq - 1 /\ views'[s] = store

Quiet ==
    /\ UNCHANGED <<status, nextSeq, logNumber, memtables, imm, immSst, current, manifest,
                   calls, store>>
    /\ \A v \in InUse : \A f \in Files(v) : ssts'[f] = ssts[f]
    /\ nextFile <= nextFile'
    /\ \A n \in File : logs'[n] = logs[n] \/ logs'[n] = <<>>
    /\ status = "up"
    /\ \A r \in Reader : ReaderStep(r)
    /\ \A s \in Snap : SnapshotStep(s)

\* A log loses records or keeps them.
LEMMA FewerRecords ==
    ASSUME NEW log, NEW new, new = log \/ new = <<>>
    PROVE  Records(new) \subseteq Records(log)
BY DEF Records

\* A reader after a quiet step: unchanged, gone, or a copy of the live view
\* that is asked for the latest state or for a live snapshot.
LEMMA QuietReader ==
    ASSUME TypeInv, LogInv, ReadInv, Quiet, NEW r \in Reader, readers'[r] # NoRead
    PROVE  \/ readers'[r] = readers[r] /\ readers[r] # NoRead
           \/ /\ status = "up"
              /\ readers'[r].mem = logNumber /\ readers'[r].imm = imm /\ readers'[r].ver = current
              /\ \/ /\ readers'[r].seq = kMaxSeq
                    /\ \A k \in Key : readers'[r].ok[k] = {store[k]}
                 \/ \E s \in Snap : /\ snaps[s] # kMaxSeq /\ readers'[r].seq = snaps[s]
                                    /\ \A k \in Key : readers'[r].ok[k] = {views[s][k]}
<1>1. ReaderStep(r)
  BY DEF Quiet
<1>2. ASSUME NEW q, NEW map, readers'[r] = Capture(q, map)
      PROVE  /\ readers'[r].mem = logNumber /\ readers'[r].imm = imm /\ readers'[r].ver = current
             /\ readers'[r].seq = q /\ \A k \in Key : readers'[r].ok[k] = {map[k]}
  BY <1>2 DEF Capture
<1>3. CASE readers'[r] \in {readers[r], NoRead}
  BY <1>3
<1>4. CASE status = "up" /\ readers'[r] = Capture(kMaxSeq, store)
  BY <1>2, <1>4
<1>5. CASE /\ status = "up"
           /\ \E s \in Snap : snaps[s] # kMaxSeq /\ readers'[r] = Capture(snaps[s], views[s])
  <2>1. PICK s \in Snap : snaps[s] # kMaxSeq /\ readers'[r] = Capture(snaps[s], views[s])
    BY <1>5
  <2> QED
    BY <1>2, <1>5, <2>1
<1> QED
  BY <1>1, <1>3, <1>4, <1>5 DEF ReaderStep

\* A quiet step leaves the core of the invariant in place.
LEMMA QuietCore == TypeInv /\ TypeInv' /\ LogInv /\ ReadInv /\ Quiet => CoreInv'
<1> SUFFICES ASSUME TypeInv, TypeInv', LogInv, ReadInv, Quiet PROVE CoreInv'
  OBVIOUS
<1>1. /\ UNCHANGED <<status, nextSeq, logNumber, memtables, imm, immSst, current, manifest,
                     calls, store>>
      /\ \A f \in Files(current) : ssts'[f] = ssts[f]
      /\ \A f \in Files(manifest) : ssts'[f] = ssts[f]
      /\ \A r \in Reader : \A f \in Files(readers[r].ver) : ssts'[f] = ssts[f]
      /\ ImmTable' = ImmTable
  BY DEF Quiet, InUse, ImmTable
<1>2. /\ SstEntries(ssts', current) = SstEntries(ssts, current)
      /\ SstEntries(ssts', manifest) = SstEntries(ssts, manifest)
      /\ Ordered(ssts, manifest) => Ordered(ssts', manifest)
      /\ LiveEntries' = LiveEntries
  BY <1>1, SameSsts DEF LiveEntries
<1>3. LiveOrdered'
  BY <1>1, SameSsts DEF ReadInv, CoreInv, LiveOrdered
<1>4. DiskOrdered'
  <2>1. \A n \in File : Records(logs'[n]) \subseteq Records(logs[n])
    BY FewerRecords DEF Quiet
  <2>2. Ordered(ssts', manifest')
    BY <1>1, <1>2 DEF ReadInv, CoreInv, DiskOrdered
  <2>3. \A n \in File : manifest'.floor <= n =>
            NewerThan(Records(logs'[n]), SstEntries(ssts', manifest'))
    BY <1>1, <1>2, <2>1, PartsNewerApart DEF ReadInv, CoreInv, DiskOrdered
  <2>4. status' = "up" =>
            /\ NewerThan(Records(logs'[logNumber']), ImmTable')
            /\ NewerThan(Records(logs'[logNumber']), SstEntries(ssts', current'))
            /\ \A n \in File : logNumber' < n => logs'[n] = <<>>
    <3>1. logNumber \in File
      BY DEF TypeInv, TypeOK, MemoryType
    <3>2. status = "up" => \A n \in File : logNumber < n => logs'[n] = <<>>
      BY DEF Quiet, ReadInv, CoreInv, DiskOrdered
    <3> QED
      BY <1>1, <1>2, <2>1, <3>1, <3>2, PartsNewerApart DEF ReadInv, CoreInv, DiskOrdered
  <2>5. status' = "up"
    BY DEF Quiet
  <2> QED
    BY <2>2, <2>3, <2>4, <2>5 DEF DiskOrdered
<1>5. ASSUME NEW r \in Reader, readers'[r] # NoRead
      PROVE  \/ /\ readers'[r] = readers[r] /\ readers[r] # NoRead
                /\ ReaderEntries(r)' = ReaderEntries(r)
             \/ /\ status = "up"
                /\ ReaderEntries(r)' = LiveEntries
                /\ ViewOrdered(ssts', memtables[logNumber], ImmTable, current)
                /\ memtables'[readers'[r].mem] = memtables[logNumber]
                /\ MemOf(readers[r].imm)' = ImmTable
                /\ readers'[r].mem = logNumber /\ readers'[r].imm = imm /\ readers'[r].ver = current
                /\ \/ /\ readers'[r].seq = kMaxSeq
                      /\ \A k \in Key : readers'[r].ok[k] = {store[k]}
                   \/ \E s \in Snap : /\ snaps[s] # kMaxSeq /\ readers'[r].seq = snaps[s]
                                      /\ \A k \in Key : readers'[r].ok[k] = {views[s][k]}
  <2>1. CASE readers'[r] = readers[r] /\ readers[r] # NoRead
    <3>1. ReaderEntries(r)' = ViewEntries(ssts', memtables[readers[r].mem], MemOf(readers[r].imm), readers[r].ver)
      BY <1>1, <2>1 DEF ReaderEntries, MemOf
    <3>2. ReaderEntries(r)' = ReaderEntries(r)
      BY <1>1, <3>1, SameSsts DEF ReaderEntries
    <3> QED
      BY <2>1, <3>2
  <2>2. CASE /\ status = "up"
             /\ readers'[r].mem = logNumber /\ readers'[r].imm = imm /\ readers'[r].ver = current
             /\ \/ /\ readers'[r].seq = kMaxSeq
                   /\ \A k \in Key : readers'[r].ok[k] = {store[k]}
                \/ \E s \in Snap : /\ snaps[s] # kMaxSeq /\ readers'[r].seq = snaps[s]
                                   /\ \A k \in Key : readers'[r].ok[k] = {views[s][k]}
    <3>1. /\ memtables'[readers'[r].mem] = memtables[logNumber]
          /\ MemOf(readers[r].imm)' = ImmTable
      BY <1>1, <2>2 DEF MemOf, ImmTable
    <3>2. ReaderEntries(r)' = LiveEntries
      BY <1>1, <1>2, <2>2, <3>1 DEF ReaderEntries, LiveEntries
    <3>3. ViewOrdered(ssts', memtables[logNumber], ImmTable, current)
      BY <1>1, <1>3, <2>2 DEF LiveOrdered
    <3> QED
      BY <2>2, <3>1, <3>2, <3>3
  <2> QED
    BY <1>5, <2>1, <2>2, QuietReader
<1>6. ReadersOrdered'
  <2> SUFFICES ASSUME NEW r \in Reader, readers'[r] # NoRead
               PROVE  ViewOrdered(ssts', memtables'[readers'[r].mem], MemOf(readers[r].imm)', readers'[r].ver)
    BY DEF ReadersOrdered
  <2>1. CASE readers'[r] = readers[r] /\ readers[r] # NoRead
    <3>1. ViewOrdered(ssts, memtables[readers[r].mem], MemOf(readers[r].imm), readers[r].ver)
      BY <2>1 DEF ReadInv, CoreInv, ReadersOrdered
    <3>2. MemOf(readers[r].imm)' = MemOf(readers[r].imm)
      BY <1>1, <2>1 DEF MemOf
    <3>3. ViewOrdered(ssts', memtables[readers[r].mem], MemOf(readers[r].imm), readers[r].ver)
      BY <1>1, <3>1, SameSsts
    <3> QED
      BY <1>1, <2>1, <3>2, <3>3
  <2>2. CASE ~(readers'[r] = readers[r] /\ readers[r] # NoRead)
    BY <1>5, <2>2
  <2> QED
    BY <2>1, <2>2
<1>7. Sequences'
  <2>1. \A n \in File : \A e \in Records(logs'[n]) : e.seq <= calls'
    BY <1>1, FewerRecords DEF Quiet, ReadInv, CoreInv, Sequences
  <2>2. nextSeq \in Nat \ {0}
    BY DEF TypeInv, TypeOK, MemoryType
  <2>3. \A s \in Snap : snaps'[s] # kMaxSeq => snaps'[s] < nextSeq'
    <3> SUFFICES ASSUME NEW s \in Snap, snaps'[s] # kMaxSeq PROVE snaps'[s] < nextSeq
      BY <1>1
    <3>1. SnapshotStep(s)
      BY DEF Quiet
    <3> QED
      BY <2>2, <3>1 DEF SnapshotStep, ReadInv, CoreInv, Sequences
  <2>4. ASSUME NEW r \in Reader, readers'[r] # NoRead
        PROVE  /\ readers'[r].seq = kMaxSeq \/ readers'[r].seq < nextSeq
               /\ \A e \in ReaderEntries(r)' : e.seq < nextSeq
    <3>1. CASE readers'[r] = readers[r] /\ readers[r] # NoRead
      BY <1>5, <2>4, <3>1 DEF ReadInv, CoreInv, Sequences
    <3>2. CASE ~(readers'[r] = readers[r] /\ readers[r] # NoRead)
      BY <1>5, <2>4, <3>2 DEF ReadInv, CoreInv, Sequences
    <3> QED
      BY <3>1, <3>2
  <2>5. /\ nextSeq' <= calls' + 1
        /\ \A e \in SstEntries(ssts', manifest') : e.seq <= calls' /\ (status' = "up" => e.seq < nextSeq')
        /\ status' = "up" => \A e \in LiveEntries' : e.seq < nextSeq'
    BY <1>1, <1>2 DEF ReadInv, CoreInv, Sequences
  <2> QED
    BY <1>1, <2>1, <2>3, <2>4, <2>5 DEF Sequences
<1>8. Numbers'
  <2>1. ASSUME status = "up", NEW r \in Reader, readers'[r] # NoRead
        PROVE  /\ readers'[r].mem \in File /\ readers'[r].mem <= logNumber
               /\ readers'[r].imm < logNumber
    <3>1. logNumber \in File /\ logNumber \in Nat \ {0}
      BY FileNumbers DEF TypeInv, TypeOK, MemoryType
    <3>2. imm < logNumber
      BY <3>1 DEF LogInv, NoFile
    <3> QED
      BY <2>1, <3>1, <3>2, QuietReader DEF ReadInv, CoreInv, Numbers
  <2>2. ASSUME status = "up" PROVE /\ \A v \in InUse' : \A f \in Files(v) : f < nextFile'
                                   /\ \A n \in File : nextFile' <= n => memtables'[n] = {}
    <3>1. nextFile \in Nat /\ nextFile' \in Nat /\ nextFile <= nextFile'
      BY BoundsAssumption DEF TypeInv, TypeOK, MemoryType, Quiet
    <3>2. \A v \in InUse' : v \in InUse \/ Files(v) = {}
      <4>1. Files(EmptyVersion) = {}
        BY DEF Files, FilesOf, EmptyVersion
      <4>2. ASSUME NEW r \in Reader PROVE readers'[r].ver \in InUse \/ readers'[r].ver = EmptyVersion
        <5>1. readers'[r] = NoRead => readers'[r].ver = EmptyVersion
          BY DEF NoRead
        <5>2. readers'[r] # NoRead => readers'[r].ver \in {readers[r].ver, current}
          BY QuietReader
        <5> QED
          BY <5>1, <5>2 DEF InUse
      <4> QED
        BY <1>1, <4>1, <4>2 DEF InUse
    <3>3. \A v \in InUse : Files(v) \subseteq Nat
      BY VersionTypes, FileNumbers
    <3>4. ASSUME NEW v \in InUse', NEW f \in Files(v) PROVE f < nextFile'
      <4>1. v \in InUse
        BY <3>2
      <4>2. f < nextFile /\ f \in Nat
        BY <2>2, <3>3, <4>1 DEF ReadInv, CoreInv, Numbers
      <4> QED
        BY <3>1, <4>2
    <3>5. ASSUME NEW n \in File, nextFile' <= n PROVE memtables'[n] = {}
      <4>1. nextFile <= n
        BY <3>1, <3>5, FileNumbers
      <4> QED
        BY <1>1, <2>2, <4>1 DEF ReadInv, CoreInv, Numbers
    <3> QED
      BY <3>4, <3>5
  <2>3. status' = "up"
    BY DEF Quiet
  <2> QED
    BY <1>1, <2>1, <2>2, <2>3 DEF Numbers
<1>9. Answers'
  <2> SUFFICES ASSUME status = "up", NEW k \in Key
               PROVE  /\ ValueIn(LiveEntries, k, kMaxSeq) = store[k]
                      /\ \A s \in Snap : snaps'[s] # kMaxSeq =>
                            ValueIn(LiveEntries, k, snaps'[s]) = views'[s][k]
    BY <1>1, <1>2 DEF Answers
  <2>1. ValueIn(LiveEntries, k, kMaxSeq) = store[k]
    BY DEF ReadInv, CoreInv, Answers
  <2>2. ASSUME NEW s \in Snap, snaps'[s] # kMaxSeq
        PROVE  ValueIn(LiveEntries, k, snaps'[s]) = views'[s][k]
    <3>1. CASE snaps'[s] = snaps[s] /\ views'[s] = views[s]
      BY <2>2, <3>1 DEF ReadInv, CoreInv, Answers
    <3>2. CASE snaps'[s] = nextSeq - 1 /\ views'[s] = store
      <4>1. nextSeq \in Nat \ {0} /\ calls \in Nat /\ calls <= MaxCalls
        BY CallsAssumption DEF TypeInv, TypeOK, MemoryType, HistoryType
      <4>2. nextSeq - 1 \in Nat /\ nextSeq - 1 <= kMaxSeq
        BY <4>1, CallsAssumption DEF ReadInv, CoreInv, Sequences
      <4>3. LiveEntries \in SUBSET Entry
        <5>1. Table(LiveEntries)
          BY VersionTypes, ViewTable DEF ReadInv, CoreInv, LiveOrdered, LiveEntries
        <5> QED
          BY <5>1 DEF Table
      <4>4. \A e \in LiveEntries : e.seq <= nextSeq - 1
        <5>1. \A e \in LiveEntries : e.seq \in Nat /\ e.seq < nextSeq
          BY <4>3 DEF Entry, ReadInv, CoreInv, Sequences
        <5> QED
          BY <4>1, <5>1
      <4>5. ValueIn(LiveEntries, k, nextSeq - 1) = ValueIn(LiveEntries, k, kMaxSeq)
        BY <4>2, <4>3, <4>4, ReadAtTop
      <4> QED
        BY <2>1, <3>2, <4>5
    <3> QED
      BY <2>2, <3>1, <3>2 DEF Quiet, SnapshotStep
  <2> QED
    BY <2>1, <2>2
<1>10. ReaderAnswers'
  <2> SUFFICES ASSUME NEW r \in Reader, readers'[r] # NoRead, NEW k \in Key
               PROVE  ValueIn(ReaderEntries(r)', k, readers'[r].seq) \in readers'[r].ok[k]
    BY DEF ReaderAnswers
  <2>1. CASE readers'[r] = readers[r] /\ readers[r] # NoRead
    <3>1. ValueIn(ReaderEntries(r), k, readers[r].seq) \in readers[r].ok[k]
      BY <2>1 DEF ReadInv, CoreInv, ReaderAnswers
    <3>2. ReaderEntries(r)' = ViewEntries(ssts', memtables[readers[r].mem], MemOf(readers[r].imm), readers[r].ver)
      BY <1>1, <2>1 DEF ReaderEntries, MemOf
    <3>3. ReaderEntries(r)' = ReaderEntries(r)
      BY <1>1, <3>2, SameSsts DEF ReaderEntries
    <3> QED
      BY <2>1, <3>1, <3>3
  <2>2. CASE ~(readers'[r] = readers[r] /\ readers[r] # NoRead)
    <3>1. status = "up" /\ ReaderEntries(r)' = LiveEntries
      BY <1>5, <2>2
    <3>2. CASE readers'[r].seq = kMaxSeq /\ readers'[r].ok[k] = {store[k]}
      BY <3>1, <3>2 DEF ReadInv, CoreInv, Answers
    <3>3. CASE \E s \in Snap : /\ snaps[s] # kMaxSeq /\ readers'[r].seq = snaps[s]
                               /\ readers'[r].ok[k] = {views[s][k]}
      BY <3>1, <3>3 DEF ReadInv, CoreInv, Answers
    <3> QED
      BY <1>5, <2>2, <3>2, <3>3
  <2> QED
    BY <2>1, <2>2
<1> QED
  BY <1>3, <1>4, <1>6, <1>7, <1>8, <1>9, <1>10 DEF CoreInv

\* Numbers are numbers.
LEMMA NumberTypes ==
    ASSUME TypeInv
    PROVE  /\ nextFile \in Nat \ {0} /\ nextSeq \in Nat \ {0} /\ calls \in Nat /\ kMaxSeq \in Nat
           /\ logNumber \in File /\ logNumber \in Nat \ {0} /\ manifest.floor \in File
           /\ immSst \in Nat /\ imm \in Nat
           /\ imm # NoFile => imm \in File /\ immSst \in File
           /\ job.floor \in Nat /\ job.src \in Nat
<1>1. nextFile \in 2..MaxFile + 1 /\ MaxFile \in Nat
  BY BoundsAssumption DEF TypeInv, TypeOK, MemoryType
<1>2. nextFile \in Nat \ {0}
  BY <1>1
<1>3. nextSeq \in Nat \ {0} /\ calls \in Nat /\ kMaxSeq \in Nat
  BY CallsAssumption DEF TypeInv, TypeOK, MemoryType, HistoryType
<1>4. logNumber \in File /\ manifest.floor \in File
  BY DEF TypeInv, TypeOK, MemoryType, DiskType, Manifest
<1>5. imm \in File \cup {NoFile} /\ immSst \in File \cup {NoFile} /\ (imm # NoFile => immSst # NoFile)
  BY DEF TypeInv, TypeOK, MemoryType, FlushPending
<1>6. imm \in Nat /\ immSst \in Nat /\ (imm # NoFile => imm \in File /\ immSst \in File)
  BY <1>5, FileNumbers DEF NoFile
<1>7. job.floor \in Nat /\ job.src \in Nat
  <2>1. job.floor \in Nat /\ job.src \in 0..kMaxLevels - 1
    BY DEF TypeInv, TypeOK, ThreadType, Job
  <2> QED
    BY <2>1, OptionsAssumption
<1> QED
  BY <1>2, <1>3, <1>4, <1>6, <1>7, FileNumbers

\* The versions in use after a quiet step were in use before, or are empty.
LEMMA QuietInUse ==
    ASSUME TypeInv, LogInv, ReadInv, Quiet, NEW v \in InUse'
    PROVE  v \in InUse \/ Files(v) = {}
<1>1. Files(EmptyVersion) = {}
  BY DEF Files, FilesOf, EmptyVersion
<1>2. ASSUME NEW r \in Reader PROVE readers'[r].ver \in InUse \/ readers'[r].ver = EmptyVersion
  <2>1. readers'[r] = NoRead => readers'[r].ver = EmptyVersion
    BY DEF NoRead
  <2>2. readers'[r] # NoRead => readers'[r].ver \in {readers[r].ver, current}
    BY QuietReader
  <2> QED
    BY <2>1, <2>2 DEF InUse
<1> QED
  BY <1>1, <1>2 DEF InUse, Quiet

\* The flush during a quiet step.
LEMMA QuietFlush ==
    ASSUME TypeInv, TypeInv', LogInv, ReadInv, Quiet,
           imm # NoFile => ssts'[immSst] \in {ssts[immSst], memtables[imm]},
           bg' = "install_flush" => bg = "install_flush" \/ ssts'[immSst] = memtables[imm],
           bg' \in {"unlink_log", "flushed"} => bg \in {"unlink_log", "flushed"}
    PROVE  FlushState'
<1>1. UNCHANGED <<imm, immSst, memtables, current>> /\ nextFile <= nextFile'
  BY DEF Quiet
<1>2. ASSUME imm # NoFile
      PROVE  /\ memtables[imm] # {} /\ immSst < nextFile'
             /\ \A f \in FilesOf(current.l0) :
                   f <= immSst /\ (f < immSst => NewerThan(memtables[imm], ssts'[f]))
             /\ \A v \in InUse' : immSst \in Files(v) => ssts'[immSst] = memtables[imm]
  <2>1. /\ memtables[imm] # {} /\ immSst < nextFile
        /\ \A f \in FilesOf(current.l0) :
              f <= immSst /\ (f < immSst => NewerThan(memtables[imm], ssts[f]))
        /\ \A v \in InUse : immSst \in Files(v) => ssts[immSst] = memtables[imm]
    BY <1>2 DEF ReadInv, WorkInv, FlushState
  <2>2. \A f \in FilesOf(current.l0) : ssts'[f] = ssts[f]
    BY FilesMembers DEF Quiet, InUse
  <2>3. nextFile \in Nat /\ immSst \in Nat
    BY NumberTypes
  <2>3a. nextFile' \in Nat
    BY BoundsAssumption DEF TypeInv, TypeOK, MemoryType
  <2>4. \A v \in InUse' : immSst \in Files(v) => ssts'[immSst] = memtables[imm]
    BY <1>2, <2>1, QuietInUse
  <2> QED
    BY <1>1, <2>1, <2>2, <2>3, <2>3a, <2>4
<1>3. bg' = "install_flush" => ssts'[immSst] = memtables[imm]
  <2>1. bg = "install_flush" => ssts[immSst] = memtables[imm] /\ imm # NoFile
    BY DEF ReadInv, WorkInv, FlushState, TypeInv, FlushPending, Flushing
  <2> QED
    BY <2>1
<1>4. bg' \in {"unlink_log", "flushed"} => immSst \in FilesOf(current.l0)
  BY DEF ReadInv, WorkInv, FlushState
<1> QED
  BY <1>1, <1>2, <1>3, <1>4 DEF FlushState

\* The inputs of a compaction are files of the current version.
LEMMA InputsInCurrent ==
    ASSUME JobPlan, bg \in {"floor", "merge"}, job.src \in 0..kMaxLevels - 1
    PROVE  /\ job.inA \cup job.inB \subseteq Files(current)
           /\ Inputs \subseteq SstEntries(ssts, current)
           /\ job.src # 0 => job.src \in Level
<1>1. job.src # 0 => job.src \in Level
  BY OptionsAssumption DEF Level
<1>2. job.inA \subseteq Files(current)
  BY <1>1, FilesMembers DEF JobPlan
<1>3. job.inB \subseteq Files(current)
  BY FilesMembers DEF JobPlan
<1> QED
  BY <1>1, <1>2, <1>3 DEF Inputs, SstEntries

\* The compaction during a quiet step that does not work on it.
LEMMA QuietJob ==
    ASSUME TypeInv, TypeInv', LogInv, ReadInv, Quiet, UNCHANGED <<ssts, bg, job>>, status = "up"
    PROVE  JobPlan' /\ JobOutput'
<1>1. UNCHANGED <<imm, immSst, current, nextSeq>> /\ Inputs' = Inputs /\ nextFile <= nextFile'
  BY DEF Quiet, Inputs
<1>2. JobPlan'
  BY <1>1 DEF ReadInv, WorkInv, JobPlan
<1>3. JobOutput'
  <2> SUFFICES ASSUME bg = "merge" PROVE JobOutput'
    BY DEF JobOutput
  <2>1. JobPlan /\ JobOutput /\ job.src \in 0..kMaxLevels - 1 /\ job.outs \subseteq File
    BY DEF ReadInv, WorkInv, TypeInv, TypeOK, ThreadType, Job
  <2>2. Inputs \subseteq LiveEntries
    BY <2>1, InputsInCurrent DEF LiveEntries, ViewEntries
  <2>3. Inputs \subseteq Entry
    BY <2>1, InputsInCurrent, VersionTypes, SstEntriesType
  <2>4. nextSeq \in Nat \ {0} /\ job.floor \in Nat /\ kMaxSeq \in Nat
    BY CallsAssumption DEF TypeInv, TypeOK, MemoryType, ThreadType, Job
  <2>5. \A e \in Inputs : e.seq <= nextSeq - 1
    <3>1. \A e \in Inputs : e.seq \in Nat /\ e.seq < nextSeq
      BY <2>2, <2>3 DEF Entry, ReadInv, CoreInv, Sequences
    <3> QED
      BY <2>4, <3>1
  <2>6. ASSUME NEW s \in Snap PROVE job.floor <= snaps'[s] \/ \A e \in Inputs : e.seq <= snaps'[s]
    <3>1. SnapshotStep(s)
      BY DEF Quiet
    <3>2. CASE snaps'[s] = snaps[s]
      BY <2>1, <3>2 DEF JobOutput
    <3>3. CASE snaps'[s] = kMaxSeq
      BY <2>1, <3>3 DEF JobOutput
    <3>4. CASE snaps'[s] = nextSeq - 1
      BY <2>5, <3>4
    <3> QED
      BY <3>1, <3>2, <3>3, <3>4 DEF SnapshotStep
  <2>7. \A f \in job.outs : f < nextFile'
    <3>1. nextFile \in Nat
      BY NumberTypes
    <3>1a. nextFile' \in Nat
      BY BoundsAssumption DEF TypeInv, TypeOK, MemoryType
    <3>1b. job.outs \subseteq Nat
      BY <2>1, FileNumbers
    <3> QED
      BY <1>1, <2>1, <3>1, <3>1a, <3>1b DEF JobOutput
  <2> QED
    BY <1>1, <2>1, <2>6, <2>7 DEF JobOutput
<1> QED
  BY <1>2, <1>3

\* A step that leaves readers and snapshots alone.
LEMMA NoClientStep ==
    ASSUME UNCHANGED <<readers, snaps, views>>
    PROVE  (\A r \in Reader : ReaderStep(r)) /\ (\A s \in Snap : SnapshotStep(s))
BY DEF ReaderStep, SnapshotStep

\* The steps of the background thread that touch no table.
LEMMA IdleStepsRead ==
    ASSUME TypeInv, TypeInv', LogInv, ReadInv,
           StartFlush \/ RetryFlush \/ UnlinkLog \/ UnlinkInputs
    PROVE  ReadInv'
<1>1. /\ UNCHANGED <<status, nextSeq, nextFile, logNumber, memtables, imm, immSst, current,
                     snaps, ssts, manifest, readers, calls, store, views>>
      /\ bg' \in {"flush", "idle", "flushed"}
      /\ bg' = "flushed" => bg = "unlink_log"
      /\ status = "up"
  BY DEF StartFlush, RetryFlush, UnlinkLog, UnlinkInputs, MutexFree, memory, disk, history
<1>2. \A n \in File : logs'[n] = logs[n] \/ logs'[n] = <<>>
  <2>1. logs' = logs \/ logs' = [logs EXCEPT ![imm] = <<>>]
    BY DEF StartFlush, RetryFlush, UnlinkLog, UnlinkInputs, disk
  <2>2. logs \in [File -> Seq(Entry)]
    BY DEF TypeInv, TypeOK, DiskType
  <2> QED
    BY <2>1, <2>2
<1>3. nextFile <= nextFile'
  BY <1>1, BoundsAssumption DEF TypeInv, TypeOK, MemoryType
<1>4. Quiet
  BY <1>1, <1>2, <1>3, NoClientStep DEF Quiet
<1>5. CoreInv'
  BY <1>4, QuietCore
<1>6. FlushState'
  BY <1>1, <1>4, QuietFlush
<1>7. JobPlan' /\ JobOutput'
  BY <1>1 DEF JobPlan, JobOutput
<1> QED
  BY <1>5, <1>6, <1>7 DEF ReadInv, WorkInv

\* Gets and Scans that start and end, snapshots taken and released.
LEMMA ClientStepsRead ==
    ASSUME TypeInv, TypeInv', LogInv, ReadInv,
           \/ \E r \in Reader : BeginRead(r) \/ EndRead(r)
           \/ \E s \in Snap : GetSnapshot(s) \/ ReleaseSnapshot(s)
    PROVE  ReadInv'
<1>1. /\ UNCHANGED <<status, nextSeq, nextFile, logNumber, memtables, imm, immSst, current,
                     logFiles, logs, ssts, manifest, bg, job, calls, store>>
      /\ status = "up"
  BY DEF BeginRead, EndRead, GetSnapshot, ReleaseSnapshot, MutexFree, memory, disk, threads, history
<1>2. \A r \in Reader : ReaderStep(r)
  <2>0. readers \in [Reader -> Read]
    BY DEF TypeInv, TypeOK, ThreadType
  <2>1. CASE readers' = readers
    BY <2>1 DEF ReaderStep
  <2>2. CASE \E q \in Reader : BeginRead(q)
    <3>1. PICK q \in Reader : BeginRead(q)
      BY <2>2
    <3>2. CASE readers' = [readers EXCEPT ![q] = Capture(kMaxSeq, store)]
      BY <1>1, <2>0, <3>2 DEF ReaderStep
    <3>3. CASE \E s \in Snap : /\ snaps[s] # kMaxSeq
                               /\ readers' = [readers EXCEPT ![q] = Capture(snaps[s], views[s])]
      BY <1>1, <2>0, <3>3 DEF ReaderStep
    <3> QED
      BY <3>1, <3>2, <3>3 DEF BeginRead
  <2>3. CASE \E q \in Reader : EndRead(q)
    BY <2>0, <2>3 DEF EndRead, ReaderStep
  <2> QED
    BY <2>1, <2>2, <2>3 DEF GetSnapshot, ReleaseSnapshot, threads
<1>3. \A s \in Snap : SnapshotStep(s)
  <2>0. snaps \in [Snap -> Nat] /\ views \in [Snap -> {NoView} \cup [Key -> Value]]
    BY DEF TypeInv, TypeOK, MemoryType, HistoryType
  <2>1. CASE UNCHANGED <<snaps, views>>
    BY <2>1 DEF SnapshotStep
  <2>2. CASE \E q \in Snap : GetSnapshot(q)
    BY <1>1, <2>0, <2>2 DEF GetSnapshot, SnapshotStep
  <2>3. CASE \E q \in Snap : ReleaseSnapshot(q)
    BY <2>0, <2>3 DEF ReleaseSnapshot, SnapshotStep
  <2> QED
    BY <2>1, <2>2, <2>3 DEF BeginRead, EndRead, memory, history
<1>4. nextFile <= nextFile'
  BY <1>1, BoundsAssumption DEF TypeInv, TypeOK, MemoryType
<1>5. Quiet
  BY <1>1, <1>2, <1>3, <1>4 DEF Quiet
<1>6. CoreInv'
  BY <1>5, QuietCore
<1>7. FlushState'
  BY <1>1, <1>5, QuietFlush
<1>8. JobPlan' /\ JobOutput'
  BY <1>1, <1>5, QuietJob
<1> QED
  BY <1>6, <1>7, <1>8 DEF ReadInv, WorkInv

\* FlushImmMemTable writes its SST: nobody reads that number yet, or it holds
\* the same entries already.
LEMMA WriteFlushSstRead ==
    ASSUME TypeInv, TypeInv', LogInv, ReadInv, WriteFlushSst PROVE ReadInv'
<1>1. /\ UNCHANGED <<status, nextSeq, nextFile, logNumber, memtables, imm, immSst, current,
                     snaps, logFiles, logs, manifest, readers, calls, store, views>>
      /\ bg' \in {"install_flush", "backoff"}
      /\ \/ ssts' = [ssts EXCEPT ![immSst] = memtables[imm]]
         \/ ssts' = ssts /\ bg' = "backoff"
      /\ bg = "flush" /\ status = "up"
  BY DEF WriteFlushSst, memory
<1>2. imm # NoFile /\ immSst \in File /\ ssts \in [File -> SUBSET Entry]
  <2>1. imm # NoFile /\ ssts \in [File -> SUBSET Entry]
    BY <1>1 DEF TypeInv, TypeOK, DiskType, FlushPending, Flushing
  <2> QED
    BY <2>1, NumberTypes
<1>3. ASSUME NEW v \in InUse, NEW f \in Files(v) PROVE ssts'[f] = ssts[f]
  <2>1. f = immSst => ssts[f] = memtables[imm]
    BY <1>2 DEF ReadInv, WorkInv, FlushState
  <2>2. f \in File
    BY VersionTypes
  <2> QED
    BY <1>1, <1>2, <2>1, <2>2
<1>4. nextFile <= nextFile'
  BY <1>1, BoundsAssumption DEF TypeInv, TypeOK, MemoryType
<1>5. Quiet
  BY <1>1, <1>3, <1>4, NoClientStep DEF Quiet
<1>6. CoreInv'
  BY <1>5, QuietCore
<1>7. FlushState'
  <2>1. ssts'[immSst] \in {ssts[immSst], memtables[imm]}
    BY <1>1, <1>2
  <2>2. bg' = "install_flush" => ssts'[immSst] = memtables[imm]
    BY <1>1, <1>2
  <2> QED
    BY <1>1, <1>5, <2>1, <2>2, QuietFlush
<1>8. JobPlan' /\ JobOutput'
  BY <1>1 DEF JobPlan, JobOutput
<1> QED
  BY <1>6, <1>7, <1>8 DEF ReadInv, WorkInv

-----------------------------------------------------------------------------
(***************************************************************************)
(* Compaction up to its install.                                           *)
(***************************************************************************)

\* More entries, a wider key range.
LEMMA WiderRange ==
    ASSUME NEW T \in SUBSET Entry, NEW U \in SUBSET Entry, T \subseteq U, T # {}
    PROVE  /\ SmallestKey(U) <= SmallestKey(T) /\ LargestKey(T) <= LargestKey(U)
           /\ SmallestKey(U) \in Nat /\ SmallestKey(T) \in Nat
           /\ LargestKey(U) \in Nat /\ LargestKey(T) \in Nat
<1>1. U # {}
  OBVIOUS
<1>2. /\ SmallestKey(T) \in Nat /\ LargestKey(T) \in Nat
      /\ \E e \in T : e.key = SmallestKey(T)
      /\ \E e \in T : e.key = LargestKey(T)
  BY RangeEnds
<1>3. /\ SmallestKey(U) \in Nat /\ LargestKey(U) \in Nat
      /\ \A e \in U : e.key \in Nat /\ SmallestKey(U) <= e.key /\ e.key <= LargestKey(U)
  BY <1>1, RangeEnds
<1> QED
  BY <1>2, <1>3

\* Tables whose key ranges do not meet lie apart.
LEMMA NoOverlapApart ==
    ASSUME NEW S \in SUBSET Entry, NEW T \in SUBSET Entry, S # {}, T # {},
           ~Overlap(<<SmallestKey(S), LargestKey(S)>>, <<SmallestKey(T), LargestKey(T)>>)
    PROVE  Apart(S, T)
<1>1. /\ SmallestKey(S) \in Nat /\ LargestKey(S) \in Nat
      /\ \A e \in S : e.key \in Nat /\ SmallestKey(S) <= e.key /\ e.key <= LargestKey(S)
  BY RangeEnds
<1>2. /\ SmallestKey(T) \in Nat /\ LargestKey(T) \in Nat
      /\ \A e \in T : e.key \in Nat /\ SmallestKey(T) <= e.key /\ e.key <= LargestKey(T)
  BY RangeEnds
<1>3. LargestKey(S) < SmallestKey(T) \/ LargestKey(T) < SmallestKey(S)
  BY <1>1, <1>2 DEF Overlap
<1>4. CASE LargestKey(S) < SmallestKey(T)
  <2>1. \A e \in S, f \in T : e.key < f.key
    BY <1>1, <1>2, <1>4
  <2> QED
    BY <2>1 DEF Apart
<1>5. CASE LargestKey(T) < SmallestKey(S)
  <2>1. \A e \in S, f \in T : f.key < e.key
    BY <1>1, <1>2, <1>5
  <2> QED
    BY <2>1 DEF Apart
<1> QED
  BY <1>3, <1>4, <1>5

\* The fixpoint of PickCompaction: a file it leaves out lies apart from all of
\* its inputs together.
LEMMA OverlappingApart ==
    ASSUME ssts \in [File -> SUBSET Entry], NEW A \in SUBSET File, NEW target \in SUBSET File,
           NEW g \in target, g \notin OverlappingFiles(A, target), ssts[g] # {}
    PROVE  Apart(ssts[g], UNION {ssts[f] : f \in A \cup OverlappingFiles(A, target)})
<1> DEFINE All(B) == UNION {ssts[f] : f \in A \cup B}
           Out    == OverlappingFiles(A, target)
<1>1. \A B : KeyRange(A \cup B) = <<SmallestKey(All(B)), LargestKey(All(B))>>
  BY DEF KeyRange
<1>2. KeyRange({g}) = <<SmallestKey(ssts[g]), LargestKey(ssts[g])>>
  <2>1. UNION {ssts[f] : f \in {g}} = ssts[g]
    OBVIOUS
  <2> QED
    BY <2>1 DEF KeyRange
<1>3. PICK B \in SUBSET target : OverlapClosed(A, B, target) /\ g \notin B
  BY DEF OverlappingFiles
<1>4. Out \subseteq B /\ Out \subseteq File
  BY <1>3 DEF OverlappingFiles
<1>5. All(Out) \subseteq All(B) /\ All(B) \in SUBSET Entry /\ All(Out) \in SUBSET Entry
  BY <1>4
<1>6. ssts[g] \in SUBSET Entry
  OBVIOUS
<1>7. ~Overlap(KeyRange({g}), KeyRange(A \cup B))
  BY <1>3 DEF OverlapClosed
<1> HIDE DEF All, Out
<1>8. CASE All(Out) = {}
  BY <1>8 DEF Apart, All, Out
<1>9. CASE All(Out) # {}
  <2>1. /\ SmallestKey(All(B)) <= SmallestKey(All(Out)) /\ LargestKey(All(Out)) <= LargestKey(All(B))
        /\ SmallestKey(All(B)) \in Nat /\ SmallestKey(All(Out)) \in Nat
        /\ LargestKey(All(B)) \in Nat /\ LargestKey(All(Out)) \in Nat
    BY <1>5, <1>9, WiderRange
  <2>2. SmallestKey(ssts[g]) \in Nat /\ LargestKey(ssts[g]) \in Nat
    BY <1>6, RangeEnds
  <2>3. ~Overlap(<<SmallestKey(ssts[g]), LargestKey(ssts[g])>>,
                 <<SmallestKey(All(Out)), LargestKey(All(Out))>>)
    BY <1>1, <1>2, <1>7, <2>1, <2>2 DEF Overlap
  <2>4. Apart(ssts[g], All(Out))
    BY <1>5, <1>6, <1>9, <2>3, NoOverlapApart
  <2> QED
    BY <2>4 DEF All, Out
<1> QED
  BY <1>8, <1>9

\* The three steps leave memory and directory alone but for files that are new.
LEMMA JobStepQuiet ==
    ASSUME TypeInv, TypeInv', ReadInv, status = "up",
           UNCHANGED <<status, nextSeq, logNumber, memtables, imm, immSst, current, snaps,
                       logFiles, logs, manifest, readers, calls, store, views>>,
           \/ UNCHANGED <<ssts, nextFile>>
           \/ nextFile \in File /\ nextFile' = nextFile + 1
                /\ \E T : ssts' = [ssts EXCEPT ![nextFile] = T]
    PROVE  /\ Quiet
           /\ \A f \in File : f < nextFile => ssts'[f] = ssts[f]
           /\ imm # NoFile => ssts'[immSst] = ssts[immSst] /\ immSst < nextFile
<1>1. \A f \in File : f < nextFile => ssts'[f] = ssts[f]
  <2>1. ssts \in [File -> SUBSET Entry]
    BY VersionTypes
  <2>2. nextFile \in Nat /\ File \subseteq Nat
    BY NumberTypes, FileNumbers
  <2> QED
    BY <2>1, <2>2
<1>2. nextFile <= nextFile'
  BY NumberTypes
<1>3. \A v \in InUse : \A f \in Files(v) : ssts'[f] = ssts[f]
  <2> SUFFICES ASSUME NEW v \in InUse, NEW f \in Files(v) PROVE ssts'[f] = ssts[f]
    OBVIOUS
  <2>1. f \in File
    BY VersionTypes
  <2>2. f < nextFile
    BY DEF ReadInv, CoreInv, Numbers
  <2> QED
    BY <1>1, <2>1, <2>2
<1>4. Quiet
  BY <1>2, <1>3, NoClientStep DEF Quiet
<1>5. imm # NoFile => immSst \in File /\ immSst < nextFile
  BY NumberTypes DEF ReadInv, WorkInv, FlushState
<1> QED
  BY <1>1, <1>4, <1>5

\* PickCompaction.
LEMMA PickCompactionRead ==
    ASSUME TypeInv, TypeInv', LogInv, ReadInv, PickCompaction PROVE ReadInv'
<1>1. /\ UNCHANGED <<memory, disk, readers, history>>
      /\ status = "up" /\ bg' = "floor" /\ imm = NoFile /\ bg = "idle"
      /\ job' = [NoJob EXCEPT !.src = SourceLevel, !.inA = SourceFiles(SourceLevel),
                   !.inB = OverlappingFiles(SourceFiles(SourceLevel), current.levels[SourceLevel + 1])]
  BY DEF PickCompaction, MutexFree
<1>2. /\ UNCHANGED <<status, nextSeq, logNumber, memtables, imm, immSst, current, snaps,
                     logFiles, logs, manifest, readers, calls, store, views, ssts, nextFile>>
  BY <1>1 DEF memory, disk, history
<1>3. Quiet
  BY <1>1, <1>2, JobStepQuiet
<1>4. CoreInv'
  BY <1>3, QuietCore
<1>5. FlushState'
  BY <1>1, <1>2, <1>3, QuietFlush
<1>6. JobOutput'
  BY <1>1 DEF JobOutput
<1>7. JobPlan'
  <2> DEFINE src == SourceLevel
             A == SourceFiles(src)
             target == current.levels[src + 1]
  <2>1. job'.src = src /\ job'.inA = A /\ job'.inB = OverlappingFiles(A, target) /\ job'.outs = {}
    BY <1>1 DEF NoJob
  <2>2. src + 1 \in Level /\ src \in 0..kMaxLevels - 1
    BY SourceLevelType DEF PickCompaction
  <2>3. IF src = 0 THEN A = FilesOf(current.l0) ELSE A \subseteq current.levels[src]
    BY DEF SourceFiles
  <2>4. current.levels \in [Level -> SUBSET File] /\ FilesOf(current.l0) \subseteq File
    BY VersionTypes, FilesMembers DEF InUse, IsVersion
  <2>5. src # 0 => src \in Level
    BY <2>2, OptionsAssumption DEF Level
  <2>6. A \in SUBSET File /\ target \in SUBSET File
    BY <2>2, <2>3, <2>4, <2>5
  <2>7. ssts \in [File -> SUBSET Entry]
    BY VersionTypes
  <2> HIDE DEF src, A, target
  <2>8. OverlappingFiles(A, target) \subseteq target
    BY DEF OverlappingFiles
  <2>9. Inputs' = UNION {ssts[f] : f \in A \cup OverlappingFiles(A, target)}
    BY <1>2, <2>1 DEF Inputs
  <2>10. \A g \in target \ OverlappingFiles(A, target) : Apart(ssts[g], Inputs')
    <3> SUFFICES ASSUME NEW g \in target \ OverlappingFiles(A, target)
                 PROVE  Apart(ssts[g], Inputs')
      OBVIOUS
    <3>1. g \in Files(current)
      BY <2>2, FilesMembers DEF target
    <3>2. ssts[g] # {}
      BY <1>1, <3>1 DEF ReadInv, CoreInv, LiveOrdered, ViewOrdered, Ordered
    <3> QED
      BY <2>6, <2>7, <2>9, <3>2, OverlappingApart
  <2>11. current'.levels[job'.src + 1] = target /\ current'.l0 = current.l0
           /\ current'.levels = current.levels /\ ssts' = ssts
    BY <1>2, <2>1 DEF target
  <2> QED
    BY <1>1, <1>2, <2>1, <2>2, <2>3, <2>8, <2>10, <2>11 DEF JobPlan
<1> QED
  BY <1>4, <1>5, <1>6, <1>7 DEF ReadInv, WorkInv

\* The snapshot floor.
LEMMA SmallestSnapshotSeqLeast ==
    ASSUME TypeInv, ReadInv
    PROVE  /\ SmallestSnapshotSeq \in Nat
           /\ SmallestSnapshotSeq <= kMaxSeq
           /\ \A s \in Snap : SmallestSnapshotSeq <= snaps[s]
<1> DEFINE S == {kMaxSeq} \cup {snaps[s] : s \in Snap}
<1>1. S \in SUBSET Nat /\ S # {}
  BY CallsAssumption DEF TypeInv, TypeOK, MemoryType
<1>2. \E m \in S : \A n \in S : m <= n
  BY <1>1, LeastExists
<1>3. SmallestSnapshotSeq \in S /\ \A s \in Snap : SmallestSnapshotSeq <= snaps[s]
  BY <1>2 DEF SmallestSnapshotSeq
<1>4. \A s \in Snap : snaps[s] <= kMaxSeq
  <2>1. nextSeq <= calls + 1 /\ \A s \in Snap : snaps[s] # kMaxSeq => snaps[s] < nextSeq
    BY DEF ReadInv, CoreInv, Sequences
  <2>2. calls <= MaxCalls /\ calls \in Nat /\ nextSeq \in Nat /\ \A s \in Snap : snaps[s] \in Nat
    BY CallsAssumption DEF TypeInv, TypeOK, MemoryType, HistoryType
  <2> QED
    BY <2>1, <2>2, CallsAssumption
<1> QED
  BY <1>1, <1>3, <1>4, CallsAssumption

\* RunCompaction takes its floor.
LEMMA TakeFloorRead ==
    ASSUME TypeInv, TypeInv', LogInv, ReadInv, TakeFloor PROVE ReadInv'
<1>1. /\ UNCHANGED <<status, nextSeq, logNumber, memtables, imm, immSst, current, snaps,
                     logFiles, logs, manifest, readers, calls, store, views, ssts, nextFile>>
      /\ status = "up" /\ bg = "floor" /\ bg' = "merge"
      /\ job' = [job EXCEPT !.floor = SmallestSnapshotSeq,
                   !.todo = Retain(Inputs, SmallestSnapshotSeq, job.src + 1 = kMaxLevels - 1)]
  BY DEF TakeFloor, MutexFree, memory, disk, history, Inputs
<1>2. Quiet
  BY <1>1, JobStepQuiet
<1>3. CoreInv'
  BY <1>2, QuietCore
<1>4. FlushState'
  BY <1>1, <1>2, QuietFlush
<1>5. /\ job'.src = job.src /\ job'.inA = job.inA /\ job'.inB = job.inB /\ job'.outs = job.outs
      /\ job'.floor = SmallestSnapshotSeq
      /\ job'.todo = Retain(Inputs, SmallestSnapshotSeq, job.src + 1 = kMaxLevels - 1)
  <2>1. job \in Job
    BY DEF TypeInv, TypeOK, ThreadType
  <2> QED
    BY <1>1, <2>1 DEF Job
<1>6. Inputs' = Inputs
  BY <1>1, <1>5 DEF Inputs
<1>7. JobPlan /\ job.outs = {}
  BY <1>1 DEF ReadInv, WorkInv, JobPlan
<1>8. JobPlan'
  BY <1>1, <1>5, <1>6, <1>7 DEF JobPlan
<1>9. JobOutput'
  BY <1>1, <1>5, <1>6, <1>7, SmallestSnapshotSeqLeast DEF JobOutput
<1> QED
  BY <1>3, <1>4, <1>8, <1>9 DEF ReadInv, WorkInv

\* seal: one output more, or the compaction is given up.
LEMMA SealOutputRead ==
    ASSUME TypeInv, TypeInv', LogInv, ReadInv, SealOutput PROVE ReadInv'
<1> DEFINE T == FirstOutput(job.todo, max_sst_size)
<1>1. /\ UNCHANGED <<status, nextSeq, logNumber, memtables, imm, immSst, current, snaps,
                     logFiles, logs, manifest, readers, calls, store, views>>
      /\ status = "up" /\ bg = "merge" /\ job.todo # {}
      /\ \/ UNCHANGED <<ssts, nextFile>> /\ bg' = "idle"
         \/ /\ nextFile <= MaxFile /\ nextFile' = nextFile + 1
            /\ ssts' = [ssts EXCEPT ![nextFile] = T]
            /\ \/ bg' = "idle"
               \/ /\ bg' = bg
                  /\ job' = [job EXCEPT !.todo = @ \ T, !.outs = @ \cup {nextFile}]
  BY DEF SealOutput, MutexFree, GiveUp
<1>2. nextFile <= MaxFile => nextFile \in File
  BY FileNumbers DEF TypeInv, TypeOK, MemoryType
<1>3. /\ Quiet
      /\ \A f \in File : f < nextFile => ssts'[f] = ssts[f]
      /\ imm # NoFile => ssts'[immSst] = ssts[immSst] /\ immSst < nextFile
  <2>1. \/ UNCHANGED <<ssts, nextFile>>
        \/ nextFile \in File /\ nextFile' = nextFile + 1
             /\ \E U : ssts' = [ssts EXCEPT ![nextFile] = U]
    BY <1>1, <1>2
  <2> QED
    BY <1>1, <2>1, JobStepQuiet
<1>4. CoreInv'
  BY <1>3, QuietCore
<1>5. FlushState'
  BY <1>1, <1>3, QuietFlush
<1>6. CASE bg' = "idle"
  <2>1. JobPlan' /\ JobOutput'
    BY <1>6 DEF JobPlan, JobOutput
  <2> QED
    BY <1>4, <1>5, <2>1 DEF ReadInv, WorkInv
<1>7. CASE bg' = "merge"
  <2>1. /\ nextFile \in File /\ nextFile' = nextFile + 1
        /\ ssts' = [ssts EXCEPT ![nextFile] = T]
        /\ job' = [job EXCEPT !.todo = @ \ T, !.outs = @ \cup {nextFile}]
    BY <1>1, <1>2, <1>7
  <2>2. job \in Job /\ job.todo \in SUBSET Entry /\ job.outs \subseteq File /\ ssts \in [File -> SUBSET Entry]
    BY DEF TypeInv, TypeOK, ThreadType, DiskType, Job
  <2>3. /\ job'.src = job.src /\ job'.inA = job.inA /\ job'.inB = job.inB
        /\ job'.floor = job.floor
        /\ job'.todo = job.todo \ T /\ job'.outs = job.outs \cup {nextFile}
    BY <2>1, <2>2 DEF Job
  <2>4. /\ T \subseteq job.todo /\ T # {}
        /\ \A e \in T, f \in job.todo \ T : e.key < f.key
    BY <1>1, <2>2, OutputsCutBetweenKeys
  <2> HIDE DEF T
  <2>5. JobPlan /\ JobOutput
    BY DEF ReadInv, WorkInv
  <2>6. \A f \in Files(current) : f \in File /\ ssts'[f] = ssts[f]
    BY <1>3, VersionTypes DEF Quiet, InUse
  <2>7. Inputs' = Inputs
    <3>1. job.inA \cup job.inB \subseteq Files(current)
      BY <1>1, <2>2, <2>5, InputsInCurrent DEF Job
    <3> QED
      BY <2>3, <2>6, <3>1 DEF Inputs
  <2>8. JobPlan'
    <3>1. \A g \in current.levels[job.src + 1] \ job.inB : Apart(ssts'[g], Inputs)
      BY <1>1, <2>5, <2>6, FilesMembers DEF JobPlan
    <3> QED
      BY <1>1, <1>7, <2>3, <2>5, <2>7, <3>1 DEF JobPlan
  <2>9. nextFile \in Nat /\ File \subseteq Nat
    BY NumberTypes, FileNumbers
  <2>10. \A f \in job.outs : f < nextFile /\ f \in File /\ ssts'[f] = ssts[f]
    BY <1>1, <1>3, <2>2, <2>5 DEF JobOutput
  <2>11. ssts'[nextFile] = T
    BY <2>1, <2>2
  <2>12. job'.todo \cup UNION {ssts'[f] : f \in job'.outs} =
            Retain(Inputs', job'.floor, job'.src + 1 = kMaxLevels - 1)
    <3>1. UNION {ssts'[f] : f \in job'.outs} = T \cup UNION {ssts[f] : f \in job.outs}
      BY <2>3, <2>10, <2>11
    <3>2. job'.todo \cup T = job.todo
      BY <2>3, <2>4
    <3>3. job.todo \cup UNION {ssts[f] : f \in job.outs} =
            Retain(Inputs', job'.floor, job'.src + 1 = kMaxLevels - 1)
      BY <1>1, <2>3, <2>5, <2>7 DEF JobOutput
    <3> QED
      BY <3>1, <3>2, <3>3
  <2>13. \A f \in job'.outs :
            /\ ssts'[f] # {} /\ f < nextFile' /\ (imm' # NoFile => f # immSst')
            /\ \A e \in ssts'[f], t \in job'.todo : e.key < t.key
            /\ \A g \in job'.outs : f # g => Apart(ssts'[f], ssts'[g])
    <3>1. ASSUME NEW f \in job.outs
          PROVE  /\ ssts'[f] # {} /\ f < nextFile' /\ (imm' # NoFile => f # immSst')
                 /\ \A e \in ssts'[f], t \in job'.todo : e.key < t.key
                 /\ \A e \in ssts'[f], t \in T : e.key < t.key
                 /\ \A g \in job.outs : f # g => Apart(ssts'[f], ssts'[g])
      BY <1>1, <2>1, <2>3, <2>4, <2>5, <2>9, <2>10 DEF JobOutput
    <3>2. \A f \in job.outs : Apart(ssts'[f], T) /\ Apart(T, ssts'[f])
      BY <3>1 DEF Apart
    <3>3. /\ ssts'[nextFile] # {} /\ nextFile < nextFile' /\ (imm' # NoFile => nextFile # immSst')
          /\ \A e \in ssts'[nextFile], t \in job'.todo : e.key < t.key
      BY <1>1, <1>3, <2>1, <2>3, <2>4, <2>9, <2>11, NumberTypes
    <3> QED
      BY <2>3, <2>11, <3>1, <3>2, <3>3
  <2>14. /\ job'.floor <= kMaxSeq
         /\ \A s \in Snap : job'.floor <= snaps'[s] \/ \A e \in Inputs' : e.seq <= snaps'[s]
    BY <1>1, <2>3, <2>5, <2>7 DEF JobOutput
  <2>15. JobOutput'
    BY <2>12, <2>13, <2>14 DEF JobOutput
  <2> QED
    BY <1>4, <1>5, <2>8, <2>15 DEF ReadInv, WorkInv
<1> QED
  BY <1>1, <1>6, <1>7

-----------------------------------------------------------------------------
(***************************************************************************)
(* The installs: a new version, published or not.                          *)
(***************************************************************************)

\* A version and the MANIFEST that publishes it.
LEMMA SameShape ==
    ASSUME NEW S, NEW v, NEW w, w.l0 = v.l0, w.levels = v.levels
    PROVE  /\ Files(w) = Files(v) /\ SstEntries(S, w) = SstEntries(S, v)
           /\ Ordered(S, v) => Ordered(S, w)
<1>1. Files(w) = Files(v)
  BY DEF Files
<1> QED
  BY <1>1 DEF SstEntries, Ordered

\* A new version in order that answers as the old one did, with nothing in it
\* that the old one and the immutable memtable had not.
LEMMA NewVersionCore ==
    ASSUME TypeInv, TypeInv', LogInv, ReadInv, status = "up",
           UNCHANGED <<status, nextSeq, nextFile, logNumber, memtables, imm, immSst, snaps,
                       logFiles, logs, ssts, readers, calls, store, views>>,
           manifest' = manifest \/ manifest' = Published(current'),
           ViewOrdered(ssts, memtables[logNumber], ImmTable, current'),
           SstEntries(ssts, current') \subseteq ImmTable \cup SstEntries(ssts, current),
           \A f \in Files(current') : f < nextFile,
           \A k \in Key :
              /\ ValueIn(LiveEntries', k, kMaxSeq) = ValueIn(LiveEntries, k, kMaxSeq)
              /\ \A s \in Snap : snaps[s] # kMaxSeq =>
                    ValueIn(LiveEntries', k, snaps[s]) = ValueIn(LiveEntries, k, snaps[s])
    PROVE  CoreInv'
<1>1. ImmTable' = ImmTable
  BY DEF ImmTable
<1>2. LiveEntries' = ViewEntries(ssts, memtables[logNumber], ImmTable, current')
  BY <1>1 DEF LiveEntries
<1>3. LiveEntries' \subseteq LiveEntries
  BY <1>2 DEF LiveEntries, ViewEntries
<1>4. Ordered(ssts, current')
  BY DEF ViewOrdered
<1>5. LiveOrdered'
  BY <1>1 DEF LiveOrdered
<1>6. \A r \in Reader : /\ ReaderEntries(r)' = ReaderEntries(r)
                        /\ MemOf(readers[r].imm)' = MemOf(readers[r].imm)
  BY DEF ReaderEntries, MemOf
<1>7. ReadersOrdered'
  BY <1>6 DEF ReadInv, CoreInv, ReadersOrdered
<1>8. ReaderAnswers'
  BY <1>6 DEF ReadInv, CoreInv, ReaderAnswers
<1>9. \/ manifest' = manifest
      \/ /\ Files(manifest') = Files(current') /\ SstEntries(ssts, manifest') = SstEntries(ssts, current')
         /\ Ordered(ssts, manifest') /\ manifest'.floor = logNumber
  <2>1. SUFFICES ASSUME manifest' = Published(current')
                 PROVE  /\ Files(manifest') = Files(current')
                        /\ SstEntries(ssts, manifest') = SstEntries(ssts, current')
                        /\ Ordered(ssts, manifest') /\ manifest'.floor = logNumber
    OBVIOUS
  <2>2. manifest'.l0 = current'.l0 /\ manifest'.levels = current'.levels /\ manifest'.floor = logNumber
    BY <2>1 DEF Published
  <2> QED
    BY <1>4, <2>2, SameShape
<1>10. DiskOrdered'
  <2>1. /\ NewerThan(Records(logs[logNumber]), ImmTable)
        /\ NewerThan(Records(logs[logNumber]), SstEntries(ssts, current))
        /\ \A n \in File : logNumber < n => logs[n] = <<>>
    BY DEF ReadInv, CoreInv, DiskOrdered
  <2>2. NewerThan(Records(logs[logNumber]), SstEntries(ssts, current'))
    BY <2>1 DEF NewerThan
  <2>3. \A n \in File : logNumber < n => Records(logs[n]) = {}
    BY <2>1 DEF Records
  <2>4. Ordered(ssts, manifest')
    BY <1>9 DEF ReadInv, CoreInv, DiskOrdered
  <2>5. ASSUME NEW n \in File, manifest'.floor <= n
        PROVE  NewerThan(Records(logs[n]), SstEntries(ssts, manifest'))
    <3>1. CASE manifest' = manifest
      BY <2>5, <3>1 DEF ReadInv, CoreInv, DiskOrdered
    <3>2. CASE manifest' # manifest
      <4>1. SstEntries(ssts, manifest') = SstEntries(ssts, current') /\ logNumber <= n
        BY <1>9, <2>5, <3>2
      <4>2. n = logNumber \/ logNumber < n
        BY <4>1, NumberTypes, FileNumbers
      <4>3. logNumber < n => NewerThan(Records(logs[n]), SstEntries(ssts, manifest'))
        BY <2>3 DEF NewerThan
      <4> QED
        BY <2>2, <4>1, <4>2, <4>3
    <3> QED
      BY <3>1, <3>2
  <2> QED
    BY <1>1, <2>1, <2>2, <2>4, <2>5 DEF DiskOrdered
<1>11. Sequences'
  <2>1. nextSeq <= calls + 1 /\ \A e \in LiveEntries : e.seq < nextSeq
    BY DEF ReadInv, CoreInv, Sequences
  <2>2. SstEntries(ssts, current') \subseteq LiveEntries
    BY DEF LiveEntries, ViewEntries
  <2>3. SstEntries(ssts, current') \subseteq Entry
    BY SstEntriesType, VersionTypes DEF TypeInv, TypeOK, MemoryType, Version, IsVersion
  <2>4. \A e \in SstEntries(ssts, current') : e.seq <= calls /\ e.seq < nextSeq
    <3> SUFFICES ASSUME NEW e \in SstEntries(ssts, current') PROVE e.seq <= calls /\ e.seq < nextSeq
      OBVIOUS
    <3>1. e.seq \in Nat /\ e.seq < nextSeq
      BY <2>1, <2>2, <2>3 DEF Entry
    <3> QED
      BY <2>1, <3>1, NumberTypes
  <2>5. \A e \in SstEntries(ssts, manifest') : e.seq <= calls /\ e.seq < nextSeq
    BY <1>9, <2>4 DEF ReadInv, CoreInv, Sequences
  <2>6. \A e \in LiveEntries' : e.seq < nextSeq
    BY <1>3, <2>1
  <2> QED
    BY <1>6, <2>5, <2>6 DEF ReadInv, CoreInv, Sequences
<1>12. Numbers'
  <2>1. \A v \in InUse' : \A f \in Files(v) : f < nextFile
    <3> SUFFICES ASSUME NEW v \in InUse' PROVE \A f \in Files(v) : f < nextFile
      OBVIOUS
    <3>1. v = current' \/ v = manifest' \/ v \in InUse
      BY DEF InUse
    <3>2. v \in InUse => \A f \in Files(v) : f < nextFile
      BY DEF ReadInv, CoreInv, Numbers
    <3>3. v = manifest' => v \in InUse \/ Files(v) = Files(current')
      BY <1>9 DEF InUse
    <3> QED
      BY <3>1, <3>2, <3>3
  <2> QED
    BY <2>1 DEF ReadInv, CoreInv, Numbers
<1>13. Answers'
  BY DEF ReadInv, CoreInv, Answers
<1> QED
  BY <1>5, <1>7, <1>8, <1>10, <1>11, <1>12, <1>13 DEF CoreInv

\* Three ways to end a MANIFEST write.
LEMMA ManifestWritten ==
    ASSUME NEW v, WriteManifestOk(v) \/ WriteManifestFails(v)
    PROVE  manifest' = manifest \/ manifest' = Published(v)
BY DEF WriteManifestOk, WriteManifestFails

\* The flush is installed: its SST is the newest of L0.
LEMMA InstallFlushRead ==
    ASSUME TypeInv, TypeInv', LogInv, ReadInv, InstallFlush PROVE ReadInv'
<1>1. /\ UNCHANGED <<status, nextSeq, nextFile, logNumber, memtables, imm, immSst, snaps,
                     logFiles, logs, ssts, readers, calls, store, views, job>>
      /\ status = "up" /\ bg = "install_flush" /\ bg' \in {"unlink_log", "backoff"}
      /\ current' = [current EXCEPT !.l0 = <<immSst>> \o @]
      /\ manifest' = manifest \/ manifest' = Published(current')
  BY ManifestWritten DEF InstallFlush
<1>2. imm # NoFile /\ immSst \in File /\ ImmTable = memtables[imm]
  <2>1. imm # NoFile
    BY <1>1 DEF TypeInv, FlushPending, Flushing
  <2> QED
    BY <2>1, NumberTypes DEF ImmTable
<1>3. /\ ssts[immSst] = ImmTable /\ ImmTable # {} /\ immSst < nextFile
      /\ \A f \in FilesOf(current.l0) :
            f <= immSst /\ (f < immSst => NewerThan(ImmTable, ssts[f]))
  BY <1>1, <1>2 DEF ReadInv, WorkInv, FlushState
<1>4. current.l0 \in Seq(File) /\ IsVersion(current) /\ current \in Version
  BY VersionTypes DEF IsVersion, TypeInv, TypeOK, MemoryType
<1>5. current'.l0 = <<immSst>> \o current.l0 /\ current'.levels = current.levels
  BY <1>1, <1>4 DEF Version
<1>6. FilesOf(current'.l0) = {immSst} \cup FilesOf(current.l0)
  BY <1>2, <1>4, <1>5, PrependedL0
<1>7. Files(current') = {immSst} \cup Files(current)
  BY <1>5, <1>6 DEF Files
<1>8. SstEntries(ssts, current') = ImmTable \cup SstEntries(ssts, current)
  BY <1>3, <1>7 DEF SstEntries
<1>9. ViewOrdered(ssts, memtables[logNumber], ImmTable, current)
  BY <1>1 DEF ReadInv, CoreInv, LiveOrdered
<1>10. Ordered(ssts, current) /\ Table(ImmTable)
  BY <1>9 DEF ViewOrdered
<1>11. FilesOf(current.l0) \subseteq Nat /\ immSst \in Nat
  BY <1>2, <1>4, VersionTypes, FilesMembers, FileNumbers DEF InUse
<1>12. Ordered(ssts, current')
  <2>1. \A f \in Files(current') : ssts[f] # {} /\ Table(ssts[f])
    BY <1>3, <1>7, <1>10 DEF Ordered
  <2>2. ASSUME NEW i \in 1..Len(current'.l0), NEW j \in 1..Len(current'.l0), i < j
        PROVE  current'.l0[j] <= current'.l0[i]
    <3>1. /\ Len(current'.l0) = Len(current.l0) + 1 /\ Len(current.l0) \in Nat
          /\ current'.l0[1] = immSst
          /\ \A n \in 2..Len(current'.l0) : current'.l0[n] = current.l0[n - 1]
      BY <1>4, <1>5
    <3>2. j - 1 \in 1..Len(current.l0) /\ current'.l0[j] = current.l0[j - 1]
      BY <2>2, <3>1
    <3>3. CASE i = 1
      <4>1. current.l0[j - 1] \in FilesOf(current.l0)
        BY <3>2, FilesMembers
      <4> QED
        BY <1>3, <3>1, <3>2, <3>3, <4>1
    <3>4. CASE i # 1
      <4>1. i - 1 \in 1..Len(current.l0) /\ current'.l0[i] = current.l0[i - 1] /\ i - 1 < j - 1
        BY <2>2, <3>1, <3>4
      <4> QED
        BY <1>10, <3>2, <4>1 DEF Ordered
    <3> QED
      BY <3>3, <3>4
  <2>3. ASSUME NEW f \in FilesOf(current'.l0), NEW g \in FilesOf(current'.l0), g < f
        PROVE  NewerThan(ssts[f], ssts[g])
    <3>1. CASE f = immSst
      <4>1. g \in FilesOf(current.l0)
        BY <1>6, <1>11, <2>3, <3>1
      <4> QED
        BY <1>3, <2>3, <3>1, <4>1
    <3>2. CASE f # immSst
      <4>1. f \in FilesOf(current.l0)
        BY <1>6, <3>2
      <4>2. g # immSst
        BY <1>3, <1>11, <2>3, <4>1
      <4> QED
        BY <1>6, <1>10, <2>3, <4>1, <4>2 DEF Ordered
    <3> QED
      BY <3>1, <3>2
  <2>4. \A f \in FilesOf(current'.l0), i \in Level : \A g \in current'.levels[i] :
            NewerThan(ssts[f], ssts[g])
    BY <1>3, <1>5, <1>6, <1>9, <1>10 DEF Ordered, ViewOrdered
  <2>5. /\ \A i, j \in Level : i < j =>
              \A f \in current'.levels[i], g \in current'.levels[j] : NewerThan(ssts[f], ssts[g])
        /\ \A i \in Level : \A f, g \in current'.levels[i] : f # g => Apart(ssts[f], ssts[g])
    BY <1>5, <1>10 DEF Ordered
  <2> QED
    BY <2>1, <2>2, <2>3, <2>4, <2>5 DEF Ordered
<1>13. ViewOrdered(ssts, memtables[logNumber], ImmTable, current')
  <2>1. NewerThan(memtables[logNumber], SstEntries(ssts, current'))
    BY <1>8, <1>9 DEF ViewOrdered, NewerThan
  <2> QED
    BY <1>3, <1>5, <1>6, <1>9, <1>12, <2>1 DEF ViewOrdered
<1>14. LiveEntries' = LiveEntries
  BY <1>1, <1>2, <1>8 DEF LiveEntries, ViewEntries, ImmTable
<1>15. \A f \in Files(current') : f < nextFile
  BY <1>1, <1>3, <1>7 DEF ReadInv, CoreInv, Numbers, InUse
<1>16. CoreInv'
  BY <1>1, <1>8, <1>13, <1>14, <1>15, NewVersionCore
<1>17. FlushState'
  <2>1. \A f \in FilesOf(current'.l0) : f <= immSst /\ (f < immSst => NewerThan(memtables[imm], ssts[f]))
    BY <1>2, <1>3, <1>6, <1>11
  <2> QED
    BY <1>1, <1>2, <1>3, <1>6, <2>1 DEF FlushState
<1>18. JobPlan' /\ JobOutput'
  BY <1>1 DEF JobPlan, JobOutput
<1> QED
  BY <1>16, <1>17, <1>18 DEF ReadInv, WorkInv

\* The immutable memtable is dropped: its SST has its entries.
LEMMA EndFlushRead ==
    ASSUME TypeInv, TypeInv', LogInv, ReadInv, EndFlush PROVE ReadInv'
<1>1. /\ UNCHANGED <<status, nextSeq, nextFile, logNumber, memtables, current, snaps,
                     logFiles, logs, ssts, manifest, readers, calls, store, views, job>>
      /\ status = "up" /\ bg = "flushed" /\ bg' = "idle" /\ imm' = NoFile
  BY DEF EndFlush, disk, history
<1>2. imm # NoFile /\ ImmTable = memtables[imm] /\ ImmTable' = {}
  BY <1>1 DEF TypeInv, FlushPending, Flushing, ImmTable
<1>3. immSst \in Files(current) /\ ssts[immSst] = ImmTable
  BY <1>1, <1>2, FilesMembers DEF ReadInv, WorkInv, FlushState, InUse
<1>4. ImmTable \subseteq SstEntries(ssts, current)
  BY <1>3, SstMembers
<1>5. LiveEntries' = LiveEntries
  BY <1>1, <1>2, <1>4 DEF LiveEntries, ViewEntries
<1>6. LiveOrdered'
  <2>1. Table({}) /\ \A S : NewerThan(S, {}) /\ NewerThan({}, S)
    BY DEF Table, NewerThan
  <2>2. ViewOrdered(ssts, memtables[logNumber], {}, current)
    BY <1>1, <2>1 DEF ReadInv, CoreInv, LiveOrdered, ViewOrdered
  <2> QED
    BY <1>1, <1>2, <2>2 DEF LiveOrdered
<1>7. \A r \in Reader : /\ ReaderEntries(r)' = ReaderEntries(r)
                        /\ MemOf(readers[r].imm)' = MemOf(readers[r].imm)
  BY <1>1 DEF ReaderEntries, MemOf
<1>8. ReadersOrdered' /\ ReaderAnswers'
  BY <1>1, <1>7 DEF ReadInv, CoreInv, ReadersOrdered, ReaderAnswers
<1>9. DiskOrdered'
  <2>1. NewerThan(Records(logs[logNumber]), ImmTable')
    BY <1>2 DEF NewerThan
  <2> QED
    BY <1>1, <2>1 DEF ReadInv, CoreInv, DiskOrdered
<1>10. InUse' = InUse
  BY <1>1 DEF InUse
<1>11. Numbers'
  BY <1>1, <1>10 DEF ReadInv, CoreInv, Numbers
<1>12. Sequences'
  BY <1>1, <1>5, <1>7 DEF ReadInv, CoreInv, Sequences
<1>13. Answers'
  BY <1>1, <1>5 DEF ReadInv, CoreInv, Answers
<1>14. FlushState' /\ JobPlan' /\ JobOutput'
  BY <1>1 DEF FlushState, JobPlan, JobOutput
<1> QED
  BY <1>6, <1>8, <1>9, <1>11, <1>12, <1>13, <1>14 DEF ReadInv, CoreInv, WorkInv

\* What a compaction leaves at level i of the files that were there.
Kept(i) ==
    IF i = job.src + 1 THEN current.levels[i] \ job.inB
    ELSE IF i = job.src THEN current.levels[i] \ job.inA ELSE current.levels[i]

\* Newer than each of two tables, newer than both.
LEMMA NewerThanInputs ==
    ASSUME NEW S, \A f \in job.inA \cup job.inB : NewerThan(S, ssts[f])
    PROVE  NewerThan(S, Inputs)
BY DEF NewerThan, Inputs

LEMMA InputsNewerThan ==
    ASSUME NEW S, \A f \in job.inA \cup job.inB : NewerThan(ssts[f], S)
    PROVE  NewerThan(Inputs, S)
BY DEF NewerThan, Inputs

\* Tables apart share no key, so each is newer than the other.
LEMMA ApartNewer ==
    ASSUME NEW S \in SUBSET Entry, NEW T \in SUBSET Entry, Apart(S, T)
    PROVE  NewerThan(S, T) /\ NewerThan(T, S)
<1>1. \A e \in S, f \in T : e.key # f.key
  BY ApartKeys
<1> QED
  BY <1>1 DEF NewerThan

\* Where the inputs of a compaction stand: what stays above them, or beside
\* them, is newer than all of them; what is below is older.
LEMMA InputsPlace ==
    ASSUME TypeInv, ReadInv, status = "up", bg \in {"floor", "merge"}
    PROVE  /\ job.src # 0 => \A f \in FilesOf(current.l0) : NewerThan(ssts[f], Inputs)
           /\ \A i \in Level : i <= job.src + 1 => \A f \in Kept(i) : NewerThan(ssts[f], Inputs)
           /\ \A i \in Level : job.src + 1 < i =>
                 \A f \in current.levels[i] : NewerThan(Inputs, ssts[f])
           /\ NewerThan(memtables[logNumber], Inputs) /\ NewerThan(ImmTable, Inputs)
           /\ Inputs \subseteq SstEntries(ssts, current) /\ Inputs \in SUBSET Entry
           /\ job.inA \cup job.inB \subseteq Files(current)
<1> DEFINE v == current
<1>1. JobPlan /\ job.src \in 0..kMaxLevels - 1 /\ job.src + 1 \in Level
  BY DEF ReadInv, WorkInv, JobPlan, TypeInv, TypeOK, ThreadType, Job
<1>2. /\ job.inA \cup job.inB \subseteq Files(current)
      /\ Inputs \subseteq SstEntries(ssts, current)
      /\ job.src # 0 => job.src \in Level
  BY <1>1, InputsInCurrent
<1>3. Inputs \in SUBSET Entry
  BY <1>2, VersionTypes, SstEntriesType
<1>4. ViewOrdered(ssts, memtables[logNumber], ImmTable, v) /\ Ordered(ssts, v)
  BY DEF ReadInv, CoreInv, LiveOrdered, ViewOrdered
<1>5. /\ IF job.src = 0 THEN job.inA = FilesOf(v.l0) ELSE job.inA \subseteq v.levels[job.src]
      /\ job.inB \subseteq v.levels[job.src + 1]
      /\ \A g \in v.levels[job.src + 1] \ job.inB : Apart(ssts[g], Inputs)
      /\ imm # NoFile => immSst \notin FilesOf(v.l0)
  BY <1>1 DEF JobPlan
<1>6. job.src \in Nat /\ Level \subseteq Nat
  BY <1>1, OptionsAssumption DEF Level
<1>7. \A f \in Files(v) : f \in File /\ ssts[f] \in SUBSET Entry
  BY VersionTypes DEF InUse
<1>8. ASSUME job.src # 0, NEW f \in FilesOf(v.l0) PROVE NewerThan(ssts[f], Inputs)
  <2>1. \A g \in job.inA \cup job.inB : NewerThan(ssts[f], ssts[g])
    BY <1>1, <1>2, <1>4, <1>5, <1>8 DEF Ordered
  <2> QED
    BY <2>1, NewerThanInputs
<1>9. ASSUME NEW i \in Level, i <= job.src + 1, NEW f \in Kept(i) PROVE NewerThan(ssts[f], Inputs)
  <2>1. f \in v.levels[i] /\ f \in Files(v)
    BY FilesMembers DEF Kept
  <2>2. CASE i = job.src + 1
    <3>1. Apart(ssts[f], Inputs)
      BY <1>5, <2>2 DEF Kept
    <3> QED
      BY <1>3, <1>7, <2>1, <3>1, ApartNewer
  <2>3. CASE i # job.src + 1
    <3>1. i <= job.src /\ job.src # 0 /\ i # 0 /\ job.src \in Level
      BY <1>2, <1>6, <1>9, <2>3, OptionsAssumption DEF Level
    <3>2. \A g \in job.inB : NewerThan(ssts[f], ssts[g])
      BY <1>1, <1>4, <1>5, <1>6, <2>1, <3>1 DEF Ordered
    <3>3. \A g \in job.inA : NewerThan(ssts[f], ssts[g])
      <4> SUFFICES ASSUME NEW g \in job.inA PROVE NewerThan(ssts[f], ssts[g])
        OBVIOUS
      <4>1. g \in v.levels[job.src] /\ g \in Files(v)
        BY <1>2, <1>5, <3>1
      <4>2. CASE i = job.src
        <5>1. f # g
          BY <1>6, <4>2 DEF Kept
        <5>2. Apart(ssts[f], ssts[g])
          BY <1>4, <2>1, <4>1, <4>2, <5>1 DEF Ordered
        <5> QED
          BY <1>7, <2>1, <4>1, <5>2, ApartNewer
      <4>3. CASE i # job.src
        <5>1. i < job.src
          BY <1>6, <3>1, <4>3
        <5> QED
          BY <1>4, <2>1, <3>1, <4>1, <5>1 DEF Ordered
      <4> QED
        BY <4>2, <4>3
    <3> QED
      BY <3>2, <3>3, NewerThanInputs
  <2> QED
    BY <2>2, <2>3
<1>10. ASSUME NEW i \in Level, job.src + 1 < i, NEW f \in v.levels[i] PROVE NewerThan(Inputs, ssts[f])
  <2>1. \A g \in job.inB : NewerThan(ssts[g], ssts[f])
    BY <1>1, <1>4, <1>5, <1>10 DEF Ordered
  <2>2. \A g \in job.inA : NewerThan(ssts[g], ssts[f])
    <3>1. CASE job.src = 0
      BY <1>4, <1>5, <3>1 DEF Ordered
    <3>2. CASE job.src # 0
      <4>1. job.src < i /\ job.src \in Level
        BY <1>2, <1>6, <1>10, <3>2
      <4> QED
        BY <1>4, <1>5, <3>2, <4>1 DEF Ordered
    <3> QED
      BY <3>1, <3>2
  <2> QED
    BY <2>1, <2>2, InputsNewerThan
<1>11. NewerThan(memtables[logNumber], Inputs)
  BY <1>2, <1>4, PartsNewerApart DEF ViewOrdered
<1>12. NewerThan(ImmTable, Inputs)
  <2>1. \A g \in job.inB : NewerThan(ImmTable, ssts[g])
    BY <1>1, <1>4, <1>5 DEF ViewOrdered
  <2>2. \A g \in job.inA : NewerThan(ImmTable, ssts[g])
    <3>1. CASE job.src # 0
      BY <1>2, <1>4, <1>5, <3>1 DEF ViewOrdered
    <3>2. CASE job.src = 0 /\ imm # NoFile
      <4>1. \A f \in FilesOf(v.l0) : f <= immSst /\ (f < immSst => NewerThan(memtables[imm], ssts[f]))
        BY <3>2 DEF ReadInv, WorkInv, FlushState
      <4>2. FilesOf(v.l0) \subseteq Nat /\ immSst \in Nat
        BY <1>7, FilesMembers, FileNumbers, NumberTypes
      <4>3. \A f \in FilesOf(v.l0) : f < immSst
        BY <1>5, <3>2, <4>1, <4>2
      <4> QED
        BY <1>5, <3>2, <4>1, <4>3 DEF ImmTable
    <3>3. CASE imm = NoFile
      BY <3>3 DEF ImmTable, NewerThan
    <3> QED
      BY <3>1, <3>2, <3>3
  <2> QED
    BY <2>1, <2>2, NewerThanInputs
<1> QED
  BY <1>2, <1>3, <1>8, <1>9, <1>10, <1>11, <1>12

\* A part of a table is a table.
LEMMA PartTable == ASSUME NEW T, Table(T), NEW U, U \subseteq T PROVE Table(U)
BY DEF Table

\* The version a compaction installs, file by file.
LEMMA InstalledVersion ==
    ASSUME TypeInv, ReadInv, InstallCompaction
    PROVE  /\ current'.l0 = IF job.src = 0 THEN <<>> ELSE current.l0
           /\ \A i \in Level : current'.levels[i] =
                 Kept(i) \cup (IF i = job.src + 1 THEN job.outs ELSE {})
           /\ UNION {ssts[f] : f \in job.outs} =
                 Retain(Inputs, job.floor, job.src + 1 = kMaxLevels - 1)
           /\ \A f \in job.outs : ssts[f] # {} /\ ssts[f] \subseteq Inputs /\ f < nextFile
<1>1. status = "up" /\ bg = "merge" /\ job.todo = {}
  BY DEF InstallCompaction, MutexFree
<1>2. JobPlan /\ JobOutput
  BY DEF ReadInv, WorkInv
<1>3. current' = [l0     |-> IF job.src = 0 THEN Without(current.l0, job.inA) ELSE current.l0,
                  levels |-> [i \in Level |->
                     IF i = job.src + 1 THEN (current.levels[i] \ job.inB) \cup job.outs
                     ELSE IF i = job.src THEN current.levels[i] \ job.inA
                     ELSE current.levels[i]]]
  BY DEF InstallCompaction
<1>4. current'.l0 = IF job.src = 0 THEN <<>> ELSE current.l0
  <2>1. job.src = 0 => Without(current.l0, job.inA) = <<>>
    BY <1>1, <1>2 DEF JobPlan, Without
  <2> QED
    BY <1>3, <2>1
<1>5. \A i \in Level : current'.levels[i] = Kept(i) \cup (IF i = job.src + 1 THEN job.outs ELSE {})
  BY <1>3 DEF Kept
<1>6. UNION {ssts[f] : f \in job.outs} = Retain(Inputs, job.floor, job.src + 1 = kMaxLevels - 1)
  BY <1>1, <1>2 DEF JobOutput
<1>7. Retain(Inputs, job.floor, job.src + 1 = kMaxLevels - 1) \subseteq Inputs
  BY DEF Retain
<1>8. \A f \in job.outs : ssts[f] # {} /\ ssts[f] \subseteq Inputs /\ f < nextFile
  BY <1>1, <1>2, <1>6, <1>7 DEF JobOutput
<1> QED
  BY <1>4, <1>5, <1>6, <1>8

\* The compaction is installed: the order of the levels holds, and no read can
\* tell.
LEMMA InstallCompactionRead ==
    ASSUME TypeInv, TypeInv', LogInv, ReadInv, InstallCompaction PROVE ReadInv'
<1> DEFINE out == job.src + 1
           w == current'
           bottom == out = kMaxLevels - 1
           Result == Retain(Inputs, job.floor, bottom)
           KeptFiles == FilesOf(w.l0) \cup UNION {Kept(i) : i \in Level}
           X == memtables[logNumber] \cup ImmTable \cup UNION {ssts[f] : f \in KeptFiles}
<1>1. /\ UNCHANGED <<status, nextSeq, nextFile, logNumber, memtables, imm, immSst, snaps,
                     logFiles, logs, ssts, readers, calls, store, views>>
      /\ status = "up" /\ bg = "merge" /\ bg' \in {"unlink_inputs", "idle"}
      /\ manifest' = manifest \/ manifest' = Published(current')
  BY ManifestWritten DEF InstallCompaction, MutexFree, GiveUp
<1>2. /\ w.l0 = IF job.src = 0 THEN <<>> ELSE current.l0
      /\ \A i \in Level : w.levels[i] = Kept(i) \cup (IF i = out THEN job.outs ELSE {})
      /\ UNION {ssts[f] : f \in job.outs} = Result
      /\ \A f \in job.outs : ssts[f] # {} /\ ssts[f] \subseteq Inputs /\ f < nextFile
  BY InstalledVersion
<1>3. /\ job.src # 0 => \A f \in FilesOf(current.l0) : NewerThan(ssts[f], Inputs)
      /\ \A i \in Level : i <= out => \A f \in Kept(i) : NewerThan(ssts[f], Inputs)
      /\ \A i \in Level : out < i => \A f \in current.levels[i] : NewerThan(Inputs, ssts[f])
      /\ NewerThan(memtables[logNumber], Inputs) /\ NewerThan(ImmTable, Inputs)
      /\ Inputs \subseteq SstEntries(ssts, current) /\ Inputs \in SUBSET Entry
      /\ job.inA \cup job.inB \subseteq Files(current)
  BY <1>1, InputsPlace
<1>4. JobPlan /\ JobOutput /\ out \in Level /\ job.src \in Nat /\ Level \subseteq Nat
  BY <1>1, NumberTypes, OptionsAssumption DEF ReadInv, WorkInv, JobPlan, Level
<1>5. \A i \in Level : Kept(i) \subseteq current.levels[i]
  BY DEF Kept
<1>6. FilesOf(w.l0) \subseteq FilesOf(current.l0) /\ (job.src = 0 => FilesOf(w.l0) = {})
  BY <1>2 DEF FilesOf
<1>7. ViewOrdered(ssts, memtables[logNumber], ImmTable, current) /\ Ordered(ssts, current)
  BY <1>1 DEF ReadInv, CoreInv, LiveOrdered, ViewOrdered
<1>8. IsVersion(current) /\ ssts \in [File -> SUBSET Entry] /\ Files(current) \subseteq File
  BY VersionTypes DEF InUse
<1>9. Table(SstEntries(ssts, current)) /\ Table(LiveEntries)
  BY <1>7, <1>8, VersionTable, ViewTable DEF LiveEntries
<1> HIDE DEF out, w, bottom, Result, KeptFiles, X
<1>10. Files(w) = KeptFiles \cup job.outs
  <2>1. \A f \in Files(w) : f \in FilesOf(w.l0) \/ \E i \in Level : f \in w.levels[i]
    BY FilesMembers
  <2>2. Files(w) \subseteq KeptFiles \cup job.outs
    BY <1>2, <2>1 DEF KeptFiles
  <2>3. /\ FilesOf(w.l0) \subseteq Files(w) /\ \A i \in Level : w.levels[i] \subseteq Files(w)
    BY FilesMembers
  <2>4. KeptFiles \subseteq Files(w) /\ job.outs \subseteq Files(w)
    BY <1>2, <1>4, <2>3 DEF KeptFiles
  <2> QED
    BY <2>2, <2>4
<1>11. Files(current) = KeptFiles \cup (job.inA \cup job.inB)
  <2>1. ASSUME NEW f \in Files(current) PROVE f \in KeptFiles \cup (job.inA \cup job.inB)
    <3>1. CASE f \in FilesOf(current.l0)
      BY <1>1, <1>2, <1>4, <3>1 DEF JobPlan, KeptFiles
    <3>2. CASE \E i \in Level : f \in current.levels[i]
      BY <3>2 DEF Kept, KeptFiles
    <3> QED
      BY <3>1, <3>2, FilesMembers
  <2>2. KeptFiles \subseteq Files(current)
    BY <1>5, <1>6, FilesMembers DEF KeptFiles
  <2> QED
    BY <1>3, <2>1, <2>2
<1>12. SstEntries(ssts, w) = (UNION {ssts[f] : f \in KeptFiles}) \cup Result
  BY <1>2, <1>10 DEF SstEntries
<1>13. SstEntries(ssts, current) = (UNION {ssts[f] : f \in KeptFiles}) \cup Inputs
  BY <1>11 DEF SstEntries, Inputs
<1>14. Result \subseteq Inputs
  BY DEF Result, Retain
<1>15. SstEntries(ssts, w) \subseteq SstEntries(ssts, current)
  BY <1>12, <1>13, <1>14
<1>16. Ordered(ssts, w)
  <2>1. \A f \in Files(w) : ssts[f] # {} /\ Table(ssts[f])
    <3>1. \A f \in KeptFiles : ssts[f] # {} /\ Table(ssts[f])
      BY <1>7, <1>11 DEF Ordered
    <3>2. \A f \in job.outs : ssts[f] # {} /\ Table(ssts[f])
      BY <1>2, <1>3, <1>9, PartTable
    <3> QED
      BY <1>10, <3>1, <3>2
  <2>2. \A i, j \in 1..Len(w.l0) : i < j => w.l0[j] <= w.l0[i]
    <3>1. CASE job.src = 0
      BY <1>2, <3>1
    <3>2. CASE job.src # 0
      BY <1>2, <1>7, <3>2 DEF Ordered
    <3> QED
      BY <3>1, <3>2
  <2>3. \A f, g \in FilesOf(w.l0) : g < f => NewerThan(ssts[f], ssts[g])
    BY <1>6, <1>7 DEF Ordered
  <2>4. ASSUME NEW f \in FilesOf(w.l0), NEW i \in Level, NEW g \in w.levels[i]
        PROVE  NewerThan(ssts[f], ssts[g])
    <3>1. CASE g \in Kept(i)
      BY <1>5, <1>6, <1>7, <3>1 DEF Ordered
    <3>2. CASE g \in job.outs
      BY <1>2, <1>3, <1>6, <3>2, PartsNewerApart
    <3> QED
      BY <1>2, <3>1, <3>2
  <2>5. ASSUME NEW i \in Level, NEW j \in Level, i < j, NEW f \in w.levels[i], NEW g \in w.levels[j]
        PROVE  NewerThan(ssts[f], ssts[g])
    <3>1. CASE f \in Kept(i) /\ g \in Kept(j)
      BY <1>5, <1>7, <2>5, <3>1 DEF Ordered
    <3>2. CASE f \in Kept(i) /\ g \in job.outs /\ j = out
      <4>1. i <= out
        BY <1>4, <2>5, <3>2
      <4> QED
        BY <1>2, <1>3, <3>2, <4>1, PartsNewerApart
    <3>3. CASE f \in job.outs /\ i = out /\ g \in Kept(j)
      BY <1>2, <1>3, <1>5, <2>5, <3>3, PartsNewerApart
    <3>4. ~(i = out /\ j = out)
      BY <1>4, <2>5
    <3> QED
      BY <1>2, <3>1, <3>2, <3>3, <3>4
  <2>6. ASSUME NEW i \in Level, NEW f \in w.levels[i], NEW g \in w.levels[i], f # g
        PROVE  Apart(ssts[f], ssts[g])
    <3>1. CASE f \in Kept(i) /\ g \in Kept(i)
      BY <1>5, <1>7, <2>6, <3>1 DEF Ordered
    <3>2. CASE f \in job.outs /\ g \in job.outs
      BY <1>1, <1>4, <2>6, <3>2 DEF JobOutput
    <3>3. \A a \in Kept(out), b \in job.outs : Apart(ssts[a], ssts[b]) /\ Apart(ssts[b], ssts[a])
      <4> SUFFICES ASSUME NEW a \in Kept(out), NEW b \in job.outs
                   PROVE  Apart(ssts[a], ssts[b]) /\ Apart(ssts[b], ssts[a])
        OBVIOUS
      <4>1. Apart(ssts[a], Inputs) /\ ssts[b] \subseteq Inputs
        BY <1>1, <1>2, <1>4 DEF JobPlan, Kept, out
      <4> QED
        BY <4>1, PartsNewerApart
    <3> QED
      BY <1>2, <3>1, <3>2, <3>3
  <2> QED
    BY <2>1, <2>2, <2>3, <2>4, <2>5, <2>6 DEF Ordered
<1>17. ViewOrdered(ssts, memtables[logNumber], ImmTable, w)
  <2>1. NewerThan(memtables[logNumber], SstEntries(ssts, w))
    BY <1>7, <1>15, PartsNewerApart DEF ViewOrdered
  <2>2. ASSUME NEW i \in Level, NEW f \in w.levels[i] PROVE NewerThan(ImmTable, ssts[f])
    <3>1. CASE f \in Kept(i)
      BY <1>5, <1>7, <3>1 DEF ViewOrdered
    <3>2. CASE f \in job.outs
      BY <1>2, <1>3, <3>2, PartsNewerApart
    <3> QED
      BY <1>2, <3>1, <3>2
  <2>3. \A f \in FilesOf(w.l0) : ssts[f] = ImmTable \/ NewerThan(ImmTable, ssts[f])
    BY <1>6, <1>7 DEF ViewOrdered
  <2> QED
    BY <1>7, <1>16, <2>1, <2>2, <2>3 DEF ViewOrdered
<1>18. LiveEntries = X \cup Inputs /\ LiveEntries' = X \cup Result
  <2>1. LiveEntries = memtables[logNumber] \cup ImmTable \cup SstEntries(ssts, current)
    BY DEF LiveEntries, ViewEntries
  <2>2. LiveEntries' = memtables[logNumber] \cup ImmTable \cup SstEntries(ssts, w)
    BY <1>1 DEF LiveEntries, ViewEntries, ImmTable, w
  <2> QED
    BY <1>12, <1>13, <2>1, <2>2 DEF X
<1>19. ASSUME NEW x \in X
       PROVE  \/ \A t \in Inputs : t.key = x.key => t.seq < x.seq
              \/ ~bottom /\ \A t \in Inputs : t.key = x.key => x.seq < t.seq
  <2>1. CASE x \in memtables[logNumber] \cup ImmTable
    BY <1>3, <2>1 DEF NewerThan
  <2>2. CASE \E f \in FilesOf(w.l0) : x \in ssts[f]
    BY <1>3, <1>6, <2>2 DEF NewerThan
  <2>3. CASE \E i \in Level : \E f \in Kept(i) : x \in ssts[f]
    <3>1. PICK i \in Level : \E f \in Kept(i) : x \in ssts[f]
      BY <2>3
    <3>2. PICK f \in Kept(i) : x \in ssts[f]
      BY <3>1
    <3>3. CASE i <= out
      BY <1>3, <3>2, <3>3 DEF NewerThan
    <3>4. CASE out < i
      <4>1. ~bottom
        BY <1>4, <3>4, OptionsAssumption DEF bottom, Level
      <4>2. NewerThan(Inputs, ssts[f])
        BY <1>3, <1>5, <3>2, <3>4
      <4> QED
        BY <3>2, <4>1, <4>2 DEF NewerThan
    <3>5. i <= out \/ out < i
      BY <1>4
    <3> QED
      BY <3>3, <3>4, <3>5
  <2> QED
    BY <2>1, <2>2, <2>3 DEF X, KeptFiles
<1>20. ASSUME NEW k \in Key, NEW s \in Nat, job.floor <= s \/ \A t \in Inputs : t.seq <= s
       PROVE  ValueIn(LiveEntries', k, s) = ValueIn(LiveEntries, k, s)
  <2>1. job.floor \in Nat /\ job.floor <= kMaxSeq
    BY <1>1, <1>4, NumberTypes DEF JobOutput
  <2>2. Table(X \cup Inputs)
    BY <1>9, <1>18
  <2>3. AboveFloor(Inputs, job.floor, s)
    BY <1>20 DEF AboveFloor
  <2>4. Around(X, Inputs, bottom, k)
    BY <1>19 DEF Around
  <2>5. bottom \in BOOLEAN
    BY DEF bottom
  <2>6. ValueIn(X \cup Retain(Inputs, job.floor, bottom), k, s) = ValueIn(X \cup Inputs, k, s)
    BY <2>1, <2>2, <2>3, <2>4, <2>5, CompactionKeepsAnswers
  <2> QED
    BY <1>18, <2>6 DEF Result
<1>21. ASSUME NEW k \in Key
       PROVE  /\ ValueIn(LiveEntries', k, kMaxSeq) = ValueIn(LiveEntries, k, kMaxSeq)
              /\ \A s \in Snap : snaps[s] # kMaxSeq =>
                    ValueIn(LiveEntries', k, snaps[s]) = ValueIn(LiveEntries, k, snaps[s])
  <2>1. /\ job.floor <= kMaxSeq /\ kMaxSeq \in Nat
        /\ \A s \in Snap : job.floor <= snaps[s] \/ \A e \in Inputs : e.seq <= snaps[s]
        /\ \A s \in Snap : snaps[s] \in Nat
    BY <1>1, <1>4, CallsAssumption DEF JobOutput, TypeInv, TypeOK, MemoryType
  <2> QED
    BY <1>20, <2>1
<1>22. \A f \in Files(w) : f < nextFile
  <2>1. \A f \in Files(current) : f < nextFile
    BY <1>1 DEF ReadInv, CoreInv, Numbers, InUse
  <2> QED
    BY <1>2, <1>10, <1>11, <2>1
<1>23. CoreInv'
  <2>1. SstEntries(ssts, current') \subseteq ImmTable \cup SstEntries(ssts, current)
    BY <1>15 DEF w
  <2>2. ViewOrdered(ssts, memtables[logNumber], ImmTable, current') /\ \A f \in Files(current') : f < nextFile
    BY <1>17, <1>22 DEF w
  <2> QED
    BY <1>1, <1>21, <2>1, <2>2, NewVersionCore
<1>24. FlushState'
  <2> SUFFICES ASSUME imm # NoFile
               PROVE  /\ memtables[imm] # {} /\ immSst < nextFile
                      /\ \A f \in FilesOf(w.l0) :
                            f <= immSst /\ (f < immSst => NewerThan(memtables[imm], ssts[f]))
                      /\ \A v \in InUse' : immSst \in Files(v) => ssts[immSst] = memtables[imm]
    BY <1>1 DEF FlushState, w
  <2>1. /\ memtables[imm] # {} /\ immSst < nextFile
        /\ \A f \in FilesOf(current.l0) :
              f <= immSst /\ (f < immSst => NewerThan(memtables[imm], ssts[f]))
        /\ \A v \in InUse : immSst \in Files(v) => ssts[immSst] = memtables[imm]
    BY DEF ReadInv, WorkInv, FlushState
  <2>2. immSst \in Files(w) => ssts[immSst] = memtables[imm]
    <3>1. immSst \notin job.outs
      BY <1>1, <1>4 DEF JobOutput
    <3>2. current \in InUse
      BY DEF InUse
    <3> QED
      BY <1>10, <1>11, <2>1, <3>1, <3>2
  <2>3. manifest' # manifest => Files(manifest') = Files(w)
    <3>1. Files(Published(w)) = Files(w)
      BY DEF Files, Published
    <3> QED
      BY <1>1, <3>1 DEF w
  <2>4. \A v \in InUse' : v \in InUse \/ Files(v) = Files(w)
    BY <1>1, <2>3 DEF InUse, w
  <2> QED
    BY <1>6, <2>1, <2>2, <2>4
<1>25. JobPlan' /\ JobOutput'
  BY <1>1 DEF JobPlan, JobOutput
<1> QED
  BY <1>23, <1>24, <1>25 DEF ReadInv, WorkInv

-----------------------------------------------------------------------------
(***************************************************************************)
(* Writes.                                                                 *)
(***************************************************************************)

\* The entry a write makes.
NewEntry(type, k) ==
    [key |-> k, seq |-> nextSeq, type |-> type,
     val |-> IF type = kTypeValue THEN calls + 1 ELSE NotFound]

\* A write in its parts: the rotation it may start with, the record it may
\* leave in the log, and what becomes of an acknowledged one.
Rotates ==
    /\ imm' = logNumber /\ immSst' = nextFile + 1 /\ logNumber' = nextFile
    /\ nextFile' = nextFile + 2 /\ nextFile + 1 <= MaxFile
    /\ memtables[logNumber] # {}

Stays == UNCHANGED <<imm, immSst, logNumber, nextFile>>

Logs(e) == logs' = logs \/ logs' = [logs EXCEPT ![logNumber'] = Append(@, e)]

Acknowledged(e) ==
    /\ memtables' = [memtables EXCEPT ![logNumber'] = Insert(@, e)]
    /\ nextSeq' = nextSeq + 1
    /\ store' = [store EXCEPT ![e.key] = ValueOf(e)]
    /\ readers' = [r \in Reader |->
         IF readers[r].mem # NoFile /\ readers[r].seq = kMaxSeq
         THEN [readers[r] EXCEPT !.ok[e.key] = @ \cup {ValueOf(e)}]
         ELSE readers[r]]

LEMMA AddRecordLogs ==
    ASSUME DiskType, NEW e, AddRecord(logNumber', e)
    PROVE  Logs(e)
<1>1. logs \in [File -> Seq(Entry)]
  BY DEF DiskType
<1>2. CASE torn[logNumber'] = "whole"
  BY <1>2 DEF AddRecord, Logs
<1>3. CASE torn[logNumber'] # "whole"
  BY <1>1, <1>3 DEF AddRecord, Logs
<1> QED
  BY <1>2, <1>3

LEMMA WriteParts ==
    ASSUME TypeInv, ReadInv, NEW type \in {kTypeDeletion, kTypeValue}, NEW k \in Key, Write(type, k)
    PROVE  /\ UNCHANGED <<status, current, snaps, ssts, manifest, bg, job, views>>
           /\ status = "up" /\ imm = NoFile /\ calls' = calls + 1
           /\ Rotates \/ Stays
           /\ Logs(NewEntry(type, k))
           /\ \/ UNCHANGED <<memtables, nextSeq, store, readers>>
              \/ Acknowledged(NewEntry(type, k))
           /\ NewEntry(type, k) \in Entry /\ NewEntry(type, k).key = k
           /\ NewEntry(type, k).seq = nextSeq /\ nextSeq <= kMaxSeq /\ nextSeq <= calls + 1
           /\ ValueOf(NewEntry(type, k)) \in Value
<1> DEFINE e == NewEntry(type, k)
<1>1. /\ UNCHANGED <<status, current, snaps, ssts, manifest, bg, job, views>>
      /\ status = "up" /\ imm = NoFile /\ calls' = calls + 1 /\ calls < MaxCalls
  BY DEF Write, MutexFree
<1>2. MemFull => memtables[logNumber] # {}
  <2>1. Cardinality({}) = 0
    BY FS_EmptySet
  <2> QED
    BY <2>1, OptionsAssumption DEF MemFull
<1>3. Rotates \/ Stays
  BY <1>2 DEF Write, RotateForFlush, Rotates, Stays
<1>4. nextSeq <= calls + 1 /\ nextSeq <= kMaxSeq
  <2>1. nextSeq <= calls + 1
    BY DEF ReadInv, CoreInv, Sequences
  <2> QED
    BY <1>1, <2>1, NumberTypes, CallsAssumption
<1>5. e \in Entry /\ e.key = k /\ e.seq = nextSeq /\ ValueOf(e) \in Value
  <2>1. (IF type = kTypeValue THEN calls + 1 ELSE NotFound) \in Value
    BY <1>1, NumberTypes, CallsAssumption DEF Value, NotFound
  <2>2. nextSeq \in Nat \ {0}
    BY NumberTypes
  <2>3. NotFound \in Value
    BY CallsAssumption DEF Value, NotFound
  <2>4. e.val \in Value
    BY <2>1 DEF NewEntry
  <2> QED
    BY <2>1, <2>2, <2>3, <2>4 DEF NewEntry, Entry, ValueOf
<1>6. ValueOf(e) = IF type = kTypeValue THEN calls + 1 ELSE NotFound
  BY DEF NewEntry, ValueOf
<1>7. WriteEntry(type, k) =>
         /\ Logs(e)
         /\ UNCHANGED <<memtables, nextSeq, store, readers>> \/ Acknowledged(e)
  <2> SUFFICES ASSUME WriteEntry(type, k)
               PROVE  /\ Logs(e)
                      /\ UNCHANGED <<memtables, nextSeq, store, readers>> \/ Acknowledged(e)
    OBVIOUS
  <2> HIDE DEF e
  <2>1. CASE UNCHANGED <<logs, memtables, nextSeq, store, readers>>
    BY <2>1 DEF Logs
  <2>2. CASE /\ AddRecord(logNumber', e)
             /\ UNCHANGED <<memtables, nextSeq, store, readers>>
    BY <1>5, <2>2, AddRecordLogs DEF TypeInv, TypeOK
  <2>3. CASE /\ AddRecord(logNumber', e)
             /\ memtables' = [memtables EXCEPT ![logNumber'] = Insert(@, e)]
             /\ nextSeq' = nextSeq + 1
             /\ store' = [store EXCEPT ![k] = ValueOf(e)]
             /\ readers' = [r \in Reader |->
                  IF readers[r].mem # NoFile /\ readers[r].seq = kMaxSeq
                  THEN [readers[r] EXCEPT !.ok[k] = @ \cup {ValueOf(e)}]
                  ELSE readers[r]]
    BY <1>5, <2>3, AddRecordLogs DEF Acknowledged, TypeInv, TypeOK
  <2> QED
    BY <1>6, <2>1, <2>2, <2>3 DEF WriteEntry, AddRecordFails, NewEntry, e
<1>8. Logs(e) /\ (UNCHANGED <<memtables, nextSeq, store, readers>> \/ Acknowledged(e))
  <2>1. WriteEntry(type, k) \/ UNCHANGED <<logs, memtables, nextSeq, store, readers>>
    BY DEF Write
  <2>2. UNCHANGED <<logs, memtables, nextSeq, store, readers>> => Logs(e)
    BY DEF Logs
  <2> QED
    BY <1>7, <2>1, <2>2
<1> QED
  BY <1>1, <1>3, <1>4, <1>5, <1>8

\* An entry newer than all of a table is inserted.
LEMMA InsertNew ==
    ASSUME NEW T \in SUBSET Entry, NEW e \in Entry, \A f \in T : f.seq < e.seq
    PROVE  Insert(T, e) = T \cup {e}
BY DEF Insert, SameInternalKey, Entry

\* A view stays in order when its memtable takes an entry newer than all of it.
LEMMA ViewGrows ==
    ASSUME NEW S, NEW m, NEW im, NEW v, IsVersion(v), ViewOrdered(S, m, im, v),
           NEW e \in Entry, e.seq <= kMaxSeq, \A f \in ViewEntries(S, m, im, v) : f.seq < e.seq
    PROVE  /\ ViewOrdered(S, m \cup {e}, im, v)
           /\ ViewEntries(S, m \cup {e}, im, v) = ViewEntries(S, m, im, v) \cup {e}
           /\ \A s \in Nat : e.seq <= s =>
                 ValueIn(ViewEntries(S, m \cup {e}, im, v), e.key, s) = ValueOf(e)
           /\ \A k : \A s \in Nat : (k # e.key \/ s < e.seq) =>
                 ValueIn(ViewEntries(S, m \cup {e}, im, v), k, s) =
                 ValueIn(ViewEntries(S, m, im, v), k, s)
<1> DEFINE V == ViewEntries(S, m, im, v)
<1>1. ViewEntries(S, m \cup {e}, im, v) = V \cup {e}
  BY DEF ViewEntries
<1>2. Table(V)
  BY ViewTable
<1>3. m \subseteq V /\ im \subseteq V /\ SstEntries(S, v) \subseteq V
  BY DEF ViewEntries
<1> HIDE DEF V
<1>4. /\ Table(V \cup {e})
      /\ \A s \in Nat : e.seq <= s => ValueIn(V \cup {e}, e.key, s) = ValueOf(e)
      /\ \A k : \A s \in Nat : (k # e.key \/ s < e.seq) =>
            ValueIn(V \cup {e}, k, s) = ValueIn(V, k, s)
  BY <1>2, WriteAnswers DEF V
<1>5. Table(m \cup {e})
  BY <1>3, <1>4, PartTable
<1>6. NewerThan(m \cup {e}, im) /\ NewerThan(m \cup {e}, SstEntries(S, v))
  BY <1>3 DEF ViewOrdered, NewerThan, V
<1>7. ViewOrdered(S, m \cup {e}, im, v)
  BY <1>5, <1>6 DEF ViewOrdered
<1> QED
  BY <1>1, <1>4, <1>7 DEF V

\* The memtables after a write; A has the entry if the write was acknowledged.
LEMMA WriteTables ==
    ASSUME TypeInv, LogInv, ReadInv, status = "up", imm = NoFile, UNCHANGED <<ssts, current>>,
           Rotates \/ Stays, NEW e \in Entry, e.seq = nextSeq, NEW A,
           \/ A = {} /\ UNCHANGED memtables
           \/ A = {e} /\ memtables' = [memtables EXCEPT ![logNumber'] = Insert(@, e)]
    PROVE  /\ logNumber' \in File /\ logNumber <= logNumber' /\ logNumber' < nextFile'
           /\ memtables'[logNumber'] = memtables[logNumber'] \cup A
           /\ \A n \in File : n # logNumber' => memtables'[n] = memtables[n]
           /\ ImmTable = {}
           /\ \/ Stays /\ ImmTable' = {} /\ logNumber' = logNumber /\ nextFile' = nextFile
              \/ /\ Rotates /\ memtables[logNumber'] = {} /\ ImmTable' = memtables[logNumber]
                 /\ logNumber < logNumber' /\ nextFile <= nextFile' /\ imm' # NoFile
           /\ LiveEntries' = LiveEntries \cup A
           /\ \A x \in LiveEntries : x.seq < e.seq
<1>1. /\ memtables \in [File -> SUBSET Entry] /\ logNumber \in File /\ logNumber < nextFile
      /\ File \subseteq Nat \ {0} /\ nextFile \in Nat
  BY NumberTypes, FileNumbers DEF TypeInv, TypeOK, MemoryType, LogInv
<1>2. Rotates => nextFile \in File
  BY FileNumbers, BoundsAssumption DEF Rotates, TypeInv, TypeOK, MemoryType
<1>3. logNumber' \in File /\ (Rotates => logNumber < logNumber') /\ (Stays => logNumber' = logNumber)
  BY <1>1, <1>2 DEF Rotates, Stays
<1>4. logNumber <= logNumber' /\ logNumber' < nextFile'
  BY <1>1, <1>3 DEF Rotates, Stays
<1>5. ImmTable = {} /\ memtables[logNumber] \subseteq LiveEntries /\ \A x \in LiveEntries : x.seq < e.seq
  BY DEF ImmTable, LiveEntries, ViewEntries, ReadInv, CoreInv, Sequences
<1>6. Rotates => memtables[logNumber'] = {}
  BY <1>1, <1>2 DEF Rotates, ReadInv, CoreInv, Numbers
<1>7. Insert(memtables[logNumber'], e) = memtables[logNumber'] \cup {e}
  <2>1. memtables[logNumber'] \in SUBSET Entry /\ \A f \in memtables[logNumber'] : f.seq < e.seq
    BY <1>1, <1>3, <1>5, <1>6
  <2> QED
    BY <2>1, InsertNew
<1>8. /\ memtables'[logNumber'] = memtables[logNumber'] \cup A
      /\ \A n \in File : n # logNumber' => memtables'[n] = memtables[n]
  BY <1>1, <1>3, <1>7
<1>9. Stays => ImmTable' = {}
  BY DEF Stays, ImmTable
<1>10. Rotates => ImmTable' = memtables[logNumber] /\ imm' # NoFile
  <2> SUFFICES ASSUME Rotates PROVE ImmTable' = memtables[logNumber] /\ imm' # NoFile
    OBVIOUS
  <2>1. imm' = logNumber /\ imm' # NoFile /\ logNumber # logNumber'
    BY <1>1, <1>3 DEF Rotates, NoFile
  <2> QED
    BY <1>1, <1>8, <2>1 DEF ImmTable
<1>11. LiveEntries' = LiveEntries \cup A
  <2>1. LiveEntries' = memtables'[logNumber'] \cup ImmTable' \cup SstEntries(ssts, current)
    BY DEF LiveEntries, ViewEntries
  <2>2. LiveEntries = memtables[logNumber] \cup SstEntries(ssts, current)
    BY <1>5 DEF LiveEntries, ViewEntries
  <2> QED
    BY <1>3, <1>6, <1>8, <1>9, <1>10, <2>1, <2>2
<1>12. Stays => nextFile' = nextFile
  BY DEF Stays
<1>13. Rotates => nextFile <= nextFile'
  BY <1>1 DEF Rotates
<1> QED
  BY <1>3, <1>4, <1>5, <1>6, <1>8, <1>9, <1>10, <1>11, <1>12, <1>13

\* The same as one fact about a view and an entry, and its premise as another.
AllOlder(T, e) == \A f \in T : f.seq < e.seq
GrownBy(S, m, im, v, e) ==
    /\ ViewOrdered(S, m \cup {e}, im, v)
    /\ ViewEntries(S, m \cup {e}, im, v) = ViewEntries(S, m, im, v) \cup {e}
    /\ \A s \in Nat : e.seq <= s =>
          ValueIn(ViewEntries(S, m \cup {e}, im, v), e.key, s) = ValueOf(e)
    /\ \A k : \A s \in Nat : (k # e.key \/ s < e.seq) =>
          ValueIn(ViewEntries(S, m \cup {e}, im, v), k, s) =
          ValueIn(ViewEntries(S, m, im, v), k, s)

LEMMA ViewGrowsBy ==
    ASSUME NEW S, NEW m, NEW im, NEW v, IsVersion(v), ViewOrdered(S, m, im, v),
           NEW e \in Entry, e.seq <= kMaxSeq, AllOlder(ViewEntries(S, m, im, v), e)
    PROVE  GrownBy(S, m, im, v, e)
<1>1. \A f \in ViewEntries(S, m, im, v) : f.seq < e.seq
  BY DEF AllOlder
<1> QED
  BY <1>1, ViewGrows DEF GrownBy

\* A reader during a write: what it copied, grown by the new entry if it copied
\* the live memtable; and the answers it may give.
LEMMA WriteReader ==
    ASSUME TypeInv, LogInv, ReadInv, status = "up", imm = NoFile, UNCHANGED <<ssts, current>>,
           Rotates \/ Stays, NEW e \in Entry, e.seq = nextSeq, nextSeq <= kMaxSeq, e.key \in Key,
           UNCHANGED <<memtables, nextSeq, store, readers>> \/ Acknowledged(e),
           NEW r \in Reader, readers'[r] # NoRead
    PROVE  /\ readers[r] # NoRead
           /\ readers'[r].mem = readers[r].mem /\ readers'[r].imm = readers[r].imm
           /\ readers'[r].ver = readers[r].ver /\ readers'[r].seq = readers[r].seq
           /\ readers[r].seq \in Nat
           /\ MemOf(readers[r].imm)' = MemOf(readers[r].imm)
           /\ ViewOrdered(ssts, memtables'[readers'[r].mem], MemOf(readers[r].imm)', readers'[r].ver)
           /\ \A x \in ReaderEntries(r)' : x.seq < nextSeq'
           /\ \A k \in Key : ValueIn(ReaderEntries(r)', k, readers'[r].seq) \in readers'[r].ok[k]
<1> DEFINE c == readers[r]
           A == IF nextSeq' = nextSeq THEN {} ELSE {e}
<1>1. readers \in [Reader -> Read] /\ c \in Read /\ nextSeq \in Nat /\ kMaxSeq \in Nat
  BY NumberTypes DEF TypeInv, TypeOK, ThreadType
<1>2. \/ A = {} /\ UNCHANGED <<memtables, nextSeq, store, readers>>
      \/ A = {e} /\ Acknowledged(e) /\ nextSeq' = nextSeq + 1
  BY <1>1 DEF Acknowledged
<1> HIDE DEF A
<1>3. /\ c # NoRead
      /\ readers'[r].mem = c.mem /\ readers'[r].imm = c.imm
      /\ readers'[r].ver = c.ver /\ readers'[r].seq = c.seq
      /\ \A k \in Key : c.ok[k] \subseteq readers'[r].ok[k]
      /\ (A = {e} /\ c.mem # NoFile /\ c.seq = kMaxSeq) => ValueOf(e) \in readers'[r].ok[e.key]
  <2>1. CASE A = {}
    BY <1>2, <2>1 DEF Acknowledged
  <2>2. CASE A = {e} /\ c.mem # NoFile /\ c.seq = kMaxSeq
    <3>1. readers'[r] = [c EXCEPT !.ok[e.key] = @ \cup {ValueOf(e)}]
      BY <1>2, <2>2 DEF Acknowledged
    <3>2. c.ok \in [Key -> SUBSET Value]
      BY <1>1 DEF Read
    <3>3. c # NoRead
      BY <2>2 DEF NoRead
    <3> QED
      BY <1>1, <3>1, <3>2, <3>3 DEF Read
  <2>3. CASE A = {e} /\ ~(c.mem # NoFile /\ c.seq = kMaxSeq)
    BY <1>2, <2>3 DEF Acknowledged
  <2> QED
    BY <1>2, <2>1, <2>2, <2>3
<1>4. /\ c.mem \in File /\ c.mem <= logNumber /\ c.imm < logNumber
      /\ c.seq = kMaxSeq \/ c.seq < nextSeq
      /\ \A x \in ReaderEntries(r) : x.seq < nextSeq
      /\ ViewOrdered(ssts, memtables[c.mem], MemOf(c.imm), c.ver)
      /\ \A k \in Key : ValueIn(ReaderEntries(r), k, c.seq) \in c.ok[k]
  BY <1>3 DEF ReadInv, CoreInv, Numbers, Sequences, ReadersOrdered, ReaderAnswers
<1>5. c.seq \in Nat /\ c.imm \in File \cup {NoFile} /\ IsVersion(c.ver)
  BY <1>1, VersionTypes DEF Read
<1>6. /\ logNumber' \in File /\ logNumber <= logNumber'
      /\ memtables'[logNumber'] = memtables[logNumber'] \cup A
      /\ \A n \in File : n # logNumber' => memtables'[n] = memtables[n]
  <2>1. \/ A = {} /\ UNCHANGED memtables
        \/ A = {e} /\ memtables' = [memtables EXCEPT ![logNumber'] = Insert(@, e)]
    BY <1>2 DEF Acknowledged
  <2> QED
    BY <2>1, WriteTables
<1>7. MemOf(c.imm)' = MemOf(c.imm) /\ MemOf(readers[r].imm)' = MemOf(c.imm)
  <2>1. c.imm \in File => c.imm # logNumber'
    BY <1>4, <1>6, NumberTypes, FileNumbers
  <2>2. MemOf(readers[r].imm)' = IF readers'[r].imm = NoFile THEN {} ELSE memtables'[readers'[r].imm]
    BY DEF MemOf
  <2>3. MemOf(readers[r].imm)' = IF c.imm = NoFile THEN {} ELSE memtables'[c.imm]
    BY <1>3, <2>2
  <2> QED
    BY <1>5, <1>6, <2>1, <2>3 DEF MemOf
<1>8. \/ memtables'[c.mem] = memtables[c.mem]
      \/ A = {e} /\ memtables'[c.mem] = memtables[c.mem] \cup {e}
  BY <1>2, <1>4, <1>6
<1>9. ReaderEntries(r) = ViewEntries(ssts, memtables[c.mem], MemOf(c.imm), c.ver)
  BY DEF ReaderEntries
<1>10. ReaderEntries(r)' = ViewEntries(ssts, memtables'[c.mem], MemOf(c.imm), c.ver)
  BY <1>3, <1>7 DEF ReaderEntries
<1>11. CASE memtables'[c.mem] = memtables[c.mem]
  <2>1. ReaderEntries(r)' = ReaderEntries(r)
    BY <1>9, <1>10, <1>11
  <2>2. \A x \in ReaderEntries(r)' : x.seq < nextSeq'
    <3>1. ReaderEntries(r) \subseteq Entry
      BY <1>4, <1>5, <1>9, ViewTable DEF Table
    <3>2. \A x \in ReaderEntries(r) : x.seq \in Nat
      BY <3>1 DEF Entry
    <3> QED
      BY <1>1, <1>2, <1>4, <2>1, <3>2
  <2>3. ViewOrdered(ssts, memtables'[c.mem], MemOf(c.imm), c.ver)
    BY <1>4, <1>11
  <2>4. \A k \in Key : ValueIn(ReaderEntries(r)', k, c.seq) \in readers'[r].ok[k]
    BY <1>3, <1>4, <2>1
  <2> QED
    BY <1>3, <1>5, <1>7, <2>2, <2>3, <2>4
<1>12. CASE A = {e} /\ memtables'[c.mem] = memtables[c.mem] \cup {e}
  <2>1. \A x \in ReaderEntries(r) : x.seq < e.seq
    BY <1>4
  <2>2. /\ ViewOrdered(ssts, memtables[c.mem] \cup {e}, MemOf(c.imm), c.ver)
        /\ ReaderEntries(r)' = ReaderEntries(r) \cup {e}
        /\ \A s \in Nat : e.seq <= s => ValueIn(ReaderEntries(r)', e.key, s) = ValueOf(e)
        /\ \A k : \A s \in Nat : (k # e.key \/ s < e.seq) =>
              ValueIn(ReaderEntries(r)', k, s) = ValueIn(ReaderEntries(r), k, s)
    <3>1. PICK m, im, v : m = memtables[c.mem] /\ im = MemOf(c.imm) /\ v = c.ver
      OBVIOUS
    <3>2. ReaderEntries(r) = ViewEntries(ssts, m, im, v)
      BY <1>9, <3>1
    <3>3. ReaderEntries(r)' = ViewEntries(ssts, m \cup {e}, im, v)
      BY <1>10, <1>12, <3>1
    <3>4. IsVersion(v) /\ ViewOrdered(ssts, m, im, v) /\ e.seq <= kMaxSeq
      BY <1>4, <1>5, <3>1
    <3>5. AllOlder(ViewEntries(ssts, m, im, v), e)
      BY <2>1, <3>2 DEF AllOlder
    <3>6. GrownBy(ssts, m, im, v, e)
      BY <3>4, <3>5, ViewGrowsBy
    <3> HIDE DEF c
    <3> QED
      BY <3>1, <3>2, <3>3, <3>6 DEF GrownBy
  <2>3. \A x \in ReaderEntries(r)' : x.seq < nextSeq'
    <3>1. ReaderEntries(r) \subseteq Entry
      BY <1>4, <1>5, <1>9, ViewTable DEF Table
    <3>2. \A x \in ReaderEntries(r) : x.seq \in Nat
      BY <3>1 DEF Entry
    <3>3. A # {}
      BY <1>12
    <3> QED
      BY <1>1, <1>2, <1>4, <2>2, <3>2, <3>3
  <2>4. ASSUME NEW k \in Key PROVE ValueIn(ReaderEntries(r)', k, c.seq) \in readers'[r].ok[k]
    <3>1. CASE k # e.key \/ c.seq < e.seq
      BY <1>3, <1>4, <1>5, <2>2, <3>1
    <3>2. CASE k = e.key /\ ~(c.seq < e.seq)
      <4>1. c.seq = kMaxSeq /\ e.seq <= c.seq /\ c.mem # NoFile
        BY <1>4, <3>2, FileNumbers
      <4> QED
        BY <1>3, <1>5, <1>12, <2>2, <3>2, <4>1
    <3> QED
      BY <3>1, <3>2
  <2> QED
    BY <1>3, <1>5, <1>7, <1>12, <2>2, <2>3, <2>4
<1> QED
  BY <1>8, <1>11, <1>12

\* The logs after a write.
LEMMA WriteLogs ==
    ASSUME TypeInv, LogInv, ReadInv, status = "up", logNumber' \in File, NEW e \in Entry, Logs(e)
    PROVE  /\ \A n \in File : n # logNumber' => logs'[n] = logs[n]
           /\ \A n \in File : Records(logs'[n]) \subseteq Records(logs[n]) \cup {e}
<1>1. logs \in [File -> Seq(Entry)]
  BY DEF TypeInv, TypeOK, DiskType
<1>2. CASE logs' = logs
  BY <1>2
<1>3. CASE logs' = [logs EXCEPT ![logNumber'] = Append(@, e)]
  <2>1. /\ \A n \in File : n # logNumber' => logs'[n] = logs[n]
        /\ logs'[logNumber'] = Append(logs[logNumber'], e)
    BY <1>1, <1>3
  <2>2. Records(Append(logs[logNumber'], e)) \subseteq Records(logs[logNumber']) \cup {e}
    <3>1. logs[logNumber'] \in Seq(Entry)
      BY <1>1
    <3> QED
      BY <3>1 DEF Records
  <2> QED
    BY <2>1, <2>2
<1> QED
  BY <1>2, <1>3 DEF Logs

\* Put and Delete.
LEMMA WriteRead ==
    ASSUME TypeInv, TypeInv', LogInv, ReadInv,
           NEW type \in {kTypeDeletion, kTypeValue}, NEW k \in Key, Write(type, k)
    PROVE  ReadInv'
<1> DEFINE e == NewEntry(type, k)
           A == IF nextSeq' = nextSeq THEN {} ELSE {e}
<1>1. /\ UNCHANGED <<status, current, snaps, ssts, manifest, bg, job, views>>
      /\ status = "up" /\ imm = NoFile /\ calls' = calls + 1
      /\ Rotates \/ Stays
      /\ Logs(e)
      /\ UNCHANGED <<memtables, nextSeq, store, readers>> \/ Acknowledged(e)
      /\ e \in Entry /\ e.key = k /\ e.seq = nextSeq /\ nextSeq <= kMaxSeq /\ nextSeq <= calls + 1
      /\ ValueOf(e) \in Value
  BY WriteParts
<1>2. nextSeq \in Nat /\ calls \in Nat /\ kMaxSeq \in Nat /\ nextFile \in Nat /\ logNumber \in File
        /\ logNumber \in Nat /\ File \subseteq Nat
  BY NumberTypes, FileNumbers
<1>3. \/ A = {} /\ UNCHANGED <<memtables, nextSeq, store, readers>>
      \/ A = {e} /\ Acknowledged(e) /\ nextSeq' = nextSeq + 1
  BY <1>1, <1>2 DEF Acknowledged
<1> HIDE DEF A, e
<1>4. /\ logNumber' \in File /\ logNumber <= logNumber' /\ logNumber' < nextFile'
      /\ memtables'[logNumber'] = memtables[logNumber'] \cup A
      /\ \A n \in File : n # logNumber' => memtables'[n] = memtables[n]
      /\ ImmTable = {}
      /\ \/ Stays /\ ImmTable' = {} /\ logNumber' = logNumber /\ nextFile' = nextFile
         \/ /\ Rotates /\ memtables[logNumber'] = {} /\ ImmTable' = memtables[logNumber]
            /\ logNumber < logNumber' /\ nextFile <= nextFile' /\ imm' # NoFile
      /\ LiveEntries' = LiveEntries \cup A
      /\ \A x \in LiveEntries : x.seq < e.seq
  <2>1. \/ A = {} /\ UNCHANGED memtables
        \/ A = {e} /\ memtables' = [memtables EXCEPT ![logNumber'] = Insert(@, e)]
    BY <1>3 DEF Acknowledged
  <2> QED
    BY <1>1, <2>1, WriteTables
<1>5. ASSUME NEW r \in Reader, readers'[r] # NoRead
      PROVE  /\ readers[r] # NoRead
             /\ readers'[r].mem = readers[r].mem /\ readers'[r].imm = readers[r].imm
             /\ readers'[r].ver = readers[r].ver /\ readers'[r].seq = readers[r].seq
             /\ readers[r].seq \in Nat
             /\ ViewOrdered(ssts, memtables'[readers'[r].mem], MemOf(readers[r].imm)', readers'[r].ver)
             /\ \A x \in ReaderEntries(r)' : x.seq < nextSeq'
             /\ \A q \in Key : ValueIn(ReaderEntries(r)', q, readers'[r].seq) \in readers'[r].ok[q]
  BY <1>1, <1>5, WriteReader
<1>6. /\ \A n \in File : n # logNumber' => logs'[n] = logs[n]
      /\ \A n \in File : Records(logs'[n]) \subseteq Records(logs[n]) \cup {e}
  BY <1>1, <1>4, WriteLogs
<1>7. /\ ViewOrdered(ssts, memtables[logNumber], {}, current)
      /\ IsVersion(current) /\ Ordered(ssts, current)
  BY <1>1, <1>4, VersionTypes DEF ReadInv, CoreInv, LiveOrdered, ViewOrdered
<1>8. LiveEntries = ViewEntries(ssts, memtables[logNumber], {}, current)
  BY <1>4 DEF LiveEntries
<1>9. /\ memtables[logNumber] \subseteq LiveEntries /\ SstEntries(ssts, current) \subseteq LiveEntries
      /\ LiveEntries \subseteq Entry /\ Table(LiveEntries)
  <2>1. Table(LiveEntries)
    BY <1>7, <1>8, ViewTable
  <2> QED
    BY <1>8, <2>1 DEF ViewEntries, Table
<1>10. /\ Table(LiveEntries \cup {e})
       /\ \A s \in Nat : e.seq <= s => ValueIn(LiveEntries \cup {e}, e.key, s) = ValueOf(e)
       /\ \A q : \A s \in Nat : (q # e.key \/ s < e.seq) =>
             ValueIn(LiveEntries \cup {e}, q, s) = ValueIn(LiveEntries, q, s)
  BY <1>1, <1>4, <1>9, WriteAnswers
<1>11. LiveOrdered'
  <2>1. NewerThan({e}, LiveEntries) /\ Table({e}) /\ Table({})
    <3>1. NewerThan({e}, LiveEntries)
      BY <1>4 DEF NewerThan
    <3>2. Table({e})
      BY <1>10, PartTable
    <3> QED
      BY <3>1, <3>2 DEF Table
  <2>2. Table(A) /\ NewerThan(A, LiveEntries)
    BY <1>3, <2>1 DEF NewerThan
  <2>3. CASE Stays
    <3>1. logNumber' = logNumber /\ ImmTable' = {}
      BY <1>2, <1>4, <2>3 DEF Rotates, Stays
    <3>2. \/ memtables'[logNumber'] = memtables[logNumber]
          \/ memtables'[logNumber'] = memtables[logNumber] \cup {e}
      BY <1>3, <1>4, <3>1
    <3>3. ViewOrdered(ssts, memtables[logNumber] \cup {e}, {}, current)
      BY <1>1, <1>4, <1>7, <1>8, ViewGrows
    <3>4. ViewOrdered(ssts, memtables'[logNumber'], {}, current)
      BY <1>7, <3>2, <3>3
    <3> QED
      BY <1>1, <3>1, <3>4 DEF LiveOrdered
  <2>4. CASE Rotates
    <3>1. memtables'[logNumber'] = A /\ ImmTable' = memtables[logNumber]
      BY <1>2, <1>4, <2>4 DEF Rotates, Stays
    <3>2. NewerThan(A, memtables[logNumber]) /\ NewerThan(A, SstEntries(ssts, current))
      BY <1>9, <2>2, PartsNewerApart
    <3>3. /\ Table(memtables[logNumber])
          /\ NewerThan(memtables[logNumber], SstEntries(ssts, current))
      BY <1>7 DEF ViewOrdered
    <3>4. \A f \in Files(current) : NewerThan(memtables[logNumber], ssts[f])
      BY <3>3, SstMembers, PartsNewerApart
    <3>5. ViewOrdered(ssts, A, memtables[logNumber], current)
      BY <1>7, <2>2, <3>2, <3>3, <3>4, FilesMembers DEF ViewOrdered
    <3> QED
      BY <1>1, <3>1, <3>5 DEF LiveOrdered
  <2> QED
    BY <1>1, <2>3, <2>4
<1>12. ReadersOrdered'
  BY <1>1, <1>5 DEF ReadersOrdered
<1>13. ReaderAnswers'
  BY <1>5 DEF ReaderAnswers
<1>14. DiskOrdered'
  <2>1. \A x \in SstEntries(ssts, manifest) : x.seq < e.seq
    BY <1>1 DEF ReadInv, CoreInv, Sequences
  <2>2. ASSUME NEW n \in File, manifest.floor <= n
        PROVE  NewerThan(Records(logs'[n]), SstEntries(ssts, manifest))
    <3>1. NewerThan(Records(logs[n]), SstEntries(ssts, manifest))
      BY <2>2 DEF ReadInv, CoreInv, DiskOrdered
    <3> QED
      BY <1>6, <2>1, <3>1 DEF NewerThan
  <2>3. /\ NewerThan(Records(logs[logNumber]), SstEntries(ssts, current))
        /\ \A n \in File : logNumber < n => logs[n] = <<>>
        /\ Ordered(ssts, manifest)
    BY <1>1 DEF ReadInv, CoreInv, DiskOrdered
  <2>4. ASSUME NEW n \in File, logNumber' < n PROVE logs'[n] = <<>>
    <3>1. logNumber' \in Nat /\ logNumber <= logNumber' /\ n \in Nat
      BY <1>2, <1>4
    <3>2. n # logNumber' /\ logNumber < n
      BY <1>2, <2>4, <3>1
    <3> QED
      BY <1>6, <2>3, <3>2
  <2>5. CASE Stays
    <3>1. logNumber' = logNumber /\ ImmTable' = {}
      BY <1>2, <1>4, <2>5 DEF Rotates, Stays
    <3>2. NewerThan(Records(logs'[logNumber']), SstEntries(ssts, current))
      BY <1>2, <1>4, <1>6, <1>9, <2>3, <3>1 DEF NewerThan
    <3>3. NewerThan(Records(logs'[logNumber']), ImmTable')
      BY <3>1 DEF NewerThan
    <3> QED
      BY <1>1, <2>2, <2>3, <2>4, <3>2, <3>3 DEF DiskOrdered
  <2>6. CASE Rotates
    <3>1. logNumber < logNumber' /\ ImmTable' = memtables[logNumber]
      BY <1>2, <1>4, <2>6 DEF Rotates, Stays
    <3>2. Records(logs[logNumber']) = {}
      BY <1>4, <2>3, <3>1 DEF Records
    <3>3. Records(logs'[logNumber']) \subseteq {e}
      BY <1>4, <1>6, <3>2
    <3>4. /\ NewerThan(Records(logs'[logNumber']), SstEntries(ssts, current))
          /\ NewerThan(Records(logs'[logNumber']), ImmTable')
      BY <1>4, <1>9, <3>1, <3>3 DEF NewerThan
    <3> QED
      BY <1>1, <2>2, <2>3, <2>4, <3>4 DEF DiskOrdered
  <2> QED
    BY <1>1, <2>5, <2>6
<1>15. Sequences'
  <2>1. nextSeq' <= calls' + 1 /\ nextSeq <= nextSeq' /\ nextSeq' \in Nat
    BY <1>1, <1>2, <1>3
  <2>2. ASSUME NEW n \in File, NEW x \in Records(logs'[n]) PROVE x.seq <= calls'
    <3>1. CASE x = e
      BY <1>1, <1>2, <3>1
    <3>2. CASE x \in Records(logs[n])
      <4>1. x.seq <= calls
        BY <3>2 DEF ReadInv, CoreInv, Sequences
      <4>2. x \in Entry
        BY <3>2 DEF Records, TypeInv, TypeOK, DiskType
      <4>3. x.seq \in Nat
        BY <4>2 DEF Entry
      <4> QED
        BY <1>1, <1>2, <4>1, <4>3
    <3> QED
      BY <1>6, <3>1, <3>2
  <2>3. ASSUME NEW x \in SstEntries(ssts, manifest) PROVE x.seq <= calls' /\ x.seq < nextSeq'
    <3>1. x.seq <= calls /\ x.seq < nextSeq
      BY <1>1 DEF ReadInv, CoreInv, Sequences
    <3>2. x \in Entry
      BY VersionTypes, SstEntriesType
    <3>3. x.seq \in Nat
      BY <3>2 DEF Entry
    <3> QED
      BY <1>1, <1>2, <2>1, <3>1, <3>3
  <2>4. ASSUME NEW x \in LiveEntries' PROVE x.seq < nextSeq'
    <3>1. CASE x \in LiveEntries
      <4>1. x.seq \in Nat /\ x.seq < nextSeq
        BY <1>1, <1>4, <1>9, <3>1 DEF Entry
      <4> QED
        BY <1>2, <2>1, <4>1
    <3>2. CASE x \in A
      <4>1. x = e /\ nextSeq' = nextSeq + 1
        BY <1>3, <3>2
      <4> QED
        BY <1>1, <1>2, <4>1
    <3> QED
      BY <1>4, <3>1, <3>2
  <2>5. ASSUME NEW s \in Snap, snaps[s] # kMaxSeq PROVE snaps[s] < nextSeq'
    <3>1. snaps[s] < nextSeq /\ snaps[s] \in Nat
      BY <2>5 DEF ReadInv, CoreInv, Sequences, TypeInv, TypeOK, MemoryType
    <3> QED
      BY <1>2, <2>1, <3>1
  <2>6. ASSUME NEW r \in Reader, readers'[r] # NoRead
        PROVE  readers'[r].seq = kMaxSeq \/ readers'[r].seq < nextSeq'
    <3>1. readers[r].seq = kMaxSeq \/ readers[r].seq < nextSeq
      BY <1>5, <2>6 DEF ReadInv, CoreInv, Sequences
    <3> QED
      BY <1>2, <1>5, <2>1, <2>6, <3>1
  <2> QED
    BY <1>1, <1>5, <2>1, <2>2, <2>3, <2>4, <2>5, <2>6 DEF Sequences
<1>16. nextFile <= nextFile' /\ nextFile' \in Nat
  BY <1>2, <1>4 DEF Rotates
<1>17. /\ \A v \in InUse' : v \in InUse \/ Files(v) = {}
       /\ \A v \in InUse : \A f \in Files(v) : f < nextFile /\ f \in Nat
  <2>1. ASSUME NEW r \in Reader
        PROVE  readers'[r].ver \in InUse \/ Files(readers'[r].ver) = {}
    <3>1. Files(NoRead.ver) = {}
      BY DEF Files, FilesOf, EmptyVersion, NoRead
    <3> QED
      BY <1>5, <3>1 DEF InUse
  <2>2. \A v \in InUse' : v \in InUse \/ Files(v) = {}
    BY <1>1, <2>1 DEF InUse
  <2>3. \A v \in InUse : \A f \in Files(v) : f \in Nat
    BY VersionTypes, FileNumbers
  <2>4. \A v \in InUse : \A f \in Files(v) : f < nextFile
    BY <1>1 DEF ReadInv, CoreInv, Numbers
  <2> QED
    BY <2>2, <2>3, <2>4
<1>18. Numbers'
  <2>1. \A v \in InUse' : \A f \in Files(v) : f < nextFile'
    BY <1>2, <1>16, <1>17
  <2>2. \A n \in File : nextFile' <= n => memtables'[n] = {}
    <3> SUFFICES ASSUME NEW n \in File, nextFile' <= n PROVE memtables'[n] = {}
      OBVIOUS
    <3>1. n # logNumber' /\ nextFile <= n
      BY <1>2, <1>4, <1>16
    <3>2. memtables[n] = {}
      BY <1>1, <3>1 DEF ReadInv, CoreInv, Numbers
    <3> QED
      BY <1>4, <3>1, <3>2
  <2>3. ASSUME NEW r \in Reader, readers'[r] # NoRead
        PROVE  /\ readers'[r].mem \in File /\ readers'[r].mem <= logNumber'
               /\ readers'[r].imm < logNumber'
    <3>1. /\ readers[r].mem \in File /\ readers[r].mem <= logNumber /\ readers[r].imm < logNumber
      BY <1>1, <1>5, <2>3 DEF ReadInv, CoreInv, Numbers
    <3>2. readers[r].imm \in Nat
      <4>1. readers[r].imm \in File \cup {NoFile}
        BY DEF TypeInv, TypeOK, ThreadType, Read
      <4>2. \A x \in File \cup {NoFile} : x \in Nat
        BY FileNumbers DEF NoFile
      <4> QED
        BY <4>1, <4>2
    <3>3. logNumber <= logNumber' /\ logNumber' \in Nat /\ readers[r].mem \in Nat
      BY <1>2, <1>4, <3>1
    <3>4. readers[r].mem <= logNumber' /\ readers[r].imm < logNumber'
      BY <1>2, <3>1, <3>2, <3>3
    <3> QED
      BY <1>5, <2>3, <3>1, <3>4
  <2> QED
    BY <1>1, <2>1, <2>2, <2>3 DEF Numbers
<1>19. Answers'
  <2>1. nextSeq \in Nat /\ \A s \in Snap : snaps[s] \in Nat /\ (snaps[s] # kMaxSeq => snaps[s] < e.seq)
    BY <1>1, <1>2 DEF ReadInv, CoreInv, Sequences, TypeInv, TypeOK, MemoryType
  <2>2. /\ \A q \in Key : ValueIn(LiveEntries, q, kMaxSeq) = store[q]
        /\ \A q \in Key : \A s \in Snap : snaps[s] # kMaxSeq => ValueIn(LiveEntries, q, snaps[s]) = views[s][q]
    BY <1>1 DEF ReadInv, CoreInv, Answers
  <2>3. CASE A = {}
    BY <1>1, <1>3, <1>4, <2>2, <2>3 DEF Answers
  <2>4. CASE A = {e} /\ Acknowledged(e)
    <3>1. store \in [Key -> Value]
      BY DEF TypeInv, TypeOK, HistoryType
    <3>2. \A q \in Key : store'[q] = IF q = k THEN ValueOf(e) ELSE store[q]
      BY <1>1, <2>4, <3>1 DEF Acknowledged
    <3>3. LiveEntries' = LiveEntries \cup {e}
      BY <1>4, <2>4
    <3>4. \A q \in Key : ValueIn(LiveEntries', q, kMaxSeq) = store'[q]
      BY <1>1, <1>2, <1>10, <2>2, <3>2, <3>3
    <3>5. \A q \in Key : \A s \in Snap : snaps[s] # kMaxSeq =>
              ValueIn(LiveEntries', q, snaps[s]) = views[s][q]
      BY <1>10, <2>1, <2>2, <3>3
    <3> QED
      BY <1>1, <3>4, <3>5 DEF Answers
  <2> QED
    BY <1>3, <2>3, <2>4
<1>20. FlushState'
  <2>1. bg \notin {"install_flush", "unlink_log", "flushed"}
    BY <1>1 DEF TypeInv, FlushPending, Flushing
  <2>2. CASE Stays
    BY <1>1, <2>1, <2>2 DEF FlushState, Stays
  <2>3. CASE Rotates
    <3>1. /\ imm' = logNumber /\ immSst' = nextFile + 1 /\ nextFile' = nextFile + 2
          /\ memtables[logNumber] # {} /\ logNumber # logNumber'
      BY <1>2, <1>4, <2>3 DEF Rotates, Stays
    <3>2. memtables'[imm'] = memtables[logNumber]
      BY <1>2, <1>4, <3>1
    <3>3. \A v \in InUse' : immSst' \notin Files(v)
      BY <1>2, <1>17, <3>1
    <3>4. \A f \in FilesOf(current.l0) : f <= immSst' /\ NewerThan(memtables[logNumber], ssts[f])
      <4>1. \A f \in FilesOf(current.l0) : f \in Files(current) /\ f < nextFile /\ f \in Nat
        BY <1>17, FilesMembers DEF InUse
      <4>2. NewerThan(memtables[logNumber], SstEntries(ssts, current))
        BY <1>7 DEF ViewOrdered
      <4>3. \A f \in FilesOf(current.l0) : NewerThan(memtables[logNumber], ssts[f])
        BY <4>1, <4>2, SstMembers, PartsNewerApart
      <4> QED
        BY <1>2, <3>1, <4>1, <4>3
    <3>5. immSst' < nextFile'
      BY <1>2, <3>1
    <3> QED
      BY <1>1, <2>1, <3>1, <3>2, <3>3, <3>4, <3>5 DEF FlushState
  <2> QED
    BY <1>1, <2>2, <2>3
<1>21. imm' # NoFile => nextFile < immSst'
  <2>1. CASE Stays
    BY <1>1, <2>1 DEF Stays
  <2>2. CASE Rotates
    BY <1>2, <2>2 DEF Rotates
  <2> QED
    BY <1>1, <2>1, <2>2
<1>22. JobPlan'
  <2>1. \A f \in FilesOf(current.l0) : f < nextFile /\ f \in Nat
    BY <1>17, FilesMembers DEF InUse
  <2>2. imm' # NoFile => immSst' \notin FilesOf(current.l0)
    BY <1>2, <1>21, <2>1
  <2>3. Inputs' = Inputs
    BY <1>1 DEF Inputs
  <2> QED
    BY <1>1, <2>2, <2>3 DEF JobPlan, ReadInv, WorkInv
<1>23. JobOutput'
  <2> SUFFICES ASSUME bg = "merge" PROVE JobOutput'
    BY <1>1 DEF JobOutput
  <2>1. JobOutput /\ job.outs \subseteq Nat /\ Inputs' = Inputs
    BY <1>1, FileNumbers DEF ReadInv, WorkInv, TypeInv, TypeOK, ThreadType, Job, Inputs
  <2>2. \A f \in job.outs : f < nextFile
    BY <2>1 DEF JobOutput
  <2>3. \A f \in job.outs : f < nextFile' /\ (imm' # NoFile => f # immSst')
    BY <1>2, <1>16, <1>21, <2>1, <2>2
  <2> QED
    BY <1>1, <2>1, <2>3 DEF JobOutput
<1> QED
  BY <1>11, <1>12, <1>13, <1>14, <1>15, <1>18, <1>19, <1>20, <1>22, <1>23 DEF ReadInv, CoreInv, WorkInv

-----------------------------------------------------------------------------
(***************************************************************************)
(* Crashes and Open.                                                       *)
(***************************************************************************)

\* The process ends: logs lose records, nothing else is left to order.
LEMMA CrashRead ==
    ASSUME TypeInv, TypeInv', LogInv, ReadInv, NEW kind, Crash(kind) PROVE ReadInv'
<1>1. /\ UNCHANGED <<logFiles, ssts, manifest, calls>>
      /\ status' = "down" /\ nextSeq' = 1 /\ imm' = NoFile /\ bg' = "idle"
      /\ memtables' = [n \in File |-> {}]
      /\ snaps' = [s \in Snap |-> kMaxSeq]
      /\ readers' = [r \in Reader |-> NoRead]
  BY DEF Crash
<1>2. /\ \A n \in File : Records(logs'[n]) \subseteq Records(logs[n])
      /\ \A n \in File \ logFiles : logs'[n] = <<>>
  <2>1. PICK left \in [logFiles -> 0..MaxCalls] :
           /\ \A n \in logFiles : left[n] \in
                (IF kind = "power" THEN synced[n] ELSE Len(logs[n]))..Len(logs[n])
           /\ logs' = [n \in File |-> IF n \in logFiles
                                      THEN SubSeq(logs[n], 1, left[n]) ELSE <<>>]
    BY DEF Crash
  <2>2. ASSUME NEW n \in logFiles, n \in File
        PROVE  Records(SubSeq(logs[n], 1, left[n])) \subseteq Records(logs[n])
    <3>1. logs[n] \in Seq(Entry) /\ synced[n] \in Nat
      BY <2>2 DEF TypeInv, TypeOK, DiskType
    <3>2. left[n] \in Nat /\ left[n] <= Len(logs[n]) /\ Len(logs[n]) \in Nat
      BY <2>1, <3>1, CallsAssumption
    <3>3. /\ Len(SubSeq(logs[n], 1, left[n])) = left[n]
          /\ \A i \in 1..left[n] : SubSeq(logs[n], 1, left[n])[i] = logs[n][i]
      BY <3>1, <3>2
    <3> QED
      BY <3>2, <3>3 DEF Records
  <2>3. Records(<<>>) = {}
    BY DEF Records
  <2> QED
    BY <2>1, <2>2, <2>3
<1>3. LiveOrdered' /\ ReadersOrdered' /\ Answers' /\ ReaderAnswers'
  BY <1>1 DEF LiveOrdered, ReadersOrdered, Answers, ReaderAnswers
<1>4. DiskOrdered'
  BY <1>1, <1>2, PartsNewerApart DEF ReadInv, CoreInv, DiskOrdered
<1>5. Sequences'
  BY <1>1, <1>2, NumberTypes DEF ReadInv, CoreInv, Sequences
<1>6. Numbers'
  BY <1>1 DEF Numbers
<1>7. FlushState' /\ JobPlan' /\ JobOutput'
  BY <1>1 DEF FlushState, JobPlan, JobOutput
<1> QED
  BY <1>3, <1>4, <1>5, <1>6, <1>7 DEF ReadInv, CoreInv, WorkInv

\* Open removes the logs below the floor.
LEMMA OpenSweepRead ==
    ASSUME TypeInv, TypeInv', LogInv, ReadInv, OpenSweep PROVE ReadInv'
<1>1. /\ UNCHANGED <<nextSeq, memtables, imm, ssts, manifest, calls, bg, snaps, readers>>
      /\ status = "down" /\ status' \in {"swept", "corrupt"}
  BY DEF OpenSweep, threads, history
<1>2. /\ \A n \in File : Records(logs'[n]) \subseteq Records(logs[n])
      /\ \A n \in File \ logFiles' : logs'[n] = <<>>
  <2>1. CASE UNCHANGED <<logFiles, logs>>
    BY <1>1, <2>1 DEF ReadInv, CoreInv, DiskOrdered
  <2>2. CASE /\ logFiles' = ReplayLogs
             /\ logs' = [n \in File |-> IF n \in ReplayLogs THEN logs[n] ELSE <<>>]
    BY <2>2 DEF Records
  <2> QED
    BY <2>1, <2>2 DEF OpenSweep
<1>3. /\ \A r \in Reader : readers[r] = NoRead
      /\ bg = "idle" /\ imm = NoFile
  BY <1>1 DEF ReadInv, CoreInv, Numbers, TypeInv, FlushPending
<1>4. LiveOrdered' /\ ReadersOrdered' /\ Answers' /\ ReaderAnswers'
  BY <1>1, <1>3 DEF LiveOrdered, ReadersOrdered, Answers, ReaderAnswers
<1>5. DiskOrdered'
  BY <1>1, <1>2, PartsNewerApart DEF ReadInv, CoreInv, DiskOrdered
<1>6. Sequences'
  BY <1>1, <1>2, <1>3 DEF ReadInv, CoreInv, Sequences
<1>7. Numbers'
  BY <1>1 DEF ReadInv, CoreInv, Numbers
<1>8. FlushState' /\ JobPlan' /\ JobOutput'
  BY <1>1, <1>3 DEF FlushState, JobPlan, JobOutput
<1> QED
  BY <1>4, <1>5, <1>6, <1>7, <1>8 DEF ReadInv, CoreInv, WorkInv

\* What Open replays: records of the logs at or above the floor, and no two
\* with one internal key.
LEMMA ReplayedTable ==
    ASSUME TypeInv, ReadInv
    PROVE  /\ Table(Replayed)
           /\ \A e \in Replayed : \E n \in ReplayLogs : e \in Records(logs[n])
           /\ \A e \in Replayed : e.seq <= calls
<1> DEFINE at    == {p \in ReplayLogs \X (1..MaxCalls) : p[2] <= Len(logs[p[1]])}
           rec(p) == logs[p[1]][p[2]]
           before(p, q) == p[1] < q[1] \/ (p[1] = q[1] /\ p[2] < q[2])
           first(q) == \A o \in at : before(o, q) => ~SameInternalKey(rec(o), rec(q))
<1>1. Replayed = {rec(p) : p \in {q \in at : first(q)}}
  BY DEF Replayed
<1>2. Replayed \subseteq Entry
  BY ReplayedType DEF TypeInv, TypeOK
<1>3. ReplayLogs \subseteq File /\ File \subseteq Nat /\ MaxCalls \in Nat
  BY FileNumbers, CallsAssumption DEF ReplayLogs, TypeInv, TypeOK, DiskType
<1>4. \A p \in at : p[1] \in Nat /\ p[2] \in Nat /\ p = <<p[1], p[2]>>
  <2> SUFFICES ASSUME NEW p \in at
               PROVE  p[1] \in Nat /\ p[2] \in Nat /\ p = <<p[1], p[2]>>
    OBVIOUS
  <2>1. PICK n \in ReplayLogs, i \in 1..MaxCalls : p = <<n, i>>
    OBVIOUS
  <2> QED
    BY <1>3, <2>1
<1>5. \A p \in at : rec(p) \in Records(logs[p[1]]) /\ p[1] \in ReplayLogs
  <2> SUFFICES ASSUME NEW p \in at PROVE rec(p) \in Records(logs[p[1]]) /\ p[1] \in ReplayLogs
    OBVIOUS
  <2>1. p[1] \in ReplayLogs /\ p[2] \in 1..MaxCalls /\ p[2] <= Len(logs[p[1]])
    OBVIOUS
  <2>2. logs[p[1]] \in Seq(Entry)
    BY <1>3, <2>1 DEF TypeInv, TypeOK, DiskType
  <2>3. p[2] \in 1..Len(logs[p[1]])
    BY <1>3, <2>1, <2>2
  <2> QED
    BY <2>1, <2>3 DEF Records
<1> HIDE DEF at, rec
<1>6. \A p, q \in at : before(p, q) \/ before(q, p) \/ p = q
  BY <1>4
<1>7. ASSUME NEW p \in at, NEW q \in at, first(p), first(q), SameInternalKey(rec(p), rec(q))
      PROVE  rec(p) = rec(q)
  <2>1. SameInternalKey(rec(q), rec(p))
    BY <1>7 DEF SameInternalKey
  <2>2. ~before(p, q) /\ ~before(q, p)
    BY <1>7, <2>1
  <2> HIDE DEF before
  <2> QED
    BY <1>6, <2>2
<1>8. ASSUME NEW e \in Replayed PROVE \E n \in ReplayLogs : e \in Records(logs[n])
  BY <1>1, <1>5
<1>9. ASSUME NEW e \in Replayed PROVE e.seq <= calls /\ e.seq <= kMaxSeq
  <2>1. e.seq <= calls
    BY <1>3, <1>8 DEF ReadInv, CoreInv, Sequences
  <2>2. e.seq \in Nat /\ calls \in 0..MaxCalls
    BY <1>2 DEF Entry, TypeInv, TypeOK, HistoryType
  <2> QED
    BY <2>1, <2>2, CallsAssumption
<1>10. \A e, f \in Replayed : SameInternalKey(e, f) => e = f
  <2> HIDE DEF first
  <2> QED
    BY <1>1, <1>7
<1> QED
  BY <1>2, <1>8, <1>9, <1>10 DEF Table

\* The view Open reads the directory as.
LEMMA RecoveredOrdered ==
    ASSUME TypeInv, ReadInv, NEW v \in RecoveredVersions
    PROVE  /\ IsVersion(v) /\ Files(v) = Files(manifest)
           /\ SstEntries(ssts, v) = SstEntries(ssts, manifest)
           /\ ViewOrdered(ssts, Replayed, {}, v)
<1>1. PICK s \in NewestFirst(FilesOf(manifest.l0)) : v = [l0 |-> s, levels |-> manifest.levels]
  BY DEF RecoveredVersions
<1>2. IsVersion(manifest) /\ FilesOf(manifest.l0) \in SUBSET File
  BY VersionTypes, FilesMembers DEF InUse
<1>3. s \in Seq(File) /\ FilesOf(s) = FilesOf(manifest.l0)
  BY <1>2, NewestFirstType
<1>4. \A i, j \in 1..Len(s) : i < j => s[j] <= s[i]
  <2>1. Cardinality(FilesOf(manifest.l0)) \in Nat
    <3>1. IsFiniteSet(File)
      BY FS_Interval, BoundsAssumption DEF File
    <3> QED
      BY <1>2, <3>1, FS_Subset, FS_CardinalityType
  <2>2. /\ s \in [1..Cardinality(FilesOf(manifest.l0)) -> FilesOf(manifest.l0)]
        /\ \A i, j \in 1..Cardinality(FilesOf(manifest.l0)) : i < j => s[i] > s[j]
    BY DEF NewestFirst
  <2>3. Len(s) = Cardinality(FilesOf(manifest.l0))
    BY <1>3, <2>1, <2>2
  <2>4. \A i \in 1..Len(s) : s[i] \in Nat
    BY <1>3, ElementOfSeq, FileNumbers
  <2> QED
    BY <2>2, <2>3, <2>4
<1>5. v.l0 = s /\ v.levels = manifest.levels
  BY <1>1
<1>6. IsVersion(v) /\ Files(v) = Files(manifest)
  BY <1>2, <1>3, <1>5 DEF IsVersion, Files
<1>7. SstEntries(ssts, v) = SstEntries(ssts, manifest)
  BY <1>6 DEF SstEntries
<1>8. Ordered(ssts, v)
  <2>1. Ordered(ssts, manifest)
    BY DEF ReadInv, CoreInv, DiskOrdered
  <2> QED
    BY <1>3, <1>4, <1>5, <1>6, <2>1 DEF Ordered
<1>9. NewerThan(Replayed, SstEntries(ssts, manifest))
  <2> SUFFICES ASSUME NEW e \in Replayed, NEW f \in SstEntries(ssts, manifest), e.key = f.key
               PROVE  f.seq < e.seq
    BY DEF NewerThan
  <2>1. PICK n \in ReplayLogs : e \in Records(logs[n])
    BY ReplayedTable
  <2>2. n \in File /\ manifest.floor <= n
    BY FileNumbers, NumberTypes DEF ReplayLogs, TypeInv, TypeOK, DiskType
  <2>3. NewerThan(Records(logs[n]), SstEntries(ssts, manifest))
    BY <2>2 DEF ReadInv, CoreInv, DiskOrdered
  <2> QED
    BY <2>1, <2>3 DEF NewerThan
<1>10. Table(Replayed) /\ Table({}) /\ \A S : NewerThan(S, {}) /\ NewerThan({}, S)
  BY ReplayedTable DEF Table, NewerThan
<1>11. ViewOrdered(ssts, Replayed, {}, v)
  BY <1>7, <1>8, <1>9, <1>10 DEF ViewOrdered
<1> QED
  BY <1>6, <1>7, <1>11

\* The rest of Open: the view it builds is in order, and what it answers is the
\* state the engine starts from.
LEMMA OpenReplayRead ==
    ASSUME TypeInv, TypeInv', LogInv, ReadInv, OpenReplay PROVE ReadInv'
<1>1. /\ UNCHANGED <<imm, snaps, logs, ssts, manifest, bg, readers, calls, views>>
      /\ status = "swept" /\ status' = "up" /\ current' \in RecoveredVersions
  BY DEF OpenReplay, threads
<1>2. PICK live \in ReplayLogs \cup {manifest.floor} :
         /\ IsLargest(live, ReplayLogs \cup {manifest.floor})
         /\ logNumber' = live
         /\ memtables' = [memtables EXCEPT ![live] = Replayed]
         /\ \E last \in ManifestFiles \cup {live} :
               /\ IsLargest(last, ManifestFiles \cup {live})
               /\ nextFile' = last + 1
  BY DEF OpenReplay
<1>3. /\ \E max \in {0} \cup {e.seq : e \in AllEntries(RecoveredView)} :
            /\ IsLargest(max, {0} \cup {e.seq : e \in AllEntries(RecoveredView)})
            /\ nextSeq' = max + 1
      /\ \A k \in Key : store'[k] = LookupIn(RecoveredView, k, kMaxSeq)
  BY DEF OpenReplay, Reopened
<1>4. /\ imm = NoFile /\ ImmTable' = {} /\ bg = "idle"
      /\ \A r \in Reader : readers'[r] = NoRead
      /\ \A s \in Snap : snaps'[s] = kMaxSeq
      /\ \A n \in File : memtables[n] = {}
  BY <1>1 DEF TypeInv, FlushPending, ImmTable, ReadInv, CoreInv, Numbers
<1>5. RecoveredVersion \in RecoveredVersions
  BY <1>1 DEF RecoveredVersion
<1>6. \A v \in RecoveredVersions :
         /\ IsVersion(v) /\ Files(v) = Files(manifest)
         /\ SstEntries(ssts, v) = SstEntries(ssts, manifest)
         /\ ViewOrdered(ssts, Replayed, {}, v)
  BY RecoveredOrdered
<1> DEFINE E == ViewEntries(ssts, Replayed, {}, current')
<1>7. AllEntries(RecoveredView) = E /\ ViewEntries(ssts, Replayed, {}, RecoveredVersion) = E
  BY <1>1, <1>5, <1>6, AllEntriesIs DEF RecoveredView, ViewEntries
<1>8. /\ ReplayLogs \subseteq File /\ manifest.floor \in File /\ live \in File /\ File \subseteq Nat
      /\ manifest.floor <= live
      /\ \A n \in ReplayLogs : n <= live
  BY <1>2, NumberTypes, FileNumbers DEF ReplayLogs, TypeInv, TypeOK, DiskType, IsLargest
<1>9. memtables'[logNumber'] = Replayed /\ \A n \in File : n # live => memtables'[n] = {}
  BY <1>2, <1>4, <1>8 DEF TypeInv, TypeOK, MemoryType
<1>10. LiveEntries' = E
  BY <1>1, <1>4, <1>9 DEF LiveEntries
<1>11. SstEntries(ssts, manifest) \subseteq E /\ Replayed \subseteq E /\ E \subseteq Entry
         /\ \A e \in E : e.seq <= calls
  <2>1. E = Replayed \cup SstEntries(ssts, manifest)
    BY <1>1, <1>6 DEF ViewEntries
  <2>2. \A e \in E : e.seq <= calls
    BY <2>1, ReplayedTable DEF ReadInv, CoreInv, Sequences
  <2>3. E \subseteq Entry
    BY <1>1, <1>6, ViewTable DEF Table
  <2> QED
    BY <2>1, <2>2, <2>3
<1> HIDE DEF E
<1>12. LiveOrdered'
  BY <1>1, <1>4, <1>6, <1>9 DEF LiveOrdered
<1>13. ReadersOrdered' /\ ReaderAnswers'
  BY <1>4 DEF ReadersOrdered, ReaderAnswers
<1>14. DiskOrdered'
  <2>1. /\ Ordered(ssts, manifest)
        /\ \A n \in File : manifest.floor <= n =>
              NewerThan(Records(logs[n]), SstEntries(ssts, manifest))
        /\ \A n \in File \ logFiles : logs[n] = <<>>
    BY <1>1 DEF ReadInv, CoreInv, DiskOrdered
  <2>2. NewerThan(Records(logs[live]), SstEntries(ssts, current'))
    BY <1>1, <1>6, <1>8, <2>1
  <2>3. NewerThan(Records(logs[live]), ImmTable')
    BY <1>4 DEF NewerThan
  <2>4. ASSUME NEW n \in File, live < n PROVE logs[n] = <<>>
    <3>0. n \in Nat /\ live \in Nat /\ manifest.floor \in Nat
      BY <1>8, <2>4
    <3>1. n \notin ReplayLogs /\ manifest.floor <= n
      <4>1. ~ (n <= live) /\ manifest.floor <= n
        BY <1>8, <2>4, <3>0
      <4> QED
        BY <1>8, <4>1
    <3> QED
      BY <2>1, <3>1 DEF ReplayLogs
  <2> QED
    BY <1>1, <1>2, <2>1, <2>2, <2>3, <2>4 DEF DiskOrdered
<1>15. nextSeq' <= calls + 1 /\ \A e \in E : e.seq < nextSeq'
  <2>1. PICK max \in {0} \cup {e.seq : e \in E} :
           IsLargest(max, {0} \cup {e.seq : e \in E}) /\ nextSeq' = max + 1
    BY <1>3, <1>7
  <2>2. calls \in Nat /\ max \in Nat /\ max <= calls /\ \A e \in E : e.seq \in Nat
    BY <1>11, NumberTypes DEF Entry
  <2>3. \A e \in E : e.seq <= max
    BY <2>1 DEF IsLargest
  <2> QED
    BY <2>1, <2>2, <2>3
<1>16. Sequences'
  <2>1. \A n \in File : \A e \in Records(logs[n]) : e.seq <= calls
    BY DEF ReadInv, CoreInv, Sequences
  <2> QED
    BY <1>1, <1>4, <1>10, <1>11, <1>15, <2>1 DEF Sequences
<1>17. Numbers'
  <2>1. PICK last \in ManifestFiles \cup {live} :
           IsLargest(last, ManifestFiles \cup {live}) /\ nextFile' = last + 1
    BY <1>2
  <2>2. ManifestFiles = Files(manifest) /\ Files(manifest) \subseteq File
    BY VersionTypes DEF ManifestFiles, Files, InUse
  <2>3. last \in Nat /\ live < nextFile' /\ \A f \in Files(manifest) : f < nextFile'
    <3>1. /\ live \in Nat /\ last \in Nat /\ \A f \in Files(manifest) : f \in Nat
      BY <1>8, <2>1, <2>2
    <3>2. live <= last /\ \A f \in Files(manifest) : f <= last
      BY <2>1, <2>2 DEF IsLargest
    <3> QED
      BY <2>1, <3>1, <3>2
  <2>4. \A v \in InUse' : Files(v) = Files(manifest) \/ Files(v) = {}
    <3>1. Files(NoRead.ver) = {}
      BY DEF Files, FilesOf, EmptyVersion, NoRead
    <3> QED
      BY <1>1, <1>4, <1>6, <3>1 DEF InUse
  <2>5. \A n \in File : nextFile' <= n => memtables'[n] = {}
    BY <1>8, <1>9, <2>1, <2>3
  <2> QED
    BY <1>1, <1>4, <2>3, <2>4, <2>5 DEF Numbers
<1>18. Answers'
  <2>1. ASSUME NEW k \in Key PROVE ValueIn(LiveEntries', k, kMaxSeq) = store'[k]
    <3>1. LookupIn(View(Replayed, {}, RecoveredVersion), k, kMaxSeq) = ValueIn(E, k, kMaxSeq)
      BY <1>5, <1>6, <1>7, VersionTypes, CallsAssumption, LookupExact
    <3> QED
      BY <1>3, <1>10, <3>1 DEF RecoveredView
  <2> QED
    BY <1>4, <2>1 DEF Answers
<1>19. FlushState' /\ JobPlan' /\ JobOutput'
  BY <1>1, <1>4 DEF FlushState, JobPlan, JobOutput
<1> QED
  BY <1>12, <1>13, <1>14, <1>16, <1>17, <1>18, <1>19 DEF ReadInv, CoreInv, WorkInv

-----------------------------------------------------------------------------
(***************************************************************************)
(* The invariant and what follows from it.                                 *)
(***************************************************************************)

LEMMA ReadInvInit == Init => ReadInv
<1> SUFFICES ASSUME Init PROVE ReadInv
  OBVIOUS
<1>1. /\ status = "up" /\ nextSeq = 1 /\ nextFile = 2 /\ logNumber = 1 /\ imm = NoFile
      /\ memtables = [n \in File |-> {}] /\ current = EmptyVersion
      /\ snaps = [s \in Snap |-> kMaxSeq] /\ logs = [n \in File |-> <<>>]
      /\ manifest = [l0 |-> <<>>, levels |-> [i \in Level |-> {}], floor |-> 1]
      /\ bg = "idle" /\ readers = [r \in Reader |-> NoRead] /\ calls = 0
      /\ store = [k \in Key |-> NotFound]
  BY DEF Init
<1>2. /\ manifest.l0 = <<>> /\ \A i \in Level : manifest.levels[i] = {}
      /\ current.l0 = <<>> /\ \A i \in Level : current.levels[i] = {}
  BY <1>1 DEF EmptyVersion
<1>3. \A v : (v.l0 = <<>> /\ \A i \in Level : v.levels[i] = {}) =>
         Files(v) = {} /\ FilesOf(v.l0) = {} /\ SstEntries(ssts, v) = {} /\ Ordered(ssts, v)
  BY DEF Files, FilesOf, SstEntries, Ordered
<1>4. /\ Files(manifest) = {} /\ SstEntries(ssts, manifest) = {} /\ Ordered(ssts, manifest)
      /\ Files(current) = {} /\ SstEntries(ssts, current) = {} /\ Ordered(ssts, current)
      /\ FilesOf(current.l0) = {}
  BY <1>2, <1>3
<1>5. memtables[logNumber] = {} /\ ImmTable = {} /\ LiveEntries = {}
  BY <1>1, <1>4, FileNumbers DEF ImmTable, LiveEntries, ViewEntries
<1>6. Table({}) /\ \A S : NewerThan(S, {}) /\ NewerThan({}, S)
  BY DEF Table, NewerThan
<1>7. \A n \in File : logs[n] = <<>> /\ Records(logs[n]) = {}
  BY <1>1 DEF Records
<1>8. LiveOrdered
  BY <1>2, <1>4, <1>5, <1>6 DEF LiveOrdered, ViewOrdered
<1>9. ReadersOrdered /\ ReaderAnswers
  BY <1>1 DEF ReadersOrdered, ReaderAnswers
<1>10. DiskOrdered
  BY <1>1, <1>4, <1>5, <1>6, <1>7 DEF DiskOrdered
<1>11. Sequences
  <2>1. nextSeq <= calls + 1
    BY <1>1
  <2>2. \A n \in File : \A e \in Records(logs[n]) : e.seq <= calls
    BY <1>7
  <2>3. /\ \A s \in Snap : snaps[s] = kMaxSeq
        /\ \A r \in Reader : readers[r] = NoRead
    BY <1>1
  <2> QED
    BY <1>4, <1>5, <2>1, <2>2, <2>3 DEF Sequences
<1>12. Numbers
  <2>1. \A v \in InUse : Files(v) = {}
    <3>1. Files(NoRead.ver) = {}
      BY DEF Files, FilesOf, EmptyVersion, NoRead
    <3> QED
      BY <1>1, <1>4, <3>1 DEF InUse
  <2> QED
    BY <1>1, <2>1 DEF Numbers
<1>13. Answers
  <2>1. \A k : ValueIn({}, k, kMaxSeq) = NotFound
    BY DEF ValueIn, Visible
  <2> QED
    BY <1>1, <1>5, <2>1 DEF Answers
<1>14. FlushState /\ JobPlan /\ JobOutput
  BY <1>1 DEF FlushState, JobPlan, JobOutput
<1> QED
  BY <1>8, <1>9, <1>10, <1>11, <1>12, <1>13, <1>14 DEF ReadInv, CoreInv, WorkInv

\* A step that changes nothing.
LEMMA StutterRead == ASSUME ReadInv, UNCHANGED vars PROVE ReadInv'
<1>1. UNCHANGED <<status, nextSeq, nextFile, logNumber, memtables, imm, immSst, current, snaps,
                  logFiles, logs, ssts, manifest, bg, job, readers, calls, store, views>>
  BY DEF vars, memory, disk, threads, history
<1>2. /\ ImmTable' = ImmTable /\ LiveEntries' = LiveEntries /\ InUse' = InUse /\ Inputs' = Inputs
      /\ \A r \in Reader : /\ ReaderEntries(r)' = ReaderEntries(r)
                           /\ MemOf(readers[r].imm)' = MemOf(readers[r].imm)
  BY <1>1 DEF ImmTable, LiveEntries, InUse, Inputs, ReaderEntries, MemOf
<1>3. LiveOrdered' /\ ReadersOrdered' /\ DiskOrdered' /\ Sequences'
  BY <1>1, <1>2 DEF ReadInv, CoreInv, LiveOrdered, ReadersOrdered, DiskOrdered, Sequences
<1>4. Numbers' /\ Answers' /\ ReaderAnswers'
  BY <1>1, <1>2 DEF ReadInv, CoreInv, Numbers, Answers, ReaderAnswers
<1>5. FlushState' /\ JobPlan' /\ JobOutput'
  BY <1>1, <1>2 DEF ReadInv, WorkInv, FlushState, JobPlan, JobOutput
<1> QED
  BY <1>3, <1>4, <1>5 DEF ReadInv, CoreInv, WorkInv

LEMMA ReadInvStep == TypeInv /\ TypeInv' /\ LogInv /\ ReadInv /\ [Next]_vars => ReadInv'
<1> SUFFICES ASSUME TypeInv, TypeInv', LogInv, ReadInv, [Next]_vars PROVE ReadInv'
  OBVIOUS
<1>1. CASE UNCHANGED vars
  BY <1>1, StutterRead
<1>2. CASE \E k \in Key : Write(kTypeValue, k) \/ Write(kTypeDeletion, k)
  BY <1>2, WriteRead
<1>3. CASE \/ \E r \in Reader : BeginRead(r) \/ EndRead(r)
           \/ \E s \in Snap : GetSnapshot(s) \/ ReleaseSnapshot(s)
  BY <1>3, ClientStepsRead
<1>4. CASE Background
  BY <1>4, IdleStepsRead, WriteFlushSstRead, InstallFlushRead, EndFlushRead, PickCompactionRead,
     TakeFloorRead, SealOutputRead, InstallCompactionRead DEF Background
<1>5. CASE \E kind \in Crashes : Crash(kind)
  BY <1>5, CrashRead
<1>6. CASE OpenSweep
  BY <1>6, OpenSweepRead
<1>7. CASE OpenReplay
  BY <1>7, OpenReplayRead
<1> QED
  BY <1>1, <1>2, <1>3, <1>4, <1>5, <1>6, <1>7 DEF Next

LEMMA ReadInvariant == Spec => [](TypeInv /\ LogInv /\ ReadInv)
<1>1. Init => ReadInv
  BY ReadInvInit
<1>2. TypeInv /\ TypeInv' /\ LogInv /\ ReadInv /\ [Next]_vars => ReadInv'
  BY ReadInvStep
<1>3. Spec => []TypeInv
  BY TypeInvariant
<1>4. Spec => []LogInv
  BY LogInvariant
<1> QED
  BY <1>1, <1>2, <1>3, <1>4, PTL DEF Spec

\* What the invariant says of a view: Get and Scan answer alike.
LEMMA LiveViewAnswers ==
    ASSUME TypeInv, ReadInv, status = "up", NEW k \in Key, NEW s \in Nat
    PROVE  /\ LookupIn(LiveView, k, s) = ValueIn(LiveEntries, k, s)
           /\ ScanAt(LiveView, k, s) = ValueIn(LiveEntries, k, s)
<1>1. ViewOrdered(ssts, memtables[logNumber], ImmTable, current)
  BY DEF ReadInv, CoreInv, LiveOrdered
<1> QED
  BY <1>1, VersionTypes, LookupExact, AllEntriesIs DEF LiveView, LiveEntries, ScanAt

LEMMA ReaderViewAnswers ==
    ASSUME TypeInv, ReadInv, NEW r \in Reader, readers[r] # NoRead, NEW k \in Key, NEW s \in Nat,
           NEW v, v = View(memtables[readers[r].mem], MemOf(readers[r].imm), readers[r].ver)
    PROVE  /\ LookupIn(v, k, s) = ValueIn(ReaderEntries(r), k, s)
           /\ ScanAt(v, k, s) = ValueIn(ReaderEntries(r), k, s)
<1>1. ViewOrdered(ssts, memtables[readers[r].mem], MemOf(readers[r].imm), readers[r].ver)
  BY DEF ReadInv, CoreInv, ReadersOrdered
<1> QED
  BY <1>1, VersionTypes, LookupExact, AllEntriesIs DEF ReaderEntries, ScanAt

\* DB::Get: through every rotation, flush, compaction, I/O failure, crash and
\* recovery, it finds the last acknowledged write of a key, and through a live
\* snapshot the last one before the snapshot.
THEOREM GetCorrectHolds == Spec => []GetCorrect
<1>1. TypeInv /\ LogInv /\ ReadInv => GetCorrect
  <2> SUFFICES ASSUME TypeInv, ReadInv, status = "up", NEW k \in Key
               PROVE  /\ LookupIn(LiveView, k, kMaxSeq) = store[k]
                      /\ \A s \in Snap : snaps[s] # kMaxSeq =>
                            LookupIn(LiveView, k, snaps[s]) = views[s][k]
    BY DEF GetCorrect
  <2>1. kMaxSeq \in Nat /\ \A s \in Snap : snaps[s] \in Nat
    BY CallsAssumption DEF TypeInv, TypeOK, MemoryType
  <2> QED
    BY <2>1, LiveViewAnswers DEF ReadInv, CoreInv, Answers
<1> QED
  BY <1>1, ReadInvariant, PTL

\* DB::Scan merges every table where DB::Get stops at the first that knows the
\* key; the answers are the same.
THEOREM ScanAgreesWithGetHolds == Spec => []ScanAgreesWithGet
<1>1. TypeInv /\ LogInv /\ ReadInv => ScanAgreesWithGet
  <2> SUFFICES ASSUME TypeInv, ReadInv, status = "up", NEW k \in Key,
                      NEW seq \in {kMaxSeq} \cup {snaps[s] : s \in Snap}
               PROVE  ScanAt(LiveView, k, seq) = LookupIn(LiveView, k, seq)
    BY DEF ScanAgreesWithGet
  <2>1. seq \in Nat
    BY CallsAssumption DEF TypeInv, TypeOK, MemoryType
  <2> QED
    BY <2>1, LiveViewAnswers
<1> QED
  BY <1>1, ReadInvariant, PTL

\* A Get or Scan works on the view it copied under the mutex while the engine
\* goes on beside it: its answer is one that was right at some moment since.
THEOREM ReadsCorrectHolds == Spec => []ReadsCorrect
<1>1. TypeInv /\ LogInv /\ ReadInv => ReadsCorrect
  <2> SUFFICES ASSUME TypeInv, ReadInv, NEW r \in Reader, readers[r] # NoRead, NEW k \in Key,
                      NEW v, v = View(memtables[readers[r].mem], MemOf(readers[r].imm), readers[r].ver)
               PROVE  /\ LookupIn(v, k, readers[r].seq) \in readers[r].ok[k]
                      /\ ScanAt(v, k, readers[r].seq) \in readers[r].ok[k]
    BY DEF ReadsCorrect, MemOf
  <2>1. readers[r].seq \in Nat
    BY DEF TypeInv, TypeOK, ThreadType, Read
  <2>2. ValueIn(ReaderEntries(r), k, readers[r].seq) \in readers[r].ok[k]
    BY DEF ReadInv, CoreInv, ReaderAnswers
  <2> QED
    BY <2>1, <2>2, ReaderViewAnswers
<1> QED
  BY <1>1, ReadInvariant, PTL

=============================================================================
