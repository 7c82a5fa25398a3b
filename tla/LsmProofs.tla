------------------------------ MODULE LsmProofs -----------------------------
(***************************************************************************)
(* The engine, for every value of its constants.  First what a compaction  *)
(* may drop: no read at or above the snapshot floor can tell the merged    *)
(* tables from their inputs.  Then type correctness, and what a later Open *)
(* needs: no log is unlinked while the MANIFEST asks for it, and as long as*)
(* WriteManifest succeeds the MANIFEST parses and every SST it names is    *)
(* there, after a crash at any step.                                       *)
(***************************************************************************)
EXTENDS Lsm, TLAPS, WellFoundedInduction, SequenceTheorems, FiniteSetTheorems

(***************************************************************************)
(* What a compaction may drop.  Retain keeps, of every key, the versions   *)
(* above the snapshot floor and the newest one at or below it.             *)
(***************************************************************************)

\* A non-empty set of naturals has a least element.
LEMMA LeastExists ==
    ASSUME NEW S \in SUBSET Nat, S # {}
    PROVE  \E m \in S : \A n \in S : m <= n
<1> DEFINE R == OpToRel(<, Nat)
<1>1. IsWellFoundedOn(R, Nat)
  BY NatLessThanWellFounded
<1>2. \A m, n \in Nat : n < m => <<n, m>> \in R
  BY DEF OpToRel
<1>3. \E m \in S : \A n \in S : ~(<<n, m>> \in R)
  <2> HIDE DEF R
  <2> QED BY <1>1, WFMin
<1>4. PICK m \in S : \A n \in S : ~(<<n, m>> \in R)
  BY <1>3
<1>5. \A n \in S : ~(n < m)
  <2> HIDE DEF R
  <2> QED BY <1>2, <1>4
<1> QED
  BY <1>5

\* A non-empty set of naturals with a bound has a largest element.
LEMMA LargestExists ==
    ASSUME NEW S \in SUBSET Nat, S # {}, NEW b \in Nat, \A n \in S : n <= b
    PROVE  \E m \in S : \A n \in S : n <= m
<1> DEFINE D == {i \in Nat : b - i \in S}
<1>1. D \in SUBSET Nat
  OBVIOUS
<1>2. D # {}
  <2>1. PICK n \in S : TRUE
    OBVIOUS
  <2>2. b - n \in Nat /\ b - (b - n) = n
    BY <2>1
  <2>3. b - n \in D
    BY <2>1, <2>2
  <2> QED
    BY <2>3
<1>3. PICK i \in D : \A j \in D : i <= j
  <2> HIDE DEF D
  <2> QED BY <1>1, <1>2, LeastExists
<1>4. ASSUME NEW n \in S PROVE n <= b - i
  <2>1. b - n \in Nat /\ b - (b - n) = n
    OBVIOUS
  <2>2. b - n \in D
    BY <2>1
  <2> QED
    BY <1>3, <2>1, <2>2
<1> QED
  BY <1>3, <1>4

\* The user keys are bounded.
LEMMA KeysBounded == \E b \in Nat : \A k \in Key : k <= b
<1>0. PICK n \in Nat : ExistsSurjection(1..n, Key)
  BY FS_NatSurjection, KeyAssumption
<1>1. PICK f \in [1..n -> Key] : \A k \in Key : \E i \in 1..n : f[i] = k
  BY <1>0 DEF ExistsSurjection, Surjection
<1> DEFINE Unbounded == {i \in 0..n : ~\E b \in Nat : \A j \in 1..i : f[j] <= b}
<1>2. Unbounded = {}
  <2> SUFFICES ASSUME Unbounded # {} PROVE FALSE
    OBVIOUS
  <2>1. Unbounded \in SUBSET Nat
    OBVIOUS
  <2>2. PICK m \in Unbounded : \A i \in Unbounded : m <= i
    <3> HIDE DEF Unbounded
    <3> QED BY <2>1, LeastExists
  <2>3. m # 0
    <3>1. \A j \in 1..0 : f[j] <= 0
      OBVIOUS
    <3> QED
      BY <3>1
  <2>4. m \in 1..n /\ m - 1 \in 0..n /\ m - 1 \notin Unbounded
    <3>1. m \in 0..n
      BY <2>2
    <3>2. m - 1 \in 0..n /\ m \in 1..n /\ ~(m <= m - 1)
      BY <2>3, <3>1
    <3> HIDE DEF Unbounded
    <3> QED
      BY <2>2, <3>2
  <2>5. PICK b \in Nat : \A j \in 1..m - 1 : f[j] <= b
    BY <2>4
  <2> HIDE DEF Unbounded
  <2>6. f[m] \in Nat
    BY <2>4, KeyAssumption
  <2>7. PICK c \in Nat : b <= c /\ f[m] <= c
    <3>1. b + f[m] \in Nat /\ b <= b + f[m] /\ f[m] <= b + f[m]
      BY <2>6
    <3> QED
      BY <3>1
  <2>8. \A j \in 1..m : f[j] <= c
    <3> SUFFICES ASSUME NEW j \in 1..m PROVE f[j] <= c
      OBVIOUS
    <3>1. j \in 1..n /\ (j = m \/ j \in 1..m - 1)
      BY <2>4
    <3>2. f[j] \in Nat
      BY <3>1, KeyAssumption
    <3> QED
      BY <2>5, <2>6, <2>7, <3>1, <3>2
  <2> QED
    BY <2>2, <2>8 DEF Unbounded
<1>3. \E b \in Nat : \A j \in 1..n : f[j] <= b
  <2> SUFFICES ASSUME ~\E b \in Nat : \A j \in 1..n : f[j] <= b PROVE FALSE
    OBVIOUS
  <2>1. n \in 0..n
    OBVIOUS
  <2>2. n \in Unbounded
    BY <2>1
  <2> QED
    BY <1>2, <2>2
<1>4. PICK b \in Nat : \A j \in 1..n : f[j] <= b
  BY <1>3
<1> QED
  BY <1>1, <1>4

\* The key range FileMeta records: its ends are keys of the table, and every
\* key of the table is between them.
LEMMA RangeEnds ==
    ASSUME NEW T \in SUBSET Entry, T # {}
    PROVE  /\ SmallestKey(T) \in Nat /\ LargestKey(T) \in Nat
           /\ \E e \in T : e.key = SmallestKey(T)
           /\ \E e \in T : e.key = LargestKey(T)
           /\ \A e \in T : e.key \in Nat /\ SmallestKey(T) <= e.key /\ e.key <= LargestKey(T)
<1> DEFINE K == {e.key : e \in T}
<1>1. K \in SUBSET Nat /\ K # {} /\ \A e \in T : e.key \in Key
  BY KeyAssumption DEF Entry
<1>2. PICK b \in Nat : \A k \in K : k <= b
  BY <1>1, KeysBounded
<1>3. \E k \in K : \A j \in K : k <= j
  <2> HIDE DEF K
  <2> QED BY <1>1, LeastExists
<1>4. \E k \in K : \A j \in K : j <= k
  <2> HIDE DEF K
  <2> QED BY <1>1, <1>2, LargestExists
<1>5. SmallestKey(T) \in K /\ \A e \in T : SmallestKey(T) <= e.key
  BY <1>3 DEF SmallestKey
<1>6. LargestKey(T) \in K /\ \A e \in T : e.key <= LargestKey(T)
  BY <1>4 DEF LargestKey
<1> QED
  BY <1>1, <1>5, <1>6

-----------------------------------------------------------------------------
\* A table as the memtable and the SSTs hold it: no two entries share an
\* internal key, and sequence numbers stay below kMaxSeq.
Table(T) ==
    /\ T \in SUBSET Entry
    /\ \A e, f \in T : SameInternalKey(e, f) => e = f
    /\ \A e \in T : e.seq <= kMaxSeq

\* A later version has a larger tag, and entries of one key with equal tags
\* are one entry: the seek of MemTable::Get and Table::Get has one answer.
LEMMA TagOrder ==
    ASSUME NEW T, Table(T), NEW e \in T, NEW f \in T, e.key = f.key
    PROVE  /\ Tag(e) \in Nat
           /\ Tag(e) = Tag(f) => e = f
           /\ e.seq < f.seq => Tag(e) < Tag(f)
           /\ Tag(e) <= Tag(f) => e.seq <= f.seq
<1>1. /\ e \in Entry /\ f \in Entry
      /\ SameInternalKey(e, f) => e = f
  BY DEF Table
<1>2. /\ e.seq \in Nat /\ f.seq \in Nat
      /\ e.type \in {0, 1} /\ f.type \in {0, 1}
  BY <1>1 DEF Entry, kTypeDeletion, kTypeValue
<1>3. Tag(e) = Tag(f) => e.seq = f.seq /\ e.type = f.type
  BY <1>2 DEF Tag
<1> QED
  BY <1>1, <1>2, <1>3 DEF Tag, SameInternalKey

\* Newest is the visible version with the largest tag, and only that one is.
LEMMA NewestIsNewest ==
    ASSUME NEW T, Table(T), NEW k, NEW s \in Nat, Visible(T, k, s) # {}
    PROVE  /\ Newest(T, k, s) \in Visible(T, k, s)
           /\ \A f \in Visible(T, k, s) : Tag(f) <= Tag(Newest(T, k, s))
           /\ \A e \in Visible(T, k, s) :
                 (\A f \in Visible(T, k, s) : Tag(f) <= Tag(e)) => e = Newest(T, k, s)
<1> DEFINE V == Visible(T, k, s)
<1> DEFINE tags == {Tag(e) : e \in V}
<1>1. \A e \in V : e \in T /\ e.key = k
  BY DEF Visible
<1>2. \A e \in V : Tag(e) \in Nat
  BY <1>1, TagOrder
<1>3. \A e \in V : Tag(e) <= 2 * kMaxSeq + 1
  BY <1>1, CallsAssumption DEF Table, Tag, Entry, kTypeDeletion, kTypeValue
<1>4. \E m \in tags : \A n \in tags : n <= m
  <2>1. tags \in SUBSET Nat /\ tags # {}
    BY <1>2
  <2>2. 2 * kMaxSeq + 1 \in Nat
    BY CallsAssumption
  <2>3. \A n \in tags : n <= 2 * kMaxSeq + 1
    BY <1>3
  <2> HIDE DEF tags
  <2> QED
    BY <2>1, <2>2, <2>3, LargestExists
<1>5. \E e \in V : \A f \in V : Tag(f) <= Tag(e)
  BY <1>4
<1>6. /\ Newest(T, k, s) \in V
      /\ \A f \in V : Tag(f) <= Tag(Newest(T, k, s))
  BY <1>5 DEF Newest
<1>7. ASSUME NEW e \in V, \A f \in V : Tag(f) <= Tag(e)
      PROVE  e = Newest(T, k, s)
  <2>1. Tag(e) <= Tag(Newest(T, k, s)) /\ Tag(Newest(T, k, s)) <= Tag(e)
    BY <1>6, <1>7
  <2>2. Tag(e) = Tag(Newest(T, k, s))
    BY <1>2, <1>6, <2>1
  <2> QED
    BY <1>1, <1>6, <2>2, TagOrder
<1> QED
  BY <1>6, <1>7

-----------------------------------------------------------------------------
\* What Retain keeps is a table again.
LEMMA RetainIsTable ==
    ASSUME NEW T, Table(T), NEW floor, NEW bottom
    PROVE  Table(Retain(T, floor, bottom))
BY DEF Table, Retain

\* A read whose newest version is kept still lands on that version.
LEMMA NewestKept ==
    ASSUME NEW T, Table(T), NEW floor \in Nat, NEW bottom \in BOOLEAN,
           NEW s \in Nat, NEW k, Visible(T, k, s) # {},
           Newest(T, k, s) \in Retain(T, floor, bottom)
    PROVE  /\ Visible(Retain(T, floor, bottom), k, s) # {}
           /\ Newest(Retain(T, floor, bottom), k, s) = Newest(T, k, s)
<1> DEFINE R == Retain(T, floor, bottom)
           n == Newest(T, k, s)
<1>1. Table(R)
  BY RetainIsTable
<1>2. /\ n \in Visible(T, k, s)
      /\ \A f \in Visible(T, k, s) : Tag(f) <= Tag(n)
  BY NewestIsNewest
<1>3. Visible(R, k, s) \subseteq Visible(T, k, s) /\ n \in Visible(R, k, s)
  BY <1>2 DEF Visible, Retain
<1> HIDE DEF R, n
<1>4. n = Newest(R, k, s)
  BY <1>1, <1>2, <1>3, NewestIsNewest
<1> QED
  BY <1>3, <1>4 DEF R, n

\* A read at or above the floor whose newest version is dropped: that version
\* is a tombstone on its way to the bottom level, and nothing of the key that
\* the read could see is left.
LEMMA NewestDropped ==
    ASSUME NEW T, Table(T), NEW floor \in Nat, NEW bottom \in BOOLEAN,
           NEW s \in Nat, floor <= s, NEW k, Visible(T, k, s) # {},
           Newest(T, k, s) \notin Retain(T, floor, bottom)
    PROVE  /\ bottom /\ ValueOf(Newest(T, k, s)) = NotFound
           /\ Visible(Retain(T, floor, bottom), k, s) = {}
<1> DEFINE R == Retain(T, floor, bottom)
           n == Newest(T, k, s)
<1>1. /\ n \in Visible(T, k, s)
      /\ \A f \in Visible(T, k, s) : Tag(f) <= Tag(n)
  BY NewestIsNewest
<1>2. n \in T /\ n.key = k /\ n.seq \in Nat /\ n.seq <= s
  BY <1>1 DEF Visible, Table, Entry
<1>3. n.seq <= floor
  BY <1>2 DEF Retain
<1>4. n = Newest(T, k, floor)
  <2>1. n \in Visible(T, k, floor)
    BY <1>2, <1>3 DEF Visible
  <2>2. \A f \in Visible(T, k, floor) : f \in Visible(T, k, s)
    BY DEF Visible, Table, Entry
  <2> HIDE DEF n
  <2> QED
    BY <1>1, <2>1, <2>2, NewestIsNewest
<1>5. n \notin R
  OBVIOUS
<1>6. bottom /\ n.type = kTypeDeletion
  <2> HIDE DEF n
  <2> QED
    BY <1>2, <1>4, <1>5 DEF Retain
<1>7. Visible(R, k, s) = {}
  <2> SUFFICES ASSUME NEW e \in Visible(R, k, s) PROVE FALSE
    OBVIOUS
  <2>1. e \in R /\ e \in Visible(T, k, s) /\ e.key = k
    BY DEF Visible, Retain
  <2> HIDE DEF n
  <2>2. e \in T /\ e.seq <= n.seq
    BY <1>1, <1>2, <2>1, TagOrder DEF Visible
  <2>3. e.seq \in Nat /\ e.seq <= floor
    BY <1>2, <1>3, <2>2 DEF Table, Entry
  <2>4. e = n
    BY <1>4, <2>1, <2>3 DEF Retain
  <2> QED
    BY <1>5, <2>1, <2>4
<1>8. ValueOf(n) = NotFound
  BY <1>6 DEF ValueOf, kTypeValue, kTypeDeletion
<1> QED
  BY <1>6, <1>7, <1>8

\* RunCompaction drops versions, never answers: for every reader at or above
\* the floor, a merged run answers after the retention rule as it did before,
\* also when the run goes to the bottom level and loses its tombstones.
THEOREM RetainKeepsAnswers ==
    ASSUME NEW T, Table(T), NEW floor \in Nat, NEW bottom \in BOOLEAN,
           NEW s \in Nat, floor <= s, NEW k
    PROVE  ValueIn(Retain(T, floor, bottom), k, s) = ValueIn(T, k, s)
<1> DEFINE R == Retain(T, floor, bottom)
           n == Newest(T, k, s)
<1>1. CASE Visible(T, k, s) = {}
  <2>1. Visible(R, k, s) = {}
    BY <1>1 DEF Visible, Retain
  <2> QED
    BY <1>1, <2>1 DEF ValueIn
<1>2. CASE Visible(T, k, s) # {} /\ n \in R
  BY <1>2, NewestKept DEF ValueIn
<1>3. CASE Visible(T, k, s) # {} /\ n \notin R
  BY <1>3, NewestDropped DEF ValueIn
<1> QED
  BY <1>1, <1>2, <1>3

-----------------------------------------------------------------------------
\* Of every key both hold, S has the newer versions.
NewerThan(S, T) == \A e \in S, f \in T : e.key = f.key => f.seq < e.seq

\* The key ranges of S and T do not meet.
Apart(S, T) == \/ \A e \in S, f \in T : e.key < f.key
               \/ \A e \in S, f \in T : f.key < e.key

\* Both relations pass to parts of the tables.
LEMMA PartsNewerApart ==
    ASSUME NEW S, NEW T, NEW U, U \subseteq T
    PROVE  /\ NewerThan(S, T) => NewerThan(S, U)
           /\ NewerThan(T, S) => NewerThan(U, S)
           /\ Apart(S, T) => Apart(S, U) /\ Apart(U, S)
BY DEF NewerThan, Apart

\* Tables with disjoint key ranges share no key.
LEMMA ApartKeys ==
    ASSUME NEW S \in SUBSET Entry, NEW T \in SUBSET Entry, Apart(S, T),
           NEW e \in S, NEW f \in T
    PROVE  e.key # f.key
<1>1. e.key \in Nat /\ f.key \in Nat
  BY KeyAssumption DEF Entry
<1> QED
  BY <1>1 DEF Apart

\* A table and a newer one make a table.
LEMMA NewerTables ==
    ASSUME NEW S, Table(S), NEW T, Table(T), NewerThan(S, T)
    PROVE  Table(S \cup T)
<1>1. \A e \in S, f \in T : e.seq \in Nat /\ f.seq \in Nat
  BY DEF Table, Entry
<1>2. ASSUME NEW e \in S, NEW f \in T PROVE ~SameInternalKey(e, f) /\ ~SameInternalKey(f, e)
  BY <1>1 DEF NewerThan, SameInternalKey
<1> QED
  BY <1>2 DEF Table

\* The answer of a table is the value of the visible version with the largest
\* tag.
LEMMA AnswerIs ==
    ASSUME NEW T, Table(T), NEW k, NEW s \in Nat, NEW e \in Visible(T, k, s),
           \A f \in Visible(T, k, s) : Tag(f) <= Tag(e)
    PROVE  ValueIn(T, k, s) = ValueOf(e)
<1>1. e = Newest(T, k, s)
  BY NewestIsNewest
<1> QED
  BY <1>1 DEF ValueIn

\* A read sees what is visible and nothing else.
LEMMA SameVisible ==
    ASSUME NEW T, NEW U, NEW k, NEW s, NEW q, Visible(T, k, s) = Visible(U, k, q)
    PROVE  ValueIn(T, k, s) = ValueIn(U, k, q)
BY DEF ValueIn, Newest

\* A write with a sequence number of its own answers the reads of its key from
\* then on, and no other read.
LEMMA WriteAnswers ==
    ASSUME NEW T, Table(T), NEW e \in Entry, e.seq <= kMaxSeq,
           \A f \in T : f.seq < e.seq
    PROVE  /\ Table(T \cup {e})
           /\ \A s \in Nat : e.seq <= s => ValueIn(T \cup {e}, e.key, s) = ValueOf(e)
           /\ \A k : \A s \in Nat : (k # e.key \/ s < e.seq) => ValueIn(T \cup {e}, k, s) = ValueIn(T, k, s)
<1> DEFINE U == T \cup {e}
<1>1. Table({e}) /\ NewerThan({e}, T)
  BY DEF Table, NewerThan
<1>2. Table(U)
  <2>1. Table({e} \cup T)
    BY <1>1, NewerTables
  <2>2. {e} \cup T = U
    OBVIOUS
  <2> QED
    BY <2>1, <2>2
<1>3. ASSUME NEW s \in Nat, e.seq <= s PROVE ValueIn(U, e.key, s) = ValueOf(e)
  <2>1. e \in Visible(U, e.key, s)
    BY <1>3 DEF Visible
  <2>2. ASSUME NEW f \in Visible(U, e.key, s) PROVE Tag(f) <= Tag(e)
    <3>1. f \in U /\ f.key = e.key /\ e \in U
      BY DEF Visible
    <3>2. Tag(f) \in Nat /\ Tag(e) \in Nat
      BY <1>2, <3>1, TagOrder
    <3>3. f = e \/ f.seq < e.seq
      BY <3>1
    <3>4. CASE f.seq < e.seq
      BY <1>2, <3>1, <3>2, <3>4, TagOrder
    <3> QED
      BY <3>2, <3>3, <3>4
  <2> HIDE DEF U
  <2> QED
    BY <1>2, <2>1, <2>2, AnswerIs
<1>4. ASSUME NEW s \in Nat, NEW k, k # e.key \/ s < e.seq
      PROVE  ValueIn(U, k, s) = ValueIn(T, k, s)
  <2>1. e.seq \in Nat
    BY DEF Entry
  <2>2. Visible(U, k, s) = Visible(T, k, s)
    BY <1>4, <2>1 DEF Visible
  <2> QED
    BY <2>2, SameVisible
<1> QED
  BY <1>2, <1>3, <1>4

\* A read at s is at or above the floor, or above every version of T.
AboveFloor(T, floor, s) == floor <= s \/ \A t \in T : t.seq <= s

\* The versions of k in X are newer than all that T has or, unless T moves to
\* the bottom level, older than all of them.
Around(X, T, bottom, k) ==
    \A x \in X : x.key = k =>
        \/ \A t \in T : t.key = k => t.seq < x.seq
        \/ ~bottom /\ \A t \in T : t.key = k => x.seq < t.seq

\* The retention rule of RunCompaction inside a whole view: with T its inputs
\* and X everything it does not touch, reads at or above the floor, and reads
\* above every input version, are answered as before.
THEOREM CompactionKeepsAnswers ==
    ASSUME NEW X, NEW T, Table(X \cup T), NEW floor \in Nat, NEW bottom \in BOOLEAN,
           NEW s \in Nat, NEW k, floor <= kMaxSeq,
           AboveFloor(T, floor, s), Around(X, T, bottom, k)
    PROVE  ValueIn(X \cup Retain(T, floor, bottom), k, s) = ValueIn(X \cup T, k, s)
<1> USE DEF AboveFloor, Around
<1> DEFINE R == Retain(T, floor, bottom)
           U == X \cup T
           W == X \cup R
           n == Newest(U, k, s)
<1>1. R \subseteq T /\ Table(T) /\ Table(U)
  BY DEF Table, Retain
<1>2. Table(W) /\ Visible(W, k, s) \subseteq Visible(U, k, s)
  BY <1>1 DEF Table, Visible
<1>3. CASE Visible(U, k, s) = {}
  <2>1. Visible(W, k, s) = {}
    BY <1>2, <1>3
  <2> QED
    BY <1>3, <2>1 DEF ValueIn
<1>4. CASE Visible(U, k, s) # {}
  <2>1. n \in Visible(U, k, s) /\ \A f \in Visible(U, k, s) : Tag(f) <= Tag(n)
    <3> HIDE DEF U
    <3> QED BY <1>1, <1>4, NewestIsNewest
  <2>2. ValueIn(U, k, s) = ValueOf(n)
    BY <1>4 DEF ValueIn
  <2> HIDE DEF n
  <2>3. CASE n \in W
    <3>1. n \in Visible(W, k, s)
      BY <2>1, <2>3 DEF Visible
    <3>2. \A f \in Visible(W, k, s) : Tag(f) <= Tag(n)
      BY <1>2, <2>1
    <3> HIDE DEF W
    <3>3. ValueIn(W, k, s) = ValueOf(n)
      BY <1>2, <3>1, <3>2, AnswerIs
    <3> QED
      BY <2>2, <3>3 DEF W
  <2>4. CASE n \notin W
    <3>1. n \in T /\ n \notin R /\ n \notin X /\ n.key = k
      BY <2>1, <2>4 DEF Visible
    <3>2. PICK q \in Nat : floor <= q /\ Visible(T, k, q) = Visible(T, k, s) /\ Visible(R, k, q) = Visible(R, k, s)
      <4>1. CASE floor <= s
        BY <4>1
      <4>2. CASE \A t \in T : t.seq <= s
        <5>1. Visible(T, k, kMaxSeq) = Visible(T, k, s)
          BY <1>1, <4>2 DEF Visible, Table
        <5>2. Visible(R, k, kMaxSeq) = Visible(R, k, s)
          BY <1>1, <4>2 DEF Visible, Table
        <5> QED
          BY <5>1, <5>2, CallsAssumption
      <4> QED
        BY <4>1, <4>2
    <3>3. n \in Visible(T, k, q) /\ \A f \in Visible(T, k, q) : Tag(f) <= Tag(n)
      <4>1. n \in Visible(T, k, s) /\ Visible(T, k, s) \subseteq Visible(U, k, s)
        BY <2>1, <3>1 DEF Visible
      <4> QED
        BY <2>1, <3>2, <4>1
    <3>4. n = Newest(T, k, q)
      BY <1>1, <3>3, NewestIsNewest
    <3>5. bottom /\ ValueOf(n) = NotFound /\ Visible(R, k, s) = {}
      BY <1>1, <3>1, <3>2, <3>3, <3>4, NewestDropped
    <3>6. Visible(W, k, s) = {}
      <4> SUFFICES ASSUME NEW x \in Visible(W, k, s) PROVE FALSE
        OBVIOUS
      <4>1. x \in X /\ x.key = k /\ x \in Visible(U, k, s)
        BY <1>2, <3>5 DEF Visible
      <4>2. n.seq < x.seq
        BY <3>1, <3>5, <4>1
      <4>3. x \in U /\ n \in U
        BY <3>1, <4>1
      <4>4. Tag(n) < Tag(x) /\ Tag(x) <= Tag(n) /\ Tag(n) \in Nat /\ Tag(x) \in Nat
        <5> HIDE DEF U
        <5> QED BY <1>1, <2>1, <3>1, <4>1, <4>2, <4>3, TagOrder
      <4> QED
        BY <4>4
    <3> QED
      BY <2>2, <3>5, <3>6 DEF ValueIn
  <2> QED
    BY <2>3, <2>4
<1> QED
  BY <1>3, <1>4

\* seal cuts between user keys: every version of a key goes to one output, in
\* key order, so the files of a level never share a key; and each output takes
\* something, so the merge ends.
THEOREM OutputsCutBetweenKeys ==
    ASSUME NEW T \in SUBSET Entry, T # {}, NEW max_size
    PROVE  /\ FirstOutput(T, max_size) \subseteq T
           /\ FirstOutput(T, max_size) # {}
           /\ \A e \in FirstOutput(T, max_size), f \in T \ FirstOutput(T, max_size) :
                 e.key < f.key
<1> DEFINE keys    == {e.key : e \in T}
           upto(k) == {e \in T : e.key <= k}
           full    == {k \in keys : Cardinality(upto(k)) >= max_size}
           cut     == CHOOSE k \in full : \A j \in full : k <= j
<1>1. \A e \in T : e.key \in Nat
  BY KeyAssumption DEF Entry
<1>2. FirstOutput(T, max_size) = IF full = {} THEN T ELSE upto(cut)
  BY DEF FirstOutput
<1>3. CASE full = {}
  BY <1>2, <1>3
<1>4. CASE full # {}
  <2>1. full \in SUBSET Nat
    BY <1>1
  <2>2. \E k \in full : \A j \in full : k <= j
    <3> HIDE DEF full
    <3> QED BY <1>4, <2>1, LeastExists
  <2>3. cut \in full
    <3> HIDE DEF full
    <3> QED BY <2>2
  <2>4. PICK c \in T : c.key = cut
    <3> HIDE DEF cut
    <3> QED BY <2>3
  <2> HIDE DEF cut, full
  <2>5. c \in upto(cut)
    BY <1>1, <2>4
  <2>6. ASSUME NEW e \in upto(cut), NEW f \in T \ upto(cut)
        PROVE  e.key < f.key
    <3>1. e.key \in Nat /\ f.key \in Nat /\ cut \in Nat
      BY <1>1, <2>4
    <3> QED
      BY <3>1
  <2> QED
    BY <1>2, <1>4, <2>5, <2>6
<1> QED
  BY <1>3, <1>4

-----------------------------------------------------------------------------

(***************************************************************************)
(* Type correctness.                                                       *)
(***************************************************************************)

\* The stages of a flush, from its start to the wake-up of the writers.
Flushing == {"flush", "install_flush", "unlink_log", "flushed", "backoff"}

\* A flush runs only while an immutable memtable and its SST number are set,
\* and a process that is not up has neither.
FlushPending ==
    /\ imm = NoFile <=> immSst = NoFile
    /\ bg \in Flushing => imm # NoFile
    /\ status # "up" => bg = "idle" /\ imm = NoFile

\* A live snapshot has its frozen map.
SnapshotViews == \A s \in Snap : snaps[s] # kMaxSeq => views[s] \in [Key -> Value]

\* No file reaches L0 between the pick of an L0 compaction and its install:
\* the one background thread is busy with the compaction.
AllOfL0 ==
    (bg \in {"floor", "merge"} /\ job.src = 0) => FilesOf(current.l0) \subseteq job.inA

\* TypeOK is not inductive: the flush writes to immSst, a reader copies the
\* view of a snapshot and an L0 compaction filters l0.
TypeInv == TypeOK /\ FlushPending /\ SnapshotViews /\ AllOfL0

\* File numbers are positive, so NoFile is none of them.
LEMMA FileNumbers ==
    /\ File \subseteq Nat \ {0}
    /\ NoFile \notin File
    /\ 1 \in File
    /\ \A n \in 2..MaxFile + 1 : n <= MaxFile => n \in File
BY BoundsAssumption DEF File, NoFile

\* The initial values of the structured variables have their types.
LEMMA Blanks ==
    /\ EmptyVersion \in Version
    /\ NoJob \in Job
    /\ NoRead \in Read
<1>1. EmptyVersion \in Version
  BY EmptySeq DEF EmptyVersion, Version
<1>2. NoJob \in Job
  BY OptionsAssumption DEF NoJob, Job
<1>3. NoRead \in Read
  BY <1>1 DEF NoRead, Read
<1> QED
  BY <1>1, <1>2, <1>3

\* The initial state.
LEMMA InitTypeInv == Init => TypeInv
<1> SUFFICES ASSUME Init PROVE TypeInv
  OBVIOUS
<1>1. /\ memtables \in [File -> SUBSET Entry]
      /\ imm \in File \cup {NoFile}
      /\ immSst \in File \cup {NoFile}
      /\ current \in Version
  BY Blanks DEF Init
<1>2. /\ nextSeq \in Nat \ {0}
      /\ nextFile \in 2..MaxFile + 1
      /\ logNumber \in File
      /\ unsynced \in Nat
      /\ snaps \in [Snap -> Nat]
  BY FileNumbers, CallsAssumption, BoundsAssumption DEF Init
<1>3. MemoryType
  BY <1>1, <1>2 DEF Init, MemoryType
<1>4. DiskType
  BY FileNumbers, EmptySeq DEF Init, DiskType, Manifest, LogTail
<1>5. ThreadType
  BY Blanks DEF Init, ThreadType, BgState
<1>6. HistoryType
  BY CallsAssumption, BoundsAssumption DEF Init, HistoryType, Value, NotFound
<1> QED
  BY <1>3, <1>4, <1>5, <1>6
  DEF Init, TypeInv, TypeOK, FlushPending, SnapshotViews, AllOfL0, Flushing

\* Steps that move the background thread and little else.
LEMMA StartFlushType == TypeInv /\ StartFlush => TypeInv'
  BY DEF TypeInv, TypeOK, MemoryType, DiskType, ThreadType, HistoryType, FlushPending, SnapshotViews, AllOfL0, Flushing, BgState,
     StartFlush, MutexFree, memory, disk, history
LEMMA RetryFlushType == TypeInv /\ RetryFlush => TypeInv'
  BY DEF TypeInv, TypeOK, MemoryType, DiskType, ThreadType, HistoryType, FlushPending, SnapshotViews, AllOfL0, Flushing, BgState,
     RetryFlush, MutexFree, memory, disk, history
LEMMA EndFlushType == TypeInv /\ EndFlush => TypeInv'
  BY DEF TypeInv, TypeOK, MemoryType, DiskType, ThreadType, HistoryType, FlushPending, SnapshotViews, AllOfL0, Flushing, BgState,
     EndFlush, MutexFree, memory, disk, history
LEMMA UnlinkLogType == TypeInv /\ UnlinkLog => TypeInv'
<1> SUFFICES ASSUME TypeInv, UnlinkLog PROVE TypeInv'
  OBVIOUS
<1>1. DiskType'
  BY EmptySeq DEF TypeInv, TypeOK, DiskType, LogTail, UnlinkLog
<1> QED
  BY <1>1 DEF TypeInv, TypeOK, MemoryType, ThreadType, HistoryType, FlushPending, SnapshotViews, AllOfL0, Flushing, BgState,
     UnlinkLog, memory, history
LEMMA UnlinkInputsType == TypeInv /\ UnlinkInputs => TypeInv'
  BY OptionsAssumption DEF TypeInv, TypeOK, MemoryType, DiskType, ThreadType, HistoryType, FlushPending, SnapshotViews, AllOfL0, Flushing, BgState,
     UnlinkInputs, MutexFree, memory, disk, history, NoJob, Job
LEMMA EndReadType == ASSUME NEW r \in Reader, TypeInv, EndRead(r) PROVE TypeInv'
  BY Blanks DEF TypeInv, TypeOK, MemoryType, DiskType, ThreadType, HistoryType, FlushPending, SnapshotViews, AllOfL0, Flushing, BgState,
     EndRead, MutexFree, memory, disk, history

\* AddRecord leaves a log of records and a tail.
LEMMA AddRecordType ==
    ASSUME NEW n \in File, NEW e \in Entry, DiskType, AddRecord(n, e)
    PROVE  logs' \in [File -> Seq(Entry)] /\ torn' \in [File -> LogTail]
<1>1. logs \in [File -> Seq(Entry)] /\ torn \in [File -> LogTail]
  BY DEF DiskType
<1>2. Append(logs[n], e) \in Seq(Entry)
  BY <1>1, AppendProperties
<1>3. logs' \in [File -> Seq(Entry)]
  BY <1>1, <1>2 DEF AddRecord
<1>4. torn' \in [File -> LogTail]
  BY <1>1 DEF AddRecord, LogTail
<1> QED
  BY <1>3, <1>4

LEMMA AddRecordFailsType ==
    ASSUME NEW n \in File, TypeOK, AddRecordFails(n)
    PROVE  logs' = logs /\ torn' \in [File -> LogTail] /\ faults' \in 0..MaxFaults
<1>1. torn \in [File -> LogTail] /\ faults \in 0..MaxFaults
  BY DEF TypeOK, DiskType, HistoryType
<1>2. torn' \in [File -> LogTail]
  BY <1>1 DEF AddRecordFails, LogTail
<1>3. faults' \in 0..MaxFaults
  BY <1>1, BoundsAssumption DEF AddRecordFails, Fails
<1> QED
  BY <1>2, <1>3 DEF AddRecordFails

\* WriteEntry: the three ways it ends leave every variable it touches typed.
LEMMA WriteEntryType ==
    ASSUME NEW type \in {kTypeDeletion, kTypeValue}, NEW k \in Key, TypeOK,
           calls < MaxCalls, logNumber' \in File, WriteEntry(type, k)
    PROVE  /\ unsynced' \in Nat
           /\ logs' \in [File -> Seq(Entry)]
           /\ torn' \in [File -> LogTail]
           /\ synced' \in [File -> Nat]
           /\ memtables' \in [File -> SUBSET Entry]
           /\ nextSeq' \in Nat \ {0}
           /\ store' \in [Key -> Value]
           /\ maybe' \in [Key -> SUBSET Value]
           /\ readers' \in [Reader -> Read]
           /\ faults' \in 0..MaxFaults
<1> DEFINE v == IF type = kTypeValue THEN calls + 1 ELSE NotFound
           e == [key |-> k, seq |-> nextSeq, type |-> type, val |-> v]
           n == logNumber'
           u == (IF n = logNumber THEN unsynced ELSE 0) + 1
<1>1. v \in Value
  BY CallsAssumption DEF Value, NotFound, TypeOK, HistoryType
<1>2. e \in Entry
  BY <1>1 DEF Entry, TypeOK, MemoryType
<1>3. u \in Nat /\ u - 1 \in Nat
  BY DEF TypeOK, MemoryType
<1>4. [maybe EXCEPT ![k] = @ \cup {v}] \in [Key -> SUBSET Value]
  BY <1>1 DEF TypeOK, HistoryType
<1>5. DiskType /\ n \in File
  BY DEF TypeOK
<1> HIDE DEF e, v, u, n
<1>7. CASE /\ AddRecordFails(n)
           /\ unsynced' = u - 1
           /\ maybe' = [maybe EXCEPT ![k] = @ \cup {v}]
           /\ UNCHANGED <<synced, memtables, nextSeq, store, readers>>
  <2>1. logs' = logs /\ torn' \in [File -> LogTail] /\ faults' \in 0..MaxFaults
    BY <1>5, <1>7, AddRecordFailsType
  <2> QED
    BY <1>3, <1>4, <1>7, <2>1 DEF TypeOK, MemoryType, DiskType, ThreadType, HistoryType
<1>8. CASE /\ SyncNeeded(u)
           /\ Fails("sync")
           /\ unsynced' = u
           /\ AddRecord(n, e)
           /\ maybe' = [maybe EXCEPT ![k] = @ \cup {v}]
           /\ UNCHANGED <<synced, memtables, nextSeq, store, readers>>
  <2>1. logs' \in [File -> Seq(Entry)] /\ torn' \in [File -> LogTail]
    BY <1>2, <1>5, <1>8, AddRecordType
  <2>2. faults' \in 0..MaxFaults
    BY <1>8, BoundsAssumption DEF Fails, TypeOK, HistoryType
  <2> QED
    BY <1>3, <1>4, <1>8, <2>1, <2>2 DEF TypeOK, MemoryType, DiskType, ThreadType, HistoryType
<1>9. CASE /\ Succeeds
           /\ AddRecord(n, e)
           /\ IF SyncNeeded(u)
              THEN unsynced' = 0 /\ synced' = [synced EXCEPT ![n] = Len(logs'[n])]
              ELSE unsynced' = u /\ UNCHANGED synced
           /\ memtables' = [memtables EXCEPT ![n] = Insert(@, e)]
           /\ nextSeq' = nextSeq + 1
           /\ store' = [store EXCEPT ![k] = v]
           /\ maybe' = [maybe EXCEPT ![k] = {}]
           /\ readers' = [r \in Reader |->
                IF readers[r].mem # NoFile /\ readers[r].seq = kMaxSeq
                THEN [readers[r] EXCEPT !.ok[k] = @ \cup {v}]
                ELSE readers[r]]
  <2>1. logs' \in [File -> Seq(Entry)] /\ torn' \in [File -> LogTail]
    BY <1>2, <1>5, <1>9, AddRecordType
  <2>2. Len(logs'[n]) \in Nat
    BY <1>5, <2>1, LenProperties
  <2>3. unsynced' \in Nat /\ synced' \in [File -> Nat]
    BY <1>3, <1>9, <2>2 DEF TypeOK, DiskType
  <2>4. memtables' \in [File -> SUBSET Entry]
    BY <1>2, <1>5, <1>9 DEF TypeOK, MemoryType, Insert
  <2>5. nextSeq' \in Nat \ {0}
    BY <1>9 DEF TypeOK, MemoryType
  <2>6. store' \in [Key -> Value] /\ maybe' \in [Key -> SUBSET Value]
    BY <1>1, <1>9 DEF TypeOK, HistoryType
  <2>7. readers' \in [Reader -> Read]
    <3>1. ASSUME NEW c \in Read PROVE [c EXCEPT !.ok[k] = @ \cup {v}] \in Read
      <4>1. c.ok \in [Key -> SUBSET Value]
        BY DEF Read
      <4>2. [c.ok EXCEPT ![k] = @ \cup {v}] \in [Key -> SUBSET Value]
        BY <1>1, <4>1
      <4> QED
        BY <4>2 DEF Read
    <3>2. \A r \in Reader : readers[r] \in Read
      BY DEF TypeOK, ThreadType
    <3> QED
      BY <1>9, <3>1, <3>2
  <2>8. faults' \in 0..MaxFaults
    BY <1>9 DEF Succeeds, TypeOK, HistoryType
  <2> QED
    BY <2>1, <2>3, <2>4, <2>5, <2>6, <2>7, <2>8
<1> QED
  BY <1>7, <1>8, <1>9 DEF WriteEntry, e, v, u, n

\* Put and Delete, with or without a rotation, and with a failed one.
LEMMA WriteType ==
    ASSUME NEW type \in {kTypeDeletion, kTypeValue}, NEW k \in Key, TypeInv, Write(type, k)
    PROVE  TypeInv'
<1>1. /\ status = "up" /\ bg # "unlink_inputs" /\ imm = NoFile
      /\ calls' = calls + 1 /\ calls < MaxCalls
      /\ UNCHANGED <<status, current, snaps, disabled, sstFiles, ssts, manifest,
                     bg, job, views, crashes>>
  BY DEF Write, MutexFree
<1>2. TypeOK
  BY DEF TypeInv
<1>3. calls' \in 0..MaxCalls
  BY <1>1, <1>2, CallsAssumption DEF TypeOK, HistoryType
<1>4. CASE /\ UNCHANGED <<logFiles, imm, immSst, logNumber, nextFile>>
           /\ WriteEntry(type, k)
  <2>1. logNumber' \in File
    BY <1>2, <1>4 DEF TypeOK, MemoryType
  <2> QED
    BY <1>1, <1>2, <1>3, <1>4, <2>1, WriteEntryType
    DEF TypeInv, TypeOK, MemoryType, DiskType, ThreadType, HistoryType,
        FlushPending, SnapshotViews, AllOfL0
<1>5. CASE RotateForFlush /\ WriteEntry(type, k)
  <2>1. /\ logNumber' \in File /\ nextFile' \in 2..MaxFile + 1
        /\ imm' \in File /\ immSst' \in File
        /\ logFiles' \subseteq File
    BY <1>2, <1>5, BoundsAssumption DEF TypeOK, MemoryType, DiskType, RotateForFlush, File
  <2>2. imm' # NoFile /\ immSst' # NoFile
    BY <2>1, FileNumbers
  <2> QED
    BY <1>1, <1>2, <1>3, <1>5, <2>1, <2>2, WriteEntryType
    DEF TypeInv, TypeOK, MemoryType, DiskType, ThreadType, HistoryType,
        FlushPending, SnapshotViews, AllOfL0
<1>6. CASE /\ nextFile + 1 <= MaxFile
           /\ Fails("rotate")
           /\ logFiles' \in {logFiles, logFiles \cup {nextFile}}
           /\ maybe' = [maybe EXCEPT ![k] = @ \cup
                          {IF type = kTypeValue THEN calls + 1 ELSE NotFound}]
           /\ UNCHANGED <<imm, immSst, logNumber, nextFile, unsynced, logs,
                          torn, synced, memtables, nextSeq, store, readers>>
  <2>1. logFiles' \subseteq File
    BY <1>2, <1>6, BoundsAssumption DEF TypeOK, MemoryType, DiskType, File
  <2>2. (IF type = kTypeValue THEN calls + 1 ELSE NotFound) \in Value
    BY <1>1, <1>2, CallsAssumption DEF Value, NotFound, TypeOK, HistoryType
  <2>3. maybe' \in [Key -> SUBSET Value]
    BY <1>2, <1>6, <2>2 DEF TypeOK, HistoryType
  <2>4. faults' \in 0..MaxFaults
    BY <1>2, <1>6, BoundsAssumption DEF Fails, TypeOK, HistoryType
  <2> QED
    BY <1>1, <1>2, <1>3, <1>6, <2>1, <2>3, <2>4
    DEF TypeInv, TypeOK, MemoryType, DiskType, ThreadType, HistoryType,
        FlushPending, SnapshotViews, AllOfL0
<1> QED
  BY <1>4, <1>5, <1>6 DEF Write

\* A capture is a Read: the snapshot it may copy is live.
LEMMA BeginReadType == ASSUME NEW r \in Reader, TypeInv, BeginRead(r) PROVE TypeInv'
<1>1. ASSUME NEW seq \in Nat, NEW map \in [Key -> Value]
      PROVE  Capture(seq, map) \in Read
  BY <1>1 DEF TypeInv, TypeOK, MemoryType, Capture, Read
<1>2. readers' \in [Reader -> Read]
  <2>1. ASSUME NEW s \in Snap, snaps[s] # kMaxSeq
        PROVE  snaps[s] \in Nat /\ views[s] \in [Key -> Value]
    BY <2>1 DEF TypeInv, TypeOK, MemoryType, HistoryType, SnapshotViews
  <2>2. kMaxSeq \in Nat /\ store \in [Key -> Value]
    BY CallsAssumption DEF TypeInv, TypeOK, HistoryType
  <2> QED
    BY <1>1, <2>1, <2>2 DEF BeginRead, TypeInv, TypeOK, ThreadType
<1> QED
  BY <1>2 DEF BeginRead, TypeInv, TypeOK, MemoryType, DiskType, ThreadType, HistoryType,
     FlushPending, SnapshotViews, AllOfL0, memory, disk, history

\* Snapshots taken and released.
LEMMA GetSnapshotType == ASSUME NEW s \in Snap, TypeInv, GetSnapshot(s) PROVE TypeInv'
<1>1. snaps' \in [Snap -> Nat] /\ views' \in [Snap -> {NoView} \cup [Key -> Value]]
  BY DEF GetSnapshot, TypeInv, TypeOK, MemoryType, HistoryType
<1>2. SnapshotViews'
  BY DEF GetSnapshot, TypeInv, TypeOK, MemoryType, HistoryType, SnapshotViews
<1> QED
  BY <1>1, <1>2 DEF GetSnapshot, TypeInv, TypeOK, MemoryType, DiskType, ThreadType, HistoryType,
     FlushPending, AllOfL0, disk, threads

\* A released handle holds kMaxSeq again.
LEMMA ReleaseSnapshotType == ASSUME NEW s \in Snap, TypeInv, ReleaseSnapshot(s) PROVE TypeInv'
<1>1. snaps' \in [Snap -> Nat] /\ views' \in [Snap -> {NoView} \cup [Key -> Value]]
  BY CallsAssumption DEF ReleaseSnapshot, TypeInv, TypeOK, MemoryType, HistoryType
<1>2. SnapshotViews'
  BY DEF ReleaseSnapshot, TypeInv, TypeOK, MemoryType, HistoryType, SnapshotViews
<1> QED
  BY <1>1, <1>2 DEF ReleaseSnapshot, TypeInv, TypeOK, MemoryType, DiskType, ThreadType,
     HistoryType, FlushPending, AllOfL0, disk, threads

\* A published version is a MANIFEST.
LEMMA PublishedType ==
    ASSUME MemoryType, NEW v \in Version PROVE Published(v) \in Manifest
BY DEF MemoryType, Version, Published, Manifest

\* WriteManifest, whichever way it ends.
LEMMA WriteManifestType ==
    ASSUME TypeOK, NEW v \in Version, WriteManifestOk(v) \/ WriteManifestFails(v)
    PROVE  manifest' \in Manifest /\ faults' \in 0..MaxFaults
<1>1. Published(v) \in Manifest
  BY PublishedType DEF TypeOK
<1> QED
  BY <1>1, BoundsAssumption
  DEF WriteManifestOk, WriteManifestFails, Fails, Succeeds, TypeOK, DiskType, HistoryType

\* The flush.
LEMMA WriteFlushSstType == TypeInv /\ WriteFlushSst => TypeInv'
<1> SUFFICES ASSUME TypeInv, WriteFlushSst PROVE TypeInv'
  OBVIOUS
<1>1. imm \in File /\ immSst \in File
  BY DEF TypeInv, TypeOK, MemoryType, FlushPending, Flushing, WriteFlushSst
<1>2. sstFiles' \subseteq File /\ ssts' \in [File -> SUBSET Entry]
  BY <1>1 DEF TypeInv, TypeOK, MemoryType, DiskType, WriteFlushSst
<1>3. faults' \in 0..MaxFaults /\ bg' \in {"install_flush", "backoff"}
  BY BoundsAssumption DEF TypeInv, TypeOK, HistoryType, WriteFlushSst, Fails, Succeeds
<1> QED
  BY <1>2, <1>3 DEF WriteFlushSst, TypeInv, TypeOK, MemoryType, DiskType, ThreadType,
     HistoryType, BgState, FlushPending, Flushing, SnapshotViews, AllOfL0, memory

\* The install puts a reserved number in front of L0.
LEMMA InstallFlushType == TypeInv /\ InstallFlush => TypeInv'
<1> SUFFICES ASSUME TypeInv, InstallFlush PROVE TypeInv'
  OBVIOUS
<1>1. immSst \in File
  BY DEF TypeInv, TypeOK, MemoryType, FlushPending, Flushing, InstallFlush
<1>2. <<immSst>> \o current.l0 \in Seq(File)
  BY <1>1, ConcatProperties DEF TypeInv, TypeOK, MemoryType, Version
<1>3. current' \in Version
  BY <1>2 DEF TypeInv, TypeOK, MemoryType, Version, InstallFlush
<1>4. manifest' \in Manifest /\ faults' \in 0..MaxFaults
  BY <1>3, WriteManifestType DEF TypeInv, InstallFlush
<1>5. bg' \in {"unlink_log", "backoff"}
  BY DEF InstallFlush
<1> QED
  BY <1>3, <1>4, <1>5 DEF InstallFlush, TypeInv, TypeOK, MemoryType, DiskType, ThreadType,
     HistoryType, BgState, FlushPending, Flushing, SnapshotViews, AllOfL0

\* The least level over its limit exists when PickCompaction looks for it, and
\* is never the bottom level.
LEMMA SourceLevelType ==
    CompactionNeeded => /\ SourceLevel \in 0..kMaxLevels - 1
                        /\ SourceLevel + 1 \in Level
<1> SUFFICES ASSUME CompactionNeeded PROVE /\ SourceLevel \in 0..kMaxLevels - 1
                                           /\ SourceLevel + 1 \in Level
  OBVIOUS
<1>1. CASE L0Over
  BY <1>1, OptionsAssumption DEF SourceLevel, Level
<1>2. CASE ~L0Over
  <2> DEFINE over == {i \in Level : LevelOver(i)}
  <2>1. over \in SUBSET Nat /\ over # {}
    BY <1>2, OptionsAssumption DEF CompactionNeeded, Level
  <2>2. PICK i \in over : \A j \in over : i <= j
    <3> HIDE DEF over
    <3> QED BY <2>1, LeastExists
  <2>3. LevelOver(SourceLevel) /\ SourceLevel \in Level
    BY <1>2, <2>2 DEF SourceLevel
  <2> QED
    BY <2>3, OptionsAssumption DEF LevelOver, Level
<1> QED
  BY <1>1, <1>2

\* The job of a compaction names files of the current version.
LEMMA PickCompactionType == TypeInv /\ PickCompaction => TypeInv'
<1> SUFFICES ASSUME TypeInv, PickCompaction PROVE TypeInv'
  OBVIOUS
<1> DEFINE src == SourceLevel
           A   == SourceFiles(src)
           B   == OverlappingFiles(A, current.levels[src + 1])
<1>1. src \in 0..kMaxLevels - 1 /\ src + 1 \in Level
  BY SourceLevelType DEF PickCompaction
<1>2. FilesOf(current.l0) \subseteq File
  BY ElementOfSeq DEF TypeInv, TypeOK, MemoryType, Version, FilesOf
<1>3. A \subseteq File
  <2>1. CASE src = 0
    BY <1>2, <2>1 DEF SourceFiles
  <2>2. CASE src # 0
    <3>1. src \in Level
      BY <1>1, <2>2, OptionsAssumption DEF Level
    <3> HIDE DEF src
    <3> QED
      BY <2>2, <3>1 DEF SourceFiles, TypeInv, TypeOK, MemoryType, Version
  <2> QED
    BY <2>1, <2>2
<1>4. B \subseteq File
  <2> HIDE DEF src, A
  <2> QED BY <1>1 DEF OverlappingFiles, TypeInv, TypeOK, MemoryType, Version
<1>5. job' = [NoJob EXCEPT !.src = src, !.inA = A, !.inB = B]
  BY DEF PickCompaction
<1>6. src = 0 => FilesOf(current.l0) \subseteq A
  BY DEF SourceFiles
<1> HIDE DEF src, A, B
<1>7. job' \in Job /\ (job'.src = 0 => FilesOf(current.l0) \subseteq job'.inA)
  BY <1>1, <1>3, <1>4, <1>5, <1>6 DEF NoJob, Job
<1> QED
  BY <1>7 DEF PickCompaction, TypeInv, TypeOK, MemoryType, DiskType, ThreadType,
     HistoryType, BgState, FlushPending, Flushing, SnapshotViews, AllOfL0, MutexFree,
     memory, disk, history

\* The snapshot floor is a sequence number.
LEMMA SmallestSnapshotSeqType ==
    ASSUME MemoryType PROVE SmallestSnapshotSeq \in Nat
<1> DEFINE Q == {kMaxSeq} \cup {snaps[s] : s \in Snap}
<1>1. Q \in SUBSET Nat /\ Q # {}
  BY CallsAssumption DEF MemoryType
<1>2. \E q \in Q : \A p \in Q : q <= p
  <2> HIDE DEF Q
  <2> QED BY <1>1, LeastExists
<1>3. SmallestSnapshotSeq \in Q
  BY <1>2 DEF SmallestSnapshotSeq
<1> QED
  BY <1>1, <1>3

\* The merge keeps entries of its inputs.
LEMMA TakeFloorType == TypeInv /\ TakeFloor => TypeInv'
<1> SUFFICES ASSUME TypeInv, TakeFloor PROVE TypeInv'
  OBVIOUS
<1> DEFINE T      == UNION {ssts[f] : f \in job.inA \cup job.inB}
           floor  == SmallestSnapshotSeq
           bottom == job.src + 1 = kMaxLevels - 1
<1>1. job \in Job /\ T \subseteq Entry
  BY DEF TypeInv, TypeOK, ThreadType, DiskType, Job
<1>2. Retain(T, floor, bottom) \subseteq Entry
  BY <1>1 DEF Retain
<1>3. floor \in Nat
  BY SmallestSnapshotSeqType DEF TypeInv, TypeOK
<1>4. job' = [job EXCEPT !.floor = floor, !.todo = Retain(T, floor, bottom)]
  BY DEF TakeFloor
<1> HIDE DEF T, floor, bottom
<1>5. job' \in Job /\ job'.src = job.src /\ job'.inA = job.inA
  BY <1>1, <1>2, <1>3, <1>4 DEF Job
<1> QED
  BY <1>5 DEF TakeFloor, TypeInv, TypeOK, MemoryType, DiskType, ThreadType,
     HistoryType, BgState, FlushPending, Flushing, SnapshotViews, AllOfL0, MutexFree,
     memory, disk, history

\* An output takes its entries from what is left to write.
LEMMA FirstOutputSubset == ASSUME NEW T, NEW n PROVE FirstOutput(T, n) \subseteq T
BY DEF FirstOutput

\* One output, refused, written or failed.
LEMMA SealOutputType == TypeInv /\ SealOutput => TypeInv'
<1> SUFFICES ASSUME TypeInv, SealOutput PROVE TypeInv'
  OBVIOUS
<1> DEFINE T == FirstOutput(job.todo, max_sst_size)
<1>1. job \in Job
  BY DEF TypeInv, TypeOK, ThreadType
<1>2. T \subseteq Entry
  <2>1. job.todo \subseteq Entry
    BY <1>1 DEF Job
  <2> QED
    BY <2>1, FirstOutputSubset
<1>3. nextFile <= MaxFile => nextFile \in File
  BY FileNumbers DEF TypeInv, TypeOK, MemoryType
<1>4. CASE /\ nextFile <= MaxFile
           /\ Succeeds
           /\ nextFile' = nextFile + 1
           /\ ssts' = [ssts EXCEPT ![nextFile] = T]
           /\ sstFiles' = sstFiles \cup {nextFile}
           /\ job' = [job EXCEPT !.todo = @ \ T, !.outs = @ \cup {nextFile}]
           /\ UNCHANGED <<bg, disabled>>
  <2> HIDE DEF T
  <2>1. job' \in Job /\ job'.src = job.src /\ job'.inA = job.inA
    BY <1>1, <1>3, <1>4 DEF Job
  <2>2. nextFile' \in 2..MaxFile + 1
    BY <1>4, BoundsAssumption DEF TypeInv, TypeOK, MemoryType
  <2>3. ssts' \in [File -> SUBSET Entry] /\ sstFiles' \subseteq File
    BY <1>2, <1>3, <1>4 DEF TypeInv, TypeOK, DiskType
  <2> QED
    BY <1>4, <2>1, <2>2, <2>3 DEF SealOutput, TypeInv, TypeOK, MemoryType, DiskType,
       ThreadType, HistoryType, FlushPending, SnapshotViews, AllOfL0, MutexFree, Succeeds
<1>5. CASE GiveUp
  <2> HIDE DEF T
  <2>1. nextFile' \in 2..MaxFile + 1
    BY BoundsAssumption DEF TypeInv, TypeOK, MemoryType, SealOutput
  <2>2. ssts' \in [File -> SUBSET Entry] /\ sstFiles' \subseteq File
    BY <1>2, <1>3 DEF TypeInv, TypeOK, DiskType, SealOutput, T
  <2>3. faults' \in 0..MaxFaults
    BY BoundsAssumption DEF TypeInv, TypeOK, HistoryType, SealOutput, Fails, Succeeds
  <2> QED
    BY <1>5, <2>1, <2>2, <2>3, Blanks DEF GiveUp, SealOutput, TypeInv, TypeOK, MemoryType,
       DiskType, ThreadType, HistoryType, BgState, FlushPending, Flushing, SnapshotViews,
       AllOfL0, MutexFree
<1> QED
  BY <1>4, <1>5 DEF SealOutput

\* The install: an L0 compaction leaves L0 empty.
LEMMA InstallCompactionType == TypeInv /\ InstallCompaction => TypeInv'
<1> SUFFICES ASSUME TypeInv, InstallCompaction PROVE TypeInv'
  OBVIOUS
<1>1. job \in Job /\ current \in Version
  BY DEF TypeInv, TypeOK, MemoryType, ThreadType
<1>2. job.src = 0 => Without(current.l0, job.inA) = <<>>
  BY DEF InstallCompaction, TypeInv, AllOfL0, Without
<1>3. (IF job.src = 0 THEN Without(current.l0, job.inA) ELSE current.l0) \in Seq(File)
  BY <1>1, <1>2, EmptySeq DEF Version
<1>4. [i \in Level |-> IF i = job.src + 1 THEN (current.levels[i] \ job.inB) \cup job.outs
                       ELSE IF i = job.src THEN current.levels[i] \ job.inA
                       ELSE current.levels[i]] \in [Level -> SUBSET File]
  BY <1>1 DEF Version, Job
<1>5. current' \in Version
  BY <1>3, <1>4 DEF InstallCompaction, Version
<1>6. manifest' \in Manifest /\ faults' \in 0..MaxFaults
  BY <1>5, WriteManifestType DEF TypeInv, InstallCompaction
<1>7. /\ bg' \in {"unlink_inputs", "idle"}
      /\ disabled' \in BOOLEAN
      /\ job' \in Job
  BY <1>1, Blanks DEF InstallCompaction, GiveUp, TypeInv, TypeOK, MemoryType
<1> QED
  BY <1>5, <1>6, <1>7 DEF InstallCompaction, TypeInv, TypeOK, MemoryType, DiskType,
     ThreadType, HistoryType, BgState, FlushPending, Flushing, SnapshotViews, AllOfL0,
     MutexFree

\* What a restart leaves open about failed writes.
LEMMA UnresolvedType == ASSUME TypeOK PROVE Unresolved \in [Key -> SUBSET Value]
BY DEF TypeOK, HistoryType, Unresolved

\* A crash keeps a prefix of every log and forgets the process.
LEMMA CrashType == ASSUME NEW kind, TypeInv, Crash(kind) PROVE TypeInv'
<1>1. logs' \in [File -> Seq(Entry)]
  <2>1. PICK left \in [logFiles -> 0..MaxCalls] :
          /\ \A n \in logFiles : left[n] \in
                (IF kind = "power" THEN synced[n] ELSE Len(logs[n]))..Len(logs[n])
          /\ logs' = [n \in File |-> IF n \in logFiles
                                     THEN SubSeq(logs[n], 1, left[n]) ELSE <<>>]
    BY DEF Crash
  <2>2. ASSUME NEW n \in logFiles
        PROVE  SubSeq(logs[n], 1, left[n]) \in Seq(Entry)
    <3>1. n \in File /\ logs[n] \in Seq(Entry) /\ synced[n] \in Nat
      BY DEF TypeInv, TypeOK, DiskType
    <3>2. Len(logs[n]) \in Nat /\ left[n] \in Nat /\ left[n] <= Len(logs[n])
      BY <2>1, <3>1, LenProperties, CallsAssumption
    <3>3. \A i \in 1..left[n] : logs[n][i] \in Entry
      BY <3>1, <3>2, ElementOfSeq
    <3> QED
      BY <3>2, <3>3, SubSeqProperties
  <2> QED
    BY <2>1, <2>2, EmptySeq
<1>2. MemoryType'
  <2>1. /\ status' = "down" /\ nextSeq' = 1 /\ nextFile' = 2 /\ logNumber' = 1
        /\ unsynced' = 0
        /\ memtables' = [n \in File |-> {}]
        /\ imm' = NoFile /\ immSst' = NoFile
        /\ current' = EmptyVersion
        /\ snaps' = [s \in Snap |-> kMaxSeq]
        /\ disabled' = FALSE
    BY DEF Crash
  <2>2. /\ nextSeq' \in Nat \ {0}
        /\ nextFile' \in 2..MaxFile + 1
        /\ logNumber' \in File
        /\ unsynced' \in Nat
        /\ snaps' \in [Snap -> Nat]
    BY <2>1, FileNumbers, CallsAssumption, BoundsAssumption
  <2>3. memtables' \in [File -> SUBSET Entry]
    BY <2>1
  <2> QED
    BY <2>1, <2>2, <2>3, Blanks DEF MemoryType
<1>3. DiskType'
  <2>1. torn' \in [File -> LogTail]
    BY DEF Crash, LogTail
  <2> QED
    BY <1>1, <2>1 DEF Crash, TypeInv, TypeOK, DiskType
<1>4. ThreadType'
  BY Blanks DEF Crash, ThreadType, BgState
<1>5. HistoryType'
  BY UnresolvedType, BoundsAssumption DEF Crash, TypeInv, TypeOK, HistoryType
<1>6. FlushPending' /\ SnapshotViews' /\ AllOfL0'
  BY DEF Crash, FlushPending, SnapshotViews, AllOfL0, Flushing
<1> QED
  BY <1>2, <1>3, <1>4, <1>5, <1>6 DEF TypeInv, TypeOK

\* The MANIFEST names files.
LEMMA ManifestFilesType == ASSUME DiskType PROVE ManifestFiles \subseteq File
<1>1. FilesOf(manifest.l0) \subseteq File
  BY ElementOfSeq DEF DiskType, Manifest, FilesOf
<1>2. UNION {manifest.levels[i] : i \in Level} \subseteq File
  BY DEF DiskType, Manifest
<1> QED
  BY <1>1, <1>2 DEF ManifestFiles

\* Open up to the removal of orphans.
LEMMA OpenSweepType == TypeInv /\ OpenSweep => TypeInv'
<1> SUFFICES ASSUME TypeInv, OpenSweep PROVE TypeInv'
  OBVIOUS
<1>1. ManifestFiles \subseteq File /\ ReplayLogs \subseteq File
  BY ManifestFilesType DEF TypeInv, TypeOK, DiskType, ReplayLogs
<1>2. logFiles' \subseteq File /\ sstFiles' \subseteq File
  BY <1>1 DEF OpenSweep, TypeInv, TypeOK, DiskType
<1>3. logs' \in [File -> Seq(Entry)] /\ torn' \in [File -> LogTail] /\ synced' \in [File -> Nat]
  <2>1. CASE UNCHANGED <<logFiles, logs, torn, synced, sstFiles>>
    BY <2>1 DEF TypeInv, TypeOK, DiskType
  <2>2. CASE /\ logs' = [n \in File |-> IF n \in ReplayLogs THEN logs[n] ELSE <<>>]
             /\ torn' = [n \in File |-> IF n \in ReplayLogs THEN torn[n] ELSE "whole"]
             /\ synced' = [n \in File |-> IF n \in ReplayLogs THEN synced[n] ELSE 0]
    BY <2>2, EmptySeq DEF TypeInv, TypeOK, DiskType, LogTail
  <2> QED
    BY <2>1, <2>2 DEF OpenSweep
<1> QED
  BY <1>2, <1>3 DEF OpenSweep, TypeInv, TypeOK, MemoryType, DiskType, ThreadType,
     HistoryType, FlushPending, SnapshotViews, AllOfL0, threads, history

\* Replay rebuilds a memtable from log records.
LEMMA ReplayedType == ASSUME DiskType PROVE Replayed \subseteq Entry
<1>1. ASSUME NEW n \in ReplayLogs, NEW i \in 1..MaxCalls, i <= Len(logs[n])
      PROVE  logs[n][i] \in Entry
  BY <1>1, ElementOfSeq, CallsAssumption, LenProperties DEF DiskType, ReplayLogs
<1> QED
  BY <1>1 DEF Replayed

\* Sorting the L0 files of a MANIFEST neither loses nor repeats one.
LEMMA NewestFirstType ==
    ASSUME NEW F \in SUBSET File, NEW s \in NewestFirst(F)
    PROVE  s \in Seq(File) /\ FilesOf(s) = F
           /\ \A i, j \in 1..Len(s) : s[i] = s[j] => i = j
<1> DEFINE n == Cardinality(F)
<1>1. n \in Nat
  <2>1. IsFiniteSet(File)
    BY FS_Interval, BoundsAssumption DEF File
  <2> QED
    BY <2>1, FS_Subset, FS_CardinalityType
<1>2. /\ s \in [1..n -> F]
      /\ \A i, j \in 1..n : i < j => s[i] > s[j]
      /\ F = {s[i] : i \in 1..n}
  BY DEF NewestFirst
<1> HIDE DEF n
<1>3. s \in Seq(File) /\ Len(s) = n
  BY <1>1, <1>2
<1>4. \A i \in 1..n : s[i] \in Nat
  BY <1>2, FileNumbers
<1> QED
  BY <1>1, <1>2, <1>3, <1>4 DEF FilesOf

\* The version Open assembles.
LEMMA RecoveredVersionsType ==
    ASSUME DiskType PROVE RecoveredVersions \subseteq Version
<1> SUFFICES ASSUME NEW v \in RecoveredVersions PROVE v \in Version
  OBVIOUS
<1>1. FilesOf(manifest.l0) \in SUBSET File
  BY ManifestFilesType DEF ManifestFiles
<1>2. PICK s \in NewestFirst(FilesOf(manifest.l0)) : v = [l0 |-> s, levels |-> manifest.levels]
  BY DEF RecoveredVersions
<1>3. s \in Seq(File)
  BY <1>1, NewestFirstType
<1> QED
  BY <1>2, <1>3 DEF DiskType, Version, Manifest

\* Every entry a view reaches is an entry.
LEMMA AllEntriesType ==
    ASSUME DiskType, NEW m \in SUBSET Entry, NEW im \in SUBSET Entry, NEW v \in Version
    PROVE  AllEntries(View(m, im, v)) \subseteq Entry
<1> DEFINE view == View(m, im, v)
<1>1. view.mem = m /\ view.imm = im /\ view.ver = v
  BY DEF View
<1>2. \A i \in 1..Len(view.ver.l0) : ssts[view.ver.l0[i]] \subseteq Entry
  BY <1>1, ElementOfSeq DEF Version, DiskType
<1>3. \A i \in Level : \A f \in view.ver.levels[i] : ssts[f] \subseteq Entry
  BY <1>1 DEF Version, DiskType
<1> HIDE DEF view
<1> DEFINE inL0  == UNION {ssts[view.ver.l0[i]] : i \in 1..Len(view.ver.l0)}
           files == UNION {view.ver.levels[i] : i \in Level}
           lower == UNION {ssts[f] : f \in files}
<1>4. inL0 \subseteq Entry
  BY <1>2
<1>5. \A f \in files : ssts[f] \subseteq Entry
  BY <1>3
<1>6. lower \subseteq Entry
  <2> HIDE DEF files
  <2> QED BY <1>5
<1>7. AllEntries(view) = view.mem \cup view.imm \cup inL0 \cup lower
  BY DEF AllEntries
<1> HIDE DEF inL0, lower
<1>8. AllEntries(view) \subseteq Entry
  BY <1>1, <1>4, <1>6, <1>7
<1> QED
  BY <1>8 DEF view

\* The rest of Open.
LEMMA OpenReplayType == TypeInv /\ OpenReplay => TypeInv'
<1> SUFFICES ASSUME TypeInv, OpenReplay PROVE TypeInv'
  OBVIOUS
<1>1. /\ ManifestFiles \subseteq File /\ ReplayLogs \subseteq File
      /\ manifest \in Manifest /\ manifest.floor \in File
  BY ManifestFilesType DEF TypeInv, TypeOK, DiskType, ReplayLogs, Manifest
<1>2. PICK live \in ReplayLogs \cup {manifest.floor} :
          /\ logNumber' = live
          /\ logFiles' = logFiles \cup {live}
          /\ memtables' = [memtables EXCEPT ![live] = Replayed]
          /\ \E last \in ManifestFiles \cup {live} :
                /\ IsLargest(last, ManifestFiles \cup {live})
                /\ nextFile' = last + 1
  BY DEF OpenReplay
<1>3. live \in File
  BY <1>1
<1>4. nextFile' \in 2..MaxFile + 1
  BY <1>1, <1>2, <1>3, BoundsAssumption DEF File
<1>5. memtables' \in [File -> SUBSET Entry]
  BY <1>2, <1>3, ReplayedType DEF TypeInv, TypeOK, MemoryType
<1>6. current' \in Version
  BY <1>1, RecoveredVersionsType DEF OpenReplay, TypeInv, TypeOK
<1>7. nextSeq' \in Nat \ {0}
  <2>1. RecoveredVersion \in Version
    BY RecoveredVersionsType DEF OpenReplay, RecoveredVersion, TypeInv, TypeOK
  <2>2. AllEntries(RecoveredView) \subseteq Entry
    BY <2>1, ReplayedType, AllEntriesType DEF RecoveredView, TypeInv, TypeOK
  <2>3. \A e \in AllEntries(RecoveredView) : e.seq \in Nat
    BY <2>2 DEF Entry
  <2> QED
    BY <2>3 DEF OpenReplay
<1>8. MemoryType'
  BY <1>2, <1>3, <1>4, <1>5, <1>6, <1>7 DEF OpenReplay, TypeInv, TypeOK, MemoryType
<1>9. DiskType'
  <2>1. torn' \in [File -> LogTail]
    BY DEF OpenReplay, LogTail
  <2> QED
    BY <1>2, <1>3, <2>1 DEF OpenReplay, TypeInv, TypeOK, DiskType
<1>10. ThreadType'
  BY DEF OpenReplay, TypeInv, TypeOK, ThreadType, threads
<1>11. HistoryType'
  BY UnresolvedType DEF OpenReplay, TypeInv, TypeOK, HistoryType
<1>12. FlushPending' /\ SnapshotViews' /\ AllOfL0'
  BY DEF OpenReplay, TypeInv, FlushPending, SnapshotViews, AllOfL0, Flushing, threads
<1> QED
  BY <1>8, <1>9, <1>10, <1>11, <1>12 DEF TypeInv, TypeOK

-----------------------------------------------------------------------------
\* Every step of the engine preserves TypeInv.
LEMMA TypeInvStep == TypeInv /\ [Next]_vars => TypeInv'
<1> SUFFICES ASSUME TypeInv, [Next]_vars PROVE TypeInv'
  OBVIOUS
<1>1. CASE \E k \in Key : Write(kTypeValue, k) \/ Write(kTypeDeletion, k)
  BY <1>1, WriteType
<1>2. CASE \E r \in Reader : BeginRead(r) \/ EndRead(r)
  BY <1>2, BeginReadType, EndReadType
<1>3. CASE \E s \in Snap : GetSnapshot(s) \/ ReleaseSnapshot(s)
  BY <1>3, GetSnapshotType, ReleaseSnapshotType
<1>4. CASE Background
  BY <1>4, StartFlushType, WriteFlushSstType, InstallFlushType, UnlinkLogType,
     EndFlushType, RetryFlushType, PickCompactionType, TakeFloorType,
     SealOutputType, InstallCompactionType, UnlinkInputsType DEF Background
<1>5. CASE \E kind \in Crashes : Crash(kind)
  BY <1>5, CrashType
<1>6. CASE OpenSweep \/ OpenReplay
  BY <1>6, OpenSweepType, OpenReplayType
<1>7. CASE UNCHANGED vars
  BY <1>7 DEF vars, memory, disk, threads, history, TypeInv, TypeOK, MemoryType, DiskType,
     ThreadType, HistoryType, FlushPending, SnapshotViews, AllOfL0
<1> QED
  BY <1>1, <1>2, <1>3, <1>4, <1>5, <1>6, <1>7 DEF Next

\* TypeInv is an invariant of the engine, with every fault and crash.
THEOREM TypeInvariant == Spec => [](TypeInv)
  BY InitTypeInv, TypeInvStep, PTL DEF Spec

\* Every variable of DB, of the directory and of the background thread keeps
\* its type: in particular no flush or compaction works on a file number that
\* was never reserved, and no read copies a released snapshot.
THEOREM TypeCorrect == Spec => []TypeOK
<1>1. TypeInv => TypeOK
  BY DEF TypeInv
<1> QED
  BY <1>1, TypeInvariant, PTL

-----------------------------------------------------------------------------

(***************************************************************************)
(* What a later Open needs: the order of the log generations, and which    *)
(* SSTs the MANIFEST may name.                                             *)
(***************************************************************************)

\* How the log generations are ordered: the log of the immutable memtable is
\* older than the live one, the floor never passes the live one, and once a
\* flush is published the floor has passed the log it retires.
LogInv ==
    /\ imm # NoFile => imm < logNumber
    /\ status = "up" => logNumber < nextFile /\ manifest.floor <= logNumber
    /\ bg \in {"unlink_log", "flushed"} => imm < manifest.floor

\* What a step that leaves these variables alone preserves.
LEMMA LogInvFrame ==
    ASSUME LogInv, UNCHANGED <<status, nextFile, logNumber, imm, manifest>>,
           bg' \in {"unlink_log", "flushed"} => bg \in {"unlink_log", "flushed"}
    PROVE  LogInv'
BY DEF LogInv

\* The first log is its own floor.
LEMMA LogInvInit == Init => LogInv
BY DEF Init, LogInv, NoFile

\* A rotation moves to a log with a fresh, larger number.
LEMMA WriteLogInv ==
    ASSUME NEW type, NEW k \in Key, TypeInv, LogInv, Write(type, k)
    PROVE  LogInv'
<1>1. /\ status' = status /\ imm = NoFile /\ bg \notin Flushing
      /\ bg' = bg /\ manifest' = manifest
  BY DEF Write, TypeInv, FlushPending
<1>2. CASE RotateForFlush
  <2>1. imm' = logNumber /\ logNumber' = nextFile /\ nextFile' = nextFile + 2
    BY <1>2 DEF RotateForFlush
  <2>2. logNumber \in Nat /\ manifest.floor \in Nat
    BY FileNumbers DEF TypeInv, TypeOK, MemoryType, DiskType, Manifest
  <2>3. status = "up"
    BY DEF Write, MutexFree
  <2>4. nextFile \in Nat
    BY BoundsAssumption DEF TypeInv, TypeOK, MemoryType
  <2> QED
    BY <1>1, <2>1, <2>2, <2>3, <2>4 DEF LogInv, Flushing
<1>3. CASE UNCHANGED <<imm, logNumber, nextFile>>
  BY <1>1, <1>3, LogInvFrame
<1> QED
  BY <1>2, <1>3 DEF Write

\* Every publish moves the floor up to the live log.
LEMMA WriteManifestFloor ==
    ASSUME NEW v, WriteManifestOk(v) \/ WriteManifestFails(v)
    PROVE  manifest'.floor = logNumber \/ manifest' = manifest
BY DEF WriteManifestOk, WriteManifestFails, Published

\* A published flush moves the floor past the retired log.
LEMMA InstallFlushLogInv == TypeInv /\ LogInv /\ InstallFlush => LogInv'
<1> SUFFICES ASSUME TypeInv, LogInv, InstallFlush PROVE LogInv'
  OBVIOUS
<1>1. status = "up" /\ bg = "install_flush" /\ imm # NoFile
  BY DEF InstallFlush, TypeInv, FlushPending, Flushing
<1>2. UNCHANGED <<status, nextFile, logNumber, imm>>
  BY DEF InstallFlush
<1>3. logNumber \in Nat
  BY FileNumbers DEF TypeInv, TypeOK, MemoryType
<1>4. CASE bg' = "unlink_log" /\ WriteManifestOk(current')
  <2>1. manifest'.floor = logNumber
    BY <1>4 DEF WriteManifestOk, Published
  <2> QED
    BY <1>1, <1>2, <1>3, <2>1 DEF LogInv
<1>5. CASE bg' = "backoff" /\ WriteManifestFails(current')
  <2>1. manifest'.floor = logNumber \/ manifest' = manifest
    BY <1>5, WriteManifestFloor
  <2> QED
    BY <1>1, <1>2, <1>3, <1>5, <2>1 DEF LogInv
<1> QED
  BY <1>4, <1>5 DEF InstallFlush

\* A published compaction moves the floor up to the live log at most.
LEMMA InstallCompactionLogInv == TypeInv /\ LogInv /\ InstallCompaction => LogInv'
<1> SUFFICES ASSUME TypeInv, LogInv, InstallCompaction PROVE LogInv'
  OBVIOUS
<1>1. status = "up" /\ bg' \notin {"unlink_log", "flushed"}
  BY DEF InstallCompaction, MutexFree, GiveUp
<1>2. UNCHANGED <<status, nextFile, logNumber, imm>>
  BY DEF InstallCompaction
<1>3. manifest'.floor = logNumber \/ manifest' = manifest
  BY WriteManifestFloor DEF InstallCompaction
<1>4. logNumber \in Nat
  BY FileNumbers DEF TypeInv, TypeOK, MemoryType
<1> QED
  BY <1>1, <1>2, <1>3, <1>4 DEF LogInv

\* Open continues the newest log at or above the floor.
LEMMA OpenReplayLogInv == TypeInv /\ LogInv /\ OpenReplay => LogInv'
<1> SUFFICES ASSUME TypeInv, LogInv, OpenReplay PROVE LogInv'
  OBVIOUS
<1>1. imm' = NoFile /\ bg' = "idle" /\ manifest' = manifest
  BY DEF OpenReplay, TypeInv, FlushPending, threads
<1>2. PICK live \in ReplayLogs \cup {manifest.floor} :
          /\ IsLargest(live, ReplayLogs \cup {manifest.floor})
          /\ logNumber' = live
          /\ \E last \in ManifestFiles \cup {live} :
                /\ IsLargest(last, ManifestFiles \cup {live})
                /\ nextFile' = last + 1
  BY DEF OpenReplay
<1>3. PICK last \in ManifestFiles \cup {live} :
          IsLargest(last, ManifestFiles \cup {live}) /\ nextFile' = last + 1
  BY <1>2
<1>4. live \in Nat /\ last \in Nat
  BY ManifestFilesType, FileNumbers DEF TypeInv, TypeOK, DiskType, ReplayLogs, Manifest
<1>5. manifest.floor <= live /\ live <= last
  BY <1>2, <1>3 DEF IsLargest
<1> QED
  BY <1>1, <1>2, <1>3, <1>4, <1>5 DEF LogInv

\* Every step of the engine preserves LogInv.
LEMMA LogInvStep == TypeInv /\ LogInv /\ [Next]_vars => LogInv'
<1> SUFFICES ASSUME TypeInv, LogInv, [Next]_vars PROVE LogInv'
  OBVIOUS
<1>1. CASE \E k \in Key : Write(kTypeValue, k) \/ Write(kTypeDeletion, k)
  BY <1>1, WriteLogInv
<1>2. CASE \E r \in Reader : BeginRead(r) \/ EndRead(r)
  BY <1>2, LogInvFrame DEF BeginRead, EndRead, memory, disk
<1>3. CASE \E s \in Snap : GetSnapshot(s) \/ ReleaseSnapshot(s)
  BY <1>3, LogInvFrame DEF GetSnapshot, ReleaseSnapshot, disk, threads
<1>4. CASE StartFlush \/ WriteFlushSst \/ RetryFlush \/ UnlinkLog
  BY <1>4, LogInvFrame DEF StartFlush, WriteFlushSst, RetryFlush, UnlinkLog, memory, disk
<1>5. CASE EndFlush
  BY <1>5 DEF EndFlush, LogInv, disk
<1>6. CASE PickCompaction \/ TakeFloor \/ UnlinkInputs
  BY <1>6, LogInvFrame DEF PickCompaction, TakeFloor, UnlinkInputs, memory, disk
<1>7. CASE SealOutput
  <2>1. /\ UNCHANGED <<status, logNumber, imm, manifest>>
        /\ bg' \notin {"unlink_log", "flushed"}
        /\ nextFile' \in {nextFile, nextFile + 1}
    BY <1>7 DEF SealOutput, GiveUp
  <2>2. logNumber \in Nat /\ nextFile \in Nat
    BY FileNumbers, BoundsAssumption DEF TypeInv, TypeOK, MemoryType
  <2> QED
    BY <2>1, <2>2 DEF LogInv
<1>8. CASE InstallFlush \/ InstallCompaction
  BY <1>8, InstallFlushLogInv, InstallCompactionLogInv
<1>9. CASE \E kind \in Crashes : Crash(kind)
  BY <1>9 DEF Crash, LogInv
<1>10. CASE OpenSweep
  BY <1>10 DEF OpenSweep, LogInv, threads
<1>11. CASE OpenReplay
  BY <1>11, OpenReplayLogInv
<1>12. CASE UNCHANGED vars
  BY <1>12, LogInvFrame DEF vars, memory, disk, threads
<1> QED
  BY <1>1, <1>2, <1>3, <1>4, <1>5, <1>6, <1>7, <1>8, <1>9, <1>10, <1>11, <1>12
  DEF Next, Background

\* The steps that remove a log remove only logs below the floor.
LEMMA LogsStep ==
    TypeInv /\ LogInv /\ [Next]_vars =>
        /\ manifest'.floor >= manifest.floor
        /\ \A n \in logFiles \ logFiles' : n < manifest.floor
<1> SUFFICES ASSUME TypeInv, LogInv, [Next]_vars
             PROVE  /\ manifest'.floor >= manifest.floor
                    /\ \A n \in logFiles \ logFiles' : n < manifest.floor
  OBVIOUS
<1>1. /\ manifest.floor \in Nat /\ logFiles \subseteq Nat
      /\ logNumber \in Nat
  BY FileNumbers DEF TypeInv, TypeOK, MemoryType, DiskType, Manifest
<1>2. CASE UnlinkLog
  BY <1>1, <1>2 DEF UnlinkLog, LogInv
<1>3. CASE OpenSweep
  BY <1>1, <1>3 DEF OpenSweep, ReplayLogs
<1>4. CASE InstallFlush
  <2>1. logFiles' = logFiles /\ (manifest'.floor = logNumber \/ manifest' = manifest)
    BY <1>4, WriteManifestFloor DEF InstallFlush
  <2> QED
    BY <1>1, <1>4, <2>1 DEF InstallFlush, LogInv
<1>5. CASE InstallCompaction
  <2>1. logFiles' = logFiles /\ (manifest'.floor = logNumber \/ manifest' = manifest)
    BY <1>5, WriteManifestFloor DEF InstallCompaction
  <2> QED
    BY <1>1, <1>5, <2>1 DEF InstallCompaction, MutexFree, LogInv
<1>6. CASE manifest' = manifest /\ logFiles \subseteq logFiles'
  BY <1>1, <1>6
<1>7. CASE \E k \in Key : Write(kTypeValue, k) \/ Write(kTypeDeletion, k)
  BY <1>6, <1>7 DEF Write, RotateForFlush
<1>8. CASE OpenReplay
  BY <1>6, <1>8 DEF OpenReplay
<1> QED
  BY <1>2, <1>3, <1>4, <1>5, <1>6, <1>7, <1>8
  DEF Next, Background, vars, memory, disk, BeginRead, EndRead, GetSnapshot,
      ReleaseSnapshot, StartFlush, WriteFlushSst, EndFlush, RetryFlush, PickCompaction,
      TakeFloor, SealOutput, UnlinkInputs, Crash

\* LogInv is an invariant of the engine.
LEMMA LogInvariant == Spec => []LogInv
BY TypeInvariant, LogInvInit, LogInvStep, PTL DEF Spec

\* FlushImmMemTable and RemoveOrphanFiles never unlink a log the MANIFEST still
\* asks Open to replay, and WriteManifest never moves the floor back, for every
\* number of keys, levels, files, faults and crashes.
THEOREM LogsOutliveFloorHolds == Spec => LogsOutliveFloor
<1>1. TypeInv /\ LogInv /\ [Next]_vars =>
        [/\ manifest'.floor >= manifest.floor
         /\ \A n \in logFiles \ logFiles' : n < manifest.floor]_vars
  BY LogsStep
<1> QED
  BY <1>1, LogInvariant, TypeInvariant, PTL DEF Spec, LogsOutliveFloor

-----------------------------------------------------------------------------
\* No file is listed twice.
Distinct(l0) == \A i, j \in 1..Len(l0) : l0[i] = l0[j] => i = j

\* A published file is in one level only.
OneLevelEach ==
    /\ \A i \in Level : FilesOf(manifest.l0) \cap manifest.levels[i] = {}
    /\ \A i, j \in Level : i # j => manifest.levels[i] \cap manifest.levels[j] = {}

\* current_ and the MANIFEST agree, up to the order of L0.
CurrentPublished ==
    status = "up" =>
        /\ FilesOf(current.l0) = FilesOf(manifest.l0)
        /\ Distinct(current.l0)
        /\ current.levels = manifest.levels

\* Published files have numbers below next_file_number_; the SST of a pending
\* flush is not published before its install, and is on disk by then.
NumbersFresh ==
    /\ status = "up" => \A f \in ManifestFiles : f < nextFile
    /\ imm # NoFile => immSst < nextFile
    /\ bg = "install_flush" => immSst \in sstFiles
    /\ (imm # NoFile /\ bg \notin {"unlink_log", "flushed"}) => immSst \notin ManifestFiles

\* A compaction works on published files of its two levels.
JobInputs ==
    bg \in {"floor", "merge"} =>
        /\ job.src + 1 \in Level
        /\ job.inA \subseteq (IF job.src = 0 THEN FilesOf(manifest.l0)
                              ELSE manifest.levels[job.src])
        /\ job.inB \subseteq manifest.levels[job.src + 1]

\* Its outputs are on disk and unpublished until the install; its inputs are
\* unpublished when they are unlinked.
JobOutputs ==
    /\ bg \in {"floor", "merge"} => \A f \in job.outs :
            /\ f \in sstFiles /\ f < nextFile /\ f \notin ManifestFiles
            /\ imm # NoFile => f # immSst
    /\ bg = "unlink_inputs" => (job.inA \cup job.inB) \cap ManifestFiles = {}

\* The inductive strengthening of AlwaysOpens.
OpenInv ==
    /\ ManifestOpens
    /\ OneLevelEach
    /\ CurrentPublished
    /\ NumbersFresh
    /\ JobInputs
    /\ JobOutputs

\* A published file is in L0 or in a level.
LEMMA ManifestFilesMembers ==
    \A f : f \in ManifestFiles <=> \/ f \in FilesOf(manifest.l0)
                                  \/ \E i \in Level : f \in manifest.levels[i]
BY DEF ManifestFiles

\* Steps that change no file, no version and no job.
LEMMA OpenInvFrame ==
    ASSUME OpenInv,
           UNCHANGED <<status, nextFile, imm, immSst, current, sstFiles, manifest, job>>,
           \/ bg' = bg
           \/ /\ bg' \notin {"floor", "merge", "unlink_inputs", "install_flush"}
              /\ bg \in {"unlink_log", "flushed"} => bg' \in {"unlink_log", "flushed"}
    PROVE  OpenInv'
<1>1. ManifestFiles' = ManifestFiles
  BY DEF ManifestFiles
<1>2. ManifestOpens' /\ OneLevelEach' /\ CurrentPublished'
  BY <1>1 DEF OpenInv, ManifestOpens, OneLevelEach, CurrentPublished
<1>3. CASE bg' = bg
  <2>1. NumbersFresh' /\ JobInputs' /\ JobOutputs'
    BY <1>1, <1>3 DEF OpenInv, NumbersFresh, JobInputs, JobOutputs
  <2> QED
    BY <1>2, <2>1 DEF OpenInv
<1>4. CASE bg' # bg
  <2>1. bg' \notin {"floor", "merge", "unlink_inputs", "install_flush"}
    BY <1>4
  <2>2. JobInputs' /\ JobOutputs'
    BY <2>1 DEF JobInputs, JobOutputs
  <2>3. bg' \notin {"unlink_log", "flushed"} => bg \notin {"unlink_log", "flushed"}
    BY <1>4
  <2>4. NumbersFresh'
    BY <1>1, <2>1, <2>3 DEF OpenInv, NumbersFresh
  <2> QED
    BY <1>2, <2>2, <2>4 DEF OpenInv
<1> QED
  BY <1>3, <1>4

\* An empty directory opens.
LEMMA OpenInvInit == Init => OpenInv
<1> SUFFICES ASSUME Init PROVE OpenInv
  OBVIOUS
<1>1. FilesOf(manifest.l0) = {} /\ Len(manifest.l0) = 0 /\ Len(current.l0) = 0
      /\ FilesOf(current.l0) = {}
  BY DEF Init, FilesOf, EmptyVersion
<1>2. \A i \in Level : manifest.levels[i] = {}
  BY DEF Init
<1>3. ManifestFiles = {}
  BY <1>1, <1>2, ManifestFilesMembers
<1>4. ManifestOpens /\ OneLevelEach
  BY <1>1, <1>2, <1>3 DEF ManifestOpens, OneLevelEach
<1>5. CurrentPublished
  BY <1>1 DEF Init, EmptyVersion, CurrentPublished, Distinct
<1>6. NumbersFresh /\ JobInputs /\ JobOutputs
  BY <1>3 DEF Init, NumbersFresh, JobInputs, JobOutputs
<1> QED
  BY <1>4, <1>5, <1>6 DEF OpenInv

\* A rotation reserves numbers above every published file and output.
LEMMA WriteOpenInv ==
    ASSUME NEW type, NEW k \in Key, TypeInv, OpenInv, Write(type, k)
    PROVE  OpenInv'
<1>1. /\ status = "up" /\ imm = NoFile /\ bg \notin Flushing
      /\ UNCHANGED <<status, current, sstFiles, manifest, bg, job>>
  BY DEF Write, MutexFree, TypeInv, FlushPending
<1>2. CASE UNCHANGED <<imm, immSst, nextFile>>
  BY <1>1, <1>2, OpenInvFrame
<1>3. CASE RotateForFlush
  <2>1. immSst' = nextFile + 1 /\ nextFile' = nextFile + 2
    BY <1>3 DEF RotateForFlush
  <2>2. nextFile \in Nat /\ ManifestFiles \subseteq Nat /\ job.outs \subseteq Nat
    <3>1. nextFile \in Nat
      BY BoundsAssumption DEF TypeInv, TypeOK, MemoryType
    <3>2. ManifestFiles \subseteq File /\ job.outs \subseteq File
      BY ManifestFilesType DEF TypeInv, TypeOK, ThreadType, Job
    <3> QED
      BY <3>1, <3>2, FileNumbers
  <2>3. ManifestFiles' = ManifestFiles
    BY <1>1 DEF ManifestFiles
  <2>4. NumbersFresh'
    BY <1>1, <2>1, <2>2, <2>3 DEF OpenInv, NumbersFresh, Flushing
  <2>5. JobOutputs'
    BY <1>1, <2>1, <2>2, <2>3 DEF OpenInv, JobOutputs
  <2>6. ManifestOpens' /\ OneLevelEach' /\ CurrentPublished' /\ JobInputs'
    BY <1>1, <2>3 DEF OpenInv, ManifestOpens, OneLevelEach, CurrentPublished, JobInputs
  <2> QED
    BY <2>4, <2>5, <2>6 DEF OpenInv
<1> QED
  BY <1>2, <1>3 DEF Write

\* The SST a flush writes, or removes when it fails, is not published.
LEMMA WriteFlushSstOpenInv == TypeInv /\ OpenInv /\ WriteFlushSst => OpenInv'
<1> SUFFICES ASSUME TypeInv, OpenInv, WriteFlushSst PROVE OpenInv'
  OBVIOUS
<1>1. /\ bg = "flush" /\ imm # NoFile
      /\ UNCHANGED <<status, nextFile, imm, immSst, current, manifest, job>>
  BY DEF WriteFlushSst, TypeInv, FlushPending, Flushing, memory
<1>2. immSst \notin ManifestFiles /\ ManifestFiles' = ManifestFiles
  BY <1>1 DEF OpenInv, NumbersFresh, ManifestFiles
<1>3. \/ sstFiles' = sstFiles \cup {immSst} /\ bg' = "install_flush"
      \/ sstFiles' = sstFiles \ {immSst} /\ bg' = "backoff"
  BY DEF WriteFlushSst
<1>4. ManifestOpens'
  BY <1>1, <1>2, <1>3 DEF OpenInv, ManifestOpens
<1>5. NumbersFresh' /\ JobInputs' /\ JobOutputs'
  BY <1>1, <1>2, <1>3 DEF OpenInv, NumbersFresh, JobInputs, JobOutputs
<1>6. OneLevelEach' /\ CurrentPublished'
  BY <1>1 DEF OpenInv, OneLevelEach, CurrentPublished
<1> QED
  BY <1>4, <1>5, <1>6 DEF OpenInv

\* L0 with one more file at the front.
LEMMA PrependedL0 ==
    ASSUME NEW l0 \in Seq(File), NEW f \in File
    PROVE  /\ FilesOf(<<f>> \o l0) = {f} \cup FilesOf(l0)
           /\ (Distinct(l0) /\ f \notin FilesOf(l0)) => Distinct(<<f>> \o l0)
<1> DEFINE new == <<f>> \o l0
<1>1. /\ new \in Seq(File) /\ Len(new) = 1 + Len(l0) /\ Len(l0) \in Nat
      /\ new[1] = f
      /\ \A i \in 1..Len(l0) : new[i + 1] = l0[i]
  <2>1. <<f>> \in Seq(File) /\ Len(<<f>>) = 1 /\ <<f>>[1] = f
    OBVIOUS
  <2>2. Len(l0) \in Nat
    BY LenProperties
  <2>3. /\ new \in Seq(File) /\ Len(new) = 1 + Len(l0)
        /\ \A i \in 1..1 + Len(l0) : new[i] = IF i <= 1 THEN <<f>>[i] ELSE l0[i - 1]
    BY <2>1, ConcatProperties
  <2> HIDE DEF new
  <2> QED
    BY <2>1, <2>2, <2>3
<1> HIDE DEF new
<1>2. \A i \in 1..Len(new) : i = 1 \/ (i - 1 \in 1..Len(l0) /\ new[i] = l0[i - 1])
  BY <1>1
<1>3. FilesOf(new) = {f} \cup FilesOf(l0)
  <2>1. ASSUME NEW i \in 1..Len(new) PROVE new[i] \in {f} \cup FilesOf(l0)
    BY <1>1, <1>2 DEF FilesOf
  <2>2. f \in FilesOf(new)
    BY <1>1 DEF FilesOf
  <2>3. ASSUME NEW i \in 1..Len(l0) PROVE l0[i] \in FilesOf(new)
    <3>1. i + 1 \in 1..Len(new) /\ new[i + 1] = l0[i]
      BY <1>1
    <3> QED
      BY <3>1 DEF FilesOf
  <2> QED
    BY <2>1, <2>2, <2>3 DEF FilesOf
<1>4. ASSUME Distinct(l0), f \notin FilesOf(l0), NEW i \in 1..Len(new), NEW j \in 1..Len(new),
             new[i] = new[j]
      PROVE  i = j
  <2>1. CASE i = 1 \/ j = 1
    BY <1>1, <1>2, <1>4, <2>1 DEF FilesOf
  <2>2. CASE i # 1 /\ j # 1
    <3>1. /\ i - 1 \in 1..Len(l0) /\ j - 1 \in 1..Len(l0)
          /\ l0[i - 1] = l0[j - 1]
      BY <1>2, <1>4, <2>2
    <3>2. i - 1 = j - 1
      BY <1>4, <3>1 DEF Distinct
    <3> QED
      BY <1>1, <3>2
  <2> QED
    BY <2>1, <2>2
<1> QED
  BY <1>3, <1>4 DEF Distinct, new

\* MANIFEST writes that cannot fail half-way.
SureManifest == Faults \cap {"manifest", "dirsync"} = {}

\* This step does not fail to write a MANIFEST: it never does, or nothing has
\* failed up to and including this step.
ManifestSafe == SureManifest \/ faults' = 0

\* Then WriteManifest only succeeds.
LEMMA NoManifestFailure ==
    ASSUME TypeInv, ManifestSafe, NEW v PROVE ~WriteManifestFails(v)
<1>1. faults \in Nat
  BY BoundsAssumption DEF TypeInv, TypeOK, HistoryType
<1>2. CASE SureManifest
  BY <1>2 DEF SureManifest, WriteManifestFails, Fails
<1>3. CASE faults' = 0
  BY <1>1, <1>3 DEF WriteManifestFails, Fails
<1> QED
  BY <1>2, <1>3 DEF ManifestSafe

\* The install of a flush publishes a file that is on disk and new to L0.
LEMMA InstallFlushOpenInv ==
    ASSUME ManifestSafe, TypeInv, OpenInv, InstallFlush PROVE OpenInv'
<1>1. /\ status = "up" /\ bg = "install_flush" /\ bg' = "unlink_log"
      /\ current' = [current EXCEPT !.l0 = <<immSst>> \o @]
      /\ manifest' = Published(current')
      /\ UNCHANGED <<status, nextFile, imm, immSst, sstFiles, job>>
  BY NoManifestFailure DEF InstallFlush, WriteManifestOk
<1>2. immSst \in File /\ imm # NoFile
  BY <1>1 DEF TypeInv, TypeOK, MemoryType, FlushPending, Flushing
<1>3. /\ immSst \notin ManifestFiles /\ immSst \in sstFiles /\ immSst < nextFile
  BY <1>1, <1>2 DEF OpenInv, NumbersFresh
<1>4. /\ current.l0 \in Seq(File)
      /\ manifest'.l0 = <<immSst>> \o current.l0
      /\ current'.l0 = <<immSst>> \o current.l0
      /\ manifest'.levels = manifest.levels
      /\ current'.levels = manifest.levels
  BY <1>1 DEF TypeInv, TypeOK, MemoryType, Version, Published, OpenInv, CurrentPublished
<1>5. /\ FilesOf(current.l0) = FilesOf(manifest.l0) /\ Distinct(current.l0)
  BY <1>1 DEF OpenInv, CurrentPublished
<1>6. /\ FilesOf(manifest'.l0) = {immSst} \cup FilesOf(manifest.l0)
      /\ Distinct(manifest'.l0)
  <2>1. immSst \notin FilesOf(current.l0)
    BY <1>3, <1>5, ManifestFilesMembers
  <2> QED
    BY <1>2, <1>4, <1>5, <2>1, PrependedL0
<1>7. ManifestFiles' = {immSst} \cup ManifestFiles
  BY <1>4, <1>6 DEF ManifestFiles
<1>8. ManifestOpens'
  BY <1>1, <1>3, <1>6, <1>7 DEF OpenInv, ManifestOpens, Distinct
<1>9. OneLevelEach'
  <2>1. \A i \in Level : immSst \notin manifest.levels[i]
    BY <1>3, ManifestFilesMembers
  <2> QED
    BY <1>4, <1>6, <2>1 DEF OpenInv, OneLevelEach
<1>10. CurrentPublished'
  BY <1>4, <1>6 DEF CurrentPublished
<1>11. NumbersFresh'
  BY <1>1, <1>3, <1>7 DEF OpenInv, NumbersFresh
<1>12. JobInputs' /\ JobOutputs'
  BY <1>1 DEF JobInputs, JobOutputs
<1> QED
  BY <1>8, <1>9, <1>10, <1>11, <1>12 DEF OpenInv

\* The end of a flush forgets its number.
LEMMA EndFlushOpenInv == TypeInv /\ OpenInv /\ EndFlush => OpenInv'
<1> SUFFICES ASSUME TypeInv, OpenInv, EndFlush PROVE OpenInv'
  OBVIOUS
<1>1. /\ imm' = NoFile /\ bg' = "idle"
      /\ UNCHANGED <<status, nextFile, current, sstFiles, manifest, job>>
  BY DEF EndFlush, disk
<1>2. ManifestFiles' = ManifestFiles
  BY <1>1 DEF ManifestFiles
<1>3. ManifestOpens' /\ OneLevelEach' /\ CurrentPublished'
  BY <1>1, <1>2 DEF OpenInv, ManifestOpens, OneLevelEach, CurrentPublished
<1>4. NumbersFresh' /\ JobInputs' /\ JobOutputs'
  BY <1>1, <1>2 DEF OpenInv, NumbersFresh, JobInputs, JobOutputs
<1> QED
  BY <1>3, <1>4 DEF OpenInv

\* Steps that only change the job, or where the thread is in it.
LEMMA JobStep ==
    ASSUME OpenInv,
           UNCHANGED <<status, nextFile, imm, immSst, current, sstFiles, manifest>>,
           bg \notin {"unlink_log", "flushed"}, bg' # "install_flush",
           JobInputs', JobOutputs'
    PROVE  OpenInv'
<1>1. ManifestFiles' = ManifestFiles
  BY DEF ManifestFiles
<1>2. ManifestOpens' /\ OneLevelEach' /\ CurrentPublished'
  BY <1>1 DEF OpenInv, ManifestOpens, OneLevelEach, CurrentPublished
<1>3. NumbersFresh'
  BY <1>1 DEF OpenInv, NumbersFresh
<1> QED
  BY <1>2, <1>3 DEF OpenInv

\* PickCompaction takes its inputs from current_, which is published.
LEMMA PickCompactionOpenInv == TypeInv /\ OpenInv /\ PickCompaction => OpenInv'
<1> SUFFICES ASSUME TypeInv, OpenInv, PickCompaction PROVE OpenInv'
  OBVIOUS
<1> DEFINE src == SourceLevel
           A   == SourceFiles(src)
           B   == OverlappingFiles(A, current.levels[src + 1])
<1>1. /\ status = "up" /\ bg = "idle" /\ bg' = "floor"
      /\ job' = [NoJob EXCEPT !.src = src, !.inA = A, !.inB = B]
      /\ UNCHANGED <<status, nextFile, imm, immSst, current, sstFiles, manifest>>
  BY DEF PickCompaction, MutexFree, memory, disk
<1>2. src + 1 \in Level
  BY SourceLevelType DEF PickCompaction
<1>3. A \subseteq (IF src = 0 THEN FilesOf(manifest.l0) ELSE manifest.levels[src])
  BY <1>1 DEF SourceFiles, OpenInv, CurrentPublished
<1>4. B \subseteq manifest.levels[src + 1]
  BY <1>1 DEF OverlappingFiles, OpenInv, CurrentPublished
<1> HIDE DEF src, A, B
<1>5. job'.src = src /\ job'.inA = A /\ job'.inB = B /\ job'.outs = {}
  BY <1>1 DEF NoJob
<1>6. JobInputs' /\ JobOutputs'
  BY <1>1, <1>2, <1>3, <1>4, <1>5 DEF JobInputs, JobOutputs
<1> QED
  BY <1>1, <1>6, JobStep

\* The floor changes no file.
LEMMA TakeFloorOpenInv == TypeInv /\ OpenInv /\ TakeFloor => OpenInv'
<1> SUFFICES ASSUME TypeInv, OpenInv, TakeFloor PROVE OpenInv'
  OBVIOUS
<1>1. /\ bg = "floor" /\ bg' = "merge" /\ job \in Job
      /\ UNCHANGED <<status, nextFile, imm, immSst, current, sstFiles, manifest>>
  BY DEF TakeFloor, memory, disk, TypeInv, TypeOK, ThreadType
<1>2. job'.src = job.src /\ job'.inA = job.inA /\ job'.inB = job.inB /\ job'.outs = job.outs
  BY <1>1 DEF TakeFloor, Job
<1>3. ManifestFiles' = ManifestFiles
  BY <1>1 DEF ManifestFiles
<1>4. JobInputs' /\ JobOutputs'
  BY <1>1, <1>2, <1>3 DEF OpenInv, JobInputs, JobOutputs
<1> QED
  BY <1>1, <1>4, JobStep

\* An output gets a number no published file and no pending flush has; a
\* failure removes only outputs.
LEMMA SealOutputOpenInv == TypeInv /\ OpenInv /\ SealOutput => OpenInv'
<1> SUFFICES ASSUME TypeInv, OpenInv, SealOutput PROVE OpenInv'
  OBVIOUS
<1>1. /\ status = "up" /\ bg = "merge" /\ job \in Job
      /\ UNCHANGED <<status, imm, immSst, current, manifest>>
  BY DEF SealOutput, MutexFree, TypeInv, TypeOK, ThreadType
<1>2. nextFile \in Nat /\ ManifestFiles \subseteq Nat /\ immSst \in Nat
      /\ job.outs \subseteq Nat
  <2>1. nextFile \in Nat
    BY BoundsAssumption DEF TypeInv, TypeOK, MemoryType
  <2>2. ManifestFiles \subseteq File
    BY ManifestFilesType DEF TypeInv, TypeOK
  <2>3. job.outs \subseteq File /\ immSst \in File \cup {NoFile}
    BY <1>1 DEF TypeInv, TypeOK, MemoryType, Job
  <2>4. immSst \in Nat
    BY <2>3, FileNumbers DEF NoFile
  <2> QED
    BY <2>1, <2>2, <2>3, <2>4, FileNumbers
<1>3. ManifestFiles' = ManifestFiles
  BY <1>1 DEF ManifestFiles
<1>4. job.outs \cap ManifestFiles = {}
  BY <1>1 DEF OpenInv, JobOutputs
<1>5. OneLevelEach' /\ CurrentPublished'
  BY <1>1 DEF OpenInv, OneLevelEach, CurrentPublished
<1>6. nextFile' \in {nextFile, nextFile + 1} /\ bg' \in {"merge", "idle"}
  BY <1>1 DEF SealOutput, GiveUp
<1>7. ManifestOpens'
  <2>1. sstFiles \ job.outs \subseteq sstFiles'
    BY DEF SealOutput
  <2> QED
    BY <1>1, <1>3, <1>4, <2>1 DEF OpenInv, ManifestOpens
<1>8. NumbersFresh'
  BY <1>1, <1>2, <1>3, <1>6 DEF OpenInv, NumbersFresh
<1>9. JobInputs' /\ JobOutputs'
  <2>1. CASE GiveUp
    BY <2>1 DEF GiveUp, JobInputs, JobOutputs
  <2>2. CASE ~GiveUp
    <3> DEFINE T == FirstOutput(job.todo, max_sst_size)
    <3>1. /\ nextFile' = nextFile + 1
          /\ sstFiles' = sstFiles \cup {nextFile}
          /\ job' = [job EXCEPT !.todo = @ \ T, !.outs = @ \cup {nextFile}]
          /\ bg' = bg
      BY <2>2 DEF SealOutput
    <3> HIDE DEF T
    <3>2. /\ job'.src = job.src /\ job'.inA = job.inA /\ job'.inB = job.inB
          /\ job'.outs = job.outs \cup {nextFile}
      BY <1>1, <3>1 DEF Job
    <3>3. nextFile \notin ManifestFiles /\ (imm # NoFile => immSst # nextFile)
      BY <1>1, <1>2 DEF OpenInv, NumbersFresh
    <3>4. JobInputs'
      BY <1>1, <3>1, <3>2 DEF OpenInv, JobInputs
    <3>5. JobOutputs'
      BY <1>1, <1>2, <1>3, <3>1, <3>2, <3>3 DEF OpenInv, JobOutputs
    <3> QED
      BY <3>4, <3>5
  <2> QED
    BY <2>1, <2>2
<1> QED
  BY <1>5, <1>7, <1>8, <1>9 DEF OpenInv

\* What the install of a compaction publishes: the inputs out, the outputs in.
LEMMA InstalledFiles ==
    ASSUME ManifestSafe, TypeInv, OpenInv, InstallCompaction
    PROVE  /\ OneLevelEach' /\ CurrentPublished' /\ Distinct(manifest'.l0)
           /\ ManifestFiles' \subseteq (ManifestFiles \ (job.inA \cup job.inB)) \cup job.outs
<1> DEFINE out == job.src + 1
<1>1. /\ status = "up" /\ bg = "merge" /\ job \in Job
      /\ manifest' = Published(current')
      /\ UNCHANGED status
  BY NoManifestFailure DEF InstallCompaction, MutexFree, WriteManifestOk, TypeInv, TypeOK, ThreadType
<1>2. /\ FilesOf(current.l0) = FilesOf(manifest.l0)
      /\ Distinct(current.l0)
      /\ current.levels = manifest.levels
  BY <1>1 DEF OpenInv, CurrentPublished
<1>3. /\ out \in Level
      /\ job.inA \subseteq (IF job.src = 0 THEN FilesOf(manifest.l0) ELSE manifest.levels[job.src])
      /\ job.inB \subseteq manifest.levels[out]
  BY <1>1 DEF OpenInv, JobInputs
<1>4. /\ current'.l0 = manifest'.l0 /\ current'.levels = manifest'.levels
  BY <1>1 DEF Published
<1>5. /\ job.src = 0 => manifest'.l0 = <<>>
      /\ job.src # 0 => manifest'.l0 = current.l0
  <2>1. job.src = 0 => Without(current.l0, job.inA) = <<>>
    BY <1>1 DEF TypeInv, AllOfL0, Without
  <2> QED
    BY <1>4, <2>1 DEF InstallCompaction
<1>6. \A i \in Level : manifest'.levels[i] =
            IF i = out THEN (manifest.levels[i] \ job.inB) \cup job.outs
            ELSE IF i = job.src THEN manifest.levels[i] \ job.inA
            ELSE manifest.levels[i]
  BY <1>2, <1>4 DEF InstallCompaction
<1>7. /\ job.src = 0 => FilesOf(manifest'.l0) = {}
      /\ job.src # 0 => FilesOf(manifest'.l0) = FilesOf(manifest.l0)
      /\ Distinct(manifest'.l0)
  <2>1. FilesOf(<<>>) = {} /\ Distinct(<<>>)
    BY DEF FilesOf, Distinct
  <2> QED
    BY <1>2, <1>5, <2>1
<1>8. CurrentPublished'
  BY <1>4, <1>7 DEF CurrentPublished
<1>9. \A i \in Level : job.outs \cap manifest.levels[i] = {}
  BY <1>1, ManifestFilesMembers DEF OpenInv, JobOutputs
<1>10. job.outs \cap FilesOf(manifest.l0) = {}
  BY <1>1, ManifestFilesMembers DEF OpenInv, JobOutputs
<1>11. OneLevelEach'
  <2> HIDE DEF out
  <2> QED
    BY <1>6, <1>7, <1>9, <1>10 DEF OpenInv, OneLevelEach
<1>12. job.src \in Nat /\ 0 \notin Level /\ (job.src # 0 => job.src \in Level /\ job.src # out)
  BY <1>1, <1>3, OptionsAssumption DEF Job, Level
<1>13. ASSUME NEW f \in ManifestFiles'
       PROVE  f \in (ManifestFiles \ (job.inA \cup job.inB)) \cup job.outs
  <2>1. \/ f \in FilesOf(manifest'.l0)
        \/ \E i \in Level : f \in manifest'.levels[i]
    BY <1>13 DEF ManifestFiles
  <2>2. CASE f \in FilesOf(manifest'.l0)
    <3>1. job.src # 0 /\ f \in FilesOf(manifest.l0)
      BY <1>7, <2>2
    <3>2. f \notin manifest.levels[job.src] /\ f \notin manifest.levels[out]
      BY <1>3, <1>12, <3>1 DEF OpenInv, OneLevelEach
    <3> QED
      BY <1>3, <3>1, <3>2, ManifestFilesMembers
  <2>3. CASE \E i \in Level : f \in manifest'.levels[i]
    <3>1. PICK i \in Level : f \in manifest'.levels[i]
      BY <2>3
    <3>2. CASE f \in job.outs
      BY <3>2
    <3>3. CASE f \notin job.outs
      <4>1. /\ f \in manifest.levels[i]
            /\ i = out => f \notin job.inB
            /\ i = job.src => f \notin job.inA
        <5>1. i = job.src => i # out
          BY <1>12
        <5> HIDE DEF out
        <5> QED BY <1>6, <3>1, <3>3, <5>1
      <4>2. f \notin FilesOf(manifest.l0) /\ \A j \in Level : j # i => f \notin manifest.levels[j]
        BY <4>1 DEF OpenInv, OneLevelEach
      <4>3. f \notin job.inB
        BY <1>3, <4>1, <4>2
      <4>4. f \notin job.inA
        BY <1>3, <1>12, <4>1, <4>2
      <4> QED
        BY <4>1, <4>3, <4>4, ManifestFilesMembers
    <3> QED
      BY <3>2, <3>3
  <2> QED
    BY <2>1, <2>2, <2>3
<1> QED
  BY <1>7, <1>8, <1>11, <1>13

\* The install of a compaction publishes outputs that are on disk and lets the
\* inputs go.
LEMMA InstallCompactionOpenInv ==
    ASSUME ManifestSafe, TypeInv, OpenInv, InstallCompaction PROVE OpenInv'
<1>1. /\ status = "up" /\ bg = "merge" /\ bg' = "unlink_inputs"
      /\ UNCHANGED <<status, nextFile, imm, immSst, sstFiles, job>>
  BY NoManifestFailure DEF InstallCompaction, MutexFree
<1>2. \A f \in job.outs : /\ f \in sstFiles /\ f < nextFile /\ f \notin ManifestFiles
                          /\ imm # NoFile => f # immSst
  BY <1>1 DEF OpenInv, JobOutputs
<1>3. job.inA \cup job.inB \subseteq ManifestFiles
  <2>1. /\ job.src + 1 \in Level
        /\ job.inA \subseteq (IF job.src = 0 THEN FilesOf(manifest.l0)
                              ELSE manifest.levels[job.src])
        /\ job.inB \subseteq manifest.levels[job.src + 1]
    BY <1>1 DEF OpenInv, JobInputs
  <2>2. job.src # 0 => job.src \in Level
    BY <2>1, OptionsAssumption DEF TypeInv, TypeOK, ThreadType, Job, Level
  <2> QED
    BY <2>1, <2>2, ManifestFilesMembers
<1>4. /\ OneLevelEach' /\ CurrentPublished' /\ Distinct(manifest'.l0)
      /\ ManifestFiles' \subseteq (ManifestFiles \ (job.inA \cup job.inB)) \cup job.outs
  BY InstalledFiles
<1>5. ManifestOpens'
  BY <1>1, <1>2, <1>4 DEF OpenInv, ManifestOpens, Distinct
<1>6. NumbersFresh'
  BY <1>1, <1>2, <1>4 DEF OpenInv, NumbersFresh
<1>7. JobInputs' /\ JobOutputs'
  BY <1>1, <1>2, <1>3, <1>4 DEF JobInputs, JobOutputs
<1> QED
  BY <1>4, <1>5, <1>6, <1>7 DEF OpenInv

\* Unlinking unpublished files.
LEMMA UnlinkInputsOpenInv == TypeInv /\ OpenInv /\ UnlinkInputs => OpenInv'
<1> SUFFICES ASSUME TypeInv, OpenInv, UnlinkInputs PROVE OpenInv'
  OBVIOUS
<1>1. /\ bg = "unlink_inputs" /\ bg' = "idle"
      /\ sstFiles' = sstFiles \ (job.inA \cup job.inB)
      /\ UNCHANGED <<status, nextFile, imm, immSst, current, manifest>>
  BY DEF UnlinkInputs, memory
<1>2. ManifestFiles' = ManifestFiles /\ (job.inA \cup job.inB) \cap ManifestFiles = {}
  BY <1>1 DEF ManifestFiles, OpenInv, JobOutputs
<1>3. ManifestOpens' /\ OneLevelEach' /\ CurrentPublished'
  BY <1>1, <1>2 DEF OpenInv, ManifestOpens, OneLevelEach, CurrentPublished
<1>4. NumbersFresh' /\ JobInputs' /\ JobOutputs'
  BY <1>1, <1>2 DEF OpenInv, NumbersFresh, JobInputs, JobOutputs
<1> QED
  BY <1>3, <1>4 DEF OpenInv

\* A crash changes neither the MANIFEST nor the SSTs.
LEMMA CrashOpenInv == ASSUME NEW kind, OpenInv, Crash(kind) PROVE OpenInv'
<1>1. /\ status' = "down" /\ imm' = NoFile /\ bg' = "idle"
      /\ UNCHANGED <<sstFiles, manifest>>
  BY DEF Crash
<1>2. ManifestFiles' = ManifestFiles
  BY <1>1 DEF ManifestFiles
<1>3. ManifestOpens' /\ OneLevelEach'
  BY <1>1, <1>2 DEF OpenInv, ManifestOpens, OneLevelEach
<1>4. CurrentPublished' /\ NumbersFresh' /\ JobInputs' /\ JobOutputs'
  BY <1>1 DEF CurrentPublished, NumbersFresh, JobInputs, JobOutputs
<1> QED
  BY <1>3, <1>4 DEF OpenInv

\* RemoveOrphanFiles keeps what the MANIFEST names.
LEMMA OpenSweepOpenInv == TypeInv /\ OpenInv /\ OpenSweep => OpenInv'
<1> SUFFICES ASSUME TypeInv, OpenInv, OpenSweep PROVE OpenInv'
  OBVIOUS
<1>1. /\ status' = "swept" /\ imm' = NoFile /\ bg' = "idle"
      /\ sstFiles' = ManifestFiles /\ manifest' = manifest
  BY DEF OpenSweep, OpenInv, TypeInv, FlushPending, threads
<1>2. ManifestFiles' = ManifestFiles
  BY <1>1 DEF ManifestFiles
<1>3. ManifestOpens' /\ OneLevelEach'
  BY <1>1, <1>2 DEF OpenInv, ManifestOpens, OneLevelEach
<1>4. CurrentPublished' /\ NumbersFresh' /\ JobInputs' /\ JobOutputs'
  BY <1>1 DEF CurrentPublished, NumbersFresh, JobInputs, JobOutputs
<1> QED
  BY <1>3, <1>4 DEF OpenInv

\* Open starts numbering above every published file.
LEMMA OpenReplayOpenInv == TypeInv /\ OpenInv /\ OpenReplay => OpenInv'
<1> SUFFICES ASSUME TypeInv, OpenInv, OpenReplay PROVE OpenInv'
  OBVIOUS
<1>1. /\ imm' = NoFile /\ bg' = "idle"
      /\ sstFiles' = sstFiles /\ manifest' = manifest
  BY DEF OpenReplay, TypeInv, FlushPending, threads
<1>2. ManifestFiles' = ManifestFiles
  BY <1>1 DEF ManifestFiles
<1>3. ManifestOpens' /\ OneLevelEach'
  BY <1>1, <1>2 DEF OpenInv, ManifestOpens, OneLevelEach
<1>4. CurrentPublished'
  <2>1. FilesOf(manifest.l0) \in SUBSET File
    BY ManifestFilesType, ManifestFilesMembers DEF TypeInv, TypeOK
  <2>2. PICK s \in NewestFirst(FilesOf(manifest.l0)) :
            current' = [l0 |-> s, levels |-> manifest.levels]
    BY DEF OpenReplay, RecoveredVersions
  <2>3. FilesOf(s) = FilesOf(manifest.l0) /\ Distinct(s)
    BY <2>1, NewestFirstType DEF Distinct
  <2> QED
    BY <1>1, <2>2, <2>3 DEF CurrentPublished
<1>5. \A f \in ManifestFiles : f < nextFile'
  <2>1. PICK live \in ReplayLogs \cup {manifest.floor} :
            \E last \in ManifestFiles \cup {live} :
               IsLargest(last, ManifestFiles \cup {live}) /\ nextFile' = last + 1
    BY DEF OpenReplay
  <2>2. PICK last \in ManifestFiles \cup {live} :
            IsLargest(last, ManifestFiles \cup {live}) /\ nextFile' = last + 1
    BY <2>1
  <2>3. ManifestFiles \subseteq Nat
    BY ManifestFilesType, FileNumbers DEF TypeInv, TypeOK
  <2>4. last \in Nat
    BY <2>3, FileNumbers DEF TypeInv, TypeOK, DiskType, ReplayLogs, Manifest
  <2> QED
    BY <2>2, <2>3, <2>4 DEF IsLargest
<1>6. NumbersFresh' /\ JobInputs' /\ JobOutputs'
  BY <1>1, <1>2, <1>5 DEF NumbersFresh, JobInputs, JobOutputs
<1> QED
  BY <1>3, <1>4, <1>6 DEF OpenInv

\* Every step of the engine preserves OpenInv.
LEMMA OpenInvStep ==
    ASSUME ManifestSafe, TypeInv, OpenInv, [Next]_vars PROVE OpenInv'
<1>1. CASE \E k \in Key : Write(kTypeValue, k) \/ Write(kTypeDeletion, k)
  BY <1>1, WriteOpenInv
<1>2. CASE \E r \in Reader : BeginRead(r) \/ EndRead(r)
  BY <1>2, OpenInvFrame DEF BeginRead, EndRead, memory, disk
<1>3. CASE \E s \in Snap : GetSnapshot(s) \/ ReleaseSnapshot(s)
  BY <1>3, OpenInvFrame DEF GetSnapshot, ReleaseSnapshot, disk, threads
<1>4. CASE StartFlush \/ RetryFlush \/ UnlinkLog
  BY <1>4, OpenInvFrame DEF StartFlush, RetryFlush, UnlinkLog, memory, disk
<1>5. CASE WriteFlushSst \/ InstallFlush \/ EndFlush
  BY <1>5, WriteFlushSstOpenInv, InstallFlushOpenInv, EndFlushOpenInv
<1>6. CASE PickCompaction \/ TakeFloor \/ SealOutput
  BY <1>6, PickCompactionOpenInv, TakeFloorOpenInv, SealOutputOpenInv
<1>7. CASE InstallCompaction \/ UnlinkInputs
  BY <1>7, InstallCompactionOpenInv, UnlinkInputsOpenInv
<1>8. CASE \E kind \in Crashes : Crash(kind)
  BY <1>8, CrashOpenInv
<1>9. CASE OpenSweep \/ OpenReplay
  BY <1>9, OpenSweepOpenInv, OpenReplayOpenInv
<1>10. CASE UNCHANGED vars
  BY <1>10, OpenInvFrame DEF vars, memory, disk, threads
<1> QED
  BY <1>1, <1>2, <1>3, <1>4, <1>5, <1>6, <1>7, <1>8, <1>9, <1>10 DEF Next, Background

\* The crash-ordering promise of WriteManifest, FlushImmMemTable and
\* RunCompaction: as long as WriteManifest itself does not fail, the MANIFEST
\* parses and every SST it names is on disk at every step, whatever other I/O
\* fails and wherever the process dies.  (A failing WriteManifest breaks it.)
THEOREM AlwaysOpensHolds ==
    ASSUME SureManifest PROVE Spec => []AlwaysOpens
<1>1. TypeInv /\ OpenInv /\ [Next]_vars => OpenInv'
  BY OpenInvStep DEF ManifestSafe
<1>2. OpenInv => AlwaysOpens
  BY DEF OpenInv, AlwaysOpens
<1> QED
  BY <1>1, <1>2, TypeInvariant, OpenInvInit, PTL DEF Spec

-----------------------------------------------------------------------------
(***************************************************************************)
(* Nothing is left behind: as long as no I/O step fails, the SSTs on disk  *)
(* are the published ones and those of the job under way, and before the   *)
(* first crash the logs are those of the two memtables.                    *)
(***************************************************************************)

\* The SSTs the background thread has written and not published, or unpublished
\* and not unlinked.
InFlight ==
    IF bg = "install_flush" THEN {immSst}
    ELSE IF bg \in {"floor", "merge"} THEN job.outs
    ELSE IF bg = "unlink_inputs" THEN job.inA \cup job.inB
    ELSE {}

\* A flush backs off only after a failure.
SstsExact ==
    /\ bg # "backoff"
    /\ status \in {"up", "swept"} => sstFiles = ManifestFiles \cup InFlight

LogsExact ==
    /\ status = "up"
    /\ logFiles = {logNumber} \cup (IF imm = NoFile \/ bg = "flushed" THEN {} ELSE {imm})

\* The inductive strengthening of NothingLeaks.
LeakInv == faults = 0 => OpenInv /\ SstsExact /\ (crashes = 0 => LogsExact)

\* Failures are only added to.
LEMMA FaultsGrow ==
    TypeInv /\ [Next]_vars => /\ faults' = 0 => faults = 0
                              /\ crashes' = 0 => crashes = 0
<1> SUFFICES ASSUME TypeInv, [Next]_vars
             PROVE  (faults' = 0 => faults = 0) /\ (crashes' = 0 => crashes = 0)
  OBVIOUS
<1>1. faults \in Nat /\ crashes \in Nat
  BY BoundsAssumption DEF TypeInv, TypeOK, HistoryType
<1>2. faults' = faults \/ faults' = faults + 1
  <2>1. CASE \E k \in Key : Write(kTypeValue, k) \/ Write(kTypeDeletion, k)
    BY <2>1 DEF Write, WriteEntry, AddRecordFails, Fails, Succeeds
  <2>2. CASE WriteFlushSst \/ InstallFlush \/ SealOutput \/ InstallCompaction
    BY <2>2 DEF WriteFlushSst, InstallFlush, SealOutput, InstallCompaction, WriteManifestOk,
                WriteManifestFails, Fails, Succeeds
  <2>3. CASE StartFlush \/ UnlinkLog \/ EndFlush \/ RetryFlush
             \/ PickCompaction \/ TakeFloor \/ UnlinkInputs
    BY <2>3 DEF StartFlush, UnlinkLog, EndFlush, RetryFlush, PickCompaction, TakeFloor,
                UnlinkInputs, history
  <2>4. CASE \/ \E r \in Reader : BeginRead(r) \/ EndRead(r)
             \/ \E s \in Snap : GetSnapshot(s) \/ ReleaseSnapshot(s)
    BY <2>4 DEF BeginRead, EndRead, GetSnapshot, ReleaseSnapshot, history
  <2>5. CASE \/ \E kind \in Crashes : Crash(kind)
             \/ OpenSweep \/ OpenReplay \/ UNCHANGED vars
    BY <2>5 DEF Crash, OpenSweep, OpenReplay, history, vars
  <2> QED
    BY <2>1, <2>2, <2>3, <2>4, <2>5 DEF Next, Background
<1>3. crashes' = crashes \/ crashes' = crashes + 1
  <2>1. CASE Background
    BY <2>1 DEF Background, StartFlush, WriteFlushSst, InstallFlush, UnlinkLog, EndFlush,
                RetryFlush, PickCompaction, TakeFloor, SealOutput, InstallCompaction,
                UnlinkInputs, history
  <2>2. CASE \/ \E k \in Key : Write(kTypeValue, k) \/ Write(kTypeDeletion, k)
             \/ \E r \in Reader : BeginRead(r) \/ EndRead(r)
             \/ \E s \in Snap : GetSnapshot(s) \/ ReleaseSnapshot(s)
    BY <2>2 DEF Write, BeginRead, EndRead, GetSnapshot, ReleaseSnapshot, history
  <2>3. CASE \/ \E kind \in Crashes : Crash(kind)
             \/ OpenSweep \/ OpenReplay \/ UNCHANGED vars
    BY <2>3 DEF Crash, OpenSweep, OpenReplay, history, vars
  <2> QED
    BY <2>1, <2>2, <2>3 DEF Next
<1> QED
  BY <1>1, <1>2, <1>3

\* An empty directory holds nothing to leak.
LEMMA LeakInvInit == Init => LeakInv
<1> SUFFICES ASSUME Init PROVE LeakInv
  OBVIOUS
<1>1. ManifestFiles = {}
  BY DEF Init, ManifestFiles, FilesOf
<1>2. SstsExact
  BY <1>1 DEF Init, SstsExact, InFlight
<1>3. LogsExact
  BY DEF Init, LogsExact
<1> QED
  BY <1>2, <1>3, OpenInvInit DEF LeakInv

\* Steps that change no SST, no version and no job.
LEMMA SstsFrame ==
    ASSUME SstsExact, UNCHANGED <<status, sstFiles, manifest, immSst, job, bg>>
    PROVE  SstsExact'
<1>1. ManifestFiles' = ManifestFiles /\ InFlight' = InFlight
  BY DEF ManifestFiles, InFlight
<1> QED
  BY <1>1 DEF SstsExact

\* A step after which the background thread owns the SSTs X.
LEMMA SstsMoved ==
    ASSUME NEW X, InFlight' = X, bg' # "backoff", sstFiles' = ManifestFiles' \cup X
    PROVE  SstsExact'
BY DEF SstsExact

\* The install of a compaction: what it publishes and what it is about to
\* unlink are what was published and the outputs.
LEMMA InstalledExactly ==
    ASSUME ManifestSafe, TypeInv, OpenInv, InstallCompaction
    PROVE  ManifestFiles' \cup (job.inA \cup job.inB) = ManifestFiles \cup job.outs
<1> DEFINE out == job.src + 1
<1>1. /\ status = "up" /\ bg = "merge" /\ job \in Job /\ current.levels = manifest.levels
      /\ FilesOf(current.l0) = FilesOf(manifest.l0) /\ manifest' = Published(current')
  BY NoManifestFailure DEF InstallCompaction, MutexFree, WriteManifestOk, TypeInv, TypeOK,
                           ThreadType, OpenInv, CurrentPublished
<1>2. /\ out \in Level
      /\ job.inA \subseteq (IF job.src = 0 THEN FilesOf(manifest.l0) ELSE manifest.levels[job.src])
      /\ job.inB \subseteq manifest.levels[out]
  BY <1>1 DEF OpenInv, JobInputs
<1>3. job.src # 0 => job.src \in Level
  BY <1>1, <1>2, OptionsAssumption DEF Job, Level
<1>4. job.inA \cup job.inB \subseteq ManifestFiles
  BY <1>2, <1>3, ManifestFilesMembers
<1>5. ManifestFiles' \subseteq ManifestFiles \cup job.outs
  BY InstalledFiles
<1>6. \A i \in Level : manifest'.levels[i] =
            IF i = out THEN (manifest.levels[i] \ job.inB) \cup job.outs
            ELSE IF i = job.src THEN manifest.levels[i] \ job.inA
            ELSE manifest.levels[i]
  BY <1>1 DEF InstallCompaction, Published
<1>7. FilesOf(manifest.l0) \subseteq job.inA \/ manifest'.l0 = current.l0
  <2>1. job.src = 0 => FilesOf(manifest.l0) \subseteq job.inA
    BY <1>1 DEF TypeInv, AllOfL0
  <2>2. job.src # 0 => manifest'.l0 = current.l0
    BY <1>1 DEF InstallCompaction, Published
  <2> QED
    BY <2>1, <2>2
<1>8. \A f : f \in ManifestFiles' <=> \/ f \in FilesOf(manifest'.l0)
                                     \/ \E i \in Level : f \in manifest'.levels[i]
  BY DEF ManifestFiles
<1> HIDE DEF out
<1>9. job.outs \subseteq ManifestFiles'
  BY <1>2, <1>6, <1>8
<1>10. ASSUME NEW f \in ManifestFiles PROVE f \in ManifestFiles' \cup (job.inA \cup job.inB)
  <2>1. CASE f \in FilesOf(manifest.l0)
    BY <1>1, <1>7, <1>8, <2>1
  <2>2. CASE \E i \in Level : f \in manifest.levels[i]
    BY <1>6, <1>8, <2>2
  <2> QED
    BY <2>1, <2>2, ManifestFilesMembers
<1> QED
  BY <1>4, <1>5, <1>9, <1>10

\* The background thread keeps the SSTs accounted for.
LEMMA BackgroundSsts ==
    ASSUME faults' = 0, TypeInv, OpenInv, SstsExact, Background PROVE SstsExact'
<1>0. ManifestSafe /\ faults \in Nat /\ status = "up"
  BY BoundsAssumption DEF ManifestSafe, TypeInv, TypeOK, HistoryType, Background, StartFlush,
     WriteFlushSst, InstallFlush, UnlinkLog, EndFlush, RetryFlush, PickCompaction, TakeFloor,
     SealOutput, InstallCompaction, UnlinkInputs, MutexFree
<1>a. sstFiles = ManifestFiles \cup InFlight /\ bg # "backoff"
  BY <1>0 DEF SstsExact
<1>1. CASE StartFlush \/ UnlinkLog \/ EndFlush
  <2>1. /\ bg \in {"idle", "unlink_log", "flushed"} /\ bg' \in {"flush", "flushed", "idle"}
        /\ UNCHANGED <<sstFiles, manifest>>
    BY <1>1 DEF StartFlush, UnlinkLog, EndFlush, memory, disk
  <2>2. ManifestFiles' = ManifestFiles /\ InFlight = {} /\ InFlight' = {}
    BY <2>1 DEF ManifestFiles, InFlight
  <2> QED
    BY <1>a, <2>1, <2>2, SstsMoved
<1>2. CASE WriteFlushSst
  <2>1. /\ bg = "flush" /\ bg' = "install_flush" /\ sstFiles' = sstFiles \cup {immSst}
        /\ UNCHANGED <<manifest, immSst>>
    BY <1>0, <1>2 DEF WriteFlushSst, Fails, memory
  <2>2. ManifestFiles' = ManifestFiles /\ InFlight = {} /\ InFlight' = {immSst}
    BY <2>1 DEF ManifestFiles, InFlight
  <2> QED
    BY <1>a, <2>1, <2>2, SstsMoved
<1>3. CASE InstallFlush
  <2>1. /\ bg = "install_flush" /\ bg' = "unlink_log" /\ sstFiles' = sstFiles
        /\ current' = [current EXCEPT !.l0 = <<immSst>> \o @]
        /\ manifest' = Published(current')
    BY <1>0, <1>3, NoManifestFailure DEF InstallFlush, WriteManifestOk
  <2>2. /\ current.l0 \in Seq(File) /\ immSst \in File
        /\ manifest'.l0 = <<immSst>> \o current.l0
        /\ manifest'.levels = manifest.levels
        /\ FilesOf(current.l0) = FilesOf(manifest.l0)
    BY <1>0, <2>1 DEF TypeInv, TypeOK, MemoryType, FlushPending, Flushing, Version, Published,
                      OpenInv, CurrentPublished
  <2>3. FilesOf(manifest'.l0) = {immSst} \cup FilesOf(manifest.l0)
    BY <2>2, PrependedL0
  <2>4. ManifestFiles' = ManifestFiles \cup {immSst}
    BY <2>2, <2>3 DEF ManifestFiles
  <2>5. InFlight = {immSst} /\ InFlight' = {}
    BY <2>1 DEF InFlight
  <2> QED
    BY <1>a, <2>1, <2>4, <2>5, SstsMoved
<1>4. CASE RetryFlush
  BY <1>a, <1>4 DEF RetryFlush
<1>5. CASE PickCompaction \/ TakeFloor
  <2>1. /\ bg \in {"idle", "floor"} /\ bg' \in {"floor", "merge"}
        /\ UNCHANGED <<sstFiles, manifest>> /\ job \in Job
    BY <1>5 DEF PickCompaction, TakeFloor, disk, TypeInv, TypeOK, ThreadType
  <2>2. ManifestFiles' = ManifestFiles /\ InFlight' = job'.outs
    BY <2>1 DEF ManifestFiles, InFlight
  <2>3. job'.outs = InFlight
    <3>1. CASE PickCompaction
      BY <3>1 DEF PickCompaction, NoJob, InFlight
    <3>2. CASE TakeFloor
      BY <2>1, <3>2 DEF TakeFloor, Job, InFlight
    <3> QED
      BY <1>5, <3>1, <3>2
  <2> QED
    BY <1>a, <2>1, <2>2, <2>3, SstsMoved
<1>6. CASE SealOutput
  <2> DEFINE T == FirstOutput(job.todo, max_sst_size)
  <2>1. bg = "merge" /\ job \in Job /\ manifest' = manifest
    BY <1>6 DEF SealOutput, TypeInv, TypeOK, ThreadType
  <2>2. /\ ManifestFiles' = ManifestFiles /\ InFlight = job.outs
        /\ job.outs \cap ManifestFiles = {}
    BY <2>1 DEF ManifestFiles, InFlight, OpenInv, JobOutputs
  <2>3. \/ sstFiles' = sstFiles \ job.outs /\ GiveUp
        \/ /\ sstFiles' = sstFiles \cup {nextFile} /\ bg' = bg
           /\ job' = [job EXCEPT !.todo = @ \ T, !.outs = @ \cup {nextFile}]
    BY <1>0, <1>6 DEF SealOutput, Fails
  <2> HIDE DEF T
  <2>4. CASE sstFiles' = sstFiles \ job.outs /\ GiveUp
    <3>1. InFlight' = {} /\ bg' # "backoff"
      BY <2>4 DEF GiveUp, InFlight
    <3> QED
      BY <1>a, <2>2, <2>4, <3>1, SstsMoved
  <2>5. CASE /\ sstFiles' = sstFiles \cup {nextFile} /\ bg' = bg
             /\ job' = [job EXCEPT !.todo = @ \ T, !.outs = @ \cup {nextFile}]
    <3>1. job'.outs = job.outs \cup {nextFile}
      BY <2>1, <2>5 DEF Job
    <3>2. InFlight' = job.outs \cup {nextFile} /\ bg' # "backoff"
      BY <2>1, <2>5, <3>1 DEF InFlight
    <3> QED
      BY <1>a, <2>2, <2>5, <3>2, SstsMoved
  <2> QED
    BY <2>3, <2>4, <2>5
<1>7. CASE InstallCompaction
  <2>1. /\ bg = "merge" /\ bg' = "unlink_inputs" /\ UNCHANGED <<sstFiles, job>>
    BY <1>0, <1>7, NoManifestFailure DEF InstallCompaction
  <2>2. InFlight = job.outs /\ InFlight' = job.inA \cup job.inB
    BY <2>1 DEF InFlight
  <2>3. ManifestFiles' \cup (job.inA \cup job.inB) = ManifestFiles \cup job.outs
    BY <1>0, <1>7, InstalledExactly
  <2> QED
    BY <1>a, <2>1, <2>2, <2>3, SstsMoved
<1>8. CASE UnlinkInputs
  <2>1. /\ bg = "unlink_inputs" /\ bg' = "idle" /\ manifest' = manifest
        /\ sstFiles' = sstFiles \ (job.inA \cup job.inB)
    BY <1>8 DEF UnlinkInputs
  <2>2. /\ ManifestFiles' = ManifestFiles /\ InFlight = job.inA \cup job.inB /\ InFlight' = {}
        /\ (job.inA \cup job.inB) \cap ManifestFiles = {}
    BY <2>1 DEF ManifestFiles, InFlight, OpenInv, JobOutputs
  <2> QED
    BY <1>a, <2>1, <2>2, SstsMoved
<1> QED
  BY <1>1, <1>2, <1>3, <1>4, <1>5, <1>6, <1>7, <1>8 DEF Background

\* So does every other step; RemoveOrphanFiles makes up for a crash.
LEMMA SstsStep ==
    ASSUME faults' = 0, TypeInv, OpenInv, SstsExact, [Next]_vars PROVE SstsExact'
<1>1. CASE \E k \in Key : Write(kTypeValue, k) \/ Write(kTypeDeletion, k)
  <2>1. /\ UNCHANGED <<status, sstFiles, manifest, job, bg>> /\ imm = NoFile
        /\ status = "up"
    BY <1>1 DEF Write, MutexFree
  <2>2. bg # "install_flush"
    BY <2>1 DEF TypeInv, FlushPending, Flushing
  <2>3. ManifestFiles' = ManifestFiles /\ InFlight' = InFlight
    BY <2>1, <2>2 DEF ManifestFiles, InFlight
  <2> QED
    BY <2>1, <2>3 DEF SstsExact
<1>2. CASE \/ \E r \in Reader : BeginRead(r) \/ EndRead(r)
           \/ \E s \in Snap : GetSnapshot(s) \/ ReleaseSnapshot(s)
           \/ UNCHANGED vars
  BY <1>2, SstsFrame DEF BeginRead, EndRead, GetSnapshot, ReleaseSnapshot, vars, memory, disk,
                         threads
<1>3. CASE \E kind \in Crashes : Crash(kind)
  BY <1>3 DEF Crash, SstsExact
<1>4. CASE OpenSweep
  <2>1. /\ bg = "idle" /\ bg' = "idle" /\ sstFiles' = ManifestFiles /\ manifest' = manifest
    BY <1>4 DEF OpenSweep, OpenInv, TypeInv, FlushPending, threads
  <2>2. ManifestFiles' = ManifestFiles /\ InFlight' = {}
    BY <2>1 DEF ManifestFiles, InFlight
  <2> QED
    BY <2>1, <2>2, SstsMoved
<1>5. CASE OpenReplay
  <2>1. /\ status = "swept" /\ bg = "idle" /\ bg' = "idle" /\ UNCHANGED <<sstFiles, manifest>>
    BY <1>5 DEF OpenReplay, TypeInv, FlushPending, threads
  <2>2. ManifestFiles' = ManifestFiles /\ InFlight' = {} /\ InFlight = {}
    BY <2>1 DEF ManifestFiles, InFlight
  <2> QED
    BY <2>1, <2>2, SstsMoved DEF SstsExact
<1> QED
  BY <1>1, <1>2, <1>3, <1>4, <1>5, BackgroundSsts DEF Next

\* Until the first crash the engine has the logs of its two memtables.
LEMMA LogsExactStep ==
    ASSUME faults' = 0, crashes' = 0, TypeInv, LogInv, SstsExact, LogsExact, [Next]_vars
    PROVE  LogsExact'
<1>0. /\ faults \in Nat /\ crashes \in Nat /\ status = "up" /\ bg # "backoff"
      /\ bg \in Flushing => imm # NoFile
  BY BoundsAssumption DEF TypeInv, TypeOK, HistoryType, FlushPending, LogsExact, SstsExact
<1>1. CASE \E k \in Key : Write(kTypeValue, k) \/ Write(kTypeDeletion, k)
  <2>1. imm = NoFile /\ bg # "flushed" /\ UNCHANGED <<status, bg>>
    BY <1>0, <1>1 DEF Write, Flushing
  <2>2. \/ UNCHANGED <<logFiles, imm, logNumber>>
        \/ RotateForFlush
    BY <1>0, <1>1 DEF Write, Fails
  <2>3. CASE UNCHANGED <<logFiles, imm, logNumber>>
    BY <2>1, <2>3 DEF LogsExact
  <2>4. CASE RotateForFlush
    <3>1. /\ logFiles' = logFiles \cup {nextFile} /\ imm' = logNumber /\ logNumber' = nextFile
      BY <2>4 DEF RotateForFlush
    <3>2. logNumber # NoFile
      BY FileNumbers DEF TypeInv, TypeOK, MemoryType, NoFile
    <3> QED
      BY <2>1, <3>1, <3>2 DEF LogsExact
  <2> QED
    BY <2>2, <2>3, <2>4
<1>2. CASE UnlinkLog
  <2>1. /\ logFiles' = logFiles \ {imm} /\ bg = "unlink_log" /\ bg' = "flushed"
        /\ UNCHANGED <<status, logNumber, imm>>
    BY <1>2 DEF UnlinkLog, memory
  <2>2. imm \in Nat /\ logNumber \in Nat /\ imm < logNumber
    BY <1>0, <2>1, FileNumbers DEF TypeInv, TypeOK, MemoryType, LogInv, Flushing
  <2>3. imm # logNumber
    BY <2>2
  <2> QED
    BY <1>0, <2>1, <2>3 DEF LogsExact, Flushing
<1>3. CASE EndFlush
  BY <1>0, <1>3 DEF EndFlush, disk, LogsExact
<1>4. CASE \/ StartFlush \/ WriteFlushSst \/ InstallFlush \/ RetryFlush \/ PickCompaction
           \/ TakeFloor \/ SealOutput \/ InstallCompaction \/ UnlinkInputs
  <2>1. UNCHANGED <<status, logFiles, logNumber, imm>>
    BY <1>4 DEF StartFlush, WriteFlushSst, InstallFlush, RetryFlush, PickCompaction, TakeFloor,
                SealOutput, InstallCompaction, UnlinkInputs, memory, disk
  <2>2. bg # "flushed" /\ bg' # "flushed"
    BY <1>4 DEF StartFlush, WriteFlushSst, InstallFlush, RetryFlush, PickCompaction, TakeFloor,
                SealOutput, InstallCompaction, UnlinkInputs, GiveUp
  <2> QED
    BY <2>1, <2>2 DEF LogsExact
<1>5. CASE \/ \E r \in Reader : BeginRead(r) \/ EndRead(r)
           \/ \E s \in Snap : GetSnapshot(s) \/ ReleaseSnapshot(s)
           \/ UNCHANGED vars
  <2>1. UNCHANGED <<status, logFiles, logNumber, imm, bg>>
    BY <1>5 DEF BeginRead, EndRead, GetSnapshot, ReleaseSnapshot, vars, memory, disk, threads
  <2> QED
    BY <2>1 DEF LogsExact
<1>6. ~(\E kind \in Crashes : Crash(kind)) /\ ~OpenSweep /\ ~OpenReplay
  BY <1>0 DEF Crash, OpenSweep, OpenReplay
<1> QED
  BY <1>1, <1>2, <1>3, <1>4, <1>5, <1>6 DEF Next, Background

\* Every flush and compaction cleans up after itself: between two jobs, when
\* no I/O step has failed, the directory holds the published SSTs and no
\* other, and a drained engine that never crashed has one log.
THEOREM NothingLeaksHolds == Spec => []NothingLeaks
<1>1. TypeInv /\ LogInv /\ LeakInv /\ [Next]_vars => LeakInv'
  <2> SUFFICES ASSUME TypeInv, LogInv, LeakInv, [Next]_vars, faults' = 0
               PROVE  OpenInv' /\ SstsExact' /\ (crashes' = 0 => LogsExact')
    BY DEF LeakInv
  <2>1. faults = 0 /\ (crashes' = 0 => crashes = 0) /\ ManifestSafe
    BY FaultsGrow DEF ManifestSafe
  <2>2. OpenInv /\ SstsExact /\ (crashes = 0 => LogsExact)
    BY <2>1 DEF LeakInv
  <2> QED
    BY <2>1, <2>2, OpenInvStep, SstsStep, LogsExactStep
<1>2. LeakInv => NothingLeaks
  <2> SUFFICES ASSUME LeakInv, status = "up", bg = "idle", faults = 0
               PROVE  /\ sstFiles = ManifestFiles
                      /\ (imm = NoFile /\ crashes = 0) => logFiles = {logNumber}
    BY DEF NothingLeaks
  <2>1. SstsExact /\ (crashes = 0 => LogsExact) /\ InFlight = {}
    BY DEF LeakInv, InFlight
  <2> QED
    BY <2>1 DEF SstsExact, LogsExact
<1> QED
  BY <1>1, <1>2, TypeInvariant, LogInvariant, LeakInvInit, PTL DEF Spec
=============================================================================
