---------------------------- MODULE VlogGcProofs ----------------------------
(***************************************************************************)
(* Value separation and its collection, for every key, snapshot, size,     *)
(* rotation, fault and crash: however often entries are moved, a reader    *)
(* gets the value that was put, a snapshot keeps its view, what a power    *)
(* cut leaves of the log points at bytes that are left, and a pass that    *)
(* nobody wrote behind leaves nothing to do.                               *)
(*                                                                         *)
(* A failed write that leaves its record, or a part of one, in a log       *)
(* breaks what is said of the map (VlogFailedSync.cfg and                  *)
(* VlogUnsyncedPointer.cfg show how): those theorems have the hypothesis   *)
(* that fsync does not fail and no append stops half way.  Types, readers  *)
(* and the end of a pass need neither.                                     *)
(***************************************************************************)
EXTENDS VlogGc, TLAPS, SequenceTheorems, FiniteSetTheorems, WellFoundedInduction

-----------------------------------------------------------------------------
(***************************************************************************)
(* The inductive invariant.                                                *)
(***************************************************************************)

\* The generations a read may use: the open ones, or those Open will open.
Alive == IF up THEN vlogs ELSE named

\* Generations are published before they are used, numbers are not used
\* twice, and no record points above the newest generation.
Generations ==
    /\ Alive # {} /\ named # {}
    /\ up => /\ \E g \in named : IsLast(g, vlogs)
             /\ named \subseteq vlogs \cup {next}
             /\ \A g \in vlogs : g < next
    /\ ~up => vlogs = {}
    /\ \A i \in 1..Len(log) : \E g \in Alive : log[i].gen <= g

\* Where a pass is and which generations it has under it.
Passes ==
    /\ gc.pc # "idle" => up
    /\ ~up => \A s \in Snap : snaps[s] = Latest
    /\ gc.pc = "rotate" => gc.off = 1
    /\ gc.pc \in {"scan", "drain"} =>
         /\ gc.todo \subseteq gc.retired
         /\ \E g \in vlogs : g \notin gc.retired /\ IsLast(g, vlogs) /\ vlogs = gc.retired \cup {g}
    /\ gc.pc = "unlink" =>
         /\ \E g \in vlogs : vlogs = {g}
         /\ gc.retired \cap vlogs = {}
         /\ gcFloor = NextFloor

\* Under kSyncAlways every pointer is into value bytes that are durable.
Durable ==
    sync_mode = "always" =>
        \A i \in 1..Len(log) : log[i].gen \in Alive => log[i].off <= vsynced[log[i].gen]

\* Every pointer into a generation that is there points at its own entry.
Exact ==
    \A i \in 1..Len(log) : log[i].gen \in Alive =>
        /\ log[i].off \in 1..Len(vlog[log[i].gen])
        /\ vlog[log[i].gen][log[i].off] = [key |-> log[i].user, val |-> log[i].val]

\* No write may fail after its bytes reached the WAL, and none has.
Clean == "partial" \notin Faults /\ "fsync" \notin Faults
NoneFailed == \A i \in 1..Len(log) : log[i].key = log[i].user

\* No entry is torn.
NothingTorn == \A g \in Gen : \A i \in 1..Len(vlog[g]) : vlog[g][i] # Torn

\* The newest record of a key does not point into the part of the retiring
\* generations that the pass has been through.
Moved ==
    gc.pc \in {"scan", "drain"} =>
        \A k \in Key : LET r == NewestOf(log, k) IN
            r.gen \in gc.retired => r.gen \in gc.todo /\ (r.gen = Scanned => r.off >= gc.off)

\* The newest record of a key carries what the last Put stored.
Stored == \A k \in Key : NewestOf(log, k).val = store[k]

\* The shortest prefix of the history that a crash may leave.
Safe == IF osynced < rotated THEN osynced ELSE synced

\* Whatever prefix is left, its newest pointers are into published generations.
Recoverable ==
    ~skipped => \A m \in Safe..Len(log), k \in Key :
        NewestOf(SubSeq(log, 1, m), k).gen \in {Inline} \cup named

\* A live snapshot reads what was stored when it was taken.
Viewed ==
    \A s \in Snap : snaps[s] # Latest =>
        /\ snaps[s] <= Len(log) /\ views[s] \in [Key -> 0..MaxCalls]
        /\ \A k \in Key : LET r == NewestOf(SubSeq(log, 1, snaps[s]), k) IN
              r.val = views[s][k] /\ (~skipped => r.gen \in {Inline} \cup vlogs)

\* After a pass that nobody wrote behind, the current generation is below
\* what starts the next one.
Settled ==
    quiet => /\ gc.pc = "idle"
             /\ \E g \in vlogs :
                  /\ vlogs = {g}
                  /\ FileSize(g) < vlog_gc_size \/ FileSize(g) < gcFloor

\* What holds whatever the sizes and the damage.
Base == TypeOK /\ Generations /\ Passes

\* What holds when neither a crash nor a failed write leaves damage behind.
Resolving ==
    /\ Base /\ NoneFailed /\ Exact /\ NothingTorn
    /\ Moved /\ Stored /\ Recoverable /\ Viewed

-----------------------------------------------------------------------------
(***************************************************************************)
(* Least and largest elements.                                             *)
(***************************************************************************)

LEMMA LeastExists ==
    ASSUME NEW S \in SUBSET Nat, S # {}
    PROVE  \E m \in S : \A n \in S : m <= n
  <1> DEFINE R == OpToRel(<, Nat)
  <1>1. IsWellFoundedOn(R, Nat)
    BY NatLessThanWellFounded
  <1>2. \A m, n \in Nat : n < m => <<n, m>> \in R
    BY DEF OpToRel
  <1> HIDE DEF R
  <1>3. PICK m \in S : \A n \in S : ~(<<n, m>> \in R)
    BY <1>1, WFMin
  <1>4. \A n \in S : ~(n < m)
    BY <1>2, <1>3
  <1> QED
    BY <1>4

LEMMA LargestExists ==
    ASSUME NEW S \in SUBSET Nat, S # {}, NEW b \in Nat, \A n \in S : n <= b
    PROVE  \E m \in S : IsLast(m, S)
  <1> DEFINE D == {i \in Nat : b - i \in S}
  <1>1. \A n \in S : b - n \in D
    <2> TAKE n \in S
    <2>1. b - n \in Nat /\ b - (b - n) = n
      OBVIOUS
    <2> QED
      BY <2>1
  <1>2. D \in SUBSET Nat /\ D # {} /\ \A i \in D : b - i \in S
    BY <1>1
  <1> HIDE DEF D
  <1>3. PICK i \in D : \A j \in D : i <= j
    BY <1>2, LeastExists
  <1>4. \A n \in S : n <= b - i
    <2> TAKE n \in S
    <2>1. i <= b - n /\ i \in Nat /\ n \in Nat
      BY <1>1, <1>2, <1>3
    <2> QED
      BY <2>1
  <1> QED
    BY <1>2, <1>3, <1>4 DEF IsLast

LEMMA LastUnique ==
    ASSUME NEW S \in SUBSET Nat, NEW g, NEW h, IsLast(g, S), IsLast(h, S)
    PROVE  g = h
  BY DEF IsLast

-----------------------------------------------------------------------------
(***************************************************************************)
(* Histories and their newest records.                                     *)
(***************************************************************************)

LEMMA PrefixOf ==
    ASSUME NEW S, NEW s \in Seq(S), NEW m \in 0..Len(s)
    PROVE  /\ SubSeq(s, 1, m) \in Seq(S) /\ Len(SubSeq(s, 1, m)) = m
           /\ \A i \in 1..m : SubSeq(s, 1, m)[i] = s[i]
  <1>1. \A i \in 1..m : s[i] \in S
    OBVIOUS
  <1> QED
    BY <1>1, SubSeqProperties

\* i is the position of the newest record of k.
NewestAt(recs, k, i) ==
    /\ i \in 1..Len(recs) /\ recs[i].key = k
    /\ \A j \in 1..Len(recs) : recs[j].key = k => j <= i

LEMMA NewestCases ==
    ASSUME NEW recs \in Seq(Record), NEW k
    PROVE  \/ NewestOf(recs, k) = NoRecord /\ \A i \in 1..Len(recs) : recs[i].key # k
           \/ \E i \in 1..Len(recs) : NewestAt(recs, k, i) /\ NewestOf(recs, k) = recs[i]
  <1> DEFINE hits == {i \in 1..Len(recs) : recs[i].key = k}
  <1>1. CASE hits = {}
    BY <1>1 DEF NewestOf
  <1>2. CASE hits # {}
    <2>1. hits \in SUBSET Nat /\ Len(recs) \in Nat /\ \A i \in hits : i <= Len(recs)
      OBVIOUS
    <2>2. \E i \in hits : IsLast(i, hits)
      <3> HIDE DEF hits
      <3> QED BY <1>2, <2>1, LargestExists
    <2>3. NewestOf(recs, k) = recs[CHOOSE i \in hits : IsLast(i, hits)]
      BY <1>2 DEF NewestOf
    <2>4. PICK i \in hits : IsLast(i, hits) /\ NewestOf(recs, k) = recs[i]
      <3> HIDE DEF hits
      <3> QED BY <2>2, <2>3
    <2>5. NewestAt(recs, k, i)
      BY <2>4 DEF IsLast, NewestAt
    <2> QED
      BY <2>4, <2>5
  <1> QED
    BY <1>1, <1>2

LEMMA NewestIs ==
    ASSUME NEW recs \in Seq(Record), NEW k, NEW i, NewestAt(recs, k, i)
    PROVE  NewestOf(recs, k) = recs[i]
  <1>1. CASE NewestOf(recs, k) = NoRecord /\ \A j \in 1..Len(recs) : recs[j].key # k
    BY <1>1 DEF NewestAt
  <1>2. CASE \E j \in 1..Len(recs) : NewestAt(recs, k, j) /\ NewestOf(recs, k) = recs[j]
    <2>1. PICK j \in 1..Len(recs) : NewestAt(recs, k, j) /\ NewestOf(recs, k) = recs[j]
      BY <1>2
    <2>2. j = i
      BY <2>1 DEF NewestAt
    <2> QED
      BY <2>1, <2>2
  <1> QED
    BY <1>1, <1>2, NewestCases

LEMMA NewestNone ==
    ASSUME NEW recs \in Seq(Record), NEW k, \A i \in 1..Len(recs) : recs[i].key # k
    PROVE  NewestOf(recs, k) = NoRecord
  <1>1. {i \in 1..Len(recs) : recs[i].key = k} = {}
    OBVIOUS
  <1> QED
    BY <1>1 DEF NewestOf

LEMMA NewestAppend ==
    ASSUME NEW recs \in Seq(Record), NEW k, NEW r \in Record
    PROVE  NewestOf(Append(recs, r), k) = IF r.key = k THEN r ELSE NewestOf(recs, k)
  <1> DEFINE t == Append(recs, r)
  <1>1. /\ t \in Seq(Record) /\ Len(t) = Len(recs) + 1 /\ t[Len(recs) + 1] = r
        /\ \A i \in 1..Len(recs) : t[i] = recs[i]
        /\ \A i \in 1..Len(t) : i \in 1..Len(recs) \/ i = Len(recs) + 1
        /\ \A i \in 1..Len(recs) : i \in 1..Len(t)
        /\ Len(recs) + 1 \in 1..Len(t) /\ \A i \in 1..Len(t) : i <= Len(recs) + 1
    OBVIOUS
  <1> HIDE DEF t
  <1>2. CASE r.key = k
    <2>1. NewestAt(t, k, Len(recs) + 1)
      BY <1>1, <1>2 DEF NewestAt
    <2> QED
      BY <1>1, <1>2, <2>1, NewestIs DEF t
  <1>3. CASE r.key # k
    <2>1. CASE NewestOf(recs, k) = NoRecord /\ \A i \in 1..Len(recs) : recs[i].key # k
      <3>1. \A i \in 1..Len(t) : t[i].key # k
        BY <1>1, <1>3, <2>1
      <3> QED
        BY <1>1, <1>3, <2>1, <3>1, NewestNone DEF t
    <2>2. CASE \E i \in 1..Len(recs) : NewestAt(recs, k, i) /\ NewestOf(recs, k) = recs[i]
      <3>1. PICK i \in 1..Len(recs) : NewestAt(recs, k, i) /\ NewestOf(recs, k) = recs[i]
        BY <2>2
      <3>2. NewestAt(t, k, i)
        BY <1>1, <1>3, <3>1 DEF NewestAt
      <3> QED
        BY <1>1, <1>3, <3>1, <3>2, NewestIs DEF t
    <2> QED
      BY <2>1, <2>2, NewestCases
  <1> QED
    BY <1>2, <1>3

\* Appending leaves the shorter prefixes as they are.
LEMMA PrefixAppend ==
    ASSUME NEW recs \in Seq(Record), NEW r \in Record, NEW m \in 0..Len(recs)
    PROVE  SubSeq(Append(recs, r), 1, m) = SubSeq(recs, 1, m)
  <1> DEFINE t == Append(recs, r)
  <1>1. /\ t \in Seq(Record) /\ Len(t) = Len(recs) + 1 /\ m \in 0..Len(t)
        /\ \A i \in 1..m : t[i] = recs[i]
    OBVIOUS
  <1> HIDE DEF t
  <1>2. /\ SubSeq(t, 1, m) \in Seq(Record) /\ Len(SubSeq(t, 1, m)) = m
        /\ \A i \in 1..m : SubSeq(t, 1, m)[i] = t[i]
    BY <1>1, PrefixOf
  <1>3. /\ SubSeq(recs, 1, m) \in Seq(Record) /\ Len(SubSeq(recs, 1, m)) = m
        /\ \A i \in 1..m : SubSeq(recs, 1, m)[i] = recs[i]
    BY PrefixOf
  <1> QED
    BY <1>1, <1>2, <1>3, SeqEqual DEF t

LEMMA PrefixFull ==
    ASSUME NEW recs \in Seq(Record)
    PROVE  SubSeq(recs, 1, Len(recs)) = recs
  BY SubSeqFull

\* The newest record is one of the history, or there is none.
LEMMA NewestRecord ==
    ASSUME NEW recs \in Seq(Record), NEW k
    PROVE  /\ NewestOf(recs, k) \in Record
           /\ NewestOf(recs, k).gen # Inline =>
                \E i \in 1..Len(recs) : NewestOf(recs, k) = recs[i] /\ recs[i].key = k
  <1>1. NoRecord \in Record /\ NoRecord.gen = Inline
    BY VlogAssumption DEF NoRecord, Record, Inline, NotFound
  <1>2. \A i \in 1..Len(recs) : recs[i] \in Record
    OBVIOUS
  <1> QED
    BY <1>1, <1>2, NewestCases DEF NewestAt

-----------------------------------------------------------------------------
(***************************************************************************)
(* The generation that is appended to, and what an append does.            *)
(***************************************************************************)

LEMMA CurrentIs ==
    ASSUME TypeOK, Generations, up
    PROVE  /\ IsLast(Current, vlogs) /\ Current \in vlogs /\ Current \in named
           /\ Current \in Gen /\ Current \in Nat /\ Current # Inline
  <1>1. PICK g \in named : IsLast(g, vlogs)
    BY DEF Generations
  <1>2. g \in vlogs
    BY <1>1 DEF IsLast
  <1>3. IsLast(Current, vlogs) /\ Current \in vlogs
    BY <1>1, <1>2 DEF Current
  <1>4. vlogs \in SUBSET Nat /\ vlogs \subseteq Gen
    BY DEF TypeOK, Gen
  <1>5. Current = g
    BY <1>1, <1>3, <1>4, LastUnique
  <1> QED
    BY <1>3, <1>4, <1>5 DEF Gen, Inline

\* The entries of v are still where they were in w.
Keeps(v, w) ==
    \A g \in Gen : Len(v[g]) <= Len(w[g]) /\ \A i \in 1..Len(v[g]) : w[g][i] = v[g][i]

LEMMA KeepsItself ==
    ASSUME NEW v \in [Gen -> Seq(Cell)]
    PROVE  Keeps(v, v)
  BY DEF Keeps

LEMMA AppendCell ==
    ASSUME TypeOK, NEW g \in Gen, NEW c \in Cell,
           vlog' = [vlog EXCEPT ![g] = Append(@, c)]
    PROVE  /\ vlog' \in [Gen -> Seq(Cell)] /\ Keeps(vlog, vlog')
           /\ Len(vlog'[g]) = Len(vlog[g]) + 1 /\ Len(vlog[g]) \in Nat
           /\ vlog'[g][Len(vlog'[g])] = c
           /\ \A h \in Gen, i \in Nat : i \in 1..Len(vlog'[h]) => i \in 1..Len(vlog[h]) \/ vlog'[h][i] = c
  <1>1. vlog \in [Gen -> Seq(Cell)] /\ vlog[g] \in Seq(Cell)
    BY DEF TypeOK
  <1>2. /\ Append(vlog[g], c) \in Seq(Cell) /\ Len(Append(vlog[g], c)) = Len(vlog[g]) + 1
        /\ Append(vlog[g], c)[Len(vlog[g]) + 1] = c
        /\ \A i \in 1..Len(vlog[g]) : Append(vlog[g], c)[i] = vlog[g][i]
        /\ Len(vlog[g]) \in Nat
    BY <1>1
  <1>3. vlog' \in [Gen -> Seq(Cell)] /\ vlog'[g] = Append(vlog[g], c)
        /\ \A h \in Gen : h # g => vlog'[h] = vlog[h]
    BY <1>1, <1>2
  <1>4. \A h \in Gen : Len(vlog[h]) \in Nat
    BY <1>1
  <1>5. Keeps(vlog, vlog')
    <2> SUFFICES ASSUME NEW h \in Gen
                 PROVE  Len(vlog[h]) <= Len(vlog'[h]) /\ \A i \in 1..Len(vlog[h]) : vlog'[h][i] = vlog[h][i]
      BY DEF Keeps
    <2>1. CASE h = g
      BY <1>2, <1>3, <2>1
    <2>2. CASE h # g
      BY <1>3, <1>4, <2>2
    <2> QED
      BY <2>1, <2>2
  <1>6. \A h \in Gen, i \in Nat : i \in 1..Len(vlog'[h]) => i \in 1..Len(vlog[h]) \/ vlog'[h][i] = c
    <2> SUFFICES ASSUME NEW h \in Gen, NEW i \in 1..Len(vlog'[h]), i \notin 1..Len(vlog[h])
                 PROVE  vlog'[h][i] = c
      OBVIOUS
    <2>1. h = g
      BY <1>3
    <2>2. i = Len(vlog[g]) + 1
      BY <1>2, <1>3, <2>1
    <2> QED
      BY <1>2, <1>3, <2>1, <2>2
  <1> QED
    BY <1>2, <1>3, <1>5, <1>6

\* A record behind the others, inline or pointing at its entry.
AnyRecord(r) ==
    /\ r \in Record /\ log' = Append(log, r)
    /\ \/ r.gen = Inline
       \/ /\ r.gen = Current /\ r.off \in 1..Len(vlog'[Current])
          /\ vlog'[Current][r.off] = [key |-> r.user, val |-> r.val]

\* The record of a write of v to k.
NewRecord(r, k, v) == AnyRecord(r) /\ r.key = k /\ r.user = k /\ r.val = v

\* WriteEntry that succeeds: one record more, which is inline or points at
\* the one entry that is new.
Written(k, v, separate, base) ==
    /\ \E r \in Record : NewRecord(r, k, v)
    /\ vlog' \in [Gen -> Seq(Cell)] /\ Keeps(vlog, vlog')
    /\ \A h \in Gen, i \in Nat : i \in 1..Len(vlog'[h]) =>
         i \in 1..Len(vlog[h]) \/ (separate /\ vlog'[h][i] = [key |-> k, val |-> v])
    /\ MaybeSync(base)

LEMMA WriteEntryEffect ==
    ASSUME TypeOK, Generations, up,
           NEW k \in Key \cup {0}, NEW v \in 0..MaxCalls, NEW separate \in BOOLEAN, NEW base,
           WriteEntry(k, v, separate, base)
    PROVE  Written(k, v, separate, base)
  <1>0. Current \in Gen /\ Current # Inline
    BY CurrentIs
  <1>1. CASE separate
    <2> DEFINE c == [key |-> k, val |-> v]
               r == [key |-> k, user |-> k, gen |-> Current, off |-> Len(vlog'[Current]), val |-> v]
    <2>1. /\ vlog' = [vlog EXCEPT ![Current] = Append(@, c)]
          /\ log' = Append(log, r) /\ MaybeSync(base)
      BY <1>1 DEF WriteEntry
    <2>2. c \in Cell
      BY DEF Cell
    <2> HIDE DEF c
    <2>3. /\ vlog' \in [Gen -> Seq(Cell)] /\ Keeps(vlog, vlog')
          /\ Len(vlog'[Current]) = Len(vlog[Current]) + 1 /\ Len(vlog[Current]) \in Nat
          /\ vlog'[Current][Len(vlog'[Current])] = c
          /\ \A h \in Gen, i \in Nat : i \in 1..Len(vlog'[h]) => i \in 1..Len(vlog[h]) \/ vlog'[h][i] = c
      BY <1>0, <2>1, <2>2, AppendCell
    <2>4. Len(vlog'[Current]) \in Nat /\ Len(vlog'[Current]) \in 1..Len(vlog'[Current])
      BY <2>3
    <2>5. /\ r \in Record /\ r.key = k /\ r.user = k /\ r.val = v /\ r.gen = Current
          /\ r.off = Len(vlog'[Current])
      BY <1>0, <2>4 DEF Record
    <2> HIDE DEF r
    <2>6. NewRecord(r, k, v)
      BY <2>1, <2>3, <2>4, <2>5 DEF NewRecord, AnyRecord, c
    <2>7. \A h \in Gen, i \in Nat : i \in 1..Len(vlog'[h]) =>
            i \in 1..Len(vlog[h]) \/ (separate /\ vlog'[h][i] = [key |-> k, val |-> v])
      BY <1>1, <2>3 DEF c
    <2> QED
      BY <2>1, <2>3, <2>5, <2>6, <2>7, Zenon DEF Written
  <1>2. CASE ~separate
    <2> DEFINE r == [key |-> k, user |-> k, gen |-> Inline, off |-> 0, val |-> v]
    <2>1. log' = Append(log, r) /\ vlog' = vlog /\ MaybeSync(base)
      BY <1>2 DEF WriteEntry
    <2>2. r \in Record /\ r.key = k /\ r.user = k /\ r.val = v /\ r.gen = Inline
      BY DEF Record
    <2>3. vlog \in [Gen -> Seq(Cell)] /\ Keeps(vlog, vlog)
      BY KeepsItself DEF TypeOK
    <2> HIDE DEF r
    <2>4. NewRecord(r, k, v)
      BY <2>1, <2>2 DEF NewRecord, AnyRecord
    <2> QED
      BY <2>1, <2>2, <2>3, <2>4, Zenon DEF Written
  <1> QED
    BY <1>1, <1>2

\* WriteEntry that fails: perhaps an entry nobody points at, and no record
\* unless the WAL got bytes of it.
LEMMA WriteEntryFailsEffect ==
    ASSUME TypeOK, Generations, up,
           NEW k \in Key \cup {0}, NEW v \in 0..MaxCalls, NEW separate \in BOOLEAN, NEW base,
           WriteEntryFails(k, v, separate, base)
    PROVE  /\ log' = log \/ (~Clean /\ \E r \in Record : AnyRecord(r))
           /\ vsynced' \in {vsynced, [vsynced EXCEPT ![Current] = Len(vlog'[Current])]}
           /\ synced' = base
           /\ vlog' \in [Gen -> Seq(Cell)] /\ Keeps(vlog, vlog')
           /\ "torn" \notin Damage => \A h \in Gen, i \in Nat : i \in 1..Len(vlog'[h]) =>
                i \in 1..Len(vlog[h]) \/ (separate /\ vlog'[h][i] = [key |-> k, val |-> v])
  <1>0. Current \in Gen /\ vlog \in [Gen -> Seq(Cell)] /\ Keeps(vlog, vlog) /\ Current # Inline
    BY CurrentIs, KeepsItself DEF TypeOK
  <1>1. /\ vsynced' \in {vsynced, [vsynced EXCEPT ![Current] = Len(vlog'[Current])]}
        /\ synced' = base
    BY DEF WriteEntryFails
  <1>2. CASE log' = log /\ vlog' = vlog
    BY <1>0, <1>1, <1>2
  <1>3. CASE log' = log /\ "torn" \in Damage /\ vlog' = [vlog EXCEPT ![Current] = Append(@, Torn)]
    <2>1. Torn \in Cell
      BY VlogAssumption DEF Torn, Cell, NotFound
    <2> QED
      BY <1>0, <1>1, <1>3, <2>1, AppendCell
  <1>4. CASE /\ vlog' = IF separate
                        THEN [vlog EXCEPT ![Current] = Append(@, [key |-> k, val |-> v])]
                        ELSE vlog
             /\ \/ log' = log
                \/ ~Clean /\ log' = Append(log, Remnant)
                \/ ~Clean /\ log' = Append(log, Unapplied(k, v, separate))
    <2> DEFINE c == [key |-> k, val |-> v]
    <2>1. c \in Cell
      BY DEF Cell
    <2>2. IF separate THEN vlog' = [vlog EXCEPT ![Current] = Append(@, c)] ELSE vlog' = vlog
      BY <1>4
    <2> HIDE DEF c
    <2>3. /\ vlog' \in [Gen -> Seq(Cell)] /\ Keeps(vlog, vlog')
          /\ \A h \in Gen, i \in Nat : i \in 1..Len(vlog'[h]) =>
               i \in 1..Len(vlog[h]) \/ (separate /\ vlog'[h][i] = c)
          /\ separate => /\ Len(vlog'[Current]) \in Nat /\ Len(vlog'[Current]) \in 1..Len(vlog'[Current])
                         /\ vlog'[Current][Len(vlog'[Current])] = c
      <3>1. CASE separate
        <4>1. vlog' = [vlog EXCEPT ![Current] = Append(@, c)]
          BY <2>2, <3>1
        <4>2. /\ vlog' \in [Gen -> Seq(Cell)] /\ Keeps(vlog, vlog')
              /\ Len(vlog'[Current]) = Len(vlog[Current]) + 1 /\ Len(vlog[Current]) \in Nat
              /\ vlog'[Current][Len(vlog'[Current])] = c
              /\ \A h \in Gen, i \in Nat : i \in 1..Len(vlog'[h]) => i \in 1..Len(vlog[h]) \/ vlog'[h][i] = c
          BY <1>0, <2>1, <4>1, AppendCell
        <4>3. Len(vlog'[Current]) \in Nat /\ Len(vlog'[Current]) \in 1..Len(vlog'[Current])
          BY <4>2
        <4> QED
          BY <3>1, <4>2, <4>3
      <3>2. CASE ~separate
        BY <1>0, <2>2, <3>2
      <3> QED
        BY <3>1, <3>2
    <2>4. log' = log \/ (~Clean /\ \E r \in Record : AnyRecord(r))
      <3>1. ASSUME log' = Append(log, Remnant) PROVE \E r \in Record : AnyRecord(r)
        <4>1. Remnant \in Record /\ Remnant.gen = Inline
          BY VlogAssumption DEF Remnant, NoRecord, Record, NotFound, Inline
        <4> QED
          BY <3>1, <4>1 DEF AnyRecord
      <3>2. ASSUME log' = Append(log, Unapplied(k, v, separate)) PROVE \E r \in Record : AnyRecord(r)
        <4> DEFINE r == Unapplied(k, v, separate)
        <4>1. CASE separate
          <5>1. /\ r \in Record /\ r.gen = Current /\ r.off = Len(vlog'[Current])
                /\ r.user = k /\ r.val = v
            BY <1>0, <2>3, <4>1 DEF Unapplied, Record
          <5> HIDE DEF r
          <5>2. AnyRecord(r)
            BY <2>3, <3>2, <4>1, <5>1 DEF AnyRecord, c, r
          <5> QED
            BY <5>1, <5>2
        <4>2. CASE ~separate
          <5>1. r \in Record /\ r.gen = Inline
            BY <4>2 DEF Unapplied, Record
          <5> HIDE DEF r
          <5>2. AnyRecord(r)
            BY <3>2, <5>1 DEF AnyRecord, r
          <5> QED
            BY <5>1, <5>2
        <4> QED
          BY <4>1, <4>2
      <3> QED
        BY <1>4, <3>1, <3>2
    <2> QED
      BY <1>1, <2>3, <2>4 DEF c
  <1> QED
    BY <1>2, <1>3, <1>4 DEF WriteEntryFails, Fails, Clean

-----------------------------------------------------------------------------
(***************************************************************************)
(* What a crash leaves.                                                    *)
(***************************************************************************)

\* A part of a history.
LEMMA PartOf ==
    ASSUME NEW S, NEW s \in Seq(S), NEW a \in Nat, NEW b \in Nat, a <= b, b <= Len(s)
    PROVE  /\ SubSeq(s, a + 1, b) \in Seq(S) /\ Len(SubSeq(s, a + 1, b)) = b - a
           /\ \A i \in 1..b - a : SubSeq(s, a + 1, b)[i] = s[a + i]
  <1>1. a + 1 \in 1..Len(s) + 1 /\ b \in a..Len(s)
    OBVIOUS
  <1>2. \A i \in (a + 1)..b : s[i] \in S
    OBVIOUS
  <1> QED
    BY <1>1, <1>2, SubSeqProperties

LEMMA Joined ==
    ASSUME NEW S, NEW s \in Seq(S), NEW t \in Seq(S)
    PROVE  /\ s \o t \in Seq(S) /\ Len(s \o t) = Len(s) + Len(t)
           /\ \A i \in 1..Len(s) : (s \o t)[i] = s[i]
           /\ \A i \in 1..Len(t) : (s \o t)[Len(s) + i] = t[i]
  <1> DEFINE u == s \o t
  <1>1. /\ u \in Seq(S) /\ Len(u) = Len(s) + Len(t)
        /\ \A i \in 1..Len(s) + Len(t) : u[i] = IF i <= Len(s) THEN s[i] ELSE t[i - Len(s)]
    BY ConcatProperties
  <1>2. Len(s) \in Nat /\ Len(t) \in Nat
    OBVIOUS
  <1> HIDE DEF u
  <1>3. \A i \in 1..Len(s) : u[i] = s[i]
    BY <1>1, <1>2
  <1>4. ASSUME NEW i \in 1..Len(t) PROVE u[Len(s) + i] = t[i]
    <2>1. /\ Len(s) + i \in 1..Len(s) + Len(t) /\ ~(Len(s) + i <= Len(s))
          /\ (Len(s) + i) - Len(s) = i
      BY <1>2
    <2> QED
      BY <1>1, <2>1
  <1> QED
    BY <1>1, <1>3, <1>4 DEF u

\* The same pointer or value for the same key.
SameEntry(r, q) == r.gen = q.gen /\ r.off = q.off /\ r.user = q.user /\ r.val = q.val

\* What a replay makes of a record.
LeftAs(r, q) == (r.gen = Inline \/ SameEntry(r, q)) /\ (NoneFailed => r = q)

\* The replay puts a record into the memtable as the WAL has it, or not at
\* all; when no write has failed, as it was there.
LEMMA ReplayedIs ==
    ASSUME TypeOK, NEW j \in 1..Len(log), NEW m
    PROVE  /\ Replayed(j, m) \in Record
           /\ LeftAs(Replayed(j, m), log[j])
  <1>1. log[j] \in Record
    BY DEF TypeOK
  <1>2. /\ NoRecord \in Record /\ NoRecord.gen = Inline /\ Remnant \in Record
        /\ Remnant.gen = Inline /\ Remnant.key # Remnant.user
    BY VlogAssumption DEF Remnant, NoRecord, Record, NotFound, Inline
  <1> DEFINE r == [log[j] EXCEPT !.key = log[j].user]
  <1>3. r \in Record /\ SameEntry(r, log[j]) /\ (log[j].key = log[j].user => r = log[j])
    BY <1>1 DEF Record, SameEntry
  <1> HIDE DEF r
  <1>4. Replayed(j, m) \in {NoRecord, Remnant, r}
    BY DEF Replayed, r
  <1>5. ASSUME NoneFailed PROVE Replayed(j, m) = log[j]
    <2>1. log[j].key = log[j].user /\ log[j] # Remnant
      BY <1>2, <1>5 DEF NoneFailed
    <2>2. ~Shadowed(j, m)
      <3> SUFFICES ASSUME NEW i \in (floor + 1..m) \cup (rotated + 1..Len(log)), i < j,
                          \A h \in i..j - 1 : Failed(h)
                   PROVE  FALSE
        BY DEF Shadowed
      <3>1. i \in Int /\ i >= 1 /\ j \in Nat /\ j <= Len(log) /\ Len(log) \in Nat
        BY DEF TypeOK
      <3>2. i \in i..j - 1 /\ i \in 1..Len(log)
        BY <3>1
      <3>3. Failed(i)
        BY <3>2
      <3> QED
        BY <1>5, <3>2, <3>3 DEF NoneFailed, Failed
    <2> QED
      BY <1>3, <2>1, <2>2 DEF Replayed, r
  <1> QED
    BY <1>2, <1>3, <1>4, <1>5 DEF LeftAs

LEMMA ReplayedPart ==
    ASSUME TypeOK, NEW a \in Nat, NEW b \in Nat, a <= b, b <= Len(log), NEW m
    PROVE  LET part == [i \in 1..b - a |-> Replayed(a + i, m)] IN
           /\ part \in Seq(Record) /\ Len(part) = b - a
           /\ \A i \in 1..b - a : part[i] = Replayed(a + i, m)
  <1> DEFINE part == [i \in 1..b - a |-> Replayed(a + i, m)]
  <1>1. ASSUME NEW i \in 1..b - a PROVE Replayed(a + i, m) \in Record
    <2>1. a + i \in 1..Len(log)
      BY DEF TypeOK
    <2> QED
      BY <2>1, ReplayedIs
  <1>2. b - a \in Nat /\ part \in [1..b - a -> Record]
    BY <1>1
  <1>3. /\ part \in Seq(Record) /\ Len(part) = b - a
    <2> HIDE DEF part
    <2> QED
      BY <1>2, LenProperties
  <1> QED
    BY <1>3

\* Survivors(m, n), position by position: the SSTs, the older logs that are
\* replayed, the live log.
LEMMA SurvivorsAre ==
    ASSUME TypeOK, NEW m \in floor..rotated, NEW n \in rotated..Len(log)
    PROVE  /\ Survivors(m, n) \in Seq(Record)
           /\ Len(Survivors(m, n)) = flushed + (m - floor) + (n - rotated)
           /\ \A i \in 1..flushed : Survivors(m, n)[i] = log[i]
           /\ \A i \in 1..m - floor : Survivors(m, n)[flushed + i] = Replayed(floor + i, m)
           /\ \A i \in 1..n - rotated :
                Survivors(m, n)[flushed + (m - floor) + i] = Replayed(rotated + i, m)
  <1>0. /\ log \in Seq(Record) /\ Len(log) \in Nat /\ flushed \in Nat /\ floor \in Nat /\ rotated \in Nat
        /\ m \in Nat /\ n \in Nat
        /\ flushed <= floor /\ floor <= m /\ m <= rotated /\ rotated <= n /\ n <= Len(log)
    BY DEF TypeOK
  <1> DEFINE a == SubSeq(log, 1, flushed)
             b == [i \in 1..m - floor |-> Replayed(floor + i, m)]
             c == [i \in 1..n - rotated |-> Replayed(rotated + i, m)]
  <1>1. a \in Seq(Record) /\ Len(a) = flushed /\ \A i \in 1..flushed : a[i] = log[i]
    BY <1>0, PrefixOf
  <1>2. b \in Seq(Record) /\ Len(b) = m - floor /\ \A i \in 1..m - floor : b[i] = Replayed(floor + i, m)
    <2>1. m <= Len(log)
      BY <1>0
    <2> QED
      BY <1>0, <2>1, ReplayedPart, Zenon
  <1>3. c \in Seq(Record) /\ Len(c) = n - rotated /\ \A i \in 1..n - rotated : c[i] = Replayed(rotated + i, m)
    BY <1>0, ReplayedPart, Zenon
  <1>4. Survivors(m, n) = a \o b \o c
    BY DEF Survivors
  <1> HIDE DEF a, b, c
  <1>5. /\ a \o b \in Seq(Record) /\ Len(a \o b) = Len(a) + Len(b)
        /\ \A i \in 1..Len(a) : (a \o b)[i] = a[i]
        /\ \A i \in 1..Len(b) : (a \o b)[Len(a) + i] = b[i]
    <2>1. a \in Seq(Record) /\ b \in Seq(Record)
      BY <1>1, <1>2
    <2> QED
      BY <2>1, Joined
  <1> DEFINE d == a \o b
  <1> HIDE DEF d
  <1>6. /\ d \o c \in Seq(Record) /\ Len(d \o c) = Len(d) + Len(c)
        /\ \A i \in 1..Len(d) : (d \o c)[i] = d[i]
        /\ \A i \in 1..Len(c) : (d \o c)[Len(d) + i] = c[i]
    <2> HIDE DEF d
    <2>1. d \in Seq(Record) /\ c \in Seq(Record)
      BY <1>3, <1>5 DEF d
    <2> QED
      BY <2>1, Joined
  <1>7. Survivors(m, n) = d \o c
    BY <1>4 DEF d
  <1>8. /\ Len(d) = flushed + (m - floor)
        /\ \A i \in 1..flushed : d[i] = log[i]
        /\ \A i \in 1..m - floor : d[flushed + i] = Replayed(floor + i, m)
    BY <1>1, <1>2, <1>5 DEF d
  <1>9. /\ \A i \in 1..flushed : i \in 1..Len(d)
        /\ \A i \in 1..m - floor : flushed + i \in 1..Len(d)
    BY <1>0, <1>8
  <1> QED
    BY <1>0, <1>3, <1>6, <1>7, <1>8, <1>9

\* Position by position when no write has failed.
LEMMA SurvivorsClean ==
    ASSUME TypeOK, NoneFailed, NEW m \in floor..rotated, NEW n \in rotated..Len(log)
    PROVE  /\ Survivors(m, n) \in Seq(Record)
           /\ Len(Survivors(m, n)) = flushed + (m - floor) + (n - rotated)
           /\ \A i \in 1..flushed : Survivors(m, n)[i] = log[i]
           /\ \A i \in 1..m - floor : Survivors(m, n)[flushed + i] = log[floor + i]
           /\ \A i \in 1..n - rotated :
                Survivors(m, n)[flushed + (m - floor) + i] = log[rotated + i]
  <1>0. /\ Len(log) \in Nat /\ flushed \in Nat /\ floor \in Nat /\ rotated \in Nat
        /\ m \in Nat /\ n \in Nat
        /\ floor <= m /\ m <= rotated /\ rotated <= n /\ n <= Len(log)
    BY DEF TypeOK
  <1>1. ASSUME NEW i \in 1..m - floor PROVE Replayed(floor + i, m) = log[floor + i]
    <2>1. floor + i \in 1..Len(log)
      BY <1>0
    <2> QED
      BY <2>1, ReplayedIs DEF LeftAs
  <1>2. ASSUME NEW i \in 1..n - rotated PROVE Replayed(rotated + i, m) = log[rotated + i]
    <2>1. rotated + i \in 1..Len(log)
      BY <1>0
    <2> QED
      BY <2>1, ReplayedIs DEF LeftAs
  <1> QED
    BY <1>1, <1>2, SurvivorsAre

\* Nothing but records of the history is left, with the key that the WAL has.
LEMMA SurvivorsFrom ==
    ASSUME TypeOK, NEW m \in floor..rotated, NEW n \in rotated..Len(log)
    PROVE  \A i \in 1..Len(Survivors(m, n)) :
             \E j \in 1..Len(log) : LeftAs(Survivors(m, n)[i], log[j])
  <1>0. /\ Len(log) \in Nat /\ flushed \in Nat /\ floor \in Nat /\ rotated \in Nat
        /\ m \in Nat /\ n \in Nat
        /\ flushed <= floor /\ floor <= m /\ m <= rotated /\ rotated <= n /\ n <= Len(log)
    BY DEF TypeOK
  <1> DEFINE s == Survivors(m, n)
  <1>1. /\ Len(s) = flushed + (m - floor) + (n - rotated)
        /\ \A i \in 1..flushed : s[i] = log[i]
        /\ \A i \in 1..m - floor : s[flushed + i] = Replayed(floor + i, m)
        /\ \A i \in 1..n - rotated : s[flushed + (m - floor) + i] = Replayed(rotated + i, m)
    BY SurvivorsAre
  <1> HIDE DEF s
  <1> SUFFICES ASSUME NEW i \in 1..Len(s)
               PROVE  \E j \in 1..Len(log) : LeftAs(s[i], log[j])
    BY DEF s
  <1>2. CASE i <= flushed
    <2>1. Len(s) \in Nat
      BY <1>0, <1>1
    <2>2. i \in 1..flushed /\ i \in 1..Len(log)
      BY <1>0, <1>2, <2>1
    <2> QED
      BY <1>1, <2>2 DEF LeftAs, SameEntry
  <1>3. CASE i > flushed /\ i <= flushed + (m - floor)
    <2> DEFINE j == i - flushed
    <2>1. j \in 1..m - floor /\ i = flushed + j /\ floor + j \in 1..Len(log)
      BY <1>0, <1>3
    <2> HIDE DEF j
    <2> QED
      BY <1>1, <2>1, ReplayedIs
  <1>4. CASE i > flushed + (m - floor)
    <2> DEFINE j == i - (flushed + (m - floor))
    <2>1. j \in 1..n - rotated /\ i = flushed + (m - floor) + j /\ rotated + j \in 1..Len(log)
      BY <1>0, <1>1, <1>4
    <2> HIDE DEF j
    <2> QED
      BY <1>1, <2>1, ReplayedIs
  <1> QED
    BY <1>0, <1>1, <1>2, <1>3, <1>4

\* Where a replay may end.
LEMMA EndsWithin ==
    ASSUME TypeOK
    PROVE  /\ \A x \in floor..rotated : OldEnds(x) \subseteq floor..rotated
           /\ \A x \in rotated..Len(log) : LiveEnds(x) \subseteq rotated..Len(log)
  <1>0. /\ Len(log) \in Nat /\ floor \in Nat /\ rotated \in Nat
        /\ floor <= rotated /\ rotated <= Len(log)
    BY DEF TypeOK
  <1>1. ASSUME NEW x \in floor..rotated, NEW e \in OldEnds(x) PROVE e \in floor..rotated
    <2>1. PICK b \in x..rotated : e \in floor..b
      BY DEF OldEnds, LogEnds
    <2> QED
      BY <1>0, <2>1
  <1>2. ASSUME NEW x \in rotated..Len(log), NEW e \in LiveEnds(x) PROVE e \in rotated..Len(log)
    <2>1. PICK b \in x..Len(log) : e \in rotated..b
      BY DEF LiveEnds, LogEnds
    <2> QED
      BY <1>0, <2>1
  <1> QED
    BY <1>1, <1>2

\* When no write has failed a replay reads all that is left.
LEMMA EndsClean ==
    ASSUME TypeOK, NoneFailed
    PROVE  /\ \A x \in floor..rotated : OldEnds(x) \subseteq x..rotated
           /\ \A x \in rotated..Len(log) : LiveEnds(x) \subseteq x..Len(log)
  <1>0. /\ Len(log) \in Nat /\ floor \in Nat /\ rotated \in Nat
        /\ floor <= rotated /\ rotated <= Len(log)
    BY DEF TypeOK
  <1>1. \A i \in 1..Len(log) : log[i] # Remnant
    BY DEF NoneFailed, Remnant, NoRecord
  <1>2. ASSUME NEW a \in Nat, NEW b \in Nat, b <= Len(log), NEW e \in LogEnds(a, b) PROVE e = b
    <2>1. e \in a..b /\ (e < b => log[e + 1] = Remnant)
      BY DEF LogEnds
    <2>2. e < b => e + 1 \in 1..Len(log)
      BY <1>0, <1>2, <2>1
    <2> QED
      BY <1>1, <1>2, <2>1, <2>2
  <1>3. ASSUME NEW x \in floor..rotated, NEW e \in OldEnds(x) PROVE e \in x..rotated
    <2>1. PICK b \in x..rotated : e \in LogEnds(floor, b)
      BY DEF OldEnds
    <2>2. b \in Nat /\ b <= Len(log)
      BY <1>0
    <2> QED
      BY <1>0, <1>2, <2>1, <2>2
  <1>4. ASSUME NEW x \in rotated..Len(log), NEW e \in LiveEnds(x) PROVE e \in x..Len(log)
    <2>1. PICK b \in x..Len(log) : e \in LogEnds(rotated, b)
      BY DEF LiveEnds
    <2>2. b \in Nat /\ b <= Len(log)
      BY <1>0
    <2> QED
      BY <1>0, <1>2, <2>1, <2>2
  <1> QED
    BY <1>3, <1>4

\* The parameters of a crash.
CrashAt(kind, m, n, keep, torn) ==
    /\ log' = Survivors(m, n)
    /\ \/ "reorder" \in Damage
       \/ \A i \in 1..Len(log') :
             log'[i].gen \in DOMAIN keep => log'[i].off <= keep[log'[i].gen]
    /\ rotated' = flushed + (m - floor)
    /\ IF kind = "power" THEN osynced' = rotated' /\ synced' = Len(log')
       ELSE /\ osynced' = flushed + ((IF osynced < m THEN osynced ELSE m) - floor)
            /\ synced' = rotated' + ((IF synced < n THEN synced ELSE n) - rotated)
    /\ vlog' = [g \in Gen |->
          (IF g \in DOMAIN keep THEN SubSeq(vlog[g], 1, keep[g]) ELSE vlog[g])
            \o (IF torn /\ g = Current THEN <<Torn>> ELSE <<>>)]

LEMMA CrashEffect ==
    ASSUME TypeOK, NEW kind, Crash(kind)
    PROVE  \E m \in floor..rotated, n \in rotated..Len(log), keep \in Cuts(kind), torn \in BOOLEAN :
              /\ CrashAt(kind, m, n, keep, torn)
              /\ "torn" \notin Damage => ~torn
              /\ kind = "power" => m \in OldEnds(osynced) /\ n \in LiveEnds(synced)
              /\ kind # "power" => m \in OldEnds(rotated) /\ n \in LiveEnds(Len(log)) /\ ~torn
  <1>0. /\ osynced \in floor..rotated /\ synced \in rotated..Len(log)
        /\ rotated \in floor..rotated /\ Len(log) \in rotated..Len(log)
    BY DEF TypeOK
  <1>1. PICK m \in OldEnds(IF kind = "power" THEN osynced ELSE rotated),
             n \in LiveEnds(IF kind = "power" THEN synced ELSE Len(log)),
             keep \in Cuts(kind),
             torn \in IF "torn" \in Damage /\ kind = "power" THEN BOOLEAN ELSE {FALSE} :
             CrashAt(kind, m, n, keep, torn)
    BY Zenon DEF Crash, CrashAt
  <1>2. /\ kind = "power" => m \in OldEnds(osynced) /\ n \in LiveEnds(synced)
        /\ kind # "power" => m \in OldEnds(rotated) /\ n \in LiveEnds(Len(log))
    OBVIOUS
  <1>3. m \in floor..rotated /\ n \in rotated..Len(log)
    BY <1>0, <1>2, EndsWithin
  <1>4. /\ torn \in BOOLEAN
        /\ "torn" \notin Damage => ~torn
        /\ kind # "power" => ~torn
    OBVIOUS
  <1> QED
    BY <1>1, <1>2, <1>3, <1>4, Zenon

\* How much the cuts leave of a value log, and what with the torn entry.
Left(keep, g) == IF g \in DOMAIN keep THEN keep[g] ELSE Len(vlog[g])

LeftOf(keep, torn, g) ==
    /\ vsynced[g] <= Len(vlog'[g])
    /\ Left(keep, g) \in Nat /\ Left(keep, g) <= Len(vlog'[g]) /\ Left(keep, g) <= Len(vlog[g])
    /\ Len(vlog'[g]) = IF torn /\ g = Current THEN Left(keep, g) + 1 ELSE Left(keep, g)
    /\ \A i \in 1..Left(keep, g) : vlog'[g][i] = vlog[g][i]

LEMMA VlogLeft ==
    ASSUME TypeOK, NEW kind, NEW m, NEW n, NEW keep \in Cuts(kind), NEW torn,
           CrashAt(kind, m, n, keep, torn)
    PROVE  /\ vlog' \in [Gen -> Seq(Cell)]
           /\ DOMAIN keep = AtRisk(kind)
           /\ \A g \in DOMAIN keep : keep[g] \in vsynced[g]..Len(vlog[g])
           /\ \A g \in Gen : LeftOf(keep, torn, g)
  <1>1. /\ DOMAIN keep = AtRisk(kind)
        /\ \A g \in DOMAIN keep : keep[g] \in vsynced[g]..Len(vlog[g])
    BY DEF Cuts
  <1>2. /\ vlog \in [Gen -> Seq(Cell)] /\ vsynced \in [Gen -> Nat]
        /\ \A g \in Gen : vsynced[g] <= Len(vlog[g])
    BY DEF TypeOK
  <1>3. Torn \in Cell
    BY VlogAssumption DEF Torn, Cell, NotFound
  <1> DEFINE P(g) == IF g \in DOMAIN keep THEN SubSeq(vlog[g], 1, keep[g]) ELSE vlog[g]
             Q(g) == IF torn /\ g = Current THEN <<Torn>> ELSE <<>>
             L(g) == Left(keep, g)
  <1>4. ASSUME NEW g \in Gen
        PROVE  /\ P(g) \in Seq(Cell) /\ Len(P(g)) = L(g) /\ L(g) \in Nat
               /\ L(g) <= Len(vlog[g]) /\ vsynced[g] <= L(g)
               /\ \A i \in 1..L(g) : P(g)[i] = vlog[g][i]
    <2>0. vlog[g] \in Seq(Cell) /\ Len(vlog[g]) \in Nat /\ vsynced[g] \in Nat
      BY <1>2
    <2>1. CASE g \in DOMAIN keep
      <3>1. keep[g] \in vsynced[g]..Len(vlog[g]) /\ keep[g] \in 0..Len(vlog[g])
        BY <1>1, <2>0, <2>1
      <3>2. /\ SubSeq(vlog[g], 1, keep[g]) \in Seq(Cell) /\ Len(SubSeq(vlog[g], 1, keep[g])) = keep[g]
            /\ \A i \in 1..keep[g] : SubSeq(vlog[g], 1, keep[g])[i] = vlog[g][i]
        BY <2>0, <3>1, PrefixOf
      <3> QED
        BY <2>0, <2>1, <3>1, <3>2 DEF Left
    <2>2. CASE g \notin DOMAIN keep
      BY <1>2, <2>0, <2>2 DEF Left
    <2> QED
      BY <2>1, <2>2
  <1>5. ASSUME NEW g \in Gen
        PROVE  Q(g) \in Seq(Cell) /\ Len(Q(g)) = IF torn /\ g = Current THEN 1 ELSE 0
    BY <1>3
  <1>6. vlog' = [g \in Gen |-> P(g) \o Q(g)]
    BY Zenon DEF CrashAt
  <1> HIDE DEF P, Q
  <1>7. ASSUME NEW g \in Gen
        PROVE  /\ P(g) \o Q(g) \in Seq(Cell) /\ Len(P(g) \o Q(g)) = Len(P(g)) + Len(Q(g))
               /\ \A i \in 1..Len(P(g)) : (P(g) \o Q(g))[i] = P(g)[i]
    BY <1>4, <1>5, Joined
  <1>8. vlog' \in [Gen -> Seq(Cell)] /\ \A g \in Gen : vlog'[g] = P(g) \o Q(g)
    BY <1>6, <1>7
  <1>9. ASSUME NEW g \in Gen
        PROVE  /\ vsynced[g] <= Len(vlog'[g])
               /\ L(g) \in Nat /\ L(g) <= Len(vlog'[g]) /\ L(g) <= Len(vlog[g])
               /\ Len(vlog'[g]) = IF torn /\ g = Current THEN L(g) + 1 ELSE L(g)
               /\ \A i \in 1..L(g) : vlog'[g][i] = vlog[g][i]
    <2>0. vsynced[g] \in Nat /\ Len(vlog[g]) \in Nat
      BY <1>2
    <2> HIDE DEF L
    <2>1. Len(vlog'[g]) = L(g) + Len(Q(g)) /\ Len(Q(g)) \in Nat
      BY <1>4, <1>5, <1>7, <1>8
    <2>2. L(g) \in Nat /\ L(g) <= Len(vlog[g]) /\ vsynced[g] <= L(g)
      BY <1>4
    <2>3. vsynced[g] <= Len(vlog'[g]) /\ L(g) <= Len(vlog'[g])
      BY <2>0, <2>1, <2>2
    <2>4. \A i \in 1..L(g) : vlog'[g][i] = vlog[g][i]
      BY <1>4, <1>7, <1>8
    <2>5. Len(vlog'[g]) = IF torn /\ g = Current THEN L(g) + 1 ELSE L(g)
      <3>1. CASE torn /\ g = Current
        BY <1>5, <2>1, <3>1
      <3>2. CASE ~(torn /\ g = Current)
        <4>1. Len(Q(g)) = 0
          BY <1>5, <3>2, Zenon
        <4>2. Len(vlog'[g]) = L(g)
          BY <2>1, <2>2, <4>1
        <4> QED
          BY <3>2, <4>2, Zenon
      <3> QED
        BY <3>1, <3>2
    <2> QED
      BY <2>2, <2>3, <2>4, <2>5
  <1> QED
    BY <1>1, <1>8, <1>9 DEF LeftOf

\* MaybeSync covers more of the value log than before, never more than is
\* there, and under kSyncAlways all of the current one.
LEMMA MaybeSyncEffect ==
    ASSUME TypeOK, Generations, up, NEW base \in Nat, base <= Len(log), Len(log) <= Len(log'),
           vlog' \in [Gen -> Seq(Cell)], Keeps(vlog, vlog'), Len(log') \in Nat, MaybeSync(base)
    PROVE  /\ vsynced' \in [Gen -> Nat]
           /\ \A g \in Gen : vsynced[g] <= vsynced'[g] /\ vsynced'[g] <= Len(vlog'[g])
           /\ synced' \in base..Len(log')
           /\ synced' = base \/ synced' = Len(log')
           /\ sync_mode = "always" => vsynced'[Current] = Len(vlog'[Current])
  <1>0. /\ Current \in Gen /\ vsynced \in [Gen -> Nat] /\ Len(log) \in Nat
        /\ \A g \in Gen : /\ vsynced[g] \in Nat /\ vsynced[g] <= Len(vlog[g])
                          /\ Len(vlog[g]) \in Nat /\ Len(vlog'[g]) \in Nat /\ Len(vlog[g]) <= Len(vlog'[g])
    <2>1. Current \in Gen
      BY CurrentIs
    <2>2. /\ vsynced \in [Gen -> Nat] /\ vlog \in [Gen -> Seq(Cell)] /\ log \in Seq(Record)
          /\ \A g \in Gen : vsynced[g] <= Len(vlog[g])
      BY DEF TypeOK
    <2>3. \A g \in Gen : Len(vlog[g]) <= Len(vlog'[g])
      BY DEF Keeps
    <2>4. \A g \in Gen : vlog[g] \in Seq(Cell) /\ vlog'[g] \in Seq(Cell)
      BY <2>2
    <2>5. \A g \in Gen : Len(vlog[g]) \in Nat /\ Len(vlog'[g]) \in Nat
      BY <2>4
    <2> QED
      BY <2>1, <2>2, <2>3, <2>5
  <1>1. CASE sync_mode = "always"
    <2>1. /\ vsynced' = [vsynced EXCEPT ![Current] = Len(vlog'[Current])]
          /\ synced' = Len(log')
      BY <1>1 DEF MaybeSync
    <2>2. vsynced' \in [Gen -> Nat] /\ vsynced'[Current] = Len(vlog'[Current])
      BY <1>0, <2>1
    <2>3. ASSUME NEW g \in Gen PROVE vsynced[g] <= vsynced'[g] /\ vsynced'[g] <= Len(vlog'[g])
      <3>0. /\ vsynced[g] \in Nat /\ Len(vlog[g]) \in Nat /\ Len(vlog'[g]) \in Nat
            /\ vsynced[g] <= Len(vlog[g]) /\ Len(vlog[g]) <= Len(vlog'[g])
        BY <1>0, Zenon
      <3>1. CASE g = Current
        <4>1. vsynced'[g] = Len(vlog'[g])
          BY <2>2, <3>1, Zenon
        <4> QED
          BY <3>0, <4>1
      <3>2. CASE g # Current
        <4>1. vsynced'[g] = vsynced[g]
          BY <1>0, <2>1, <3>2
        <4> QED
          BY <3>0, <4>1
      <3> QED
        BY <3>1, <3>2
    <2>4. synced' \in base..Len(log')
      BY <1>0, <2>1
    <2> QED
      BY <2>1, <2>2, <2>3, <2>4
  <1>2. CASE sync_mode # "always"
    <2>1. synced' = base /\ vsynced' = vsynced
      BY <1>2 DEF MaybeSync
    <2>2. synced' \in base..Len(log')
      BY <1>0, <2>1
    <2>3. ASSUME NEW g \in Gen PROVE vsynced[g] <= vsynced'[g] /\ vsynced'[g] <= Len(vlog'[g])
      <3>1. vsynced'[g] = vsynced[g]
        BY <2>1
      <3>2. /\ vsynced[g] \in Nat /\ Len(vlog[g]) \in Nat /\ Len(vlog'[g]) \in Nat
            /\ vsynced[g] <= Len(vlog[g]) /\ Len(vlog[g]) <= Len(vlog'[g])
        BY <1>0, Zenon
      <3> QED
        BY <3>1, <3>2
    <2> QED
      BY <1>0, <1>2, <2>1, <2>2, <2>3
  <1> QED
    BY <1>1, <1>2

\* What WriteEntry leaves, whether it succeeds or fails: entries and records
\* behind those that were there, of which fsync has covered no less.
Entered(k, v, separate, base) ==
    /\ vlog' \in [Gen -> Seq(Cell)] /\ Keeps(vlog, vlog')
    /\ "torn" \notin Damage => \A h \in Gen, i \in Nat : i \in 1..Len(vlog'[h]) =>
         i \in 1..Len(vlog[h]) \/ (separate /\ vlog'[h][i] = [key |-> k, val |-> v])
    /\ vsynced' \in [Gen -> Nat]
    /\ \A g \in Gen : vsynced[g] <= vsynced'[g] /\ vsynced'[g] <= Len(vlog'[g])
    /\ synced' \in base..Len(log') /\ (synced' = base \/ synced' = Len(log'))
    /\ \/ log' = log
       \/ /\ \E r \in Record : NewRecord(r, k, v)
          /\ sync_mode = "always" => vsynced'[Current] = Len(vlog'[Current])
       \/ ~Clean /\ \E r \in Record : AnyRecord(r)
    /\ log' \in Seq(Record) /\ Len(log) <= Len(log')
    /\ \A i \in 1..Len(log) : i \in 1..Len(log') /\ log'[i] = log[i]

LEMMA EntryEffect ==
    ASSUME TypeOK, Generations, up,
           NEW k \in Key \cup {0}, NEW v \in 0..MaxCalls, NEW separate \in BOOLEAN,
           NEW base \in Nat, base <= Len(log),
           WriteEntry(k, v, separate, base) \/ WriteEntryFails(k, v, separate, base)
    PROVE  Entered(k, v, separate, base)
  <1>0. log \in Seq(Record) /\ Len(log) \in Nat
    BY DEF TypeOK
  <1>1. CASE WriteEntry(k, v, separate, base)
    <2>1. Written(k, v, separate, base)
      BY <1>1, WriteEntryEffect
    <2>2. PICK r \in Record : NewRecord(r, k, v)
      BY <2>1, Zenon DEF Written
    <2>3. log' = Append(log, r)
      BY <2>2 DEF NewRecord, AnyRecord
    <2>4. /\ log' \in Seq(Record) /\ Len(log') = Len(log) + 1 /\ Len(log') \in Nat
          /\ \A i \in 1..Len(log) : i \in 1..Len(log') /\ log'[i] = log[i]
      BY <1>0, <2>3
    <2>5. Len(log) <= Len(log')
      BY <1>0, <2>4
    <2>6. /\ vsynced' \in [Gen -> Nat]
          /\ \A g \in Gen : vsynced[g] <= vsynced'[g] /\ vsynced'[g] <= Len(vlog'[g])
          /\ synced' \in base..Len(log') /\ (synced' = base \/ synced' = Len(log'))
          /\ sync_mode = "always" => vsynced'[Current] = Len(vlog'[Current])
      <3>1. vlog' \in [Gen -> Seq(Cell)] /\ Keeps(vlog, vlog') /\ MaybeSync(base)
        BY <2>1, Zenon DEF Written
      <3> QED
        BY <2>4, <2>5, <3>1, MaybeSyncEffect
    <2> QED
      BY <2>1, <2>2, <2>4, <2>5, <2>6, Zenon DEF Entered, Written
  <1>2. CASE WriteEntryFails(k, v, separate, base)
    <2>1. /\ log' = log \/ (~Clean /\ \E r \in Record : AnyRecord(r))
          /\ vsynced' \in {vsynced, [vsynced EXCEPT ![Current] = Len(vlog'[Current])]}
          /\ synced' = base
          /\ vlog' \in [Gen -> Seq(Cell)] /\ Keeps(vlog, vlog')
      BY <1>2, WriteEntryFailsEffect
    <2>2. "torn" \notin Damage => \A h \in Gen, i \in Nat : i \in 1..Len(vlog'[h]) =>
                i \in 1..Len(vlog[h]) \/ (separate /\ vlog'[h][i] = [key |-> k, val |-> v])
      <3>1. ASSUME "torn" \notin Damage
            PROVE  \A h \in Gen, i \in Nat : i \in 1..Len(vlog'[h]) =>
                i \in 1..Len(vlog[h]) \/ (separate /\ vlog'[h][i] = [key |-> k, val |-> v])
        BY <1>2, <3>1, WriteEntryFailsEffect
      <3> QED
        BY <3>1, Zenon
    <2>3. /\ vsynced \in [Gen -> Nat] /\ Current \in Gen
          /\ \A g \in Gen : /\ vsynced[g] \in Nat /\ vsynced[g] <= Len(vlog[g])
                            /\ Len(vlog[g]) \in Nat /\ Len(vlog'[g]) \in Nat /\ Len(vlog[g]) <= Len(vlog'[g])
      <3>1. /\ vsynced \in [Gen -> Nat] /\ Current \in Gen
            /\ vlog \in [Gen -> Seq(Cell)] /\ vlog' \in [Gen -> Seq(Cell)]
            /\ \A g \in Gen : vsynced[g] <= Len(vlog[g])
        BY <2>1, CurrentIs DEF TypeOK
      <3>2. ASSUME NEW g \in Gen
            PROVE  /\ vsynced[g] \in Nat /\ vsynced[g] <= Len(vlog[g])
                   /\ Len(vlog[g]) \in Nat /\ Len(vlog'[g]) \in Nat /\ Len(vlog[g]) <= Len(vlog'[g])
        <4>1. vsynced[g] \in Nat /\ vlog[g] \in Seq(Cell) /\ vlog'[g] \in Seq(Cell)
          BY <3>1
        <4>2. Len(vlog[g]) <= Len(vlog'[g])
          BY <2>1 DEF Keeps
        <4> QED
          BY <3>1, <4>1, <4>2
      <3> QED
        BY <3>1, <3>2, Zenon
    <2>4. vsynced' \in [Gen -> Nat]
      BY <2>1, <2>3
    <2>5. ASSUME NEW g \in Gen PROVE vsynced[g] <= vsynced'[g] /\ vsynced'[g] <= Len(vlog'[g])
      <3>1. /\ vsynced[g] \in Nat /\ Len(vlog[g]) \in Nat /\ Len(vlog'[g]) \in Nat
            /\ vsynced[g] <= Len(vlog[g]) /\ Len(vlog[g]) <= Len(vlog'[g])
        BY <2>3, Zenon
      <3>2. vsynced'[g] \in {vsynced[g], Len(vlog'[g])}
        BY <2>1, <2>3
      <3> QED
        BY <3>1, <3>2
    <2>6. /\ log' \in Seq(Record) /\ Len(log) <= Len(log') /\ Len(log') \in Nat
          /\ \A i \in 1..Len(log) : i \in 1..Len(log') /\ log'[i] = log[i]
      <3>1. CASE log' = log
        BY <1>0, <3>1
      <3>2. CASE \E r \in Record : AnyRecord(r)
        <4>1. PICK r \in Record : log' = Append(log, r)
          BY <3>2 DEF AnyRecord
        <4> QED
          BY <1>0, <4>1
      <3> QED
        BY <2>1, <3>1, <3>2
    <2>7. synced' \in base..Len(log')
      BY <1>0, <2>1, <2>6
    <2> QED
      BY <2>1, <2>2, <2>4, <2>5, <2>6, <2>7, Zenon DEF Entered
  <1> QED
    BY <1>1, <1>2

\* The history grows by a record of the LSM or of the current generation.
LEMMA EnteredAppend ==
    ASSUME NEW k, NEW v, NEW separate, NEW base, Entered(k, v, separate, base)
    PROVE  log' = log \/ \E r \in Record : log' = Append(log, r) /\ r.gen \in {Inline, Current}
  <1>1. \A r \in Record : NewRecord(r, k, v) => AnyRecord(r)
    BY Zenon DEF NewRecord
  <1>2. \A r \in Record : AnyRecord(r) => log' = Append(log, r) /\ r.gen \in {Inline, Current}
    BY DEF AnyRecord
  <1> QED
    BY <1>1, <1>2, Zenon DEF Entered

\* The entry the collector is at.
LEMMA ScannedIs ==
    ASSUME TypeOK, gc.todo # {}
    PROVE  Scanned \in gc.todo /\ Scanned \in Gen /\ \A h \in gc.todo : Scanned <= h
  <1>1. gc.todo \in SUBSET Gen /\ gc.todo \in SUBSET Nat
    BY DEF TypeOK, Pass, Gen
  <1>2. \E g \in gc.todo : \A h \in gc.todo : g <= h
    BY <1>1, LeastExists
  <1> QED
    BY <1>1, <1>2 DEF Scanned

LEMMA EntryScanned ==
    ASSUME TypeOK, gc.todo # {}, ~EndOfScan
    PROVE  /\ Scanned \in Gen /\ gc.off \in 1..Len(vlog[Scanned])
           /\ vlog[Scanned][gc.off] \in Cell /\ vlog[Scanned][gc.off] # Torn
           /\ vlog[Scanned][gc.off].key \in Key \cup {0} /\ vlog[Scanned][gc.off].val \in 0..MaxCalls
           /\ vlog[Scanned][gc.off] = [key |-> vlog[Scanned][gc.off].key, val |-> vlog[Scanned][gc.off].val]
  <1>1. Scanned \in Gen
    BY ScannedIs
  <1>2. vlog[Scanned] \in Seq(Cell) /\ gc.off \in Nat \ {0}
    BY <1>1 DEF TypeOK, Pass
  <1>3. gc.off <= Len(vlog[Scanned]) /\ vlog[Scanned][gc.off] # Torn
    BY DEF EndOfScan
  <1>4. gc.off \in 1..Len(vlog[Scanned])
    BY <1>2, <1>3
  <1>5. vlog[Scanned][gc.off] \in Cell
    BY <1>2, <1>4
  <1> QED
    BY <1>1, <1>3, <1>4, <1>5 DEF Cell

-----------------------------------------------------------------------------
(***************************************************************************)
(* Types.                                                                  *)
(***************************************************************************)

\* The parts of TypeOK: the history and the positions in it, the value logs,
\* the generations, and the rest.
Positions ==
    /\ log \in Seq(Record) /\ synced \in rotated..Len(log)
    /\ floor \in flushed..rotated /\ osynced \in floor..rotated
    /\ flushed \in Nat /\ rotated \in Nat
Bytes ==
    /\ vlog \in [Gen -> Seq(Cell)] /\ vsynced \in [Gen -> Nat]
    /\ \A g \in Gen : vsynced[g] <= Len(vlog[g])
Files ==
    /\ vfiles \subseteq Gen /\ vlogs \subseteq vfiles /\ named \subseteq Gen
    /\ up => vlogs # {}
    /\ next \in 1..MaxGen + 1
Rest ==
    /\ up \in BOOLEAN /\ sync_mode \in Modes /\ imm \in BOOLEAN /\ skipped \in BOOLEAN
    /\ gcFloor \in Nat
    /\ snaps \in [Snap -> Nat \cup {Latest}]
    /\ views \in [Snap -> [Key -> 0..MaxCalls] \cup {<<>>}]
    /\ store \in [Key -> 0..MaxCalls] /\ calls \in 0..MaxCalls
    /\ gc \in Pass /\ quiet \in BOOLEAN

LEMMA TypeParts == TypeOK <=> Positions /\ Bytes /\ Files /\ Rest
  BY DEF TypeOK, Positions, Bytes, Files, Rest

LEMMA TypeNext ==
    ASSUME Positions', Bytes', Files', Rest'
    PROVE  TypeOK'
  BY DEF TypeOK, Positions, Bytes, Files, Rest

LEMMA WriteTypes ==
    ASSUME TypeOK, Generations, NEW k \in Key, NEW v \in 0..MaxCalls, NEW separate \in BOOLEAN,
           Write(k, v, separate)
    PROVE  TypeOK'
  <1>0. Positions /\ Bytes /\ Files /\ Rest
    BY TypeParts
  <1>1. /\ up /\ ~imm /\ calls < MaxCalls /\ calls' = calls + 1
        /\ flushed' = flushed /\ floor' = floor /\ vfiles' = vfiles /\ named' = named
        /\ gc' = gc /\ views' = views /\ skipped' = skipped /\ up' = up
        /\ sync_mode' = sync_mode /\ vlogs' = vlogs /\ next' = next /\ gcFloor' = gcFloor
        /\ snaps' = snaps /\ quiet' = FALSE
    BY DEF Write, memory
  <1>2. store' = [store EXCEPT ![k] = v] \/ store' = store
    BY DEF Write
  <1> DEFINE base == IF imm' THEN Len(log) ELSE synced
  <1>3. WriteEntry(k, v, separate, base) \/ WriteEntryFails(k, v, separate, base)
    BY DEF Write
  <1>4. \/ RotateForFlush
        \/ rotated' = rotated /\ osynced' = osynced /\ imm' = imm
    BY DEF Write
  <1>5. Len(log) \in Nat /\ synced \in Nat /\ synced <= Len(log) /\ rotated <= synced
    BY <1>0 DEF Positions
  <1>6. base \in Nat /\ base <= Len(log)
    BY <1>5
  <1> HIDE DEF base
  <1>7. /\ vlog' \in [Gen -> Seq(Cell)] /\ vsynced' \in [Gen -> Nat]
        /\ \A g \in Gen : vsynced[g] <= vsynced'[g] /\ vsynced'[g] <= Len(vlog'[g])
        /\ synced' \in base..Len(log')
        /\ log' \in Seq(Record) /\ Len(log) <= Len(log')
    <2>1. k \in Key \cup {0} /\ up
      BY <1>1
    <2>2. Entered(k, v, separate, base)
      BY <1>3, <1>6, <2>1, EntryEffect
    <2> QED
      BY <2>2, Zenon DEF Entered
  <1>8. Bytes'
    BY <1>7 DEF Bytes
  <1>9. Files'
    BY <1>0, <1>1 DEF Files
  <1>10. Rest'
    <2>1. calls' \in 0..MaxCalls
      BY <1>0, <1>1, VlogAssumption DEF Rest
    <2>2. store' \in [Key -> 0..MaxCalls]
      BY <1>0, <1>2 DEF Rest
    <2>3. imm' \in BOOLEAN
      BY <1>0, <1>4 DEF Rest, RotateForFlush
    <2> QED
      BY <1>0, <1>1, <2>1, <2>2, <2>3 DEF Rest
  <1>11. Positions'
    <2>0. Len(log') \in Nat
      BY <1>7
    <2>1. CASE RotateForFlush
      <3>1. rotated' = Len(log) /\ osynced' = (IF osynced = rotated THEN synced ELSE osynced) /\ base = Len(log)
        BY <2>1 DEF RotateForFlush, base
      <3> QED
        BY <1>0, <1>1, <1>5, <1>7, <2>0, <3>1 DEF Positions
    <2>2. CASE rotated' = rotated /\ osynced' = osynced /\ imm' = imm
      <3>1. base = synced
        BY <1>1, <2>2 DEF base
      <3> QED
        BY <1>0, <1>1, <1>5, <1>7, <2>0, <2>2, <3>1 DEF Positions
    <2> QED
      BY <1>4, <2>1, <2>2
  <1> QED
    BY <1>8, <1>9, <1>10, <1>11, TypeNext

LEMMA SnapshotTypes ==
    ASSUME TypeOK, NEW s \in Snap, GetSnapshot(s) \/ ReleaseSnapshot(s)
    PROVE  TypeOK'
  <1>0. Positions /\ Bytes /\ Files /\ Rest
    BY TypeParts
  <1>1. UNCHANGED <<tables, up, sync_mode, vlogs, next, gcFloor, disk, gc, store, quiet, skipped>>
    BY DEF GetSnapshot, ReleaseSnapshot
  <1>2. Len(log) \in Nat
    BY <1>0 DEF Positions
  <1>3. /\ snaps' \in [Snap -> Nat \cup {Latest}]
        /\ views' \in [Snap -> [Key -> 0..MaxCalls] \cup {<<>>}]
        /\ calls' \in 0..MaxCalls
    <2>1. CASE GetSnapshot(s)
      <3>1. /\ snaps' = [snaps EXCEPT ![s] = Len(log)] /\ views' = [views EXCEPT ![s] = store]
            /\ calls < MaxCalls /\ calls' = calls + 1
        BY <2>1 DEF GetSnapshot
      <3>2. snaps' \in [Snap -> Nat \cup {Latest}]
        BY <1>0, <1>2, <3>1 DEF Rest
      <3>3. views' \in [Snap -> [Key -> 0..MaxCalls] \cup {<<>>}]
        BY <1>0, <3>1 DEF Rest
      <3>4. calls' \in 0..MaxCalls
        BY <1>0, <3>1, VlogAssumption DEF Rest
      <3> QED
        BY <3>2, <3>3, <3>4
    <2>2. CASE ReleaseSnapshot(s)
      <3>1. /\ snaps' = [snaps EXCEPT ![s] = Latest] /\ views' = [views EXCEPT ![s] = <<>>]
            /\ calls' = calls
        BY <2>2 DEF ReleaseSnapshot
      <3>2. snaps' \in [Snap -> Nat \cup {Latest}]
        BY <1>0, <3>1 DEF Rest
      <3>3. views' \in [Snap -> [Key -> 0..MaxCalls] \cup {<<>>}]
        BY <1>0, <3>1 DEF Rest
      <3> QED
        BY <1>0, <3>1, <3>2, <3>3 DEF Rest
    <2> QED
      BY <2>1, <2>2
  <1>4. Positions' /\ Bytes'
    BY <1>0, <1>1 DEF Positions, Bytes, tables, disk
  <1>5. Files'
    BY <1>0, <1>1 DEF Files, disk
  <1>6. Rest'
    BY <1>0, <1>1, <1>3 DEF Rest, tables
  <1> QED
    BY <1>4, <1>5, <1>6, TypeNext

\* WriteManifest moves the floor and fsync's mark to the live log.
LEMMA ManifestPositions ==
    ASSUME Positions, NEW S \in SUBSET Gen, WriteManifest(S), rotated' = rotated,
           log' = log, flushed' \in {flushed, rotated}, synced' \in {synced, Len(log)}
    PROVE  Positions' /\ named' \subseteq Gen
  BY DEF Positions, WriteManifest

LEMMA ManifestTypes ==
    ASSUME TypeOK, Flush \/ InstallCompaction
    PROVE  TypeOK'
  <1>0. Positions /\ Bytes /\ Files /\ Rest
    BY TypeParts
  <1>1. /\ WriteManifest(vlogs) /\ rotated' = rotated /\ log' = log
        /\ flushed' \in {flushed, rotated} /\ synced' = synced
        /\ UNCHANGED <<memory, vlog, vsynced, vfiles, gc, history>>
        /\ imm' \in {FALSE, imm}
    BY DEF Flush, InstallCompaction, FlushImm
  <1>2. vlogs \in SUBSET Gen
    BY <1>0 DEF Files
  <1>3. Positions' /\ named' \subseteq Gen
    BY <1>0, <1>1, <1>2, ManifestPositions
  <1>4. Bytes'
    BY <1>0, <1>1 DEF Bytes
  <1>5. Files'
    BY <1>0, <1>1, <1>3 DEF Files, memory
  <1>6. Rest'
    BY <1>0, <1>1 DEF Rest, memory, history
  <1> QED
    BY <1>3, <1>4, <1>5, <1>6, TypeNext

\* A pass that has ended or just begun.
LEMMA PassTypes ==
    ASSUME gc \in Pass
    PROVE  /\ NoPass \in Pass /\ [NoPass EXCEPT !.pc = "rotate"] \in Pass
           /\ \A p \in {"scan", "unlink"} : [gc EXCEPT !.pc = p] \in Pass
           /\ \A S \in SUBSET Gen : [gc EXCEPT !.pc = "scan", !.todo = S, !.retired = S] \in Pass
           /\ \A S \in SUBSET Gen : [gc EXCEPT !.todo = @ \ S, !.off = 1] \in Pass
           /\ \A S \in SUBSET Gen : [gc EXCEPT !.retired = @ \ S] \in Pass
           /\ [gc EXCEPT !.off = @ + 1] \in Pass
           /\ [gc EXCEPT !.pc = "drain", !.off = @ + 1, !.rewritten = @ + 1] \in Pass
  <1>1. NoPass \in Pass /\ [NoPass EXCEPT !.pc = "rotate"] \in Pass
    BY DEF Pass, NoPass
  <1>2. \A p \in {"scan", "unlink"} : [gc EXCEPT !.pc = p] \in Pass
    BY DEF Pass
  <1>3. \A S \in SUBSET Gen : [gc EXCEPT !.pc = "scan", !.todo = S, !.retired = S] \in Pass
    BY DEF Pass
  <1>4. ASSUME NEW S \in SUBSET Gen
        PROVE  [gc EXCEPT !.todo = @ \ S, !.off = 1] \in Pass
    <2>1. gc.todo \ S \in SUBSET Gen /\ 1 \in Nat \ {0}
      BY DEF Pass
    <2> QED
      BY <2>1 DEF Pass
  <1>5. ASSUME NEW S \in SUBSET Gen
        PROVE  [gc EXCEPT !.retired = @ \ S] \in Pass
    <2>1. gc.retired \ S \in SUBSET Gen
      BY DEF Pass
    <2> QED
      BY <2>1 DEF Pass
  <1>6. /\ [gc EXCEPT !.off = @ + 1] \in Pass
        /\ [gc EXCEPT !.pc = "drain", !.off = @ + 1, !.rewritten = @ + 1] \in Pass
    <2>1. gc.off + 1 \in Nat \ {0} /\ gc.rewritten + 1 \in Nat
      BY DEF Pass
    <2> QED
      BY <2>1, Zenon DEF Pass
  <1> QED
    BY <1>1, <1>2, <1>3, <1>4, <1>5, <1>6, Zenon

LEMMA GcEntryTypes ==
    ASSUME TypeOK, Generations, GcEntry
    PROVE  TypeOK'
  <1>0. Positions /\ Bytes /\ Files /\ Rest
    BY TypeParts
  <1>1. UNCHANGED <<tables, memory, vfiles, named, calls, store, views, quiet, skipped>>
        /\ up /\ gc.todo # {} /\ ~EndOfScan
    BY DEF GcEntry
  <1>2. gc \in Pass /\ NoPass \in Pass
    BY <1>0, PassTypes DEF Rest
  <1>3. Files'
    BY <1>0, <1>1 DEF Files, memory
  <1>4. gc' \in Pass
    BY <1>2, PassTypes DEF GcEntry
  <1>5. Rest'
    BY <1>0, <1>1, <1>4 DEF Rest, memory, tables
  <1>6. CASE UNCHANGED <<log, synced, vlog, vsynced>>
    <2>1. Positions' /\ Bytes'
      BY <1>0, <1>1, <1>6 DEF Positions, Bytes, tables
    <2> QED
      BY <1>3, <1>5, <2>1, TypeNext
  <1>7. CASE \/ WriteEntry(vlog[Scanned][gc.off].key, vlog[Scanned][gc.off].val, TRUE, synced)
             \/ WriteEntryFails(vlog[Scanned][gc.off].key, vlog[Scanned][gc.off].val, TRUE, synced)
    <2> DEFINE k == vlog[Scanned][gc.off].key
               v == vlog[Scanned][gc.off].val
    <2>1. k \in Key \cup {0} /\ v \in 0..MaxCalls
      BY <1>1, EntryScanned
    <2>2. synced \in Nat /\ synced <= Len(log) /\ Len(log) \in Nat /\ rotated <= synced
      BY <1>0 DEF Positions
    <2>3. WriteEntry(k, v, TRUE, synced) \/ WriteEntryFails(k, v, TRUE, synced)
      BY <1>7
    <2> HIDE DEF k, v
    <2>4. Entered(k, v, TRUE, synced)
      BY <1>1, <2>1, <2>2, <2>3, EntryEffect
    <2>5. /\ vlog' \in [Gen -> Seq(Cell)] /\ vsynced' \in [Gen -> Nat]
          /\ \A g \in Gen : vsynced[g] <= vsynced'[g] /\ vsynced'[g] <= Len(vlog'[g])
          /\ synced' \in synced..Len(log')
          /\ log' \in Seq(Record) /\ Len(log) <= Len(log')
      BY <2>4, Zenon DEF Entered
    <2>6. Bytes'
      BY <2>5 DEF Bytes
    <2>7. Len(log') \in Nat
      BY <2>5
    <2>8. Positions'
      BY <1>0, <1>1, <2>2, <2>5, <2>7 DEF Positions, tables
    <2> QED
      BY <1>3, <1>5, <2>6, <2>8, TypeNext
  <1> QED
    BY <1>6, <1>7 DEF GcEntry

LEMMA GcRotateTypes ==
    ASSUME TypeOK, GcRotate
    PROVE  TypeOK'
  <1>0. Positions /\ Bytes /\ Files /\ Rest
    BY TypeParts
  <1>1. /\ UNCHANGED <<flushed, rotated, imm, up, sync_mode, gcFloor, snaps, log, synced,
                       vlog, vsynced, calls, store, views, skipped>>
        /\ quiet' = FALSE
    BY DEF GcRotate
  <1>2. vlogs \in SUBSET Gen /\ OlderGenerations \in SUBSET Gen /\ gc \in Pass /\ NoPass \in Pass
    BY <1>0, PassTypes DEF Files, Rest, OlderGenerations
  <1>3. gc' \in Pass
    BY <1>2, PassTypes DEF GcRotate
  <1>4. Rest' /\ Bytes'
    BY <1>0, <1>1, <1>3 DEF Rest, Bytes
  <1>5. CASE UNCHANGED <<vlogs, vfiles, named, floor, osynced, next>>
    <2>1. Positions' /\ Files'
      BY <1>0, <1>1, <1>5 DEF Positions, Files
    <2> QED
      BY <1>4, <2>1, TypeNext
  <1>6. CASE /\ next \in Gen /\ vfiles' = vfiles \cup {next}
             /\ UNCHANGED <<named, floor, osynced>> \/ WriteManifest(vlogs \cup {next})
             /\ vlogs' \in {vlogs, vlogs \cup {next}}
             /\ next' \in {next, next + 1}
    <2>1. vlogs \cup {next} \in SUBSET Gen /\ next + 1 \in 1..MaxGen + 1
      BY <1>2, <1>6, VlogAssumption DEF Gen
    <2>2. Positions' /\ named' \subseteq Gen
      <3>1. CASE UNCHANGED <<named, floor, osynced>>
        BY <1>0, <1>1, <3>1 DEF Positions, Files
      <3>2. CASE WriteManifest(vlogs \cup {next})
        <4>1. flushed' \in {flushed, rotated} /\ synced' \in {synced, Len(log)}
          BY <1>1
        <4> QED
          BY <1>0, <1>1, <2>1, <3>2, <4>1, ManifestPositions
      <3> QED
        BY <1>6, <3>1, <3>2
    <2>3. Files'
      BY <1>0, <1>1, <1>6, <2>1, <2>2 DEF Files
    <2> QED
      BY <1>4, <2>2, <2>3, TypeNext
  <1> QED
    BY <1>5, <1>6 DEF GcRotate

LEMMA GcDrainTypes ==
    ASSUME TypeOK, GcDrain
    PROVE  TypeOK'
  <1>0. Positions /\ Bytes /\ Files /\ Rest
    BY TypeParts
  <1>1. UNCHANGED <<memory, log, synced, vlog, vsynced, vfiles, calls, store, views, quiet, skipped>>
    BY DEF GcDrain
  <1>2. vlogs \in SUBSET Gen /\ gc \in Pass
    BY <1>0 DEF Files, Rest
  <1>3. gc' \in Pass
    BY <1>2, PassTypes DEF GcDrain
  <1>4. Bytes'
    BY <1>0, <1>1 DEF Bytes
  <1>5. CASE UNCHANGED <<tables, named>>
    <2>1. Positions' /\ Files' /\ Rest'
      BY <1>0, <1>1, <1>3, <1>5 DEF Positions, Files, Rest, memory, tables
    <2> QED
      BY <1>4, <2>1, TypeNext
  <1>6. CASE FlushImm
    <2>1. /\ WriteManifest(vlogs) /\ rotated' = rotated /\ imm' = FALSE
          /\ flushed' \in {flushed, rotated} /\ synced' \in {synced, Len(log)} /\ log' = log
      BY <1>1, <1>6 DEF FlushImm
    <2>2. Positions' /\ named' \subseteq Gen
      BY <1>0, <1>2, <2>1, ManifestPositions
    <2>3. Files' /\ Rest'
      BY <1>0, <1>1, <1>3, <2>1, <2>2 DEF Files, Rest, memory
    <2> QED
      BY <1>4, <2>2, <2>3, TypeNext
  <1> QED
    BY <1>5, <1>6 DEF GcDrain

\* ForceDurability covers the current value log.
LEMMA ForceBytes ==
    ASSUME TypeOK, Current \in Gen, vlog' = vlog, ForceDurability
    PROVE  Bytes' /\ \A g \in Gen : vsynced[g] <= vsynced'[g]
  <1>0. Bytes
    BY TypeParts
  <1>1. vsynced' = [vsynced EXCEPT ![Current] = Len(vlog[Current])]
    BY DEF ForceDurability
  <1>2. \A g \in Gen : vsynced[g] \in Nat /\ Len(vlog[g]) \in Nat /\ vsynced[g] <= Len(vlog[g])
    BY <1>0 DEF Bytes
  <1>3. vsynced' \in [Gen -> Nat] /\ \A g \in Gen : vsynced'[g] \in {vsynced[g], Len(vlog[g])}
    BY <1>0, <1>1, <1>2 DEF Bytes
  <1> QED
    BY <1>0, <1>2, <1>3 DEF Bytes

LEMMA GcRetireTypes ==
    ASSUME TypeOK, Generations, Passes, GcRetire
    PROVE  TypeOK'
  <1>0. Positions /\ Bytes /\ Files /\ Rest
    BY TypeParts
  <1>1. /\ UNCHANGED <<flushed, rotated, imm, up, sync_mode, next, snaps, log, vlog, vfiles,
                       calls, store, views, quiet, skipped>>
        /\ up /\ gc.pc = "scan"
    BY DEF GcRetire
  <1>2. vlogs \in SUBSET Gen /\ vlogs \ gc.retired \in SUBSET Gen /\ gc \in Pass
    BY <1>0 DEF Files, Rest
  <1>3. gc' \in Pass
    BY <1>2, PassTypes DEF GcRetire
  <1>4. vlogs \ gc.retired # {}
    BY <1>1 DEF Passes
  <1>5. CASE UNCHANGED <<synced, vsynced, vlogs, named, floor, osynced, gcFloor>>
    <2>1. Positions' /\ Bytes' /\ Files' /\ Rest'
      BY <1>0, <1>1, <1>3, <1>5 DEF Positions, Bytes, Files, Rest
    <2> QED
      BY <2>1, TypeNext
  <1>6. CASE /\ ForceDurability /\ gcFloor' = NextFloor
             /\ UNCHANGED <<named, floor, osynced>> \/ WriteManifest(vlogs \ gc.retired)
             /\ vlogs' \in {vlogs, vlogs \ gc.retired}
    <2>1. gcFloor' \in Nat
      BY <1>2, <1>6, VlogAssumption DEF NextFloor, Pass
    <2>2. Rest'
      BY <1>0, <1>1, <1>3, <2>1 DEF Rest
    <2>3. synced' = Len(log)
      BY <1>6 DEF ForceDurability
    <2>4. Positions' /\ named' \subseteq Gen
      <3>1. CASE UNCHANGED <<named, floor, osynced>>
        BY <1>0, <1>1, <2>3, <3>1 DEF Positions, Files
      <3>2. CASE WriteManifest(vlogs \ gc.retired)
        <4>1. flushed' \in {flushed, rotated} /\ synced' \in {synced, Len(log)}
          BY <1>1, <2>3
        <4> QED
          BY <1>0, <1>1, <1>2, <3>2, <4>1, ManifestPositions
      <3> QED
        BY <1>6, <3>1, <3>2
    <2>5. Files'
      BY <1>0, <1>1, <1>4, <1>6, <2>4 DEF Files
    <2>6. Bytes'
      BY <1>1, <1>6, CurrentIs, ForceBytes
    <2> QED
      BY <2>2, <2>4, <2>5, <2>6, TypeNext
  <1> QED
    BY <1>5, <1>6 DEF GcRetire

\* A generation whose file is gone holds nothing.
LEMMA EmptiedBytes ==
    ASSUME Bytes, NEW g \in Gen,
           vlog' = [vlog EXCEPT ![g] = <<>>], vsynced' = [vsynced EXCEPT ![g] = 0]
    PROVE  Bytes' /\ vlog'[g] = <<>> /\ \A h \in Gen : h # g => vlog'[h] = vlog[h] /\ vsynced'[h] = vsynced[h]
  <1>1. <<>> \in Seq(Cell) /\ Len(<<>>) = 0
    BY EmptySeq
  <1>2. \A h \in Gen : vsynced[h] \in Nat /\ vsynced[h] <= Len(vlog[h]) /\ Len(vlog[h]) \in Nat
    BY DEF Bytes
  <1>3. /\ vlog' \in [Gen -> Seq(Cell)] /\ vsynced' \in [Gen -> Nat]
        /\ vlog'[g] = <<>> /\ vsynced'[g] = 0
        /\ \A h \in Gen : h # g => vlog'[h] = vlog[h] /\ vsynced'[h] = vsynced[h]
    BY <1>1 DEF Bytes
  <1>4. ASSUME NEW h \in Gen PROVE vsynced'[h] <= Len(vlog'[h])
    <2>1. CASE h = g
      BY <1>1, <1>3, <2>1
    <2>2. CASE h # g
      BY <1>2, <1>3, <2>2
    <2> QED
      BY <2>1, <2>2
  <1> QED
    BY <1>3, <1>4 DEF Bytes

LEMMA GcUnlinkTypes ==
    ASSUME TypeOK, Passes, GcUnlink
    PROVE  TypeOK'
  <1>0. Positions /\ Bytes /\ Files /\ Rest
    BY TypeParts
  <1>1. PICK g \in gc.retired :
          /\ vfiles' = vfiles \ {g}
          /\ vlog' = [vlog EXCEPT ![g] = <<>>]
          /\ vsynced' = [vsynced EXCEPT ![g] = 0]
          /\ IF gc.retired = {g}
             THEN gc' = NoPass /\ quiet' = (Len(vlog[Current]) = gc.rewritten)
             ELSE gc' = [gc EXCEPT !.retired = @ \ {g}] /\ UNCHANGED quiet
    BY Zenon DEF GcUnlink
  <1>2. /\ UNCHANGED <<tables, memory, log, synced, named, calls, store, views, skipped>>
        /\ up /\ gc.pc = "unlink"
    BY DEF GcUnlink
  <1>3. gc \in Pass /\ g \in Gen
    BY <1>0 DEF Rest, Pass
  <1>4. g \notin vlogs
    BY <1>1, <1>2 DEF Passes
  <1>5. gc' \in Pass
    <2>1. {g} \in SUBSET Gen
      BY <1>3
    <2> QED
      BY <1>1, <1>3, <2>1, PassTypes
  <1>6. quiet' \in BOOLEAN
    BY <1>0, <1>1 DEF Rest
  <1>7. Bytes'
    BY <1>0, <1>1, <1>3, EmptiedBytes
  <1>8. Positions' /\ Files'
    BY <1>0, <1>1, <1>2, <1>4 DEF Positions, Files, tables, memory
  <1>9. Rest'
    BY <1>0, <1>2, <1>5, <1>6 DEF Rest, tables, memory
  <1> QED
    BY <1>7, <1>8, <1>9, TypeNext

LEMMA CrashTypes ==
    ASSUME TypeOK, NEW kind, Crash(kind)
    PROVE  TypeOK'
  <1>0. Positions /\ Bytes /\ Files /\ Rest
    BY TypeParts
  <1>1. PICK m \in floor..rotated, n \in rotated..Len(log), keep \in Cuts(kind), torn \in BOOLEAN :
              CrashAt(kind, m, n, keep, torn)
    BY CrashEffect, Zenon
  <1>2. /\ flushed \in Nat /\ floor \in Nat /\ rotated \in Nat /\ Len(log) \in Nat /\ m \in Nat /\ n \in Nat
        /\ flushed <= floor /\ floor <= m /\ m <= rotated /\ rotated <= n /\ n <= Len(log)
        /\ osynced \in Nat /\ floor <= osynced /\ osynced <= rotated
        /\ synced \in Nat /\ rotated <= synced /\ synced <= Len(log)
    BY <1>0 DEF Positions
  <1>3. log' = Survivors(m, n) /\ rotated' = flushed + (m - floor)
    BY <1>1 DEF CrashAt
  <1>4. log' \in Seq(Record) /\ Len(log') = flushed + (m - floor) + (n - rotated)
    BY <1>3, SurvivorsAre
  <1>5. /\ vlog' \in [Gen -> Seq(Cell)]
        /\ \A g \in Gen : vsynced[g] <= Len(vlog'[g])
    BY <1>1, VlogLeft DEF LeftOf
  <1>6. /\ floor' = flushed /\ flushed' = flushed
        /\ \/ /\ kind = "power" /\ osynced' = rotated' /\ synced' = Len(log')
              /\ vsynced' = [g \in Gen |-> Len(vlog'[g])]
           \/ /\ kind # "power"
              /\ osynced' = flushed + ((IF osynced < m THEN osynced ELSE m) - floor)
              /\ synced' = rotated' + ((IF synced < n THEN synced ELSE n) - rotated)
              /\ vsynced' = vsynced
    <2>1. /\ floor' = flushed /\ flushed' = flushed
          /\ vsynced' = IF kind = "power" THEN [g \in Gen |-> Len(vlog'[g])] ELSE vsynced
      BY DEF Crash
    <2> QED
      BY <1>1, <2>1 DEF CrashAt
  <1>7. Positions'
    <2>1. CASE kind = "power"
      BY <1>2, <1>3, <1>4, <1>6, <2>1 DEF Positions
    <2>2. CASE kind # "power"
      BY <1>1, <1>2, <1>3, <1>4, <1>6, <2>2 DEF Positions
    <2> QED
      BY <2>1, <2>2
  <1>8. Bytes'
    <2>1. CASE vsynced' = [g \in Gen |-> Len(vlog'[g])]
      <3>1. \A g \in Gen : Len(vlog'[g]) \in Nat
        BY <1>5
      <3> QED
        BY <1>5, <2>1, <3>1 DEF Bytes
    <2>2. CASE vsynced' = vsynced
      BY <1>0, <1>5, <2>2 DEF Bytes
    <2> QED
      BY <1>6, <2>1, <2>2
  <1>9. /\ up' = FALSE /\ vlogs' = {} /\ next' = 1 /\ gcFloor' = 0
        /\ imm' = FALSE /\ snaps' = [s \in Snap |-> Latest] /\ views' = [s \in Snap |-> <<>>]
        /\ gc' = NoPass /\ quiet' = FALSE /\ store' = [k \in Key |-> NewestOf(log', k).val]
        /\ sync_mode' = sync_mode /\ vfiles' = vfiles /\ named' = named /\ calls' = calls
        /\ skipped' = (skipped \/ floor > flushed)
    BY DEF Crash
  <1>10. Files'
    BY <1>0, <1>9, VlogAssumption DEF Files
  <1>11. Rest'
    <2>1. gc' \in Pass
      BY <1>0, <1>9, PassTypes DEF Rest
    <2>2. \A k \in Key : NewestOf(log', k) \in Record
      BY <1>4, NewestRecord
    <2>3. \A k \in Key : NewestOf(log', k).val \in 0..MaxCalls
      BY <2>2 DEF Record
    <2>4. store' \in [Key -> 0..MaxCalls]
      BY <1>9, <2>3
    <2>5. skipped' \in BOOLEAN
      BY <1>9, Zenon
    <2>6. /\ snaps' \in [Snap -> Nat \cup {Latest}]
          /\ views' \in [Snap -> [Key -> 0..MaxCalls] \cup {<<>>}]
      BY <1>9
    <2> QED
      BY <1>0, <1>9, <2>1, <2>4, <2>5, <2>6 DEF Rest
  <1> QED
    BY <1>7, <1>8, <1>10, <1>11, TypeNext

LEMMA OpenTypes ==
    ASSUME TypeOK, Open
    PROVE  TypeOK'
  <1>0. Positions /\ Bytes /\ Files /\ Rest
    BY TypeParts
  <1>1. /\ up' = TRUE /\ vlogs' = named /\ vfiles' = named
        /\ vlog' = [g \in Gen |-> IF g \in named THEN OpenVlog(g) ELSE <<>>]
        /\ vsynced' = [g \in Gen |-> IF g \in named THEN vsynced[g] ELSE 0]
        /\ UNCHANGED <<tables, sync_mode, gcFloor, snaps, log, synced, named, gc, history>>
    BY DEF Open
  <1>2. PICK g \in named : next' = g + 1
    BY DEF Open
  <1>3. Positions'
    BY <1>0, <1>1 DEF Positions, tables
  <1>4. Files'
    BY <1>0, <1>1, <1>2, VlogAssumption DEF Files, Gen
  <1>5. Rest'
    BY <1>0, <1>1 DEF Rest, tables, history
  <1>6. Bytes'
    <2>1. <<>> \in Seq(Cell) /\ Len(<<>>) = 0
      BY EmptySeq
    <2>2. \A h \in Gen : /\ vlog'[h] = IF h \in named THEN vlog[h] ELSE <<>>
                         /\ vsynced'[h] = IF h \in named THEN vsynced[h] ELSE 0
      BY <1>1 DEF OpenVlog
    <2>3. vlog' \in [Gen -> Seq(Cell)] /\ vsynced' \in [Gen -> Nat]
      BY <1>0, <1>1, <2>1 DEF Bytes, OpenVlog
    <2>4. \A h \in Gen : vsynced'[h] <= Len(vlog'[h])
      BY <1>0, <2>1, <2>2 DEF Bytes
    <2> QED
      BY <2>3, <2>4 DEF Bytes
  <1> QED
    BY <1>3, <1>4, <1>5, <1>6, TypeNext

LEMMA TypeStep ==
    ASSUME TypeOK, Generations, Passes, [Next]_vars
    PROVE  TypeOK'
  <1>1. ASSUME NEW k \in Key, NEW separate \in BOOLEAN,
               Write(k, calls + 1, separate) \/ Write(k, NotFound, FALSE)
        PROVE  TypeOK'
    <2>1. calls \in Nat /\ (calls < MaxCalls => calls + 1 \in 0..MaxCalls) /\ NotFound \in 0..MaxCalls
      BY VlogAssumption DEF TypeOK, NotFound
    <2>2. calls < MaxCalls
      BY <1>1 DEF Write
    <2> QED
      BY <1>1, <2>1, <2>2, WriteTypes
  <1>2. CASE \E s \in Snap : GetSnapshot(s) \/ ReleaseSnapshot(s)
    BY <1>2, SnapshotTypes
  <1>3. CASE StartGc \/ GcNextGeneration
    <2>1. UNCHANGED <<tables, memory, disk, history>>
      BY <1>3 DEF StartGc, GcNextGeneration
    <2>2. gc \in Pass
      BY DEF TypeOK
    <2>3. gc' \in Pass
      <3>1. CASE StartGc
        BY <2>2, <3>1, PassTypes DEF StartGc
      <3>2. CASE GcNextGeneration
        <4>1. {Scanned} \in SUBSET Gen /\ gc' = [gc EXCEPT !.todo = @ \ {Scanned}, !.off = 1]
          BY <3>2, ScannedIs DEF GcNextGeneration
        <4> QED
          BY <2>2, <4>1, PassTypes
      <3> QED
        BY <1>3, <3>1, <3>2
    <2> QED
      BY <2>1, <2>3 DEF TypeOK, tables, memory, disk, history
  <1>4. CASE UNCHANGED vars
    BY <1>4 DEF TypeOK, vars, tables, memory, disk, history
  <1> QED
    BY <1>1, <1>2, <1>3, <1>4, ManifestTypes, GcRotateTypes, GcEntryTypes, GcDrainTypes,
       GcRetireTypes, GcUnlinkTypes, CrashTypes, OpenTypes, Zenon
    DEF Next, Background, Collector

-----------------------------------------------------------------------------
(***************************************************************************)
(* What a Put, a Delete or an entry of the collector writes.               *)
(***************************************************************************)

\* The writes of Next: a separated value is one that was put.
LEMMA SomeWrite ==
    ASSUME TypeOK, NEW k \in Key, NEW separate \in BOOLEAN,
           Write(k, calls + 1, separate) \/ Write(k, NotFound, FALSE)
    PROVE  \E v \in 0..MaxCalls, sep \in BOOLEAN : Write(k, v, sep) /\ (sep => v # NotFound)
  <1>1. calls < MaxCalls
    BY DEF Write
  <1>2. calls + 1 \in 0..MaxCalls /\ calls + 1 # NotFound /\ NotFound \in 0..MaxCalls
    BY <1>1, VlogAssumption DEF TypeOK, NotFound
  <1> QED
    BY <1>2

\* The write succeeds and is stored, or leaves no record but what the WAL has.
LEMMA WriteEffect ==
    ASSUME TypeOK, Generations, NEW k \in Key, NEW v \in 0..MaxCalls, NEW separate \in BOOLEAN,
           Write(k, v, separate)
    PROVE  /\ \E base \in Nat :
                /\ base <= Len(log)
                /\ Entered(k, v, separate, base)
                /\ \/ /\ rotated' = Len(log) /\ base = Len(log)
                      /\ osynced' = IF osynced = rotated THEN synced ELSE osynced
                   \/ rotated' = rotated /\ osynced' = osynced /\ base = synced
           /\ \/ log' = log /\ store' = store
              \/ (\E r \in Record : NewRecord(r, k, v)) /\ store' = [store EXCEPT ![k] = v]
              \/ ~Clean /\ \E r \in Record : AnyRecord(r)
           /\ UNCHANGED <<flushed, floor, memory, vfiles, named, gc, views, skipped>>
           /\ quiet' = FALSE /\ up
  <1> DEFINE base == IF imm' THEN Len(log) ELSE synced
  <1>0. Len(log) \in Nat /\ synced \in Nat /\ synced <= Len(log)
    BY DEF TypeOK
  <1>1. /\ UNCHANGED <<flushed, floor, memory, vfiles, named, gc, views, skipped>>
        /\ quiet' = FALSE /\ up /\ ~imm
    BY DEF Write
  <1>2. \/ WriteEntry(k, v, separate, base) /\ store' = [store EXCEPT ![k] = v]
        \/ WriteEntryFails(k, v, separate, base) /\ store' = store
    BY DEF Write
  <1>3. RotateForFlush \/ (rotated' = rotated /\ osynced' = osynced /\ imm' = imm)
    BY DEF Write
  <1>4. \/ /\ rotated' = Len(log) /\ base = Len(log)
           /\ osynced' = IF osynced = rotated THEN synced ELSE osynced
        \/ rotated' = rotated /\ osynced' = osynced /\ base = synced
    BY <1>1, <1>3 DEF RotateForFlush
  <1>5. base \in Nat /\ base <= Len(log)
    BY <1>0
  <1>6. k \in Key \cup {0}
    OBVIOUS
  <1> HIDE DEF base
  <1>7. Entered(k, v, separate, base)
    BY <1>1, <1>2, <1>5, <1>6, EntryEffect
  <1>8. CASE WriteEntry(k, v, separate, base) /\ store' = [store EXCEPT ![k] = v]
    <2>1. Written(k, v, separate, base)
      BY <1>1, <1>6, <1>8, WriteEntryEffect
    <2>2. \E r \in Record : NewRecord(r, k, v)
      BY <2>1 DEF Written
    <2> QED
      BY <1>1, <1>4, <1>5, <1>7, <1>8, <2>2, Zenon
  <1>9. CASE WriteEntryFails(k, v, separate, base) /\ store' = store
    <2>1. log' = log \/ (~Clean /\ \E r \in Record : AnyRecord(r))
      BY <1>1, <1>6, <1>9, WriteEntryFailsEffect
    <2> QED
      BY <1>1, <1>4, <1>5, <1>7, <1>9, <2>1, Zenon
  <1> QED
    BY <1>2, <1>8, <1>9

\* An entry is passed over, written again, or fails to be.
LEMMA GcEntryEffect ==
    ASSUME TypeOK, Generations, GcEntry
    PROVE  LET k == vlog[Scanned][gc.off].key
               v == vlog[Scanned][gc.off].val
           IN  /\ k \in Key \cup {0} /\ v \in 0..MaxCalls
               /\ \/ /\ ~Live(Scanned, gc.off) /\ gc' = [gc EXCEPT !.off = @ + 1]
                     /\ UNCHANGED <<log, synced, vlog, vsynced>>
                  \/ /\ Live(Scanned, gc.off)
                     /\ Entered(k, v, TRUE, synced)
                     /\ \/ log' = log /\ gc' = NoPass
                        \/ ~Clean /\ (\E r \in Record : AnyRecord(r)) /\ gc' = NoPass
                        \/ /\ \E r \in Record : NewRecord(r, k, v) /\ r.gen = Current
                           /\ gc' = [gc EXCEPT !.pc = "drain", !.off = @ + 1, !.rewritten = @ + 1]
               /\ UNCHANGED <<tables, memory, vfiles, named, calls, store, views, quiet, skipped>>
               /\ up /\ gc.pc = "scan" /\ gc.todo # {} /\ ~EndOfScan
  <1> DEFINE k == vlog[Scanned][gc.off].key
             v == vlog[Scanned][gc.off].val
  <1>1. /\ UNCHANGED <<tables, memory, vfiles, named, calls, store, views, quiet, skipped>>
        /\ up /\ gc.pc = "scan" /\ gc.todo # {} /\ ~EndOfScan
    BY DEF GcEntry
  <1>2. k \in Key \cup {0} /\ v \in 0..MaxCalls
    BY <1>1, EntryScanned
  <1>3. \/ /\ ~Live(Scanned, gc.off) /\ gc' = [gc EXCEPT !.off = @ + 1]
           /\ UNCHANGED <<log, synced, vlog, vsynced>>
        \/ /\ Live(Scanned, gc.off) /\ WriteEntry(k, v, TRUE, synced)
           /\ gc' = [gc EXCEPT !.pc = "drain", !.off = @ + 1, !.rewritten = @ + 1]
        \/ Live(Scanned, gc.off) /\ WriteEntryFails(k, v, TRUE, synced) /\ gc' = NoPass
    BY DEF GcEntry
  <1> HIDE DEF k, v
  <1>4. synced \in Nat /\ synced <= Len(log)
    BY DEF TypeOK
  <1>5. CASE /\ Live(Scanned, gc.off) /\ WriteEntry(k, v, TRUE, synced)
             /\ gc' = [gc EXCEPT !.pc = "drain", !.off = @ + 1, !.rewritten = @ + 1]
    <2>1. Entered(k, v, TRUE, synced)
      BY <1>1, <1>2, <1>4, <1>5, EntryEffect
    <2>2. PICK r \in Record : NewRecord(r, k, v)
      <3>1. Written(k, v, TRUE, synced)
        BY <1>1, <1>2, <1>5, WriteEntryEffect
      <3> QED
        BY <3>1, Zenon DEF Written
    <2>3. log \in Seq(Record) /\ log' = Append(log, [key |-> k, user |-> k, gen |-> Current,
                                   off |-> Len(vlog'[Current]), val |-> v])
      BY <1>5 DEF WriteEntry, TypeOK
    <2>4. r = [key |-> k, user |-> k, gen |-> Current, off |-> Len(vlog'[Current]), val |-> v]
      <3> DEFINE q == [key |-> k, user |-> k, gen |-> Current, off |-> Len(vlog'[Current]), val |-> v]
      <3>1. Append(log, r) = Append(log, q)
        BY <2>2, <2>3 DEF NewRecord, AnyRecord
      <3> HIDE DEF q
      <3>2. Append(log, r)[Len(log) + 1] = r /\ Append(log, q)[Len(log) + 1] = q
        BY <2>3
      <3>3. r = q
        BY <3>1, <3>2
      <3> QED
        BY <3>3 DEF q
    <2>5. r.gen = Current
      BY <2>4
    <2>6. NewRecord(r, k, v) /\ r.gen = Current
      <3>1. Current # Inline
        BY <1>1, CurrentIs
      <3> QED
        BY <2>2, <2>5, <3>1, Zenon DEF NewRecord, AnyRecord
    <2> QED
      BY <1>1, <1>2, <1>5, <2>1, <2>6, Zenon DEF k, v
  <1>6. CASE Live(Scanned, gc.off) /\ WriteEntryFails(k, v, TRUE, synced) /\ gc' = NoPass
    <2>1. Entered(k, v, TRUE, synced)
      BY <1>1, <1>2, <1>4, <1>6, EntryEffect
    <2>2. log' = log \/ (~Clean /\ \E r \in Record : AnyRecord(r))
      BY <1>1, <1>2, <1>6, WriteEntryFailsEffect
    <2> QED
      BY <1>1, <1>2, <1>6, <2>1, <2>2, Zenon DEF k, v
  <1> QED
    BY <1>1, <1>2, <1>3, <1>5, <1>6, Zenon DEF k, v

-----------------------------------------------------------------------------
(***************************************************************************)
(* Generations and passes.                                                 *)
(***************************************************************************)

\* Every record of the history after the step was there, is inline or points
\* into the current generation.
RecordsKept ==
    \A i \in 1..Len(log') : \/ \E j \in 1..Len(log) : log'[i] = log[j]
                            \/ up /\ log'[i].gen \in {Inline, Current}

LEMMA EnteredRecords ==
    ASSUME TypeOK, up, NEW k, NEW v, NEW separate, NEW base, Entered(k, v, separate, base)
    PROVE  RecordsKept
  <1>0. log \in Seq(Record)
    BY DEF TypeOK
  <1>1. CASE log' = log
    BY <1>1 DEF RecordsKept
  <1>2. CASE \E r \in Record : log' = Append(log, r) /\ r.gen \in {Inline, Current}
    <2>1. PICK r \in Record : log' = Append(log, r) /\ r.gen \in {Inline, Current}
      BY <1>2
    <2>2. \A i \in 1..Len(log') : (i \in 1..Len(log) /\ log'[i] = log[i]) \/ log'[i] = r
      BY <1>0, <2>1
    <2> QED
      BY <2>1, <2>2, Zenon DEF RecordsKept
  <1> QED
    BY <1>1, <1>2, EnteredAppend, Zenon

LEMMA GenerationsFrame ==
    ASSUME TypeOK, Generations, up' = up, vlogs' = vlogs, named' = named, next' = next, RecordsKept
    PROVE  Generations'
  <1>1. Alive' = Alive
    BY DEF Alive
  <1>2. ASSUME NEW i \in 1..Len(log') PROVE \E g \in Alive : log'[i].gen <= g
    <2>1. CASE \E j \in 1..Len(log) : log'[i] = log[j]
      BY <2>1 DEF Generations
    <2>2. CASE up /\ log'[i].gen \in {Inline, Current}
      <3>1. Current \in vlogs /\ Current \in Nat
        BY <2>2, CurrentIs
      <3>2. log'[i].gen <= Current
        BY <2>2, <3>1 DEF Inline
      <3>3. Alive = vlogs
        BY <2>2 DEF Alive
      <3> QED
        BY <3>1, <3>2, <3>3
    <2> QED
      BY <2>1, <2>2 DEF RecordsKept
  <1>3. \A i \in 1..Len(log') : \E g \in Alive' : log'[i].gen <= g
    BY <1>1, <1>2
  <1>4. Alive' # {} /\ named' # {}
    BY <1>1 DEF Generations
  <1> QED
    BY <1>3, <1>4 DEF Generations

\* Any MANIFEST names the open generations, or the fresh one with them.
LEMMA GenerationsNamed ==
    ASSUME TypeOK, Generations, up, up' = up, vlogs' = vlogs, next' = next, log' = log,
           named' \in {vlogs, vlogs \cup {next}}
    PROVE  Generations'
  <1>1. Current \in vlogs /\ IsLast(Current, vlogs)
    BY CurrentIs
  <1>2. Alive = vlogs /\ Alive' = vlogs
    BY DEF Alive
  <1>3. Current \in named' /\ named' \subseteq vlogs \cup {next}
    BY <1>1
  <1>4. \A i \in 1..Len(log') : \E g \in Alive' : log'[i].gen <= g
    BY <1>2 DEF Generations
  <1> QED
    BY <1>1, <1>2, <1>3, <1>4 DEF Generations

\* The newest open generation is above every record.
LEMMA RecordsBelow ==
    ASSUME TypeOK, Generations, up, NEW i \in 1..Len(log)
    PROVE  log[i].gen <= Current /\ log[i].gen \in Nat /\ log[i].gen # next
  <1>1. PICK g \in vlogs : log[i].gen <= g
    BY DEF Generations, Alive
  <1>2. g <= Current /\ Current \in Nat /\ Current \in vlogs
    BY CurrentIs DEF IsLast
  <1>3. log[i] \in Record
    BY DEF TypeOK
  <1>4. log[i].gen \in Nat
    BY <1>3 DEF Record, Gen, Inline
  <1>5. g \in Nat /\ next \in Nat
    BY DEF TypeOK, Gen
  <1>6. Current < next
    BY <1>2 DEF Generations
  <1>7. log[i].gen <= Current
    BY <1>1, <1>2, <1>4, <1>5
  <1> QED
    BY <1>2, <1>4, <1>5, <1>6, <1>7

LEMMA GenerationsRotate ==
    ASSUME TypeOK, Generations, GcRotate
    PROVE  Generations'
  <1>0. up /\ UNCHANGED <<up, log>>
    BY DEF GcRotate
  <1>1. CASE UNCHANGED <<vlogs, named, next>>
    <2>1. RecordsKept
      BY <1>0 DEF RecordsKept
    <2> QED
      BY <1>0, <1>1, <2>1, GenerationsFrame
  <1>2. CASE WriteManifest(vlogs \cup {next}) /\ UNCHANGED <<vlogs, next>>
    BY <1>0, <1>2, GenerationsNamed DEF WriteManifest
  <1>3. CASE /\ next \in Gen /\ vlogs' = vlogs \cup {next} /\ WriteManifest(vlogs') /\ next' = next + 1
    <2>1. named' = vlogs' /\ next \in vlogs' /\ next \in Nat
      BY <1>3 DEF WriteManifest, Gen
    <2>2. \A g \in vlogs : g < next /\ g \in Nat
      BY <1>0 DEF Generations, TypeOK, Gen
    <2>3. IsLast(next, vlogs') /\ \A g \in vlogs' : g < next'
      BY <1>3, <2>1, <2>2 DEF IsLast
    <2>4. Alive = vlogs /\ Alive' = vlogs'
      BY <1>0 DEF Alive
    <2>5. \A i \in 1..Len(log') : \E g \in Alive' : log'[i].gen <= g
      BY <1>0, <1>3, <2>4 DEF Generations
    <2> QED
      BY <1>0, <2>1, <2>3, <2>4, <2>5 DEF Generations
  <1> QED
    BY <1>1, <1>2, <1>3 DEF GcRotate

\* What a pass leaves open is the fresh generation.
LEMMA RetiredAll ==
    ASSUME TypeOK, Generations, Passes, gc.pc \in {"scan", "drain"}
    PROVE  /\ up /\ vlogs \ gc.retired = {Current} /\ Current \notin gc.retired
           /\ Current \in named /\ IsLast(Current, vlogs) /\ Current \in vlogs
           /\ vlogs = gc.retired \cup {Current}
  <1>1. up
    BY DEF Passes
  <1>2. PICK g \in vlogs : g \notin gc.retired /\ IsLast(g, vlogs) /\ vlogs = gc.retired \cup {g}
    BY DEF Passes
  <1>3. IsLast(Current, vlogs) /\ Current \in vlogs /\ Current \in named
    BY <1>1, CurrentIs
  <1>4. vlogs \in SUBSET Nat
    BY DEF TypeOK, Gen
  <1>5. Current = g
    BY <1>2, <1>3, <1>4, LastUnique
  <1> QED
    BY <1>1, <1>2, <1>3, <1>5

LEMMA GenerationsRetire ==
    ASSUME TypeOK, Generations, Passes, GcRetire
    PROVE  Generations'
  <1>0. up /\ UNCHANGED <<up, log, next>> /\ gc.pc \in {"scan", "drain"}
    BY DEF GcRetire
  <1>1. CASE UNCHANGED <<vlogs, named>>
    <2>1. RecordsKept
      BY <1>0 DEF RecordsKept
    <2> QED
      BY <1>0, <1>1, <2>1, GenerationsFrame
  <1>2. CASE named' = vlogs \ gc.retired /\ vlogs' \in {vlogs, vlogs \ gc.retired}
    <2>1. /\ vlogs \ gc.retired = {Current} /\ Current \in vlogs /\ IsLast(Current, vlogs)
      BY <1>0, RetiredAll
    <2>2. named' = {Current} /\ Current \in vlogs' /\ IsLast(Current, vlogs')
      BY <1>2, <2>1 DEF IsLast
    <2>3. Alive' = vlogs' /\ \A g \in vlogs' : g < next
      BY <1>0, <1>2 DEF Alive, Generations
    <2>4. ASSUME NEW i \in 1..Len(log') PROVE \E g \in Alive' : log'[i].gen <= g
      BY <1>0, <2>2, <2>3, RecordsBelow
    <2> QED
      BY <1>0, <2>2, <2>3, <2>4 DEF Generations
  <1> QED
    BY <1>1, <1>2 DEF GcRetire, WriteManifest

LEMMA GenerationsCrash ==
    ASSUME TypeOK, Generations, NEW kind, Crash(kind)
    PROVE  Generations'
  <1>0. up /\ up' = FALSE /\ named' = named /\ vlogs' = {}
    BY DEF Crash
  <1>1. PICK m \in floor..rotated, n \in rotated..Len(log), keep \in Cuts(kind), torn \in BOOLEAN :
              CrashAt(kind, m, n, keep, torn)
    BY CrashEffect, Zenon
  <1>2. log' = Survivors(m, n)
    BY <1>1 DEF CrashAt
  <1>3. \A i \in 1..Len(log') : log'[i].gen = Inline \/ \E j \in 1..Len(log) : log'[i].gen = log[j].gen
    BY <1>2, SurvivorsFrom DEF LeftAs, SameEntry
  <1>4. Alive' = named /\ Current \in named /\ Inline <= Current
    BY <1>0, CurrentIs DEF Alive, Inline
  <1>5. \A i \in 1..Len(log') : \E g \in Alive' : log'[i].gen <= g
    BY <1>0, <1>3, <1>4, RecordsBelow
  <1> QED
    BY <1>0, <1>4, <1>5 DEF Generations

LEMMA GenerationsOpen ==
    ASSUME TypeOK, Generations, Open
    PROVE  Generations'
  <1>1. ~up /\ up' = TRUE /\ vlogs' = named /\ named' = named /\ log' = log
    BY DEF Open
  <1>2. PICK g \in named : IsLast(g, named) /\ next' = g + 1
    BY DEF Open
  <1>3. Alive = named /\ Alive' = named
    BY <1>1 DEF Alive
  <1>4. \A h \in named : h <= g /\ h \in Nat
    BY <1>2 DEF IsLast, TypeOK, Gen
  <1>5. \A h \in vlogs' : h < next'
    BY <1>1, <1>2, <1>4
  <1>6. \A i \in 1..Len(log') : \E h \in Alive' : log'[i].gen <= h
    BY <1>1, <1>3 DEF Generations
  <1> QED
    BY <1>1, <1>2, <1>3, <1>5, <1>6 DEF Generations

LEMMA GenerationsStep ==
    ASSUME TypeOK, Generations, Passes, [Next]_vars
    PROVE  Generations'
  <1>1. ASSUME NEW k \in Key, NEW separate \in BOOLEAN,
               Write(k, calls + 1, separate) \/ Write(k, NotFound, FALSE)
        PROVE  Generations'
    <2>1. PICK v \in 0..MaxCalls, sep \in BOOLEAN : Write(k, v, sep)
      BY <1>1, SomeWrite
    <2>2. PICK base \in Nat : Entered(k, v, sep, base)
      BY <2>1, WriteEffect, Zenon
    <2>3. UNCHANGED <<memory, named>> /\ up
      BY <2>1 DEF Write
    <2>4. RecordsKept
      BY <2>2, <2>3, EnteredRecords
    <2> QED
      BY <2>3, <2>4, GenerationsFrame DEF memory
  <1>2. CASE UNCHANGED <<up, vlogs, named, next, log>>
    <2>1. RecordsKept
      BY <1>2 DEF RecordsKept
    <2> QED
      BY <1>2, <2>1, GenerationsFrame
  <1>3. ASSUME GcEntry PROVE Generations'
    <2>1. UNCHANGED <<memory, named>> /\ up
      BY <1>3 DEF GcEntry
    <2>2. RecordsKept
      <3>1. CASE UNCHANGED log
        BY <3>1 DEF RecordsKept
      <3>2. CASE Entered(vlog[Scanned][gc.off].key, vlog[Scanned][gc.off].val, TRUE, synced)
        BY <2>1, <3>2, EnteredRecords
      <3> QED
        BY <1>3, <3>1, <3>2, GcEntryEffect, Zenon
    <2> QED
      BY <2>1, <2>2, GenerationsFrame DEF memory
  <1>4. ASSUME Flush \/ InstallCompaction \/ GcDrain PROVE Generations'
    <2>1. up /\ UNCHANGED <<memory, log>>
      BY <1>4 DEF Flush, InstallCompaction, GcDrain
    <2>2. UNCHANGED named \/ named' = vlogs
      BY <1>4 DEF Flush, InstallCompaction, GcDrain, FlushImm, WriteManifest
    <2> QED
      BY <1>2, <2>1, <2>2, GenerationsNamed DEF memory
  <1>5. CASE \E s \in Snap : GetSnapshot(s) \/ ReleaseSnapshot(s)
    BY <1>2, <1>5 DEF GetSnapshot, ReleaseSnapshot, disk
  <1>6. CASE StartGc \/ GcNextGeneration \/ GcUnlink
    BY <1>2, <1>6 DEF StartGc, GcNextGeneration, GcUnlink, memory, disk
  <1>7. CASE UNCHANGED vars
    BY <1>2, <1>7 DEF vars, memory, disk
  <1> QED
    BY <1>1, <1>3, <1>4, <1>5, <1>6, <1>7, GenerationsRotate, GenerationsRetire,
       GenerationsCrash, GenerationsOpen, Zenon
    DEF Next, Background, Collector

\* The pass has ended, or not begun to move entries.
LEMMA PassOver ==
    ASSUME gc' \in {NoPass, [NoPass EXCEPT !.pc = "rotate"]}, gc' = NoPass \/ up',
           up' \/ \A s \in Snap : snaps'[s] = Latest
    PROVE  Passes'
  <1>1. gc'.pc = "idle" \/ (gc'.pc = "rotate" /\ up' /\ gc'.off = 1)
    BY DEF NoPass
  <1> QED
    BY <1>1 DEF Passes

\* The pass stays as it is, or goes on with the same generations.
LEMMA PassGoesOn ==
    ASSUME TypeOK, Passes, up, up' = up, vlogs' = vlogs, gcFloor' = gcFloor,
           gc'.pc \in {"scan", "drain"} =>
              gc.pc \in {"scan", "drain"} /\ gc'.retired = gc.retired /\ gc'.todo \subseteq gc.todo,
           gc'.pc = "rotate" => gc' = gc,
           gc'.pc = "unlink" =>
              gc.pc = "unlink" /\ gc'.retired \subseteq gc.retired /\ gc'.rewritten = gc.rewritten
    PROVE  Passes'
  <1>1. ASSUME gc'.pc \in {"scan", "drain"}
        PROVE  /\ gc'.todo \subseteq gc'.retired
               /\ \E g \in vlogs' : g \notin gc'.retired /\ IsLast(g, vlogs') /\ vlogs' = gc'.retired \cup {g}
    BY <1>1 DEF Passes
  <1>2. ASSUME gc'.pc = "unlink"
        PROVE  /\ \E g \in vlogs' : vlogs' = {g}
               /\ gc'.retired \cap vlogs' = {} /\ gcFloor' = NextFloor'
    <2>1. NextFloor' = NextFloor
      BY <1>2 DEF NextFloor
    <2> QED
      BY <1>2, <2>1 DEF Passes
  <1> QED
    BY <1>1, <1>2 DEF Passes

LEMMA PassesStep ==
    ASSUME TypeOK, Generations, Passes, [Next]_vars
    PROVE  Passes'
  <1>0. gc \in Pass
    BY DEF TypeOK
  <1>1. ASSUME NEW k \in Key, NEW v, NEW separate, Write(k, v, separate)
        PROVE  Passes'
    BY <1>1, PassGoesOn DEF Write, memory
  <1>2. CASE \E s \in Snap : GetSnapshot(s) \/ ReleaseSnapshot(s)
    BY <1>2, PassGoesOn DEF GetSnapshot, ReleaseSnapshot
  <1>3. CASE Flush \/ InstallCompaction
    BY <1>3, PassGoesOn DEF Flush, InstallCompaction, memory
  <1>4. CASE StartGc
    BY <1>4, PassOver DEF StartGc, memory
  <1>5. CASE GcRotate
    <2>1. CASE gc' = NoPass
      BY <1>5, <2>1, PassOver DEF GcRotate
    <2>2. CASE /\ vlogs' = vlogs \cup {next} /\ next \in Gen
               /\ gc' = [gc EXCEPT !.pc = "scan", !.todo = OlderGenerations, !.retired = OlderGenerations]
      <3>1. up /\ up'
        BY <1>5 DEF GcRotate
      <3>2. gc'.pc = "scan" /\ gc'.todo = vlogs /\ gc'.retired = vlogs
        BY <1>0, <2>2 DEF Pass, OlderGenerations
      <3>3. next \in Nat /\ \A g \in vlogs : g < next /\ g \in Nat
        <4>1. next \in Nat /\ vlogs \subseteq Nat
          BY <2>2 DEF TypeOK, Gen
        <4> QED
          BY <3>1, <4>1 DEF Generations
      <3>4. next \notin vlogs /\ next \in vlogs' /\ IsLast(next, vlogs')
        BY <2>2, <3>3 DEF IsLast
      <3> QED
        BY <2>2, <3>1, <3>2, <3>4 DEF Passes
    <2> QED
      BY <1>5, <2>1, <2>2 DEF GcRotate
  <1>6. CASE GcNextGeneration
    <2>1. gc'.pc = gc.pc /\ gc.pc = "scan" /\ gc'.todo \subseteq gc.todo /\ gc'.retired = gc.retired
      BY <1>0, <1>6 DEF GcNextGeneration, Pass
    <2> QED
      BY <1>6, <2>1, PassGoesOn DEF GcNextGeneration, memory
  <1>7. CASE GcEntry
    <2>1. up /\ up' = up /\ vlogs' = vlogs /\ gcFloor' = gcFloor /\ gc.pc = "scan"
      BY <1>7 DEF GcEntry, memory
    <2>2. CASE gc' = NoPass
      BY <2>1, <2>2, PassOver
    <2>3. CASE gc' # NoPass
      <3>1. \/ gc' = [gc EXCEPT !.off = @ + 1]
            \/ gc' = [gc EXCEPT !.pc = "drain", !.off = @ + 1, !.rewritten = @ + 1]
        BY <1>7, <2>3 DEF GcEntry
      <3>2. gc'.pc \in {"scan", "drain"} /\ gc'.todo = gc.todo /\ gc'.retired = gc.retired
        BY <1>0, <2>1, <3>1 DEF Pass
      <3> QED
        BY <2>1, <3>2, PassGoesOn
    <2> QED
      BY <2>2, <2>3
  <1>8. CASE GcDrain
    <2>1. up /\ up' = up /\ vlogs' = vlogs /\ gcFloor' = gcFloor /\ gc.pc = "drain"
      BY <1>8 DEF GcDrain, memory
    <2>2. CASE gc' = NoPass
      BY <2>1, <2>2, PassOver
    <2>3. CASE gc' = [gc EXCEPT !.pc = "scan"]
      <3>1. gc'.pc = "scan" /\ gc'.todo = gc.todo /\ gc'.retired = gc.retired
        BY <1>0, <2>3 DEF Pass
      <3> QED
        BY <2>1, <3>1, PassGoesOn
    <2> QED
      BY <1>8, <2>2, <2>3 DEF GcDrain
  <1>9. CASE GcRetire
    <2>1. up /\ up' = up /\ gc.pc = "scan"
      BY <1>9 DEF GcRetire
    <2>2. CASE gc' = NoPass
      BY <2>1, <2>2, PassOver
    <2>3. CASE /\ gcFloor' = NextFloor /\ vlogs' = vlogs \ gc.retired
               /\ gc' = [gc EXCEPT !.pc = "unlink"]
      <3>1. gc'.pc = "unlink" /\ gc'.retired = gc.retired /\ gc'.rewritten = gc.rewritten
        BY <1>0, <2>3 DEF Pass
      <3>2. vlogs' = {Current} /\ gc'.retired \cap vlogs' = {}
        BY <2>1, <2>3, <3>1, RetiredAll
      <3>3. gcFloor' = NextFloor'
        BY <2>3, <3>1 DEF NextFloor
      <3> QED
        BY <2>1, <3>1, <3>2, <3>3 DEF Passes
    <2> QED
      BY <1>9, <2>2, <2>3 DEF GcRetire
  <1>10. CASE GcUnlink
    <2>1. up /\ up' = up /\ vlogs' = vlogs /\ gcFloor' = gcFloor /\ gc.pc = "unlink"
      BY <1>10 DEF GcUnlink, memory
    <2>2. CASE gc' = NoPass
      BY <2>1, <2>2, PassOver
    <2>3. CASE \E g \in gc.retired : gc' = [gc EXCEPT !.retired = @ \ {g}]
      <3>1. /\ gc'.pc = "unlink" /\ gc'.retired \subseteq gc.retired
            /\ gc'.rewritten = gc.rewritten
        BY <1>0, <2>1, <2>3 DEF Pass
      <3> QED
        BY <2>1, <3>1, PassGoesOn
    <2> QED
      BY <1>10, <2>2, <2>3 DEF GcUnlink
  <1>11. ASSUME NEW kind, Crash(kind) PROVE Passes'
    BY <1>11, PassOver DEF Crash
  <1>12. CASE Open
    BY <1>12 DEF Open, Passes
  <1>13. CASE UNCHANGED vars
    <2>1. UNCHANGED <<gc, up, snaps, vlogs, gcFloor>>
      BY <1>13 DEF vars, memory
    <2> QED
      BY <2>1 DEF Passes, NextFloor
  <1> QED
    BY <1>1, <1>2, <1>3, <1>4, <1>5, <1>6, <1>7, <1>8, <1>9, <1>10, <1>11, <1>12, <1>13, Zenon
    DEF Next, Background, Collector

-----------------------------------------------------------------------------
(***************************************************************************)
(* Pointers and the bytes they point at.                                   *)
(***************************************************************************)

\* The i-th record was there, in a generation a read could use.
Old(i) == \E j \in 1..Len(log) : SameEntry(log'[i], log[j]) /\ log[j].gen \in Alive

\* The i-th record is new and points at its entry.
New(i) ==
    /\ up /\ log'[i].gen = Current
    /\ log'[i].off \in 1..Len(vlog'[Current])
    /\ vlog'[Current][log'[i].off] = [key |-> log'[i].user, val |-> log'[i].val]
    /\ Clean /\ sync_mode = "always" => vsynced'[Current] = Len(vlog'[Current])

LEMMA EnteredPointers ==
    ASSUME TypeOK, Generations, up, up' = up, vlogs' = vlogs,
           NEW k, NEW v, NEW separate, NEW base, Entered(k, v, separate, base)
    PROVE  \A i \in 1..Len(log') : log'[i].gen \in Alive' => Old(i) \/ New(i)
  <1>0. log \in Seq(Record) /\ Alive = vlogs /\ Alive' = vlogs /\ Inline \notin vlogs
    BY DEF TypeOK, Alive, Gen, Inline
  <1>1. CASE log' = log
    BY <1>0, <1>1 DEF Old, SameEntry
  <1>2. ASSUME NEW r \in Record, AnyRecord(r),
               Clean /\ sync_mode = "always" => vsynced'[Current] = Len(vlog'[Current])
        PROVE  \A i \in 1..Len(log') : log'[i].gen \in Alive' => Old(i) \/ New(i)
    <2>1. log' = Append(log, r)
      BY <1>2 DEF AnyRecord
    <2>2. \A i \in 1..Len(log') : (i \in 1..Len(log) /\ log'[i] = log[i]) \/ log'[i] = r
      BY <1>0, <2>1
    <2>3. ASSUME NEW i \in 1..Len(log'), log'[i] = r, r.gen \in vlogs PROVE New(i)
      <3>1. /\ r.gen = Current /\ r.off \in 1..Len(vlog'[Current])
            /\ vlog'[Current][r.off] = [key |-> r.user, val |-> r.val]
        BY <1>0, <1>2, <2>3 DEF AnyRecord
      <3> QED
        BY <1>2, <2>3, <3>1 DEF New
    <2> QED
      BY <1>0, <2>2, <2>3 DEF Old, SameEntry
  <1>3. CASE /\ \E r \in Record : NewRecord(r, k, v)
             /\ sync_mode = "always" => vsynced'[Current] = Len(vlog'[Current])
    <2>1. PICK r \in Record : AnyRecord(r)
      BY <1>3, Zenon DEF NewRecord
    <2> QED
      BY <1>2, <1>3, <2>1, Zenon
  <1>4. CASE ~Clean /\ \E r \in Record : AnyRecord(r)
    BY <1>2, <1>4, Zenon
  <1> QED
    BY <1>1, <1>3, <1>4, Zenon DEF Entered

LEMMA SamePointers ==
    ASSUME TypeOK, Generations, up, up', vlogs' \subseteq vlogs \cup {next}, log' = log
    PROVE  \A i \in 1..Len(log') : log'[i].gen \in Alive' => Old(i) \/ New(i)
  <1>1. Alive = vlogs /\ Alive' = vlogs'
    BY DEF Alive
  <1> QED
    BY <1>1, RecordsBelow DEF Old, SameEntry

LEMMA PointersKept ==
    ASSUME TypeOK, Generations, Passes, [Next]_vars
    PROVE  \A i \in 1..Len(log') : log'[i].gen \in Alive' => Old(i) \/ New(i)
  <1> DEFINE Goal == \A i \in 1..Len(log') : log'[i].gen \in Alive' => Old(i) \/ New(i)
  <1>0. CASE up /\ up' /\ vlogs' \subseteq vlogs \cup {next} /\ log' = log
    BY <1>0, SamePointers
  <1>1. ASSUME NEW k \in Key, NEW separate \in BOOLEAN,
               Write(k, calls + 1, separate) \/ Write(k, NotFound, FALSE)
        PROVE  Goal
    <2>1. PICK v \in 0..MaxCalls, sep \in BOOLEAN : Write(k, v, sep)
      BY <1>1, SomeWrite
    <2>2. PICK base \in Nat : Entered(k, v, sep, base)
      BY <2>1, WriteEffect, Zenon
    <2>3. up /\ up' = up /\ vlogs' = vlogs
      BY <2>1 DEF Write, memory
    <2> QED
      BY <2>2, <2>3, EnteredPointers
  <1>2. ASSUME GcEntry PROVE Goal
    <2>1. up /\ up' = up /\ vlogs' = vlogs
      BY <1>2 DEF GcEntry, memory
    <2>2. CASE UNCHANGED log
      BY <1>0, <2>1, <2>2
    <2>3. CASE Entered(vlog[Scanned][gc.off].key, vlog[Scanned][gc.off].val, TRUE, synced)
      BY <2>1, <2>3, EnteredPointers
    <2> QED
      BY <1>2, <2>2, <2>3, GcEntryEffect, Zenon
  <1>3. ASSUME \/ \E s \in Snap : GetSnapshot(s) \/ ReleaseSnapshot(s)
               \/ Flush \/ InstallCompaction \/ StartGc \/ GcNextGeneration \/ GcDrain
        PROVE  Goal
    <2>1. up /\ UNCHANGED <<up, vlogs, log>>
      BY <1>3 DEF GetSnapshot, ReleaseSnapshot, Flush, InstallCompaction, StartGc,
         GcNextGeneration, GcDrain, memory, disk
    <2> QED
      BY <1>0, <2>1
  <1>4. ASSUME GcRotate PROVE Goal
    BY <1>0, <1>4 DEF GcRotate
  <1>5. ASSUME GcRetire PROVE Goal
    BY <1>0, <1>5 DEF GcRetire
  <1>6. ASSUME GcUnlink PROVE Goal
    BY <1>0, <1>6 DEF GcUnlink, memory
  <1>7. ASSUME NEW kind, Crash(kind) PROVE Goal
    <2>1. PICK m \in floor..rotated, n \in rotated..Len(log), keep \in Cuts(kind), torn \in BOOLEAN :
              CrashAt(kind, m, n, keep, torn)
      BY <1>7, CrashEffect, Zenon
    <2>2. \A i \in 1..Len(log') :
            log'[i].gen = Inline \/ \E j \in 1..Len(log) : SameEntry(log'[i], log[j])
      BY <2>1, SurvivorsFrom DEF CrashAt, LeftAs
    <2>3. up /\ Alive = vlogs /\ Alive' = named /\ named \subseteq vlogs \cup {next}
      BY <1>7 DEF Crash, Alive, Generations
    <2>4. Inline \notin named
      BY DEF TypeOK, Gen, Inline
    <2>5. ASSUME NEW i \in 1..Len(log'), log'[i].gen \in Alive' PROVE Old(i)
      <3>1. PICK j \in 1..Len(log) : SameEntry(log'[i], log[j])
        BY <2>2, <2>3, <2>4, <2>5
      <3>2. log[j].gen = log'[i].gen /\ log[j].gen # next
        BY <2>3, <3>1, RecordsBelow DEF SameEntry
      <3> QED
        BY <2>3, <2>5, <3>1, <3>2 DEF Old
    <2> QED
      BY <2>5
  <1>8. ASSUME Open PROVE Goal
    <2>1. log' = log /\ Alive = named /\ Alive' = named
      BY <1>8 DEF Open, Alive
    <2> QED
      BY <2>1 DEF Old, SameEntry
  <1>9. ASSUME UNCHANGED vars PROVE Goal
    <2>1. log' = log /\ Alive' = Alive
      BY <1>9 DEF vars, memory, disk, Alive
    <2> QED
      BY <2>1 DEF Old, SameEntry
  <1> HIDE DEF Goal
  <1>10. Goal
    BY <1>1, <1>2, <1>3, <1>4, <1>5, <1>6, <1>7, <1>8, <1>9, Zenon
    DEF Next, Background, Collector
  <1> QED
    BY <1>10 DEF Goal

\* Generation g keeps its entries, and fsync has covered no less of them.
KeptIn(g) ==
    /\ vsynced[g] <= vsynced'[g]
    /\ Len(vlog[g]) <= Len(vlog'[g])
    /\ \A i \in 1..Len(vlog[g]) : vlog'[g][i] = vlog[g][i]

LEMMA SameBytes ==
    ASSUME TypeOK, NEW g \in Gen, vlog'[g] = vlog[g], vsynced'[g] = vsynced[g]
    PROVE  KeptIn(g)
  <1>1. Len(vlog[g]) \in Nat /\ vsynced[g] \in Nat
    BY DEF TypeOK
  <1> QED
    BY <1>1 DEF KeptIn

LEMMA EnteredBytes ==
    ASSUME TypeOK, NEW k, NEW v, NEW separate, NEW base, Entered(k, v, separate, base)
    PROVE  \A g \in Gen : KeptIn(g)
  BY DEF Entered, KeptIn, Keeps

LEMMA BytesKept ==
    ASSUME TypeOK, Generations, Passes, [Next]_vars, \A kind : ~Crash(kind)
    PROVE  \A g \in Alive \cap Alive' : KeptIn(g)
  <1> DEFINE Goal == \A g \in Alive \cap Alive' : KeptIn(g)
  <1>a. Alive \cap Alive' \subseteq Gen
    BY DEF Alive, TypeOK
  <1>0. CASE UNCHANGED <<vlog, vsynced>>
    BY <1>0, <1>a, SameBytes
  <1>1. ASSUME NEW k \in Key, NEW separate \in BOOLEAN,
               Write(k, calls + 1, separate) \/ Write(k, NotFound, FALSE)
        PROVE  Goal
    <2>1. PICK v \in 0..MaxCalls, sep \in BOOLEAN : Write(k, v, sep)
      BY <1>1, SomeWrite
    <2>2. PICK base \in Nat : Entered(k, v, sep, base)
      BY <2>1, WriteEffect, Zenon
    <2> QED
      BY <1>a, <2>2, EnteredBytes
  <1>2. ASSUME GcEntry PROVE Goal
    <2>1. CASE UNCHANGED <<log, synced, vlog, vsynced>>
      BY <1>0, <2>1
    <2>2. CASE Entered(vlog[Scanned][gc.off].key, vlog[Scanned][gc.off].val, TRUE, synced)
      BY <1>a, <2>2, EnteredBytes
    <2> QED
      BY <1>2, <2>1, <2>2, GcEntryEffect, Zenon
  <1>3. ASSUME \/ \E s \in Snap : GetSnapshot(s) \/ ReleaseSnapshot(s)
               \/ Flush \/ InstallCompaction \/ StartGc \/ GcRotate \/ GcNextGeneration \/ GcDrain
        PROVE  Goal
    <2>1. UNCHANGED <<vlog, vsynced>>
      BY <1>3 DEF GetSnapshot, ReleaseSnapshot, Flush, InstallCompaction, StartGc, GcRotate,
         GcNextGeneration, GcDrain, disk
    <2> QED
      BY <1>0, <2>1
  <1>4. ASSUME GcRetire PROVE Goal
    <2>1. CASE vsynced' = vsynced
      BY <1>0, <1>4, <2>1 DEF GcRetire
    <2>2. CASE ForceDurability
      <3>1. up /\ vlog' = vlog
        BY <1>4 DEF GcRetire
      <3>2. \A g \in Gen : vsynced[g] <= vsynced'[g]
        BY <2>2, <3>1, CurrentIs, ForceBytes
      <3>3. \A g \in Gen : vlog'[g] = vlog[g] /\ Len(vlog[g]) \in Nat
        BY <3>1 DEF TypeOK
      <3> QED
        BY <1>a, <3>2, <3>3 DEF KeptIn
    <2> QED
      BY <1>4, <2>1, <2>2 DEF GcRetire
  <1>5. ASSUME GcUnlink PROVE Goal
    <2>1. PICK g \in gc.retired :
            vlog' = [vlog EXCEPT ![g] = <<>>] /\ vsynced' = [vsynced EXCEPT ![g] = 0]
      BY <1>5 DEF GcUnlink
    <2>2. up /\ Alive = vlogs /\ g \notin vlogs
      BY <1>5 DEF GcUnlink, Passes, Alive
    <2>3. \A h \in Gen : h # g => vlog'[h] = vlog[h] /\ vsynced'[h] = vsynced[h]
      BY <2>1 DEF TypeOK
    <2> QED
      BY <1>a, <2>2, <2>3, SameBytes
  <1>6. ASSUME Open PROVE Goal
    <2>1. Alive = named
      BY <1>6 DEF Open, Alive
    <2>2. \A g \in named : g \in Gen => vlog'[g] = vlog[g] /\ vsynced'[g] = vsynced[g]
      BY <1>6 DEF Open, OpenVlog
    <2> QED
      BY <1>a, <2>1, <2>2, SameBytes
  <1>7. ASSUME UNCHANGED vars PROVE Goal
    BY <1>0, <1>7 DEF vars, disk
  <1> HIDE DEF Goal
  <1>8. Goal
    BY <1>1, <1>2, <1>3, <1>4, <1>5, <1>6, <1>7, Zenon
    DEF Next, Background, Collector
  <1> QED
    BY <1>8 DEF Goal

\* Value bytes are covered by fsync before the record that points at them.
LEMMA DurableStep ==
    ASSUME Clean, TypeOK, TypeOK', Generations, Passes, Durable, [Next]_vars
    PROVE  Durable'
  <1>0. sync_mode' = sync_mode
    BY DEF Next, Write, GetSnapshot, ReleaseSnapshot, Background, Flush, InstallCompaction, Collector,
       StartGc, GcRotate, GcNextGeneration, GcEntry, GcDrain, GcRetire, GcUnlink, Crash, Open,
       memory, vars
  <1>1. \A g \in Alive \cap Alive' : vsynced[g] <= vsynced'[g]
    <2>1. CASE \A kind : ~Crash(kind)
      BY <2>1, BytesKept DEF KeptIn
    <2>2. ASSUME NEW kind, Crash(kind), NEW g \in Gen PROVE vsynced[g] <= vsynced'[g]
      <3>1. PICK m \in floor..rotated, n \in rotated..Len(log), keep \in Cuts(kind), torn \in BOOLEAN :
                CrashAt(kind, m, n, keep, torn)
        BY <2>2, CrashEffect, Zenon
      <3>2. vsynced[g] <= Len(vlog'[g]) /\ vsynced[g] \in Nat
        BY <3>1, VlogLeft DEF TypeOK, LeftOf
      <3>3. vsynced' = [h \in Gen |-> Len(vlog'[h])] \/ vsynced' = vsynced
        BY <2>2 DEF Crash
      <3> QED
        BY <3>2, <3>3
    <2>3. Alive \subseteq Gen
      BY DEF Alive, TypeOK
    <2> QED
      BY <2>1, <2>2, <2>3
  <1> SUFFICES ASSUME sync_mode = "always", NEW i \in 1..Len(log'), log'[i].gen \in Alive'
               PROVE  log'[i].off <= vsynced'[log'[i].gen]
    BY <1>0 DEF Durable
  <1>2. CASE Old(i)
    <2>1. PICK j \in 1..Len(log) :
            log'[i].gen = log[j].gen /\ log'[i].off = log[j].off /\ log[j].gen \in Alive
      BY <1>2 DEF Old, SameEntry
    <2> DEFINE g == log[j].gen
    <2>2. log[j].off <= vsynced[g]
      BY <2>1 DEF Durable
    <2>3. vsynced[g] <= vsynced'[g]
      BY <1>1, <2>1
    <2>4. g \in Gen
      BY <2>1 DEF Alive, TypeOK
    <2>5. vsynced[g] \in Nat /\ vsynced'[g] \in Nat
      BY <2>4 DEF TypeOK
    <2>6. log[j] \in Record
      <3>1. log \in Seq(Record)
        BY DEF TypeOK
      <3> QED
        BY <2>1, <3>1
    <2>7. log[j].off \in Nat
      BY <2>6 DEF Record
    <2> HIDE DEF g
    <2>8. log[j].off <= vsynced'[g]
      BY <2>2, <2>3, <2>5, <2>7
    <2> QED
      BY <2>1, <2>8 DEF g
  <1>3. CASE New(i)
    <2>1. /\ log'[i].gen = Current /\ log'[i].off \in 1..Len(vlog'[Current])
          /\ vsynced'[Current] = Len(vlog'[Current])
      BY <1>3 DEF New
    <2> QED
      BY <2>1
  <1> QED
    BY <1>2, <1>3, PointersKept

-----------------------------------------------------------------------------
(***************************************************************************)
(* The collector comes to rest.                                            *)
(***************************************************************************)

\* The entries of a pass take less than twice the values it has counted.
LEMMA FloorCovers ==
    ASSUME NEW r \in Nat, kOverhead < kValueSize, r # 0
    PROVE  r * (kValueSize + kOverhead) < 2 * r * kValueSize
  <1>1. kValueSize \in Nat /\ kOverhead \in Nat /\ kValueSize # 0
    BY VlogAssumption
  <1>2. PICK d \in Nat : kValueSize = kOverhead + d /\ d # 0
    <2>1. kValueSize - kOverhead \in Nat /\ kValueSize - kOverhead # 0
          /\ kValueSize = kOverhead + (kValueSize - kOverhead)
      BY <1>1
    <2> QED
      BY <2>1
  <1>3. r * d \in Nat /\ r * d > 0
    BY <1>2
  <1>4. 2 * r * kValueSize = r * (kValueSize + kOverhead) + r * d
    BY <1>1, <1>2
  <1>5. r * (kValueSize + kOverhead) \in Nat
    BY <1>1
  <1> QED
    BY <1>3, <1>4, <1>5

LEMMA SettledMeansIdle ==
    ASSUME TypeOK, Generations, Settled, quiet, up
    PROVE  ~VlogGcNeeded
  <1>1. PICK g \in vlogs : vlogs = {g} /\ (FileSize(g) < vlog_gc_size \/ FileSize(g) < gcFloor)
    BY DEF Settled
  <1>2. Current = g
    BY <1>1, CurrentIs
  <1>3. Cardinality(vlogs) = 1
    BY <1>1, FS_Singleton
  <1>4. vlog[g] \in Seq(Cell)
    BY <1>1 DEF TypeOK
  <1>5. FileSize(g) \in Nat /\ gcFloor \in Nat /\ vlog_gc_size \in Nat
    <2>1. Len(vlog[g]) \in Nat /\ kValueSize + kOverhead \in Nat
      BY <1>4, VlogAssumption
    <2>2. FileSize(g) \in Nat
      BY <2>1 DEF FileSize
    <2> QED
      BY <2>2, VlogAssumption DEF TypeOK
  <1>6. ~(FileSize(g) >= vlog_gc_size /\ FileSize(g) >= gcFloor)
    BY <1>1, <1>5
  <1>7. ~(Cardinality(vlogs) > 1)
    BY <1>3
  <1> QED
    BY <1>2, <1>6, <1>7 DEF VlogGcNeeded

LEMMA SettledStep ==
    ASSUME kOverhead < kValueSize, TypeOK, Generations, Passes, Settled, [Next]_vars
    PROVE  Settled'
  <1>1. ASSUME ~quiet' PROVE Settled'
    BY <1>1 DEF Settled
  <1>2. ASSUME UNCHANGED <<quiet, gc, vlogs, vlog, gcFloor>> PROVE Settled'
    BY <1>2 DEF Settled, FileSize
  <1>3. ASSUME NEW k, NEW v, NEW separate, Write(k, v, separate) PROVE Settled'
    BY <1>1, <1>3 DEF Write
  <1>4. ASSUME \/ \E s \in Snap : GetSnapshot(s) \/ ReleaseSnapshot(s)
               \/ Flush \/ InstallCompaction
        PROVE  Settled'
    BY <1>2, <1>4 DEF GetSnapshot, ReleaseSnapshot, Flush, InstallCompaction, memory, disk, history
  <1>5. ASSUME StartGc PROVE Settled'
    <2>1. ~quiet
      BY <1>5, SettledMeansIdle DEF StartGc
    <2> QED
      BY <1>1, <1>5, <2>1 DEF StartGc, history
  <1>6. ASSUME GcRotate PROVE Settled'
    BY <1>1, <1>6 DEF GcRotate
  <1>7. ASSUME GcNextGeneration \/ GcEntry \/ GcDrain \/ GcRetire PROVE Settled'
    <2>1. gc.pc # "idle" /\ quiet' = quiet
      BY <1>7 DEF GcNextGeneration, GcEntry, GcDrain, GcRetire, history
    <2> QED
      BY <1>1, <2>1 DEF Settled
  <1>8. ASSUME GcUnlink PROVE Settled'
    <2>1. PICK g \in gc.retired :
            /\ vlog' = [vlog EXCEPT ![g] = <<>>]
            /\ IF gc.retired = {g}
               THEN gc' = NoPass /\ quiet' = (Len(vlog[Current]) = gc.rewritten)
               ELSE gc' = [gc EXCEPT !.retired = @ \ {g}] /\ UNCHANGED quiet
      BY <1>8, Zenon DEF GcUnlink
    <2>2. /\ up /\ gc.pc = "unlink" /\ ~quiet
          /\ vlogs' = vlogs /\ gcFloor' = gcFloor
      BY <1>8 DEF GcUnlink, Settled, memory
    <2>3. CASE ~quiet'
      BY <1>1, <2>3
    <2>4. CASE quiet'
      <3>1. gc' = NoPass /\ Len(vlog[Current]) = gc.rewritten
        BY <2>1, <2>2, <2>4
      <3>2. PICK h \in vlogs : vlogs = {h}
        BY <2>2 DEF Passes
      <3>3. Current = h /\ h \in Gen
        BY <2>2, <3>2, CurrentIs
      <3>4. h # g
        BY <2>2, <3>2 DEF Passes
      <3>5. vlog'[h] = vlog[h]
        BY <2>1, <3>3, <3>4 DEF TypeOK
      <3>6. FileSize(h)' = gc.rewritten * (kValueSize + kOverhead)
        BY <3>1, <3>3, <3>5 DEF FileSize
      <3>7. gcFloor' = 2 * gc.rewritten * kValueSize /\ gc.rewritten \in Nat
        BY <2>2 DEF Passes, NextFloor, TypeOK, Pass
      <3>8. FileSize(h)' < vlog_gc_size \/ FileSize(h)' < gcFloor'
        <4>1. CASE gc.rewritten = 0
          BY <3>6, <4>1, VlogAssumption
        <4>2. CASE gc.rewritten # 0
          BY <3>6, <3>7, <4>2, FloorCovers
        <4> QED
          BY <4>1, <4>2
      <3>9. gc'.pc = "idle"
        BY <3>1 DEF NoPass
      <3> QED
        BY <2>2, <3>2, <3>8, <3>9 DEF Settled
    <2> QED
      BY <2>3, <2>4
  <1>9. ASSUME NEW kind, Crash(kind) PROVE Settled'
    BY <1>1, <1>9 DEF Crash
  <1>10. ASSUME Open PROVE Settled'
    <2>1. ~up /\ quiet' = quiet
      BY <1>10 DEF Open, history
    <2>2. ~quiet
      BY <2>1 DEF Settled, Generations
    <2> QED
      BY <1>1, <2>1, <2>2
  <1>11. ASSUME UNCHANGED vars PROVE Settled'
    BY <1>2, <1>11 DEF vars, memory, disk, history
  <1> QED
    BY <1>3, <1>4, <1>5, <1>6, <1>7, <1>8, <1>9, <1>10, <1>11, Zenon
    DEF Next, Background, Collector

-----------------------------------------------------------------------------
(***************************************************************************)
(* No pointer into bytes of another entry.                                 *)
(***************************************************************************)

\* A power cut that keeps a record keeps the value it points at.
LEMMA ExactStep ==
    ASSUME "reorder" \notin Damage, TypeOK, Generations, Passes, Exact, [Next]_vars
    PROVE  Exact'
  <1> SUFFICES ASSUME NEW i \in 1..Len(log'), log'[i].gen \in Alive'
               PROVE  /\ log'[i].off \in 1..Len(vlog'[log'[i].gen])
                      /\ vlog'[log'[i].gen][log'[i].off] = [key |-> log'[i].user, val |-> log'[i].val]
    BY DEF Exact
  <1>1. CASE New(i)
    BY <1>1 DEF New
  <1>2. CASE Old(i)
    <2>1. PICK j \in 1..Len(log) :
            /\ log'[i].gen = log[j].gen /\ log'[i].off = log[j].off
            /\ log'[i].user = log[j].user /\ log'[i].val = log[j].val
            /\ log[j].gen \in Alive
      BY <1>2 DEF Old, SameEntry
    <2> DEFINE g == log[j].gen
               o == log[j].off
    <2>2. o \in 1..Len(vlog[g]) /\ vlog[g][o] = [key |-> log[j].user, val |-> log[j].val]
      BY <2>1 DEF Exact
    <2>3. g \in Gen /\ g \in Alive \cap Alive'
      BY <2>1 DEF Alive, TypeOK
    <2>4. Len(vlog[g]) \in Nat
      BY <2>3 DEF TypeOK
    <2> SUFFICES o \in 1..Len(vlog'[g]) /\ vlog'[g][o] = vlog[g][o]
      BY <2>1, <2>2
    <2>5. CASE \A kind : ~Crash(kind)
      <3>1. Len(vlog[g]) <= Len(vlog'[g]) /\ \A n \in 1..Len(vlog[g]) : vlog'[g][n] = vlog[g][n]
        BY <2>3, <2>5, BytesKept DEF KeptIn
      <3>2. TypeOK'
        BY TypeStep
      <3>3. Len(vlog'[g]) \in Nat
        <4>1. vlog' \in [Gen -> Seq(Cell)]
          BY <3>2 DEF TypeOK
        <4> QED
          BY <2>3, <4>1
      <3> HIDE DEF g, o
      <3> QED
        BY <2>2, <2>4, <3>1, <3>3
    <2>6. ASSUME NEW kind, Crash(kind)
          PROVE  o \in 1..Len(vlog'[g]) /\ vlog'[g][o] = vlog[g][o]
      <3>1. PICK m \in floor..rotated, n \in rotated..Len(log), keep \in Cuts(kind), torn \in BOOLEAN :
                CrashAt(kind, m, n, keep, torn)
        BY <2>6, CrashEffect, Zenon
      <3> DEFINE l == Left(keep, g)
      <3>2. /\ l \in Nat /\ l <= Len(vlog'[g]) /\ vlog' \in [Gen -> Seq(Cell)]
            /\ \A p \in 1..l : vlog'[g][p] = vlog[g][p]
        <4>1. LeftOf(keep, torn, g) /\ vlog' \in [Gen -> Seq(Cell)]
          BY <2>3, <3>1, VlogLeft, Zenon
        <4> QED
          BY <4>1, Zenon DEF LeftOf
      <3>3. Len(vlog'[g]) \in Nat
        BY <2>3, <3>2
      <3>4. o <= l
        <4>1. CASE g \in DOMAIN keep
          BY <2>1, <3>1, <4>1 DEF CrashAt, Left
        <4>2. CASE g \notin DOMAIN keep
          BY <2>2, <4>2 DEF Left
        <4> QED
          BY <4>1, <4>2
      <3> HIDE DEF g, o, l
      <3>5. o \in 1..l /\ o \in 1..Len(vlog'[g])
        BY <2>2, <2>4, <3>2, <3>3, <3>4
      <3> QED
        BY <3>2, <3>5
    <2> QED
      BY <2>5, <2>6
  <1> QED
    BY <1>1, <1>2, PointersKept

\* Each entry is one that was there, or was appended whole.
LEMMA NothingTornStep ==
    ASSUME "torn" \notin Damage, TypeOK, Generations, Passes, NothingTorn, [Next]_vars
    PROVE  NothingTorn'
  <1>0. ASSUME UNCHANGED vlog PROVE NothingTorn'
    BY <1>0 DEF NothingTorn
  <1>1. ASSUME NEW k, NEW v, NEW separate, NEW base, Entered(k, v, separate, base),
               separate => [key |-> k, val |-> v] # Torn
        PROVE  NothingTorn'
    <2>1. \A h \in Gen, i \in Nat : i \in 1..Len(vlog'[h]) =>
                i \in 1..Len(vlog[h]) \/ (separate /\ vlog'[h][i] = [key |-> k, val |-> v])
      BY <1>1, Zenon DEF Entered
    <2>2. \A h \in Gen : \A i \in 1..Len(vlog[h]) : vlog'[h][i] = vlog[h][i]
      BY <1>1, Zenon DEF Entered, Keeps
    <2>3. ASSUME NEW h \in Gen, NEW i \in 1..Len(vlog'[h]) PROVE vlog'[h][i] # Torn
      <3>1. i \in Nat
        OBVIOUS
      <3> QED
        BY <1>1, <2>1, <2>2, <3>1, Zenon DEF NothingTorn
    <2> QED
      BY <2>3, Zenon DEF NothingTorn
  <1>2. ASSUME NEW k \in Key, NEW separate \in BOOLEAN,
               Write(k, calls + 1, separate) \/ Write(k, NotFound, FALSE)
        PROVE  NothingTorn'
    <2>1. PICK v \in 0..MaxCalls, sep \in BOOLEAN : Write(k, v, sep) /\ (sep => v # NotFound)
      BY <1>2, SomeWrite
    <2>2. PICK base \in Nat : Entered(k, v, sep, base)
      BY <2>1, WriteEffect, Zenon
    <2>3. sep => [key |-> k, val |-> v] # Torn
      BY <2>1 DEF Torn
    <2> QED
      BY <1>1, <2>2, <2>3
  <1>3. ASSUME GcEntry PROVE NothingTorn'
    <2> DEFINE k == vlog[Scanned][gc.off].key
               v == vlog[Scanned][gc.off].val
    <2>1. [key |-> k, val |-> v] # Torn
      BY <1>3, EntryScanned DEF GcEntry
    <2>2. UNCHANGED vlog \/ Entered(k, v, TRUE, synced)
      BY <1>3, GcEntryEffect, Zenon
    <2> HIDE DEF k, v
    <2> QED
      BY <1>0, <1>1, <2>1, <2>2, Zenon
  <1>4. ASSUME \/ \E s \in Snap : GetSnapshot(s) \/ ReleaseSnapshot(s)
               \/ Flush \/ InstallCompaction \/ StartGc \/ GcRotate \/ GcNextGeneration \/ GcDrain
               \/ GcRetire
        PROVE  NothingTorn'
    <2>1. UNCHANGED vlog
      BY <1>4 DEF GetSnapshot, ReleaseSnapshot, Flush, InstallCompaction, StartGc, GcRotate,
         GcNextGeneration, GcDrain, GcRetire, disk
    <2> QED
      BY <1>0, <2>1
  <1>5. ASSUME \A g \in Gen : vlog'[g] \in {vlog[g], <<>>} PROVE NothingTorn'
    <2>1. ASSUME NEW g \in Gen, NEW i \in 1..Len(vlog'[g]) PROVE vlog'[g][i] # Torn
      <3>1. CASE vlog'[g] = vlog[g]
        BY <2>1, <3>1 DEF NothingTorn
      <3>2. CASE vlog'[g] = <<>>
        <4>1. Len(<<>>) = 0
          BY EmptySeq
        <4> QED
          BY <2>1, <3>2, <4>1
      <3> QED
        BY <1>5, <3>1, <3>2
    <2> QED
      BY <2>1, Zenon DEF NothingTorn
  <1>6. ASSUME GcUnlink PROVE NothingTorn'
    <2>1. PICK g \in gc.retired : vlog' = [vlog EXCEPT ![g] = <<>>]
      BY <1>6 DEF GcUnlink
    <2>2. \A h \in Gen : vlog'[h] \in {vlog[h], <<>>}
      BY <2>1 DEF TypeOK
    <2> QED
      BY <1>5, <2>2
  <1>7. ASSUME Open PROVE NothingTorn'
    BY <1>5, <1>7 DEF Open, OpenVlog
  <1>8. ASSUME NEW kind, Crash(kind) PROVE NothingTorn'
    <2>1. PICK m \in floor..rotated, n \in rotated..Len(log), keep \in Cuts(kind), torn \in BOOLEAN :
              CrashAt(kind, m, n, keep, torn) /\ ("torn" \notin Damage => ~torn)
      BY <1>8, CrashEffect, Zenon
    <2>2. ASSUME NEW g \in Gen, NEW i \in 1..Len(vlog'[g]) PROVE vlog'[g][i] # Torn
      <3> DEFINE l == Left(keep, g)
      <3>1. /\ l \in Nat /\ l <= Len(vlog[g])
            /\ Len(vlog'[g]) = IF torn /\ g = Current THEN l + 1 ELSE l
            /\ \A p \in 1..l : vlog'[g][p] = vlog[g][p]
        <4>1. LeftOf(keep, torn, g)
          BY <2>1, VlogLeft, Zenon
        <4> QED
          BY <4>1, Zenon DEF LeftOf
      <3>2. Len(vlog'[g]) = l
        BY <2>1, <3>1
      <3>3. Len(vlog[g]) \in Nat
        BY DEF TypeOK
      <3> HIDE DEF l
      <3>4. i \in 1..l /\ i \in 1..Len(vlog[g])
        BY <3>1, <3>2, <3>3
      <3> QED
        BY <3>1, <3>4 DEF NothingTorn
    <2> QED
      BY <2>2, Zenon DEF NothingTorn
  <1>9. ASSUME UNCHANGED vars PROVE NothingTorn'
    BY <1>0, <1>9 DEF vars, disk
  <1> QED
    BY <1>2, <1>3, <1>4, <1>6, <1>7, <1>8, <1>9, Zenon
    DEF Next, Background, Collector

-----------------------------------------------------------------------------
(***************************************************************************)
(* No write fails with its bytes in the WAL.                               *)
(***************************************************************************)

LEMMA NoneFailedStep ==
    ASSUME Clean, TypeOK, Generations, NoneFailed, [Next]_vars
    PROVE  NoneFailed'
  <1>a. log \in Seq(Record)
    BY DEF TypeOK
  <1>0. ASSUME UNCHANGED log PROVE NoneFailed'
    BY <1>0 DEF NoneFailed
  <1>1. ASSUME NEW r \in Record, NEW k, NEW v, NewRecord(r, k, v) PROVE NoneFailed'
    <2>1. log' = Append(log, r) /\ r.key = r.user
      BY <1>1, Zenon DEF NewRecord, AnyRecord
    <2>2. \A i \in 1..Len(log') : (i \in 1..Len(log) /\ log'[i] = log[i]) \/ log'[i] = r
      BY <1>a, <2>1
    <2> QED
      BY <2>1, <2>2, Zenon DEF NoneFailed
  <1>2. ASSUME NEW k \in Key, NEW separate \in BOOLEAN,
               Write(k, calls + 1, separate) \/ Write(k, NotFound, FALSE)
        PROVE  NoneFailed'
    <2>1. PICK v \in 0..MaxCalls, sep \in BOOLEAN : Write(k, v, sep)
      BY <1>2, SomeWrite
    <2>2. log' = log \/ \E r \in Record : NewRecord(r, k, v)
      BY <2>1, WriteEffect, Zenon
    <2> QED
      BY <1>0, <1>1, <2>2, Zenon
  <1>3. ASSUME GcEntry PROVE NoneFailed'
    <2> DEFINE k == vlog[Scanned][gc.off].key
               v == vlog[Scanned][gc.off].val
    <2>1. log' = log \/ \E r \in Record : NewRecord(r, k, v)
      BY <1>3, GcEntryEffect, Zenon
    <2> HIDE DEF k, v
    <2> QED
      BY <1>0, <1>1, <2>1, Zenon
  <1>4. ASSUME \/ \E s \in Snap : GetSnapshot(s) \/ ReleaseSnapshot(s)
               \/ Flush \/ InstallCompaction \/ StartGc \/ GcRotate \/ GcNextGeneration \/ GcDrain
               \/ GcRetire \/ GcUnlink \/ Open \/ UNCHANGED vars
        PROVE  NoneFailed'
    <2>1. UNCHANGED log
      BY <1>4 DEF GetSnapshot, ReleaseSnapshot, Flush, InstallCompaction, StartGc, GcRotate,
         GcNextGeneration, GcDrain, GcRetire, GcUnlink, Open, vars, disk
    <2> QED
      BY <1>0, <2>1
  <1>5. ASSUME NEW kind, Crash(kind) PROVE NoneFailed'
    <2>1. PICK m \in floor..rotated, n \in rotated..Len(log), keep \in Cuts(kind), torn \in BOOLEAN :
              CrashAt(kind, m, n, keep, torn)
      BY <1>5, CrashEffect, Zenon
    <2>2. log' = Survivors(m, n)
      BY <2>1 DEF CrashAt
    <2>3. \A i \in 1..Len(log') : \E j \in 1..Len(log) : log'[i] = log[j]
      BY <2>2, SurvivorsFrom DEF LeftAs
    <2> QED
      BY <2>3, Zenon DEF NoneFailed
  <1> QED
    BY <1>2, <1>3, <1>4, <1>5, Zenon
    DEF Next, Background, Collector

-----------------------------------------------------------------------------
(***************************************************************************)
(* The newest records across a step.                                       *)
(***************************************************************************)

\* The history grows by one record at most.
LEMMA NewestGrows ==
    ASSUME TypeOK, NEW r \in Record, log' = Append(log, r)
    PROVE  /\ Len(log') = Len(log) + 1 /\ Len(log) \in Nat
           /\ \A k : NewestOf(log', k) = IF r.key = k THEN r ELSE NewestOf(log, k)
           /\ \A m \in 0..Len(log) : SubSeq(log', 1, m) = SubSeq(log, 1, m)
           /\ SubSeq(log', 1, Len(log')) = log'
  <1>1. log \in Seq(Record)
    BY DEF TypeOK
  <1>2. log' \in Seq(Record) /\ Len(log') = Len(log) + 1 /\ Len(log) \in Nat
    BY <1>1
  <1>3. \A k : NewestOf(Append(log, r), k) = IF r.key = k THEN r ELSE NewestOf(log, k)
    BY <1>1, NewestAppend
  <1>4. \A m \in 0..Len(log) : SubSeq(Append(log, r), 1, m) = SubSeq(log, 1, m)
    BY <1>1, PrefixAppend
  <1>5. SubSeq(log', 1, Len(log')) = log'
    BY <1>2, PrefixFull
  <1> QED
    BY <1>2, <1>3, <1>4, <1>5, Zenon

LEMMA WholeLog ==
    ASSUME TypeOK
    PROVE  /\ SubSeq(log, 1, Len(log)) = log /\ Len(log) \in Nat
           /\ \A k : RecordOf(k, Len(log)) = NewestOf(log, k)
  <1>1. log \in Seq(Record)
    BY DEF TypeOK
  <1>2. SubSeq(log, 1, Len(log)) = log /\ Len(log) \in Nat
    BY <1>1, PrefixFull
  <1>3. \A k : RecordOf(k, Len(log)) = NewestOf(log, k)
    BY <1>2, Zenon DEF RecordOf
  <1> QED
    BY <1>2, <1>3, Zenon

\* The newest record of a key, when it points into an open generation, points
\* at its entry.
LEMMA NewestExact ==
    ASSUME TypeOK, NoneFailed, Exact, NEW k, NewestOf(log, k).gen \in Alive
    PROVE  LET r == NewestOf(log, k) IN
           /\ r.key = k /\ r.off \in 1..Len(vlog[r.gen])
           /\ vlog[r.gen][r.off] = [key |-> k, val |-> r.val]
  <1>1. log \in Seq(Record) /\ Inline \notin Alive
    BY DEF TypeOK, Alive, Gen, Inline
  <1>2. NewestOf(log, k).gen # Inline
    BY <1>1
  <1>3. PICK i \in 1..Len(log) : NewestOf(log, k) = log[i] /\ log[i].key = k
    BY <1>1, <1>2, NewestRecord
  <1>4. log[i].gen \in Alive
    BY <1>3
  <1>5. /\ log[i].off \in 1..Len(vlog[log[i].gen])
        /\ vlog[log[i].gen][log[i].off] = [key |-> log[i].user, val |-> log[i].val]
        /\ log[i].key = log[i].user
    BY <1>4 DEF Exact, NoneFailed
  <1> QED
    BY <1>3, <1>5

\* What an open database reads as the latest of a key is in an open generation.
LEMMA LatestOpen ==
    ASSUME TypeOK, Generations, Recoverable, up, ~skipped, NEW k \in Key
    PROVE  NewestOf(log, k).gen \in {Inline} \cup vlogs /\ NewestOf(log, k).gen \in {Inline} \cup named
  <1>0. log \in Seq(Record)
    BY DEF TypeOK
  <1>1. SubSeq(log, 1, Len(log)) = log /\ Len(log) \in Nat
    BY WholeLog
  <1>2. Len(log) \in Safe..Len(log)
    BY <1>1 DEF TypeOK, Safe
  <1>3. NewestOf(SubSeq(log, 1, Len(log)), k).gen \in {Inline} \cup named
    BY <1>2 DEF Recoverable
  <1>4. NewestOf(log, k).gen \in {Inline} \cup named
    BY <1>1, <1>3
  <1>5. CASE NewestOf(log, k).gen # Inline
    <2>1. PICK i \in 1..Len(log) : NewestOf(log, k) = log[i]
      BY <1>0, <1>5, NewestRecord
    <2>2. NewestOf(log, k).gen # next
      BY <2>1, RecordsBelow
    <2> QED
      BY <1>4, <1>5, <2>2 DEF Generations
  <1> QED
    BY <1>4, <1>5

\* The entry the collector finds live is the value the key has.
LEMMA LiveIsNewest ==
    ASSUME TypeOK, NoneFailed, Passes, Exact, up, gc.pc = "scan", gc.todo # {}, ~EndOfScan
    PROVE  LET c == vlog[Scanned][gc.off] IN
           /\ Live(Scanned, gc.off) => NewestOf(log, c.key).val = c.val
           /\ \A k : (NewestOf(log, k).gen = Scanned /\ NewestOf(log, k).off = gc.off) =>
                 c.key = k /\ Live(Scanned, gc.off)
  <1>1. Scanned \in gc.todo /\ Scanned \in Gen
    BY ScannedIs
  <1>2. Scanned \in Alive
    BY <1>1 DEF Passes, Alive
  <1> DEFINE c == vlog[Scanned][gc.off]
  <1>3. ASSUME NEW k, NewestOf(log, k).gen = Scanned, NewestOf(log, k).off = gc.off
        PROVE  c = [key |-> k, val |-> NewestOf(log, k).val]
    BY <1>2, <1>3, NewestExact
  <1>4. ASSUME Live(Scanned, gc.off) PROVE NewestOf(log, c.key).val = c.val
    <2>1. NewestOf(log, c.key).gen = Scanned /\ NewestOf(log, c.key).off = gc.off
      BY <1>4, WholeLog DEF Live
    <2>2. c = [key |-> c.key, val |-> NewestOf(log, c.key).val]
      BY <1>3, <2>1
    <2> HIDE DEF c
    <2> QED
      BY <2>2
  <1>5. ASSUME NEW k, NewestOf(log, k).gen = Scanned, NewestOf(log, k).off = gc.off
        PROVE  c.key = k /\ Live(Scanned, gc.off)
    <2>0. c = [key |-> k, val |-> NewestOf(log, k).val]
      BY <1>3, <1>5
    <2>1. c.key = k
      <3> HIDE DEF c
      <3> QED
        BY <2>0
    <2> QED
      BY <1>5, <2>1, WholeLog DEF Live
  <1> QED
    BY <1>4, <1>5, Zenon

-----------------------------------------------------------------------------
(***************************************************************************)
(* The stored values.                                                      *)
(***************************************************************************)

LEMMA StoredStep ==
    ASSUME Clean, TypeOK, NoneFailed, Generations, Passes, Exact, Stored, [Next]_vars
    PROVE  Stored'
  <1>0. ASSUME UNCHANGED <<log, store>> PROVE Stored'
    BY <1>0 DEF Stored
  <1>1. ASSUME NEW k \in Key, NEW separate \in BOOLEAN,
               Write(k, calls + 1, separate) \/ Write(k, NotFound, FALSE)
        PROVE  Stored'
    <2>1. PICK v \in 0..MaxCalls, sep \in BOOLEAN : Write(k, v, sep)
      BY <1>1, SomeWrite
    <2>2. \/ log' = log /\ store' = store
          \/ (\E r \in Record : NewRecord(r, k, v)) /\ store' = [store EXCEPT ![k] = v]
      BY <2>1, WriteEffect, Zenon
    <2>3. CASE (\E r \in Record : NewRecord(r, k, v)) /\ store' = [store EXCEPT ![k] = v]
      <3>1. PICK r \in Record : log' = Append(log, r) /\ r.key = k /\ r.val = v
        BY <2>3, Zenon DEF NewRecord, AnyRecord
      <3>2. \A q : NewestOf(log', q) = IF r.key = q THEN r ELSE NewestOf(log, q)
        BY <3>1, NewestGrows
      <3>3. store \in [Key -> 0..MaxCalls]
        BY DEF TypeOK
      <3>4. ASSUME NEW q \in Key PROVE NewestOf(log', q).val = store'[q]
        <4>1. CASE q = k
          BY <2>3, <3>1, <3>2, <3>3, <4>1
        <4>2. CASE q # k
          BY <2>3, <3>1, <3>2, <3>3, <4>2 DEF Stored
        <4> QED
          BY <4>1, <4>2
      <3> QED
        BY <3>4 DEF Stored
    <2> QED
      BY <1>0, <2>2, <2>3
  <1>2. ASSUME GcEntry PROVE Stored'
    <2> DEFINE k == vlog[Scanned][gc.off].key
               v == vlog[Scanned][gc.off].val
    <2>1. store' = store /\ up /\ gc.pc = "scan" /\ gc.todo # {} /\ ~EndOfScan
      BY <1>2 DEF GcEntry
    <2>2. log' = log \/ (Live(Scanned, gc.off) /\ \E r \in Record : NewRecord(r, k, v))
      BY <1>2, GcEntryEffect, Zenon
    <2>3. Live(Scanned, gc.off) => NewestOf(log, k).val = v
      BY <2>1, LiveIsNewest
    <2> HIDE DEF k, v
    <2>4. CASE Live(Scanned, gc.off) /\ \E r \in Record : NewRecord(r, k, v)
      <3>1. PICK r \in Record : log' = Append(log, r) /\ r.key = k /\ r.val = v
        BY <2>4, Zenon DEF NewRecord, AnyRecord
      <3>2. \A q : NewestOf(log', q) = IF r.key = q THEN r ELSE NewestOf(log, q)
        BY <3>1, NewestGrows
      <3>3. \A q \in Key : NewestOf(log', q).val = NewestOf(log, q).val
        BY <2>3, <2>4, <3>1, <3>2
      <3> QED
        BY <2>1, <3>3 DEF Stored
    <2> QED
      BY <1>0, <2>1, <2>2, <2>4
  <1>3. ASSUME \/ \E s \in Snap : GetSnapshot(s) \/ ReleaseSnapshot(s)
               \/ Flush \/ InstallCompaction \/ StartGc \/ GcRotate \/ GcNextGeneration \/ GcDrain
               \/ GcRetire \/ GcUnlink \/ Open \/ UNCHANGED vars
        PROVE  Stored'
    <2>1. UNCHANGED <<log, store>>
      BY <1>3 DEF GetSnapshot, ReleaseSnapshot, Flush, InstallCompaction, StartGc, GcRotate,
         GcNextGeneration, GcDrain, GcRetire, GcUnlink, Open, vars, disk, history
    <2> QED
      BY <1>0, <2>1
  <1>4. ASSUME NEW kind, Crash(kind) PROVE Stored'
    <2>1. store' = [k \in Key |-> NewestOf(log', k).val]
      BY <1>4 DEF Crash
    <2> QED
      BY <2>1 DEF Stored
  <1> QED
    BY <1>1, <1>2, <1>3, <1>4, Zenon
    DEF Next, Background, Collector

-----------------------------------------------------------------------------
(***************************************************************************)
(* What a pass has been through is no key's newest.                        *)
(***************************************************************************)

\* The part of Moved about k, with the pass and its generation spelled out.
MovedOf(r, p, g) == r.gen \in p.retired => r.gen \in p.todo /\ (r.gen = g => r.off >= p.off)

LEMMA MovedIs ==
    Moved <=> (gc.pc \in {"scan", "drain"} => \A k \in Key : MovedOf(NewestOf(log, k), gc, Scanned))
  BY Zenon DEF Moved, MovedOf

LEMMA MovedNext ==
    ASSUME gc'.pc \in {"scan", "drain"} => \A k \in Key : MovedOf(NewestOf(log', k), gc', Scanned')
    PROVE  Moved'
  BY Zenon DEF Moved, MovedOf

LEMMA MovedWrites ==
    ASSUME TypeOK, Generations, Passes, Moved, NEW k0, NEW v, NEW separate, NEW base,
           Entered(k0, v, separate, base), gc' = gc
    PROVE  Moved'
  <1>1. Scanned' = Scanned
    BY DEF Scanned
  <1> SUFFICES ASSUME gc.pc \in {"scan", "drain"}, NEW k \in Key
               PROVE  MovedOf(NewestOf(log', k), gc, Scanned)
    BY <1>1, MovedNext
  <1>2. MovedOf(NewestOf(log, k), gc, Scanned)
    BY MovedIs
  <1>3. CASE log' = log
    BY <1>2, <1>3
  <1>4. CASE \E r \in Record : log' = Append(log, r) /\ r.gen \in {Inline, Current}
    <2>1. PICK r \in Record : log' = Append(log, r) /\ r.gen \in {Inline, Current}
      BY <1>4
    <2>2. NewestOf(log', k) = IF r.key = k THEN r ELSE NewestOf(log, k)
      BY <2>1, NewestGrows
    <2>3. Current \notin gc.retired
      BY RetiredAll
    <2>4. Inline \notin gc.retired
      BY DEF TypeOK, Pass, Gen, Inline
    <2>5. MovedOf(r, gc, Scanned)
      BY <2>1, <2>3, <2>4 DEF MovedOf
    <2> QED
      BY <1>2, <2>2, <2>5
  <1> QED
    BY <1>3, <1>4, EnteredAppend, Zenon

LEMMA MovedRotate ==
    ASSUME TypeOK, NoneFailed, Generations, Passes, Exact, GcRotate
    PROVE  Moved'
  <1>0. gc \in Pass /\ up /\ log' = log /\ gc.off = 1
    BY DEF TypeOK, GcRotate, Passes
  <1>1. CASE gc' = NoPass
    BY <1>1, MovedNext DEF NoPass
  <1>2. CASE gc' = [gc EXCEPT !.pc = "scan", !.todo = OlderGenerations, !.retired = OlderGenerations]
    <2>1. gc'.todo = vlogs /\ gc'.retired = vlogs /\ gc'.off = 1
      BY <1>0, <1>2 DEF Pass, OlderGenerations
    <2>2. ASSUME NEW k \in Key PROVE MovedOf(NewestOf(log, k), gc', Scanned')
      <3> DEFINE r == NewestOf(log, k)
      <3>1. r.gen \in vlogs => r.off \in 1..Len(vlog[r.gen])
        BY <1>0, NewestExact DEF Alive
      <3> HIDE DEF r
      <3>2. r.gen \in vlogs => Len(vlog[r.gen]) \in Nat
        BY DEF TypeOK
      <3>3. r.gen \in vlogs => r.off >= 1
        BY <3>1, <3>2
      <3>4. MovedOf(r, gc', Scanned')
        BY <2>1, <3>3 DEF MovedOf
      <3> QED
        BY <3>4 DEF r
    <2> QED
      BY <1>0, <2>2, MovedNext
  <1> QED
    BY <1>1, <1>2 DEF GcRotate

LEMMA MovedNextGeneration ==
    ASSUME TypeOK, NoneFailed, Passes, Exact, NothingTorn, Moved, GcNextGeneration
    PROVE  Moved'
  <1>0. /\ gc \in Pass /\ up /\ log' = log /\ gc.pc = "scan" /\ gc.todo # {} /\ EndOfScan
        /\ gc' = [gc EXCEPT !.todo = @ \ {Scanned}, !.off = 1]
    BY DEF TypeOK, GcNextGeneration, disk
  <1>1. gc'.todo = gc.todo \ {Scanned} /\ gc'.retired = gc.retired /\ gc'.off = 1
    BY <1>0 DEF Pass
  <1>2. Scanned \in gc.todo /\ Scanned \in Gen /\ gc.off \in Nat \ {0} /\ Len(vlog[Scanned]) \in Nat
    <2>1. Scanned \in gc.todo /\ Scanned \in Gen
      BY <1>0, ScannedIs
    <2>2. vlog[Scanned] \in Seq(Cell)
      BY <2>1 DEF TypeOK
    <2>3. gc.off \in Nat \ {0}
      BY <1>0 DEF Pass
    <2> QED
      BY <2>1, <2>2, <2>3
  <1>3. ~(gc.off <= Len(vlog[Scanned]))
    <2> SUFFICES ASSUME gc.off <= Len(vlog[Scanned]) PROVE FALSE
      OBVIOUS
    <2>1. gc.off \in 1..Len(vlog[Scanned])
      BY <1>2
    <2> QED
      BY <1>0, <1>2, <2>1 DEF EndOfScan, NothingTorn
  <1>4. ASSUME NEW k \in Key PROVE MovedOf(NewestOf(log, k), gc', Scanned')
    <2> DEFINE r == NewestOf(log, k)
    <2>1. r.gen \in gc.retired => r.gen \in gc.todo /\ (r.gen = Scanned => r.off >= gc.off)
      BY <1>0, MovedIs DEF MovedOf
    <2>2. gc.retired \subseteq Alive /\ gc.retired \subseteq Gen
      BY <1>0 DEF Passes, Alive, Pass
    <2>3. r.gen \in gc.retired => r.off \in 1..Len(vlog[r.gen])
      BY <2>2, NewestExact
    <2> HIDE DEF r
    <2>4. r.gen \in gc.retired => Len(vlog[r.gen]) \in Nat
      BY <2>2 DEF TypeOK
    <2>5. r.gen \in gc.retired => r.off >= 1
      BY <2>3, <2>4
    <2>6. r.gen \in gc.retired => r.gen # Scanned
      BY <1>2, <1>3, <2>1, <2>3
    <2>7. MovedOf(r, gc', Scanned')
      BY <1>1, <2>1, <2>5, <2>6 DEF MovedOf
    <2> QED
      BY <2>7 DEF r
  <1> QED
    BY <1>0, <1>4, MovedNext

LEMMA MovedEntry ==
    ASSUME TypeOK, NoneFailed, Generations, Passes, Exact, Moved, GcEntry
    PROVE  Moved'
  <1>0. gc \in Pass /\ up /\ gc.pc = "scan" /\ gc.todo # {} /\ ~EndOfScan
    BY DEF TypeOK, GcEntry
  <1> DEFINE c == vlog[Scanned][gc.off]
  <1>1. CASE gc' = NoPass
    BY <1>1, MovedNext DEF NoPass
  <1>2. ASSUME gc' # NoPass PROVE Moved'
    <2>1. \/ ~Live(Scanned, gc.off) /\ gc' = [gc EXCEPT !.off = @ + 1] /\ log' = log
          \/ /\ \E r \in Record : NewRecord(r, c.key, c.val) /\ r.gen = Current
             /\ gc' = [gc EXCEPT !.pc = "drain", !.off = @ + 1, !.rewritten = @ + 1]
      BY <1>2, GcEntryEffect, Zenon
    <2>2. gc'.todo = gc.todo /\ gc'.retired = gc.retired /\ gc'.off = gc.off + 1
      BY <1>0, <2>1 DEF Pass
    <2>3. Scanned' = Scanned
      BY <2>2 DEF Scanned
    <2>4. gc.off \in Nat
      BY <1>0 DEF Pass
    <2>5. ASSUME NEW k \in Key PROVE MovedOf(NewestOf(log', k), gc', Scanned)
      <3> DEFINE q == NewestOf(log, k)
      <3>1. q.gen \in gc.retired => q.gen \in gc.todo /\ (q.gen = Scanned => q.off >= gc.off)
        BY <1>0, MovedIs DEF MovedOf
      <3>2. q.gen = Scanned /\ q.off = gc.off => c.key = k /\ Live(Scanned, gc.off)
        BY <1>0, LiveIsNewest
      <3>3. q \in Record
        BY NewestRecord DEF TypeOK
      <3> HIDE DEF q, c
      <3>4. q.off \in Nat
        BY <3>3 DEF Record
      <3>5. ASSUME ~(q.gen = Scanned /\ q.off = gc.off) PROVE MovedOf(q, gc', Scanned)
        <4>1. q.gen \in gc.retired /\ q.gen = Scanned => q.off >= gc.off + 1
          BY <2>4, <3>1, <3>4, <3>5
        <4> QED
          BY <2>2, <3>1, <4>1 DEF MovedOf
      <3>6. CASE ~Live(Scanned, gc.off) /\ log' = log
        BY <3>2, <3>5, <3>6 DEF q
      <3>7. CASE \E r \in Record : NewRecord(r, c.key, c.val) /\ r.gen = Current
        <4>1. PICK r \in Record : log' = Append(log, r) /\ r.key = c.key /\ r.gen = Current
          BY <3>7, Zenon DEF NewRecord, AnyRecord
        <4>2. NewestOf(log', k) = IF r.key = k THEN r ELSE q
          BY <4>1, NewestGrows DEF q
        <4>3. MovedOf(r, gc', Scanned)
          BY <1>0, <2>2, <4>1, RetiredAll DEF MovedOf
        <4> QED
          BY <3>2, <3>5, <4>1, <4>2, <4>3
      <3> QED
        BY <2>1, <3>6, <3>7
    <2> QED
      BY <2>3, <2>5, MovedNext
  <1> QED
    BY <1>1, <1>2

LEMMA MovedStep ==
    ASSUME TypeOK, NoneFailed, Generations, Passes, Exact, NothingTorn, Moved, [Next]_vars
    PROVE  Moved'
  <1>0. ASSUME log' = log, gc'.pc \in {"scan", "drain"} => gc.pc \in {"scan", "drain"},
               gc'.todo = gc.todo, gc'.retired = gc.retired, gc'.off = gc.off
        PROVE  Moved'
    <2>1. Scanned' = Scanned
      BY <1>0 DEF Scanned
    <2>2. ASSUME gc'.pc \in {"scan", "drain"}, NEW k \in Key
          PROVE  MovedOf(NewestOf(log', k), gc', Scanned')
      BY <1>0, <2>1, <2>2, MovedIs DEF MovedOf
    <2> QED
      BY <2>2, MovedNext
  <1>1. ASSUME gc'.pc \notin {"scan", "drain"} PROVE Moved'
    BY <1>1, MovedNext
  <1>2. ASSUME NEW k \in Key, NEW separate \in BOOLEAN,
               Write(k, calls + 1, separate) \/ Write(k, NotFound, FALSE)
        PROVE  Moved'
    <2>1. PICK v \in 0..MaxCalls, sep \in BOOLEAN : Write(k, v, sep)
      BY <1>2, SomeWrite
    <2>2. PICK base \in Nat : Entered(k, v, sep, base)
      BY <2>1, WriteEffect, Zenon
    <2>3. gc' = gc
      BY <2>1 DEF Write
    <2> QED
      BY <2>2, <2>3, MovedWrites
  <1>3. ASSUME \/ \E s \in Snap : GetSnapshot(s) \/ ReleaseSnapshot(s)
               \/ Flush \/ InstallCompaction \/ Open \/ UNCHANGED vars
        PROVE  Moved'
    <2>1. UNCHANGED <<log, gc>>
      BY <1>3 DEF GetSnapshot, ReleaseSnapshot, Flush, InstallCompaction, Open, vars, disk
    <2> QED
      BY <1>0, <2>1
  <1>4. ASSUME StartGc PROVE Moved'
    BY <1>1, <1>4 DEF StartGc, NoPass
  <1>5. ASSUME GcDrain PROVE Moved'
    <2>1. gc \in Pass /\ log' = log /\ gc.pc = "drain"
      BY <1>5 DEF GcDrain, TypeOK
    <2>2. CASE gc' = NoPass
      BY <1>1, <2>2 DEF NoPass
    <2>3. CASE gc' = [gc EXCEPT !.pc = "scan"]
      <3>1. gc'.todo = gc.todo /\ gc'.retired = gc.retired /\ gc'.off = gc.off
        BY <2>1, <2>3 DEF Pass
      <3> QED
        BY <1>0, <2>1, <3>1
    <2> QED
      BY <1>5, <2>2, <2>3 DEF GcDrain
  <1>6. ASSUME GcRetire PROVE Moved'
    <2>1. gc \in Pass /\ (gc' = NoPass \/ gc' = [gc EXCEPT !.pc = "unlink"])
      BY <1>6 DEF GcRetire, TypeOK
    <2>2. gc'.pc \in {"idle", "unlink"}
      BY <2>1 DEF Pass, NoPass
    <2> QED
      BY <1>1, <2>2
  <1>7. ASSUME GcUnlink PROVE Moved'
    <2>1. /\ gc \in Pass /\ gc.pc = "unlink"
          /\ gc' = NoPass \/ \E g \in gc.retired : gc' = [gc EXCEPT !.retired = @ \ {g}]
      BY <1>7 DEF GcUnlink, TypeOK
    <2>2. gc'.pc \in {"idle", "unlink"}
      BY <2>1 DEF Pass, NoPass
    <2> QED
      BY <1>1, <2>2
  <1>8. ASSUME NEW kind, Crash(kind) PROVE Moved'
    BY <1>1, <1>8 DEF Crash, NoPass
  <1> QED
    BY <1>2, <1>3, <1>4, <1>5, <1>6, <1>7, <1>8, MovedRotate, MovedNextGeneration, MovedEntry, Zenon
    DEF Next, Background, Collector

-----------------------------------------------------------------------------
(***************************************************************************)
(* What a crash would recover.                                             *)
(***************************************************************************)

\* Whatever a crash leaves of the two logs, the newest record of a key is
\* that of some prefix of the history which Recoverable speaks of.
LEMMA SurvivorsNamed ==
    ASSUME TypeOK, NoneFailed, Recoverable, ~skipped, floor = flushed,
           NEW m \in osynced..rotated, NEW n \in synced..Len(log), NEW k \in Key
    PROVE  NewestOf(Survivors(m, n), k).gen \in {Inline} \cup named
  <1>0. /\ log \in Seq(Record) /\ Len(log) \in Nat /\ flushed \in Nat /\ rotated \in Nat
        /\ osynced \in Nat /\ synced \in Nat /\ m \in Nat /\ n \in Nat
        /\ flushed <= osynced /\ osynced <= m /\ m <= rotated /\ rotated <= synced
        /\ synced <= n /\ n <= Len(log)
    BY DEF TypeOK
  <1>1. m \in floor..rotated /\ n \in rotated..Len(log)
    BY <1>0
  <1> DEFINE s == Survivors(m, n)
             p == SubSeq(log, 1, m)
             q == SubSeq(log, 1, n)
  <1>2. /\ s \in Seq(Record) /\ Len(s) = flushed + (m - floor) + (n - rotated)
        /\ \A i \in 1..flushed : s[i] = log[i]
        /\ \A i \in 1..m - floor : s[flushed + i] = log[floor + i]
        /\ \A i \in 1..n - rotated : s[flushed + (m - floor) + i] = log[rotated + i]
    BY <1>1, SurvivorsClean
  <1>3. p \in Seq(Record) /\ Len(p) = m /\ \A i \in 1..m : p[i] = log[i]
    BY <1>0, PrefixOf
  <1>4. q \in Seq(Record) /\ Len(q) = n /\ \A i \in 1..n : q[i] = log[i]
    BY <1>0, PrefixOf
  <1> HIDE DEF s
  <1>5. /\ Len(s) = m + (n - rotated)
        /\ \A i \in 1..n - rotated : s[m + i] = log[rotated + i]
    <2>1. flushed + (m - floor) = m
      BY <1>0
    <2> QED
      BY <1>2, <2>1
  <1>6. ASSUME NEW i \in 1..m PROVE s[i] = log[i]
    <2>1. CASE i <= flushed
      BY <1>0, <1>2, <2>1
    <2>2. CASE i > flushed
      <3> DEFINE j == i - flushed
      <3>1. j \in 1..m - floor /\ flushed + j = i /\ floor + j = i
        BY <1>0, <2>2
      <3> HIDE DEF j
      <3> QED
        BY <1>2, <3>1
    <2> QED
      BY <1>0, <2>1, <2>2
  <1>7. NewestOf(q, k).gen \in {Inline} \cup named
    <2>1. n \in Safe..Len(log)
      BY <1>0 DEF Safe
    <2> QED
      BY <2>1 DEF Recoverable
  <1> HIDE DEF p, q
  <1>8. CASE \E i \in 1..n - rotated : log[rotated + i].key = k
    <2>1. \/ NewestOf(s, k) = NoRecord /\ \A i \in 1..Len(s) : s[i].key # k
          \/ \E i \in 1..Len(s) : NewestAt(s, k, i) /\ NewestOf(s, k) = s[i]
      BY <1>2, NewestCases
    <2>2. PICK a \in 1..n - rotated : log[rotated + a].key = k
      BY <1>8
    <2>3. m + a \in 1..Len(s) /\ s[m + a].key = k
      BY <1>0, <1>5, <2>2
    <2>4. PICK i \in 1..Len(s) : NewestAt(s, k, i) /\ NewestOf(s, k) = s[i]
      BY <2>1, <2>3
    <2>5. i >= m + a
      BY <2>3, <2>4 DEF NewestAt
    <2> DEFINE b == i - m
    <2>6. b \in 1..n - rotated /\ m + b = i
      BY <1>0, <1>5, <2>5
    <2> HIDE DEF b
    <2>7. rotated + b \in 1..n /\ s[i] = log[rotated + b]
      <3>1. rotated + b \in 1..n
        BY <1>0, <2>6
      <3>2. s[m + b] = log[rotated + b]
        BY <1>5, <2>6
      <3> QED
        BY <2>6, <3>1, <3>2
    <2>8. NewestAt(q, k, rotated + b)
      <3>1. rotated + b \in 1..Len(q) /\ q[rotated + b].key = k
        BY <1>4, <2>4, <2>7 DEF NewestAt
      <3>2. ASSUME NEW j \in 1..Len(q), q[j].key = k, ~(j <= rotated + b) PROVE FALSE
        <4> DEFINE d == j - rotated
        <4>1. d \in 1..n - rotated /\ rotated + d = j /\ m + d \in 1..Len(s) /\ d > b
          BY <1>0, <1>4, <1>5, <2>6, <3>2
        <4> HIDE DEF d
        <4>2. s[m + d] = log[j] /\ q[j] = log[j]
          BY <1>4, <1>5, <3>2, <4>1
        <4>3. m + d <= i
          BY <2>4, <3>2, <4>1, <4>2 DEF NewestAt
        <4> QED
          BY <1>0, <2>6, <4>1, <4>3
      <3> QED
        BY <3>1, <3>2 DEF NewestAt
    <2>9. NewestOf(q, k) = q[rotated + b]
      BY <1>4, <2>8, NewestIs
    <2>10. NewestOf(s, k) = NewestOf(q, k)
      BY <1>4, <2>4, <2>7, <2>9
    <2> QED
      BY <1>7, <2>10 DEF s
  <1>9. CASE \A i \in 1..n - rotated : log[rotated + i].key # k
    <2>1. NewestOf(s, k) = NewestOf(p, k)
      <3>1. ASSUME NEW i \in 1..Len(s), s[i].key = k PROVE i \in 1..m
        <4> SUFFICES ASSUME i > m PROVE FALSE
          BY <1>0, <1>5
        <4> DEFINE b == i - m
        <4>1. b \in 1..n - rotated /\ m + b = i
          BY <1>0, <1>5
        <4> HIDE DEF b
        <4> QED
          BY <1>5, <1>9, <3>1, <4>1
      <3>2. \A i \in 1..m : i \in 1..Len(s) /\ s[i] = p[i]
        <4>1. \A i \in 1..m : i \in 1..Len(s)
          BY <1>0, <1>5
        <4> QED
          BY <1>3, <1>6, <4>1, Zenon
      <3>3. CASE \A i \in 1..m : p[i].key # k
        <4>1. NewestOf(p, k) = NoRecord
          BY <1>3, <3>3, NewestNone
        <4>2. NewestOf(s, k) = NoRecord
          BY <1>2, <3>1, <3>2, <3>3, NewestNone
        <4> QED
          BY <4>1, <4>2
      <3>4. CASE \E i \in 1..m : p[i].key = k
        <4>1. PICK i \in 1..Len(p) : NewestAt(p, k, i) /\ NewestOf(p, k) = p[i]
          BY <1>3, <3>4, NewestCases
        <4>2. NewestAt(s, k, i)
          BY <1>3, <3>1, <3>2, <4>1 DEF NewestAt
        <4>3. NewestOf(s, k) = s[i]
          BY <1>2, <4>2, NewestIs
        <4> QED
          BY <1>3, <3>2, <4>1, <4>3
      <3> QED
        BY <3>3, <3>4
    <2>2. CASE osynced < rotated
      <3>1. m \in Safe..Len(log)
        BY <1>0, <2>2 DEF Safe
      <3>2. NewestOf(p, k).gen \in {Inline} \cup named
        BY <3>1 DEF Recoverable, p
      <3> QED
        BY <2>1, <3>2 DEF s
    <2>3. CASE osynced = rotated
      <3>1. m = rotated /\ Len(s) = n
        BY <1>0, <1>5, <2>3
      <3>2. ASSUME NEW i \in 1..n PROVE s[i] = q[i]
        <4>1. CASE i <= m
          BY <1>0, <1>4, <1>6, <4>1
        <4>2. CASE i > m
          <5> DEFINE b == i - m
          <5>1. b \in 1..n - rotated /\ m + b = i /\ rotated + b = i
            BY <1>0, <3>1, <4>2
          <5> HIDE DEF b
          <5> QED
            BY <1>4, <1>5, <5>1
        <4> QED
          BY <1>0, <4>1, <4>2
      <3>3. s = q
        BY <1>2, <1>4, <3>1, <3>2, SeqEqual
      <3> QED
        BY <1>7, <3>3 DEF s
    <2> QED
      BY <1>0, <2>2, <2>3
  <1> QED
    BY <1>8, <1>9

\* A kill with the floor at the SSTs loses nothing.
LEMMA KillKeepsAll ==
    ASSUME TypeOK, NoneFailed, floor = flushed
    PROVE  Survivors(rotated, Len(log)) = log
  <1>0. /\ log \in Seq(Record) /\ Len(log) \in Nat /\ flushed \in Nat /\ rotated \in Nat
        /\ flushed <= rotated /\ rotated <= Len(log)
    BY DEF TypeOK
  <1>1. rotated \in floor..rotated /\ Len(log) \in rotated..Len(log)
    BY <1>0
  <1> DEFINE s == Survivors(rotated, Len(log))
  <1>2. /\ s \in Seq(Record) /\ Len(s) = flushed + (rotated - floor) + (Len(log) - rotated)
        /\ \A i \in 1..flushed : s[i] = log[i]
        /\ \A i \in 1..rotated - floor : s[flushed + i] = log[floor + i]
        /\ \A i \in 1..Len(log) - rotated : s[flushed + (rotated - floor) + i] = log[rotated + i]
    BY <1>1, SurvivorsClean
  <1> HIDE DEF s
  <1>3. Len(s) = Len(log)
    BY <1>0, <1>2
  <1>4. ASSUME NEW i \in 1..Len(s) PROVE s[i] = log[i]
    <2>1. CASE i <= flushed
      BY <1>0, <1>2, <2>1
    <2>2. CASE i > flushed /\ i <= rotated
      <3> DEFINE j == i - flushed
      <3>1. j \in 1..rotated - floor /\ flushed + j = i /\ floor + j = i
        BY <1>0, <2>2
      <3> HIDE DEF j
      <3> QED
        BY <1>2, <3>1
    <2>3. CASE i > rotated
      <3> DEFINE j == i - rotated
      <3>1. j \in 1..Len(log) - rotated /\ flushed + (rotated - floor) + j = i /\ rotated + j = i
        BY <1>0, <1>3, <2>3
      <3> HIDE DEF j
      <3> QED
        BY <1>2, <3>1
    <2> QED
      BY <1>0, <1>3, <2>1, <2>2, <2>3
  <1>5. s = log
    BY <1>0, <1>2, <1>3, <1>4, SeqEqual
  <1> QED
    BY <1>5 DEF s

\* What is published stays published, and no less of the history is safe.
LEMMA RecoverableFrame ==
    ASSUME TypeOK, Recoverable, log' = log, ~skipped' => ~skipped, Safe' \in Nat, Safe <= Safe',
           \A m \in 1..Len(log) : log[m].gen \in named => log[m].gen \in named'
    PROVE  Recoverable'
  <1>0. log \in Seq(Record) /\ Len(log) \in Nat /\ Safe \in Nat
    BY DEF TypeOK, Safe
  <1> SUFFICES ASSUME ~skipped, NEW m \in Safe'..Len(log), NEW k \in Key
               PROVE  NewestOf(SubSeq(log, 1, m), k).gen \in {Inline} \cup named'
    BY DEF Recoverable
  <1>1. m \in Safe..Len(log) /\ m \in 0..Len(log)
    BY <1>0
  <1> DEFINE p == SubSeq(log, 1, m)
  <1>2. NewestOf(p, k).gen \in {Inline} \cup named
    BY <1>1 DEF Recoverable
  <1>3. p \in Seq(Record) /\ Len(p) = m /\ \A i \in 1..m : p[i] = log[i]
    BY <1>0, <1>1, PrefixOf
  <1> HIDE DEF p
  <1>4. CASE NewestOf(p, k).gen # Inline
    <2>1. PICK i \in 1..Len(p) : NewestOf(p, k) = p[i]
      BY <1>3, <1>4, NewestRecord
    <2>2. i \in 1..Len(log) /\ NewestOf(p, k) = log[i]
      BY <1>0, <1>1, <1>3, <2>1
    <2>3. log[i].gen \in named
      BY <1>2, <1>4, <2>2
    <2> QED
      BY <2>2, <2>3 DEF p
  <1> QED
    BY <1>2, <1>4 DEF p

\* An fsync, a rotation or a MANIFEST leaves no less safe.
LEMMA SafeGrows ==
    ASSUME TypeOK, synced' \in Nat, synced <= synced', Len(log) \in Nat,
           \/ rotated' = rotated /\ osynced' = osynced
           \/ rotated' = rotated /\ osynced' = rotated
           \/ /\ rotated' = Len(log) /\ Len(log) <= synced'
              /\ osynced' = IF osynced = rotated THEN synced ELSE osynced
    PROVE  Safe' \in Nat /\ Safe <= Safe'
  BY DEF TypeOK, Safe

LEMMA RecoverableWrites ==
    ASSUME TypeOK, Generations, Recoverable, up, NEW k0, NEW v, NEW separate, NEW base,
           Entered(k0, v, separate, base), skipped' = skipped, named' = named,
           Safe' \in Nat, Safe <= Safe'
    PROVE  Recoverable'
  <1>1. CASE log' = log
    BY <1>1, RecoverableFrame
  <1>2. CASE \E r \in Record : log' = Append(log, r) /\ r.gen \in {Inline, Current}
    <2>1. PICK r \in Record : log' = Append(log, r) /\ r.gen \in {Inline, Current}
      BY <1>2
    <2>2. /\ Len(log') = Len(log) + 1 /\ Len(log) \in Nat
          /\ \A k : NewestOf(log', k) = IF r.key = k THEN r ELSE NewestOf(log, k)
          /\ \A m \in 0..Len(log) : SubSeq(log', 1, m) = SubSeq(log, 1, m)
          /\ SubSeq(log', 1, Len(log')) = log'
      BY <2>1, NewestGrows
    <2>3. Current \in named /\ Safe \in Nat
      BY CurrentIs DEF TypeOK, Safe
    <2> SUFFICES ASSUME ~skipped, NEW m \in Safe'..Len(log'), NEW k \in Key
                 PROVE  NewestOf(SubSeq(log', 1, m), k).gen \in {Inline} \cup named
      BY DEF Recoverable
    <2>4. CASE m <= Len(log)
      <3>1. m \in Safe..Len(log) /\ m \in 0..Len(log)
        BY <2>2, <2>3, <2>4
      <3>2. SubSeq(log', 1, m) = SubSeq(log, 1, m)
        BY <2>2, <3>1
      <3>3. NewestOf(SubSeq(log, 1, m), k).gen \in {Inline} \cup named
        BY <3>1 DEF Recoverable
      <3> QED
        BY <3>2, <3>3
    <2>5. CASE m > Len(log)
      <3>1. m = Len(log')
        BY <2>2, <2>5
      <3>2. SubSeq(log', 1, m) = log'
        BY <2>2, <3>1
      <3>3. NewestOf(log', k) = IF r.key = k THEN r ELSE NewestOf(log, k)
        BY <2>2
      <3>4. NewestOf(log, k).gen \in {Inline} \cup named
        BY LatestOpen
      <3>5. NewestOf(log', k).gen \in {Inline} \cup named
        BY <2>1, <2>3, <3>3, <3>4
      <3> QED
        BY <3>2, <3>5
    <2> QED
      BY <2>2, <2>4, <2>5
  <1> QED
    BY <1>1, <1>2, EnteredAppend, Zenon

\* A MANIFEST that names every open generation.
LEMMA RecoverableManifest ==
    ASSUME TypeOK, Generations, Recoverable, up, NEW S, vlogs \subseteq S, WriteManifest(S),
           UNCHANGED <<log, skipped, synced, rotated>>
    PROVE  Recoverable'
  <1>1. osynced' = rotated /\ named' = S
    BY DEF WriteManifest
  <1>2. synced' \in Nat /\ synced <= synced' /\ Len(log) \in Nat
    BY DEF TypeOK
  <1>3. Safe' \in Nat /\ Safe <= Safe'
    BY <1>1, <1>2, SafeGrows
  <1>4. ASSUME NEW m \in 1..Len(log), log[m].gen \in named PROVE log[m].gen \in S
    BY <1>4, RecordsBelow DEF Generations
  <1> QED
    BY <1>1, <1>3, <1>4, RecoverableFrame

\* The retirement: all that was moved is durable before its generation goes.
LEMMA RecoverableRetire ==
    ASSUME TypeOK, Generations, Passes, Moved, Recoverable, GcRetire
    PROVE  Recoverable'
  <1>0. /\ up /\ gc.pc = "scan" /\ gc.todo = {}
        /\ log' = log /\ skipped' = skipped /\ rotated' = rotated
    BY DEF GcRetire
  <1>1. Len(log) \in Nat /\ synced \in Nat /\ synced <= Len(log)
        /\ osynced \in Nat /\ rotated \in Nat /\ osynced <= rotated
    BY DEF TypeOK
  <1>2. CASE UNCHANGED <<named, osynced>> /\ synced' \in {synced, Len(log)}
    <2>1. synced' \in Nat /\ synced <= synced'
      BY <1>1, <1>2
    <2>2. Safe' \in Nat /\ Safe <= Safe'
      BY <1>0, <1>1, <1>2, <2>1, SafeGrows
    <2> QED
      BY <1>0, <1>2, <2>2, RecoverableFrame
  <1>3. CASE synced' = Len(log) /\ WriteManifest(vlogs \ gc.retired)
    <2>1. osynced' = rotated /\ named' = {Current} /\ vlogs = gc.retired \cup {Current}
      BY <1>0, <1>3, RetiredAll DEF WriteManifest
    <2>2. Safe' = Len(log)
      BY <1>0, <1>1, <1>3, <2>1 DEF Safe
    <2> SUFFICES ASSUME ~skipped, NEW m \in Safe'..Len(log), NEW k \in Key
                 PROVE  NewestOf(SubSeq(log, 1, m), k).gen \in {Inline} \cup named'
      BY <1>0 DEF Recoverable
    <2>3. m = Len(log)
      BY <1>1, <2>2
    <2>4. SubSeq(log, 1, m) = log
      BY <2>3, WholeLog
    <2>5. NewestOf(log, k).gen \in {Inline} \cup vlogs
      BY <1>0, LatestOpen
    <2>6. NewestOf(log, k).gen \notin gc.retired
      BY <1>0, MovedIs DEF MovedOf
    <2> QED
      BY <2>1, <2>4, <2>5, <2>6
  <1> QED
    BY <1>2, <1>3 DEF GcRetire, ForceDurability

LEMMA RecoverableCrash ==
    ASSUME TypeOK, NoneFailed, Recoverable, NEW kind, Crash(kind)
    PROVE  Recoverable'
  <1>0. /\ Len(log) \in Nat /\ flushed \in Nat /\ floor \in Nat /\ rotated \in Nat
        /\ flushed <= floor /\ osynced \in Nat /\ synced \in Nat
        /\ osynced \in floor..rotated /\ synced \in rotated..Len(log)
        /\ rotated \in floor..rotated /\ Len(log) \in rotated..Len(log)
    BY DEF TypeOK
  <1>1. PICK m \in floor..rotated, n \in rotated..Len(log), keep \in Cuts(kind), torn \in BOOLEAN :
              /\ CrashAt(kind, m, n, keep, torn)
              /\ kind = "power" => m \in osynced..rotated /\ n \in synced..Len(log)
              /\ kind # "power" => m = rotated /\ n = Len(log)
    <2>1. PICK m \in floor..rotated, n \in rotated..Len(log), keep \in Cuts(kind), torn \in BOOLEAN :
              /\ CrashAt(kind, m, n, keep, torn)
              /\ kind = "power" => m \in OldEnds(osynced) /\ n \in LiveEnds(synced)
              /\ kind # "power" => m \in OldEnds(rotated) /\ n \in LiveEnds(Len(log))
      BY CrashEffect, Zenon
    <2>2. kind = "power" => m \in osynced..rotated /\ n \in synced..Len(log)
      BY <1>0, <2>1, EndsClean
    <2>3. kind # "power" => m = rotated /\ n = Len(log)
      <3>1. kind # "power" => m \in rotated..rotated /\ n \in Len(log)..Len(log)
        BY <1>0, <2>1, EndsClean
      <3> QED
        BY <1>0, <3>1
    <2> QED
      BY <2>1, <2>2, <2>3, Zenon
  <1>2. log' = Survivors(m, n) /\ rotated' = flushed + (m - floor)
    BY <1>1 DEF CrashAt
  <1>3. /\ skipped' = (skipped \/ floor > flushed) /\ named' = named
        /\ \/ kind = "power" /\ osynced' = rotated' /\ synced' = Len(log')
           \/ kind # "power" /\ osynced' = flushed + (osynced - floor)
              /\ synced' = rotated' + (synced - rotated)
    <2>1. skipped' = (skipped \/ floor > flushed) /\ named' = named
      BY DEF Crash
    <2>2. CASE kind = "power"
      BY <1>1, <2>1, <2>2 DEF CrashAt
    <2>3. CASE kind # "power"
      <3>1. /\ osynced' = flushed + ((IF osynced < rotated THEN osynced ELSE rotated) - floor)
            /\ synced' = rotated' + ((IF synced < Len(log) THEN synced ELSE Len(log)) - rotated)
        BY <1>1, <2>3 DEF CrashAt
      <3>2. /\ (IF osynced < rotated THEN osynced ELSE rotated) = osynced
            /\ (IF synced < Len(log) THEN synced ELSE Len(log)) = synced
        BY <1>0
      <3> QED
        BY <2>1, <2>3, <3>1, <3>2
    <2> QED
      BY <2>2, <2>3
  <1>4. CASE skipped'
    BY <1>4 DEF Recoverable
  <1>5. CASE ~skipped'
    <2>0. ~skipped /\ ~(floor > flushed)
      BY <1>3, <1>5, Zenon
    <2>1. ~skipped /\ floor = flushed
      BY <1>0, <2>0
    <2>2. CASE kind = "power"
      <3>1. log' \in Seq(Record) /\ Len(log') \in Nat
        BY <1>2, SurvivorsAre
      <3>2. Safe' = Len(log')
        <4>1. ~(osynced' < rotated')
          BY <1>0, <1>2, <1>3, <2>2
        <4> QED
          BY <1>3, <2>2, <4>1, Zenon DEF Safe
      <3>3. m \in osynced..rotated /\ n \in synced..Len(log)
        BY <1>1, <2>2
      <3> SUFFICES ASSUME NEW p \in Safe'..Len(log'), NEW k \in Key
                   PROVE  NewestOf(SubSeq(log', 1, p), k).gen \in {Inline} \cup named'
        BY DEF Recoverable
      <3>4. p = Len(log')
        BY <3>1, <3>2
      <3>5. SubSeq(log', 1, p) = log'
        BY <3>1, <3>4, PrefixFull
      <3>6. NewestOf(Survivors(m, n), k).gen \in {Inline} \cup named
        BY <2>1, <3>3, SurvivorsNamed
      <3> QED
        BY <1>2, <1>3, <3>5, <3>6
    <2>3. CASE kind # "power"
      <3>1. log' = log
        BY <1>1, <1>2, <2>1, <2>3, KillKeepsAll
      <3>2. rotated' = rotated /\ osynced' = osynced /\ synced' = synced
        BY <1>0, <1>1, <1>2, <1>3, <2>1, <2>3
      <3>4. Safe' = Safe /\ Safe \in Nat
        BY <1>0, <3>2 DEF Safe
      <3>5. Safe <= Safe'
        BY <3>4
      <3> QED
        BY <1>3, <2>1, <3>1, <3>4, <3>5, RecoverableFrame
    <2> QED
      BY <2>2, <2>3
  <1> QED
    BY <1>4, <1>5

LEMMA RecoverableStep ==
    ASSUME TypeOK, NoneFailed, Generations, Passes, Moved, Recoverable, [Next]_vars
    PROVE  Recoverable'
  <1>a. /\ Len(log) \in Nat /\ synced \in Nat /\ synced <= Len(log)
    BY DEF TypeOK
  <1>0. ASSUME UNCHANGED <<log, skipped, named, osynced, rotated, synced>> PROVE Recoverable'
    <2>1. Safe' = Safe /\ Safe \in Nat
      BY <1>0 DEF TypeOK, Safe
    <2>2. Safe <= Safe'
      BY <2>1
    <2> QED
      BY <1>0, <2>1, <2>2, RecoverableFrame
  <1>1. ASSUME NEW k \in Key, NEW separate \in BOOLEAN,
               Write(k, calls + 1, separate) \/ Write(k, NotFound, FALSE)
        PROVE  Recoverable'
    <2>1. PICK v \in 0..MaxCalls, sep \in BOOLEAN : Write(k, v, sep)
      BY <1>1, SomeWrite
    <2>2. PICK base \in Nat :
                /\ Entered(k, v, sep, base)
                /\ \/ /\ rotated' = Len(log) /\ base = Len(log)
                      /\ osynced' = IF osynced = rotated THEN synced ELSE osynced
                   \/ rotated' = rotated /\ osynced' = osynced /\ base = synced
      BY <2>1, WriteEffect, Zenon
    <2>3. up /\ skipped' = skipped /\ named' = named
      BY <2>1 DEF Write
    <2>4. synced' \in base..Len(log') /\ log' \in Seq(Record)
      BY <2>2, Zenon DEF Entered
    <2>5. synced' \in Nat /\ base <= synced'
      BY <2>4
    <2>6. synced <= synced'
      BY <1>a, <2>2, <2>5
    <2>7. Safe' \in Nat /\ Safe <= Safe'
      <3>1. CASE /\ rotated' = Len(log) /\ base = Len(log)
                 /\ osynced' = IF osynced = rotated THEN synced ELSE osynced
        BY <1>a, <2>5, <2>6, <3>1, SafeGrows
      <3>2. CASE rotated' = rotated /\ osynced' = osynced
        BY <1>a, <2>5, <2>6, <3>2, SafeGrows
      <3> QED
        BY <2>2, <3>1, <3>2
    <2> QED
      BY <2>2, <2>3, <2>7, RecoverableWrites
  <1>2. ASSUME GcEntry PROVE Recoverable'
    <2> DEFINE k == vlog[Scanned][gc.off].key
               v == vlog[Scanned][gc.off].val
    <2>1. up /\ skipped' = skipped /\ named' = named /\ rotated' = rotated /\ osynced' = osynced
      BY <1>2 DEF GcEntry, tables
    <2>2. UNCHANGED <<log, synced>> \/ Entered(k, v, TRUE, synced)
      BY <1>2, GcEntryEffect, Zenon
    <2> HIDE DEF k, v
    <2>3. CASE Entered(k, v, TRUE, synced)
      <3>1. synced' \in synced..Len(log') /\ log' \in Seq(Record)
        BY <2>3, Zenon DEF Entered
      <3>2. synced' \in Nat /\ synced <= synced'
        BY <1>a, <3>1
      <3>3. Safe' \in Nat /\ Safe <= Safe'
        BY <1>a, <2>1, <3>2, SafeGrows
      <3> QED
        BY <2>1, <2>3, <3>3, RecoverableWrites
    <2> QED
      BY <1>0, <2>1, <2>2, <2>3
  <1>3. ASSUME \/ \E s \in Snap : GetSnapshot(s) \/ ReleaseSnapshot(s)
               \/ StartGc \/ GcNextGeneration \/ GcUnlink \/ Open \/ UNCHANGED vars
        PROVE  Recoverable'
    <2>1. UNCHANGED <<log, skipped, named, osynced, rotated, synced>>
      BY <1>3 DEF GetSnapshot, ReleaseSnapshot, StartGc, GcNextGeneration, GcUnlink, Open, vars,
         tables, disk, history
    <2> QED
      BY <1>0, <2>1
  <1>4. ASSUME Flush \/ InstallCompaction PROVE Recoverable'
    <2>1. up /\ WriteManifest(vlogs) /\ UNCHANGED <<log, skipped, synced, rotated>>
      BY <1>4 DEF Flush, InstallCompaction, FlushImm, history
    <2> QED
      BY <2>1, RecoverableManifest
  <1>5. ASSUME GcDrain PROVE Recoverable'
    <2>1. up /\ UNCHANGED <<log, skipped, synced>>
      BY <1>5 DEF GcDrain
    <2>2. CASE UNCHANGED <<tables, named>>
      BY <1>0, <2>1, <2>2 DEF tables
    <2>3. CASE FlushImm
      BY <2>1, <2>3, RecoverableManifest DEF FlushImm
    <2> QED
      BY <1>5, <2>2, <2>3 DEF GcDrain
  <1>6. ASSUME GcRotate PROVE Recoverable'
    <2>1. up /\ UNCHANGED <<log, skipped, synced, rotated>>
      BY <1>6 DEF GcRotate
    <2>2. CASE UNCHANGED <<named, osynced>>
      BY <1>0, <2>1, <2>2
    <2>3. CASE WriteManifest(vlogs \cup {next})
      BY <2>1, <2>3, RecoverableManifest
    <2> QED
      BY <1>6, <2>2, <2>3 DEF GcRotate
  <1> QED
    BY <1>1, <1>2, <1>3, <1>4, <1>5, <1>6, RecoverableRetire, RecoverableCrash, Zenon
    DEF Next, Background, Collector

-----------------------------------------------------------------------------
(***************************************************************************)
(* Snapshots.                                                              *)
(***************************************************************************)

\* What Viewed says of snapshot s.
ViewOf(s) ==
    /\ snaps[s] <= Len(log) /\ views[s] \in [Key -> 0..MaxCalls]
    /\ \A k \in Key : LET r == NewestOf(SubSeq(log, 1, snaps[s]), k) IN
          r.val = views[s][k] /\ (~skipped => r.gen \in {Inline} \cup vlogs)

LEMMA ViewedIs == Viewed <=> \A s \in Snap : snaps[s] # Latest => ViewOf(s)
  BY Zenon DEF Viewed, ViewOf

LEMMA ViewedNext ==
    ASSUME \A s \in Snap : snaps'[s] # Latest => ViewOf(s)'
    PROVE  Viewed'
  BY Zenon DEF Viewed, ViewOf

\* A snapshot keeps its view while the history grows and no generation is
\* retired.
LEMMA ViewKept ==
    ASSUME TypeOK, NEW s \in Snap, snaps[s] # Latest, ViewOf(s), snaps'[s] = snaps[s],
           views'[s] = views[s], skipped' = skipped, vlogs \subseteq vlogs',
           log' = log \/ \E r \in Record : log' = Append(log, r)
    PROVE  ViewOf(s)'
  <1>1. snaps[s] \in Nat /\ snaps[s] <= Len(log) /\ Len(log) \in Nat
    BY DEF TypeOK, ViewOf
  <1>2. SubSeq(log', 1, snaps[s]) = SubSeq(log, 1, snaps[s]) /\ snaps[s] <= Len(log')
    <2>1. CASE log' = log
      BY <1>1, <2>1
    <2>2. CASE \E r \in Record : log' = Append(log, r)
      <3>1. PICK r \in Record : log' = Append(log, r)
        BY <2>2
      <3>2. /\ Len(log') = Len(log) + 1
            /\ \A m \in 0..Len(log) : SubSeq(log', 1, m) = SubSeq(log, 1, m)
        BY <3>1, NewestGrows
      <3>3. snaps[s] \in 0..Len(log) /\ snaps[s] <= Len(log')
        BY <1>1, <3>2
      <3> QED
        BY <3>2, <3>3
    <2> QED
      BY <2>1, <2>2
  <1>3. ASSUME NEW k \in Key
        PROVE  LET r == NewestOf(SubSeq(log', 1, snaps[s]), k) IN
                 r.val = views[s][k] /\ (~skipped => r.gen \in {Inline} \cup vlogs')
    <2> DEFINE r == NewestOf(SubSeq(log, 1, snaps[s]), k)
    <2>1. r.val = views[s][k] /\ (~skipped => r.gen \in {Inline} \cup vlogs)
      BY Zenon DEF ViewOf
    <2> QED
      BY <1>2, <2>1
  <1> QED
    BY <1>2, <1>3, Zenon DEF ViewOf

LEMMA ViewedStep ==
    ASSUME TypeOK, Generations, Passes, Stored, Recoverable, Viewed, [Next]_vars
    PROVE  Viewed'
  <1>0. ASSUME UNCHANGED <<snaps, views, skipped>>, vlogs \subseteq vlogs',
               log' = log \/ \E r \in Record : log' = Append(log, r)
        PROVE  Viewed'
    <2>1. ASSUME NEW s \in Snap, snaps'[s] # Latest PROVE ViewOf(s)'
      <3>1. snaps[s] # Latest /\ snaps'[s] = snaps[s] /\ views'[s] = views[s]
        BY <1>0, <2>1
      <3>2. ViewOf(s)
        BY <3>1, ViewedIs
      <3> QED
        BY <1>0, <3>1, <3>2, ViewKept
    <2> QED
      BY <2>1, ViewedNext
  <1>1. ASSUME NEW k \in Key, NEW separate \in BOOLEAN,
               Write(k, calls + 1, separate) \/ Write(k, NotFound, FALSE)
        PROVE  Viewed'
    <2>1. PICK v \in 0..MaxCalls, sep \in BOOLEAN : Write(k, v, sep)
      BY <1>1, SomeWrite
    <2>2. log' = log \/ \E r \in Record : log' = Append(log, r)
      BY <2>1, WriteEffect, Zenon DEF NewRecord, AnyRecord
    <2>3. UNCHANGED <<snaps, views, skipped, vlogs>>
      BY <2>1 DEF Write, memory
    <2> QED
      BY <1>0, <2>2, <2>3
  <1>2. ASSUME GcEntry PROVE Viewed'
    <2>1. UNCHANGED <<snaps, views, skipped, vlogs>>
      BY <1>2 DEF GcEntry, memory
    <2>2. log' = log \/ \E r \in Record : log' = Append(log, r)
      BY <1>2, GcEntryEffect, Zenon DEF NewRecord, AnyRecord
    <2> QED
      BY <1>0, <2>1, <2>2
  <1>3. ASSUME \/ Flush \/ InstallCompaction \/ StartGc \/ GcRotate \/ GcNextGeneration \/ GcDrain
               \/ GcUnlink \/ UNCHANGED vars
        PROVE  Viewed'
    <2>1. UNCHANGED <<snaps, views, skipped, log>> /\ vlogs \subseteq vlogs'
      BY <1>3 DEF Flush, InstallCompaction, StartGc, GcRotate, GcNextGeneration, GcDrain, GcUnlink,
         vars, memory, disk, history
    <2> QED
      BY <1>0, <2>1
  <1>4. ASSUME GcRetire PROVE Viewed'
    <2>1. UNCHANGED <<snaps, views, skipped, log>>
      BY <1>4 DEF GcRetire
    <2>2. CASE vlogs' = vlogs
      BY <1>0, <2>1, <2>2
    <2>3. CASE MayRetire
      BY <2>1, <2>3, ViewedNext DEF MayRetire, NoSnapshots
    <2> QED
      BY <1>4, <2>2, <2>3 DEF GcRetire
  <1>5. ASSUME NEW s \in Snap, GetSnapshot(s) PROVE Viewed'
    <2>1. /\ up /\ snaps' = [snaps EXCEPT ![s] = Len(log)] /\ views' = [views EXCEPT ![s] = store]
          /\ skipped' = skipped /\ vlogs' = vlogs /\ log' = log
      BY <1>5 DEF GetSnapshot, disk
    <2>2. snaps \in [Snap -> Nat \cup {Latest}] /\ store \in [Key -> 0..MaxCalls]
          /\ views \in [Snap -> [Key -> 0..MaxCalls] \cup {<<>>}]
      BY DEF TypeOK
    <2>3. ASSUME NEW t \in Snap, snaps'[t] # Latest PROVE ViewOf(t)'
      <3>1. CASE t = s
        <4>1. snaps'[t] = Len(log) /\ views'[t] = store
          BY <2>1, <2>2, <3>1
        <4>2. SubSeq(log, 1, Len(log)) = log /\ Len(log) \in Nat
          BY WholeLog
        <4>3. ASSUME NEW k \in Key
              PROVE  /\ NewestOf(log, k).val = store[k]
                     /\ ~skipped => NewestOf(log, k).gen \in {Inline} \cup vlogs
          BY <2>1, LatestOpen DEF Stored
        <4>4. Len(log) <= Len(log)
          BY <4>2
        <4> QED
          BY <2>1, <2>2, <4>1, <4>2, <4>3, <4>4 DEF ViewOf
      <3>2. CASE t # s
        <4>1. snaps'[t] = snaps[t] /\ views'[t] = views[t]
          BY <2>1, <2>2, <3>2
        <4>2. snaps[t] # Latest /\ ViewOf(t)
          BY <2>3, <4>1, ViewedIs
        <4> QED
          BY <2>1, <4>1, <4>2, ViewKept
      <3> QED
        BY <3>1, <3>2
    <2> QED
      BY <2>3, ViewedNext
  <1>6. ASSUME NEW s \in Snap, ReleaseSnapshot(s) PROVE Viewed'
    <2>1. /\ snaps' = [snaps EXCEPT ![s] = Latest] /\ views' = [views EXCEPT ![s] = <<>>]
          /\ skipped' = skipped /\ vlogs' = vlogs /\ log' = log
      BY <1>6 DEF ReleaseSnapshot, disk
    <2>2. snaps \in [Snap -> Nat \cup {Latest}] /\ views \in [Snap -> [Key -> 0..MaxCalls] \cup {<<>>}]
      BY DEF TypeOK
    <2>3. ASSUME NEW t \in Snap, snaps'[t] # Latest PROVE ViewOf(t)'
      <3>1. t # s
        BY <2>1, <2>2, <2>3
      <3>2. snaps'[t] = snaps[t] /\ views'[t] = views[t]
        BY <2>1, <2>2, <3>1
      <3>3. snaps[t] # Latest /\ ViewOf(t)
        BY <2>3, <3>2, ViewedIs
      <3> QED
        BY <2>1, <3>2, <3>3, ViewKept
    <2> QED
      BY <2>3, ViewedNext
  <1>7. ASSUME NEW kind, Crash(kind) PROVE Viewed'
    BY <1>7, ViewedNext DEF Crash
  <1>8. ASSUME Open PROVE Viewed'
    <2>1. ~up /\ snaps' = snaps
      BY <1>8 DEF Open
    <2> QED
      BY <2>1, ViewedNext DEF Passes
  <1> QED
    BY <1>1, <1>2, <1>3, <1>4, <1>5, <1>6, <1>7, <1>8, Zenon
    DEF Next, Background, Collector

-----------------------------------------------------------------------------
(***************************************************************************)
(* The theorems.                                                           *)
(***************************************************************************)

LEMMA InitBase == Init => Base
  <1> SUFFICES ASSUME Init PROVE Base
    OBVIOUS
  <1> USE DEF Init
  <1>1. Positions
    <2>1. <<>> \in Seq(Record) /\ Len(<<>>) = 0
      BY EmptySeq
    <2> QED
      BY <2>1 DEF Positions
  <1>2. Bytes
    <2>1. <<>> \in Seq(Cell) /\ Len(<<>>) = 0
      BY EmptySeq
    <2> QED
      BY <2>1 DEF Bytes
  <1>3. 1 \in Gen /\ 2 \in 1..MaxGen + 1
    BY VlogAssumption DEF Gen
  <1>4. Files
    BY <1>3 DEF Files
  <1>5. Rest
    <2>1. NoPass \in Pass
      BY DEF NoPass, Pass
    <2>2. store \in [Key -> 0..MaxCalls] /\ calls \in 0..MaxCalls
      BY VlogAssumption DEF NotFound
    <2> QED
      BY <2>1, <2>2 DEF Rest
  <1>6. TypeOK
    BY <1>1, <1>2, <1>4, <1>5, TypeParts
  <1>7. Generations
    <2>1. Len(log) = 0
      BY EmptySeq
    <2> QED
      BY <2>1 DEF Generations, Alive, IsLast
  <1>8. Passes
    BY DEF Passes, NoPass
  <1> QED
    BY <1>6, <1>7, <1>8 DEF Base

LEMMA BaseStep ==
    ASSUME Base, [Next]_vars
    PROVE  Base'
  BY TypeStep, GenerationsStep, PassesStep DEF Base

\* Every variable keeps its type, the positions in the history stay in order,
\* and an open database always has a generation to append to: whatever fails
\* in a pass, WriteEntry finds a current value log.
THEOREM TypesKept == Spec => []TypeOK
  <1>1. Base => TypeOK
    BY DEF Base
  <1> QED
    BY <1>1, InitBase, BaseStep, PTL DEF Spec

\* A record of the log that survives a power cut never points at value bytes
\* that might not survive it (kSyncAlways): MaybeSync and
\* ForceDurabilityLocked sync the value log first, and a rotation of either
\* log keeps that so, as long as no fsync of the value log has failed.
THEOREM DurablePointersAlways ==
    ASSUME "partial" \notin Faults, "fsync" \notin Faults
    PROVE  Spec => []DurableWalHasDurableVlog
  <1>0. Clean
    BY DEF Clean
  <1>1. Init => Durable
    <2> SUFFICES ASSUME Init PROVE Durable
      OBVIOUS
    <2>1. Len(log) = 0
      BY EmptySeq DEF Init
    <2> QED
      BY <2>1 DEF Durable
  <1>2. Base /\ Durable /\ [Next]_vars => (Base /\ Durable)'
    <2> SUFFICES ASSUME Base, Durable, [Next]_vars PROVE (Base /\ Durable)'
      OBVIOUS
    <2>1. Base'
      BY BaseStep
    <2>2. Durable'
      BY <1>0, <2>1, DurableStep DEF Base
    <2> QED
      BY <2>1, <2>2
  <1>3. Base /\ Durable => DurableWalHasDurableVlog
    <2> SUFFICES ASSUME Base, Durable, sync_mode = "always",
                        NEW i \in (1..osynced) \cup (rotated + 1..synced), log[i].gen \in vlogs
                 PROVE  log[i].off <= vsynced[log[i].gen]
      BY DEF DurableWalHasDurableVlog
    <2>1. i \in 1..Len(log)
      BY DEF Base, TypeOK
    <2>2. up
      BY DEF Base, Generations
    <2> QED
      BY <2>1, <2>2 DEF Durable, Alive
  <1> QED
    BY <1>1, <1>2, <1>3, InitBase, PTL DEF Spec

\* A pass that nobody wrote behind leaves nothing for the next one to do, for
\* values larger than the header and key stored with them: vlog_gc_floor_ is
\* enough to keep a mostly live generation from being rewritten for ever.
THEOREM PassesSettle ==
    ASSUME kOverhead < kValueSize
    PROVE  Spec => []PassSettles
  <1>1. Init => Settled
    BY DEF Init, Settled
  <1>2. Base /\ Settled /\ [Next]_vars => (Base /\ Settled)'
    BY BaseStep, SettledStep DEF Base
  <1>3. Base /\ Settled => PassSettles
    BY SettledMeansIdle DEF Base, PassSettles
  <1> QED
    BY <1>1, <1>2, <1>3, InitBase, PTL DEF Spec

LEMMA InitExact == Init => Exact
  <1> SUFFICES ASSUME Init PROVE Exact
    OBVIOUS
  <1>1. Len(log) = 0
    BY EmptySeq DEF Init
  <1> QED
    BY <1>1 DEF Exact

\* A Get or Scan that resolves a pointer it found at any earlier moment of
\* this process returns the value that was put or an error, never the bytes
\* of another entry, even past torn entries: VLog::ReadValue, which does not
\* check the key, needs only that a power cut keeps values before records.
THEOREM ReadersAlwaysRight ==
    ASSUME "reorder" \notin Damage
    PROVE  Spec => []ReadersNeverWrong
  <1>1. Base /\ Exact /\ [Next]_vars => (Base /\ Exact)'
    BY BaseStep, ExactStep DEF Base
  <1>2. Base /\ Exact => ReadersNeverWrong
    <2> SUFFICES ASSUME Base, Exact, up, NEW i \in 1..Len(log)
                 PROVE  Resolve(log[i]) \in {<<>>, <<log[i].val>>}
      BY DEF ReadersNeverWrong
    <2>1. CASE log[i].gen = Inline
      BY <2>1 DEF Resolve
    <2>2. CASE log[i].gen # Inline /\ (Gone(log[i]) \/ log[i].off > Len(vlog[log[i].gen]))
      BY <2>2 DEF Resolve
    <2>3. CASE log[i].gen # Inline /\ ~Gone(log[i]) /\ ~(log[i].off > Len(vlog[log[i].gen]))
      <3>1. log[i].gen \in Alive
        BY <2>3 DEF Gone, Alive
      <3>2. vlog[log[i].gen][log[i].off] = [key |-> log[i].user, val |-> log[i].val]
        BY <3>1 DEF Exact
      <3>3. vlog[log[i].gen][log[i].off].val = log[i].val
        BY <3>2
      <3> QED
        BY <2>3, <3>3, Zenon DEF Resolve
    <2> QED
      BY <2>1, <2>2, <2>3
  <1> QED
    BY <1>1, <1>2, InitBase, InitExact, PTL DEF Spec

LEMMA InitResolving == Init => Resolving
  <1> SUFFICES ASSUME Init PROVE Resolving
    OBVIOUS
  <1>0. Base /\ Exact
    BY InitBase, InitExact
  <1>1. log \in Seq(Record) /\ Len(log) = 0
    BY <1>0, EmptySeq DEF Init, Base, TypeOK
  <1>2. NothingTorn
    <2>1. \A g \in Gen : Len(vlog[g]) = 0
      BY EmptySeq DEF Init
    <2> QED
      BY <2>1 DEF NothingTorn
  <1>3. Moved
    BY DEF Init, Moved, NoPass
  <1>4. ASSUME NEW k PROVE NewestOf(log, k) = NoRecord
    <2>1. \A i \in 1..Len(log) : log[i].key # k
      BY <1>1
    <2> QED
      BY <1>1, <2>1, NewestNone
  <1>5. Stored
    BY <1>4 DEF Init, Stored, NoRecord
  <1>6. Recoverable
    <2> SUFFICES ASSUME NEW m \in Safe..Len(log), NEW k \in Key
                 PROVE  NewestOf(SubSeq(log, 1, m), k).gen \in {Inline} \cup named
      BY DEF Recoverable
    <2>1. m = Len(log)
      BY <1>1 DEF Init, Safe
    <2>2. SubSeq(log, 1, m) = log
      BY <1>1, <2>1, PrefixFull
    <2>3. NewestOf(log, k) = NoRecord
      BY <1>4
    <2>4. NoRecord.gen = Inline
      BY DEF NoRecord
    <2> QED
      BY <2>2, <2>3, <2>4, Zenon
  <1>7. Viewed
    BY DEF Init, Viewed
  <1>8. NoneFailed
    BY <1>1 DEF NoneFailed
  <1> QED
    BY <1>0, <1>2, <1>3, <1>5, <1>6, <1>7, <1>8 DEF Resolving

LEMMA ResolvingStep ==
    ASSUME Damage = {}, Clean, Resolving, [Next]_vars
    PROVE  Resolving'
  <1>1. TypeOK /\ Generations /\ Passes /\ "torn" \notin Damage /\ "reorder" \notin Damage
    BY DEF Resolving, Base
  <1>2. NoneFailed /\ Exact /\ NothingTorn /\ Moved /\ Stored /\ Recoverable /\ Viewed
    BY DEF Resolving
  <1>3. Base'
    BY BaseStep DEF Resolving
  <1>4. Exact' /\ NothingTorn'
    BY <1>1, <1>2, ExactStep, NothingTornStep
  <1>5. Moved'
    BY <1>1, <1>2, MovedStep
  <1>6. Stored'
    BY <1>1, <1>2, StoredStep
  <1>7. Recoverable'
    BY <1>1, <1>2, RecoverableStep
  <1>8. Viewed'
    BY <1>1, <1>2, ViewedStep
  <1>9. NoneFailed'
    BY <1>1, <1>2, NoneFailedStep
  <1> QED
    BY <1>3, <1>4, <1>5, <1>6, <1>7, <1>8, <1>9 DEF Resolving

\* A record that is inline, or points at its entry in an open generation,
\* resolves to its value.
LEMMA Resolves ==
    ASSUME Resolving, up, NEW r, r.gen \in {Inline} \cup vlogs,
           r.gen # Inline => \E i \in 1..Len(log) : r = log[i]
    PROVE  Resolve(r) = <<r.val>>
  <1>1. CASE r.gen = Inline
    BY <1>1 DEF Resolve
  <1>2. CASE r.gen # Inline
    <2>1. PICK i \in 1..Len(log) : r = log[i]
      BY <1>2
    <2>2. r.gen \in vlogs /\ r.gen \in Alive /\ r.gen \in Gen
      BY <1>2 DEF Alive, Resolving, Base, TypeOK
    <2>3. /\ r.off \in 1..Len(vlog[r.gen])
          /\ vlog[r.gen][r.off] = [key |-> r.user, val |-> r.val]
      BY <2>1, <2>2 DEF Resolving, Exact
    <2>4. vlog[r.gen][r.off] # Torn
      BY <2>2, <2>3 DEF Resolving, NothingTorn
    <2>5. Len(vlog[r.gen]) \in Nat
      BY <2>2 DEF Resolving, Base, TypeOK
    <2>6. ~(r.off > Len(vlog[r.gen]))
      BY <2>3, <2>5
    <2>7. vlog[r.gen][r.off].val = r.val
      BY <2>3
    <2>8. ~Gone(r)
      BY <2>2 DEF Gone
    <2> QED
      BY <1>2, <2>4, <2>6, <2>7, <2>8, Zenon DEF Resolve
  <1> QED
    BY <1>1, <1>2

\* However often RunVlogGC moves the entries of a key, and wherever a pass is
\* interrupted by a failure, a crash or a snapshot, Get returns what the last
\* Put stored, and a Delete or a newer Put is never undone.  A failed write
\* leaves nothing in the WAL: neither fsync nor half an append fails.
THEOREM LatestAlwaysResolves ==
    ASSUME Damage = {}, "partial" \notin Faults, "fsync" \notin Faults
    PROVE  Spec => []LatestResolves
  <1>0. Clean
    BY DEF Clean
  <1>1. Resolving => LatestResolves
    <2> SUFFICES ASSUME Resolving, up, ~skipped, NEW k \in Key
                 PROVE  Resolve(RecordOf(k, Len(log))) = <<store[k]>>
      BY DEF LatestResolves
    <2>1. TypeOK /\ Generations /\ Recoverable /\ log \in Seq(Record)
      BY DEF Resolving, Base, TypeOK
    <2> DEFINE r == NewestOf(log, k)
    <2>2. RecordOf(k, Len(log)) = r
      BY <2>1, WholeLog
    <2>3. r.gen \in {Inline} \cup vlogs
      BY <2>1, LatestOpen
    <2>4. r.gen # Inline => \E i \in 1..Len(log) : r = log[i]
      BY <2>1, NewestRecord
    <2>5. r.val = store[k]
      BY DEF Resolving, Stored
    <2> HIDE DEF r
    <2>6. Resolve(r) = <<r.val>>
      BY <2>3, <2>4, Resolves
    <2> QED
      BY <2>2, <2>5, <2>6
  <1> QED
    BY <1>0, <1>1, InitResolving, ResolvingStep, PTL DEF Spec

\* Every key reads through a live snapshot as it did when the snapshot was
\* taken: the guards of RunVlogGC on snapshots_, before the pass and before
\* the retirement, are enough whatever passes run in between, when a failed
\* write leaves nothing in the WAL.
THEOREM SnapshotsAlwaysResolve ==
    ASSUME Damage = {}, "partial" \notin Faults, "fsync" \notin Faults
    PROVE  Spec => []SnapshotsResolve
  <1>0. Clean
    BY DEF Clean
  <1>1. Resolving => SnapshotsResolve
    <2> SUFFICES ASSUME Resolving, up, ~skipped, NEW s \in Snap, NEW k \in Key, snaps[s] # Latest
                 PROVE  Resolve(RecordOf(k, snaps[s])) = <<views[s][k]>>
      BY DEF SnapshotsResolve
    <2>1. TypeOK /\ Viewed /\ log \in Seq(Record)
      BY DEF Resolving, Base, TypeOK
    <2> DEFINE p == SubSeq(log, 1, snaps[s])
               r == NewestOf(p, k)
    <2>2. ViewOf(s)
      BY <2>1, ViewedIs
    <2>3. snaps[s] <= Len(log) /\ r.val = views[s][k] /\ r.gen \in {Inline} \cup vlogs
      BY <2>2, Zenon DEF ViewOf
    <2>4. snaps[s] \in 0..Len(log)
      BY <2>1, <2>3 DEF TypeOK
    <2>5. p \in Seq(Record) /\ Len(p) = snaps[s] /\ \A i \in 1..snaps[s] : p[i] = log[i]
      BY <2>1, <2>4, PrefixOf
    <2> HIDE DEF p
    <2>6. r.gen # Inline => \E i \in 1..Len(p) : r = p[i]
      BY <2>5, NewestRecord
    <2>7. r.gen # Inline => \E i \in 1..Len(log) : r = log[i]
      BY <2>1, <2>4, <2>5, <2>6
    <2>8. RecordOf(k, snaps[s]) = r
      BY DEF RecordOf, p
    <2> HIDE DEF r
    <2>9. Resolve(r) = <<r.val>>
      BY <2>3, <2>7, Resolves
    <2> QED
      BY <2>3, <2>8, <2>9
  <1> QED
    BY <1>0, <1>1, InitResolving, ResolvingStep, PTL DEF Spec

\* Were the process to end now, every pointer that Open may recover as the
\* newest of its key is into a generation that the MANIFEST names, so long as
\* the MANIFEST's floor has passed no record that is not in an SST:
\* "durability BEFORE retirement" in RunVlogGC.  A failed write leaves nothing
\* in the WAL.
THEOREM RecoveryAlwaysNamed ==
    ASSUME Damage = {}, "partial" \notin Faults, "fsync" \notin Faults
    PROVE  Spec => []RecoveryNamedAtFloor
  <1>0. Clean
    BY DEF Clean
  <1>1. Resolving => RecoveryNamedAtFloor
    <2> SUFFICES ASSUME Resolving, floor = flushed, ~skipped,
                        NEW m \in OldEnds(osynced), NEW n \in LiveEnds(synced), NEW k \in Key
                 PROVE  NewestOf(Survivors(m, n), k).gen \in {Inline} \cup named
      BY DEF RecoveryNamedAtFloor, RecoveryNamed
    <2>1. TypeOK /\ NoneFailed /\ Recoverable
      BY DEF Resolving, Base
    <2>2. osynced \in floor..rotated /\ synced \in rotated..Len(log)
      BY <2>1 DEF TypeOK
    <2>3. m \in osynced..rotated /\ n \in synced..Len(log)
      BY <2>1, <2>2, EndsClean
    <2> QED
      BY <2>1, <2>3, SurvivorsNamed
  <1> QED
    BY <1>0, <1>1, InitResolving, ResolvingStep, PTL DEF Spec
=============================================================================
