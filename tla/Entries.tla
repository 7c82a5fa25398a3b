------------------------------ MODULE Entries ------------------------------
(***************************************************************************)
(* Versioned entries and the pure functions BedrockKV computes over them:  *)
(* the internal-key order, the point lookup inside one sorted table, the   *)
(* retention rule of a compaction and the cutting of its output.           *)
(*                                                                         *)
(* An entry is what the memtable, the WAL and the SSTs all carry: a user   *)
(* key, a sequence number, a value type and a value.  User keys are        *)
(* naturals, so that their order is <.  A value is the number of the write *)
(* call that supplied it: a reader can tell any two writes apart, which is *)
(* all the properties need of the bytes.  A table (memtable or SST) is a   *)
(* set of entries; its order is the internal-key order of the entries.     *)
(***************************************************************************)
EXTENDS Naturals, FiniteSets

CONSTANTS
    Key,       \* user keys, a finite set of naturals
    kMaxSeq,   \* MemTable::kMaxSeq: the "no bound" sequence number
    MaxCalls   \* bound: write calls made in a behaviour

ASSUME KeyAssumption == Key \subseteq Nat /\ Key # {} /\ IsFiniteSet(Key)

ASSUME CallsAssumption == MaxCalls \in Nat /\ kMaxSeq \in Nat /\ MaxCalls < kMaxSeq

\* kTypeDeletion and kTypeValue.
kTypeDeletion == 0
kTypeValue == 1

\* What a read returns for a key that is missing or deleted.
NotFound == 0

Value == 0..MaxCalls

Entry == [key : Key, seq : Nat \ {0}, type : {kTypeDeletion, kTypeValue},
          val : Value]

\* The tag (seq << 8) | type, with one bit kept for the type.
Tag(e) == 2 * e.seq + e.type

\* Equal internal keys: the memtable comparator ignores the value.
SameInternalKey(e, f) == e.key = f.key /\ e.seq = f.seq /\ e.type = f.type

-----------------------------------------------------------------------------
(***************************************************************************)
(* Lookups.                                                                *)
(***************************************************************************)

\* The versions of k a read bounded by max_seq may see.
Visible(T, k, max_seq) == {e \in T : e.key = k /\ e.seq <= max_seq}

\* The entry a Seek to (key, (max_seq << 8) | 0xff) lands on: tags sort
\* descending, so it is the visible version with the largest tag.
Newest(T, k, max_seq) ==
    CHOOSE e \in Visible(T, k, max_seq) :
        \A f \in Visible(T, k, max_seq) : Tag(f) <= Tag(e)

\* kFound hands out the value; kDeleted and kMissing both become NotFound.
ValueOf(e) == IF e.type = kTypeValue THEN e.val ELSE NotFound

\* The answer of one sorted run of entries for k.
ValueIn(T, k, max_seq) ==
    IF Visible(T, k, max_seq) = {} THEN NotFound ELSE ValueOf(Newest(T, k, max_seq))

\* The user-key range FileMeta records of a non-empty table.
SmallestKey(T) == CHOOSE k \in {e.key : e \in T} : \A e \in T : k <= e.key
LargestKey(T)  == CHOOSE k \in {e.key : e \in T} : \A e \in T : e.key <= k

\* SkipList::Insert keeps the entry that is already there.
Insert(T, e) == IF \E f \in T : SameInternalKey(e, f) THEN T ELSE T \cup {e}

-----------------------------------------------------------------------------
(***************************************************************************)
(* Compaction.                                                             *)
(***************************************************************************)

\* Mutant: the newest version of a key is all that is kept, snapshots or not.
RetainNewest(T, floor, bottom) == {e \in T : e = Newest(T, e.key, kMaxSeq)}

\* Mutant: the floor version is dropped with the ones it covers.
RetainAboveFloor(T, floor, bottom) == {e \in T : e.seq > floor}

\* The versions RunCompaction keeps: everything above the snapshot floor,
\* and the newest version at or below it unless that is a tombstone on its
\* way into the bottom level.
Retain(T, floor, bottom) ==
    {e \in T : \/ e.seq > floor
               \/ /\ e = Newest(T, e.key, floor)
                  /\ ~(bottom /\ e.type = kTypeDeletion)}

\* The next output file: entries are added in key order and the file is
\* sealed before the first new user key that finds it full.
FirstOutput(T, max_size) ==
    LET upto(k) == {e \in T : e.key <= k}
        full    == {k \in {e.key : e \in T} : Cardinality(upto(k)) >= max_size}
    IN  IF full = {} THEN T
        ELSE upto(CHOOSE k \in full : \A j \in full : k <= j)

\* Two key ranges <<lo, hi>> meet.
Overlap(r, s) == r[2] >= s[1] /\ r[1] <= s[2]

=============================================================================
