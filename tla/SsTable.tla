------------------------------ MODULE SsTable -------------------------------
(***************************************************************************)
(* An SSTable from its builder to its readers (sstable.cpp, block.cpp,     *)
(* bloom.h): prefix-compressed blocks with restart points, an index with   *)
(* the last key of every block, a Bloom filter per block; then the point   *)
(* lookup and the iterator on the opened file.                             *)
(*                                                                         *)
(* Keys are bytes, because prefixes are shared across the border between   *)
(* user key and tag: an internal key is the user key with a tag of two     *)
(* bytes, type first (the tag is little-endian).  The rest of the file is  *)
(* kept as what its encoding delimits: a block is a sequence of entries,   *)
(* an offset is a position in it.  The CRC and the checks that only a      *)
(* damaged file can fail are left out.                                     *)
(***************************************************************************)
EXTENDS Naturals, Sequences, FiniteSets, SequencesExt

CONSTANTS
    UserKey,            \* user keys: sequences of bytes
    MaxSeq,             \* bound: sequence numbers, and so entries
    TableOptions,       \* records of block_size and restart_interval
    Hash(_),            \* bloom::Hash
    kHalfHash,          \* a hash has two halves of this many values
    bloom_bits_per_key, kMinFilterBits, kProbes

ASSUME SsTableAssumption ==
    /\ UserKey \subseteq Seq(Nat) /\ MaxSeq \in Nat \ {0}
    /\ \A o \in TableOptions : o.block_size \in Nat /\ o.restart_interval \in Nat \ {0}
    /\ {kHalfHash, bloom_bits_per_key, kMinFilterBits, kProbes} \subseteq Nat \ {0}
    /\ \A k \in UserKey : Hash(k) \in 0 .. kHalfHash * kHalfHash - 1

VARIABLES
    options,       \* the builder's options
    data_block,    \* data_block_
    index_block,   \* index_block_
    block_keys,    \* block_user_keys_
    blocks,        \* the sealed data blocks
    filters,       \* their filters
    index,         \* index_ of the opened table; <<>> before
    added          \* history: the internal keys added, in order

sstVars == <<options, data_block, index_block, block_keys, blocks, filters, index, added>>

-----------------------------------------------------------------------------
(***************************************************************************)
(* Internal keys.                                                          *)
(***************************************************************************)
kTagSize == 2
kAnyType == 255

EncodeInternalKey(user_key, seq, type) == user_key \o <<type, seq>>

UserKeyOf(ik) == SubSeq(ik, 1, Len(ik) - kTagSize)
TagOf(ik)     == 256 * ik[Len(ik)] + ik[Len(ik) - 1]

\* The order of std::string_view.
LexLess(a, b) ==
    \E n \in 0 .. Len(a) : /\ n < Len(b) /\ SubSeq(a, 1, n) = SubSeq(b, 1, n)
                           /\ n < Len(a) => a[n + 1] < b[n + 1]

\* InternalKeyComparator: user key ascending, tag descending.
InternalLess(a, b) ==
    IF UserKeyOf(a) # UserKeyOf(b) THEN LexLess(UserKeyOf(a), UserKeyOf(b))
                                   ELSE TagOf(a) > TagOf(b)

-----------------------------------------------------------------------------
(***************************************************************************)
(* Blocks.                                                                 *)
(***************************************************************************)
NewBlock == [buffer |-> <<>>, restarts |-> <<1>>, last_key |-> <<>>, counter |-> 0]

\* How many leading bytes two keys share.
Shared(a, b) ==
    LET common == {n \in 0 .. Len(a) : n <= Len(b) /\ SubSeq(a, 1, n) = SubSeq(b, 1, n)}
    IN  CHOOSE n \in common : \A m \in common : m <= n

\* Mutant: a restart point shares a prefix as well.
BlockAddSharing(b, key, value) ==
    LET restart == b.counter >= options.restart_interval
        shared  == Shared(b.last_key, key)
        entry   == [shared |-> shared, delta |-> SubSeq(key, shared + 1, Len(key)),
                    value |-> value]
    IN  [buffer   |-> Append(b.buffer, entry),
         restarts |-> IF restart THEN Append(b.restarts, Len(b.buffer) + 1) ELSE b.restarts,
         last_key |-> key,
         counter  |-> IF restart THEN 1 ELSE b.counter + 1]

\* BlockBuilder::Add: an entry names the prefix it takes from the one before,
\* except at a restart point.
BlockAdd(b, key, value) ==
    LET restart == b.counter >= options.restart_interval
        shared  == IF restart THEN 0 ELSE Shared(b.last_key, key)
        entry   == [shared |-> shared, delta |-> SubSeq(key, shared + 1, Len(key)),
                    value |-> value]
    IN  [buffer   |-> Append(b.buffer, entry),
         restarts |-> IF restart THEN Append(b.restarts, Len(b.buffer) + 1) ELSE b.restarts,
         last_key |-> key,
         counter  |-> IF restart THEN 1 ELSE b.counter + 1]

\* One unit for an entry's header, for a restart and for each byte of a key.
CurrentSizeEstimate(b) ==
    FoldLeft(LAMBDA n, e : n + 1 + Len(e.delta), Len(b.restarts) + 1, b.buffer)

\* A cursor on a block: ParseEntry rebuilds the key from the one it holds; a
\* prefix longer than that one is taken for corruption.
NoPosition == [at |-> 0, key |-> <<>>, valid |-> FALSE]

ParseEntry(b, cur, at) ==
    IF at > Len(b.buffer) \/ b.buffer[at].shared > Len(cur.key)
    THEN [cur EXCEPT !.valid = FALSE]
    ELSE [at |-> at, key |-> SubSeq(cur.key, 1, b.buffer[at].shared) \o b.buffer[at].delta,
          valid |-> TRUE]

BlockSeekToFirst(b) == ParseEntry(b, NoPosition, 1)
BlockNext(b, cur)   == ParseEntry(b, cur, cur.at + 1)

KeyAtRestart(b, i) == b.buffer[b.restarts[i]].delta

\* The last restart point below the target, by bisection.
SeekRestart(b, target) ==
    LET Bisect[left \in Nat, right \in Nat] ==
          IF left >= right THEN left
          ELSE LET mid == (left + right + 1) \div 2
               IN  IF InternalLess(KeyAtRestart(b, mid), target)
                   THEN Bisect[mid, right] ELSE Bisect[left, mid - 1]
    IN  Bisect[1, Len(b.restarts)]

\* Block::Seek: from there, entry by entry, to the first at or above it.
BlockSeek(b, target) ==
    LET Scan[cur \in [at : Nat, key : Seq(Nat), valid : BOOLEAN]] ==
          IF cur.valid /\ InternalLess(cur.key, target) THEN Scan[BlockNext(b, cur)] ELSE cur
    IN  Scan[ParseEntry(b, NoPosition, b.restarts[SeekRestart(b, target)])]

-----------------------------------------------------------------------------
(***************************************************************************)
(* Bloom filters: the bits set, and how many there are.  The hash word is  *)
(* rotated by half its width; the code rotates 32 bits by 17.              *)
(***************************************************************************)
Probes(key, bits) ==
    LET h     == Hash(key)
        delta == (h \div kHalfHash) + (h % kHalfHash) * kHalfHash   \* rotated
    IN  {((h + i * delta) % (kHalfHash * kHalfHash)) % bits : i \in 0 .. kProbes - 1}

\* Mutant: the key that fills the block comes too late for its filter.
BuildFilterWithoutLast(keys) ==
    [bits |-> kMinFilterBits, set |-> UNION {Probes(k, kMinFilterBits) : k \in ToSet(Front(keys))}]

BuildFilter(keys) ==
    LET wanted == Len(keys) * bloom_bits_per_key
        bytes  == ((IF wanted < kMinFilterBits THEN kMinFilterBits ELSE wanted) + 7) \div 8
        bits   == 8 * bytes
    IN  [bits |-> bits, set |-> UNION {Probes(k, bits) : k \in ToSet(keys)}]

KeyMayMatch(f, key) == Probes(key, f.bits) \subseteq f.set

-----------------------------------------------------------------------------
(***************************************************************************)
(* Builder.                                                                *)
(***************************************************************************)
SstInit ==
    /\ options \in TableOptions
    /\ data_block = NewBlock /\ index_block = NewBlock
    /\ block_keys = <<>> /\ blocks = <<>> /\ filters = <<>>
    /\ index = <<>> /\ added = <<>>

\* FlushDataBlock of the data block d, whose last key is ik.
FlushDataBlock(d, keys, ik) ==
    /\ blocks' = Append(blocks, d)
    /\ filters' = Append(filters, BuildFilter(keys))
    /\ index_block' = BlockAdd(index_block, ik, Len(blocks) + 1)
    /\ data_block' = NewBlock /\ block_keys' = <<>>

\* Builder::Add; an entry that is not above the last one is refused.  Every
\* write has a sequence number of its own.
AddEntry(k, seq, type) ==
    LET ik   == EncodeInternalKey(k, seq, type)
        d    == BlockAdd(data_block, ik, ik)
        keys == Append(block_keys, k)
    IN  /\ index = <<>>
        /\ \A i \in DOMAIN added : Last(added[i]) # seq
        /\ added # <<>> => InternalLess(Last(added), ik)
        /\ added' = Append(added, ik)
        /\ IF CurrentSizeEstimate(d) >= options.block_size
           THEN FlushDataBlock(d, keys, ik)
           ELSE /\ data_block' = d /\ block_keys' = keys
                /\ UNCHANGED <<blocks, filters, index_block>>
        /\ UNCHANGED <<options, index>>

\* The entries of a block, read from the first to the last.
EntriesOf(b) ==
    LET Walk[cur \in [at : Nat, key : Seq(Nat), valid : BOOLEAN]] ==
          IF cur.valid
          THEN <<[key |-> cur.key, value |-> b.buffer[cur.at].value]>> \o Walk[BlockNext(b, cur)]
          ELSE <<>>
    IN  Walk[BlockSeekToFirst(b)]

\* Builder::Finish seals the last block; Table::Open reads the index back.
Finish ==
    /\ index = <<>> /\ added # <<>>
    /\ IF data_block.counter > 0
       THEN FlushDataBlock(data_block, block_keys, Last(added))
       ELSE UNCHANGED <<data_block, block_keys, blocks, filters, index_block>>
    /\ index' = EntriesOf(index_block')
    /\ UNCHANGED <<options, added>>

SstNext ==
    \/ \E k \in UserKey, seq \in 1 .. MaxSeq, type \in {0, 1} : AddEntry(k, seq, type)
    \/ Finish

-----------------------------------------------------------------------------
(***************************************************************************)
(* Table.                                                                  *)
(***************************************************************************)
\* lower_bound in the index: the first block whose last key reaches target.
LowerBound(target) == SelectInSeq(index, LAMBDA e : ~InternalLess(e.key, target))

BlockAt(i) == blocks[index[i].value]

KeyMayMatchInBlock(i, user_key) == KeyMayMatch(filters[i], user_key)

\* Table::Get, with the internal key found as the value.
Missing == <<>>
TableGet(user_key, max_seq) ==
    LET target == EncodeInternalKey(user_key, max_seq, kAnyType)
        i      == LowerBound(target)
        cur    == BlockSeek(BlockAt(i), target)
    IN  IF i = 0 THEN Missing
        ELSE IF ~KeyMayMatchInBlock(i, user_key) THEN Missing
        ELSE IF cur.valid /\ UserKeyOf(cur.key) = user_key THEN cur.key ELSE Missing

\* TableIterator: a block and a cursor on it.
EnterBlock(i, cur)  == [block |-> i, cur |-> cur]
IteratorFirst       == EnterBlock(1, BlockSeekToFirst(BlockAt(1)))
IteratorSeek(target) ==
    LET i == LowerBound(target)
    IN  IF i = 0 THEN EnterBlock(0, NoPosition)
        ELSE EnterBlock(i, BlockSeek(BlockAt(i), target))
IteratorAdvance(it) ==
    LET cur == BlockNext(BlockAt(it.block), it.cur)
    IN  IF cur.valid \/ it.block = Len(index) THEN EnterBlock(it.block, cur)
        ELSE EnterBlock(it.block + 1, BlockSeekToFirst(BlockAt(it.block + 1)))

smallest_user_key == UserKeyOf(BlockSeekToFirst(BlockAt(1)).key)
largest_user_key  == UserKeyOf(Last(index).key)

-----------------------------------------------------------------------------
\* Every internal key there may be.
InternalKeys ==
    {EncodeInternalKey(k, s, t) : k \in UserKey, s \in 0 .. MaxSeq, t \in {0, kAnyType}}

\* A lookup with any bound finds the newest visible version: no filter, index
\* boundary, restart point or shared prefix hides it or shows another one.
TableGetExact ==
    index # <<>> =>
        \A k \in UserKey, max_seq \in 0 .. MaxSeq + 1 :
            LET versions == SelectSeq(added, LAMBDA ik : UserKeyOf(ik) = k
                                                       /\ Last(ik) <= max_seq)
            IN  TableGet(k, max_seq) = IF versions = <<>> THEN Missing ELSE Head(versions)

\* The iterator yields the entries added, in order and to the end, from the
\* first one or from any target; the key range is theirs.
WalkExact ==
    index # <<>> =>
        LET Rest[it \in [block : Nat, cur : [at : Nat, key : Seq(Nat), valid : BOOLEAN]]] ==
              IF it.cur.valid THEN <<it.cur.key>> \o Rest[IteratorAdvance(it)] ELSE <<>>
        IN  /\ Rest[IteratorFirst] = added
            /\ \A t \in InternalKeys :
                 Rest[IteratorSeek(t)] = SelectSeq(added, LAMBDA ik : ~InternalLess(ik, t))
            /\ smallest_user_key = UserKeyOf(added[1])
            /\ largest_user_key = UserKeyOf(Last(added))
=============================================================================
