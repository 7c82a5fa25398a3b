-------------------------------- MODULE Wal ---------------------------------
(***************************************************************************)
(* The log file format of log.h and log.cpp: records cut into fragments    *)
(* that never cross a block boundary, the Writer that appends them, the    *)
(* Reader that recovery runs over the file, the truncation of a torn tail  *)
(* by DB::Open and the writer attached again at the end of the file.       *)
(*                                                                         *)
(* The file is a sequence of cells, one per byte.  A cell of a fragment    *)
(* says which fragment it belongs to and where in it, which stands for     *)
(* the header fields and for the CRC: a run of cells is accepted exactly   *)
(* when it is one whole fragment, and anything else is a CRC or a length   *)
(* that does not match.  Offsets are 0-based like the code's.              *)
(***************************************************************************)
EXTENDS Naturals, Sequences, SequencesExt

CONSTANTS
    kBlockSize,
    kHeaderSize,
    PayloadSizes,      \* the payload lengths the writer is given
    MaxRecords,        \* bound: AddRecord calls
    MaxRestarts,       \* bound: crashes and reopenings
    Damage             \* "header": a power cut may leave part of a first header
                       \* "partial": a failed write may leave part of a record

ASSUME FormatAssumption ==
    /\ kHeaderSize \in Nat \ {0}
    /\ kBlockSize \in Nat /\ kBlockSize > kHeaderSize
    /\ PayloadSizes \subseteq Nat
    /\ MaxRecords \in Nat /\ MaxRestarts \in Nat
    /\ Damage \subseteq {"header", "partial"}

VARIABLES
    file,            \* the bytes of the log
    synced,          \* how many of them fsync has covered
    file_offset,     \* Writer::file_offset_
    buf,             \* EncodeRecord: the encoding so far
    left,            \* EncodeRecord: payload bytes to go
    frag,            \* EncodeRecord: the fragment it comes to, 1 is `begin`
    block_off,       \* EncodeRecord: bytes of the block used
    pc,              \* "writing", "encoding", "encoded", "reading" or "replayed"
    pos,             \* Reader: the absolute offset of the next byte to parse
    fragments,       \* Reader: the fragments assembled in scratch_
    last_good_end,   \* Reader::last_good_end_
    replayed,        \* the records ReadRecord has returned in this recovery
    truncated,       \* wal_truncated_: this recovery cut a torn tail
    acked,           \* history: records whose AddRecord returned Ok
    durable,         \* history: how many of them an fsync has covered
    calls,           \* history: AddRecord calls so far
    restarts         \* history: crashes and reopenings so far

writer  == <<file_offset>>
encoder == <<buf, left, frag, block_off>>
reader  == <<pos, fragments, last_good_end, replayed, truncated>>
history == <<acked, durable, calls, restarts>>
vars    == <<file, synced, writer, encoder, pc, reader, history>>

Init ==
    /\ file = <<>> /\ synced = 0 /\ file_offset = 0
    /\ buf = <<>> /\ left = 0 /\ frag = 1 /\ block_off = 0
    /\ pc = "writing"
    /\ pos = 0 /\ fragments = <<>> /\ last_good_end = 0
    /\ replayed = <<>> /\ truncated = FALSE
    /\ acked = <<>> /\ durable = 0 /\ calls = 0 /\ restarts = 0

-----------------------------------------------------------------------------
(***************************************************************************)
(* Writer.                                                                 *)
(***************************************************************************)

Zero == [rec |-> 0, frag |-> 0, type |-> "zero", len |-> 0, at |-> 0]

\* The cells of fragment f of record r: its header and len payload bytes.
Fragment(r, f, type, len) ==
    [i \in 1..kHeaderSize + len |->
        [rec |-> r, frag |-> f, type |-> type, len |-> len, at |-> i]]

\* Writer::AddRecord begins: the fragmentation is decided from file_offset_.
AddRecord(size) ==
    /\ pc = "writing"
    /\ calls < MaxRecords
    /\ calls' = calls + 1
    /\ buf' = <<>> /\ left' = size /\ frag' = 1
    /\ block_off' = file_offset % kBlockSize
    /\ pc' = "encoding"
    /\ UNCHANGED <<file, synced, writer, reader, acked, durable, restarts>>

\* The loop of Writer::EncodeRecord: a block with no room for a header is
\* padded, and the next fragment takes what the block has room for.
EncodeFragment ==
    LET leftover == kBlockSize - block_off
        short    == leftover < kHeaderSize
        pad      == [i \in 1..(IF short THEN leftover ELSE 0) |-> Zero]
        start    == IF short THEN 0 ELSE block_off
        avail    == kBlockSize - start - kHeaderSize
        len      == IF left < avail THEN left ELSE avail
        type     == IF frag = 1 THEN (IF len = left THEN "full" ELSE "first")
                                ELSE (IF len = left THEN "last" ELSE "middle")
    IN  /\ pc = "encoding"
        /\ buf' = (buf \o pad) \o Fragment(calls, frag, type, len)
        /\ left' = left - len /\ frag' = frag + 1
        /\ block_off' = start + kHeaderSize + len
        /\ pc' = IF left - len = 0 THEN "encoded" ELSE "encoding"
        /\ UNCHANGED <<file, synced, writer, reader, history>>

\* Writer::WriteAll: one write of the whole encoding, at the end of the file
\* (O_APPEND).  file_offset_ moves only when the write succeeds; a write that
\* fails may have left a part.
WriteAll ==
    /\ pc = "encoded"
    /\ \/ /\ file' = file \o buf
          /\ file_offset' = file_offset + Len(buf)
          /\ acked' = Append(acked, calls)
       \/ /\ \E n \in 0..(IF "partial" \in Damage THEN Len(buf) - 1 ELSE 0) :
               file' = file \o SubSeq(buf, 1, n)
          /\ UNCHANGED <<file_offset, acked>>
    /\ buf' = <<>> /\ left' = 0 /\ frag' = 1 /\ block_off' = 0
    /\ pc' = "writing"
    /\ UNCHANGED <<synced, reader, durable, calls, restarts>>

\* The fsync of DB::MaybeSync.
Sync ==
    /\ pc = "writing"
    /\ durable < Len(acked)
    /\ synced' = Len(file)
    /\ durable' = Len(acked)
    /\ UNCHANGED <<file, writer, encoder, pc, reader, acked, calls, restarts>>

-----------------------------------------------------------------------------
(***************************************************************************)
(* Reader and recovery.                                                    *)
(***************************************************************************)

\* The end of the block the reader has in buffer_.
BlockEnd(p) ==
    LET end == (p \div kBlockSize + 1) * kBlockSize
    IN  IF end < Len(file) THEN end ELSE Len(file)

Cell(p) == file[p + 1]

\* A header at p: all zero, or the first kHeaderSize bytes of a fragment.
ZeroHeader(p) == \A i \in 0..kHeaderSize - 1 : Cell(p + i) = Zero

\* The fragment at p is whole, inside the block, and its CRC matches.
Intact(p) ==
    LET c == Cell(p) IN
    /\ c # Zero
    /\ p + kHeaderSize + c.len <= BlockEnd(p)
    /\ \A i \in 0..kHeaderSize + c.len - 1 :
         Cell(p + i) = [c EXCEPT !.at = i + 1]

\* ReadPhysicalRecord has less than a header left in the block.
ShortOfHeader == pos + kHeaderSize > BlockEnd(pos)

\* ... and the block was not the last: the rest is padding.  A zero header
\* also sends the reader to the next block.
SkipBlock ==
    /\ pc = "reading"
    /\ \/ ShortOfHeader /\ BlockEnd(pos) < Len(file)
       \/ ~ShortOfHeader /\ ZeroHeader(pos)
    /\ pos' = BlockEnd(pos)
    /\ UNCHANGED <<file, synced, writer, encoder, pc, fragments, last_good_end, replayed,
                   truncated, history>>

AtEof == ShortOfHeader /\ BlockEnd(pos) = Len(file)

AtFragment == ~ShortOfHeader /\ ~ZeroHeader(pos)

\* ReadRecord takes the fragment at pos: the first of a record when none is
\* being assembled, a later one otherwise.
Accepts ==
    /\ Intact(pos)
    /\ Cell(pos).type \in (IF fragments = <<>> THEN {"full", "first"}
                                               ELSE {"middle", "last"})

ReadFragment ==
    /\ pc = "reading"
    /\ AtFragment /\ Accepts
    /\ LET c    == Cell(pos)
           end  == pos + kHeaderSize + c.len
       IN  /\ pos' = end
           /\ IF c.type \in {"full", "last"}
              THEN /\ replayed' = Append(replayed, c.rec)
                   /\ last_good_end' = end
                   /\ fragments' = <<>>
              ELSE /\ fragments' = Append(fragments, <<c.rec, c.frag>>)
                   /\ UNCHANGED <<replayed, last_good_end>>
    /\ UNCHANGED <<file, synced, writer, encoder, pc, truncated, history>>

\* Mutant: the torn tail stays in the file.
LeaveTail ==
    /\ pc = "reading"
    /\ (AtFragment /\ ~Accepts) \/ (AtEof /\ fragments # <<>>)
    /\ truncated' = TRUE
    /\ pc' = "replayed"
    /\ UNCHANGED <<file, synced, writer, encoder, pos, fragments, last_good_end, replayed, history>>

\* kCorruption, a torn tail or a fragment out of place: DB::Open cuts the
\* file behind the last whole record and fsyncs it.
TruncateTail ==
    /\ pc = "reading"
    /\ (AtFragment /\ ~Accepts) \/ (AtEof /\ fragments # <<>>)
    /\ file' = SubSeq(file, 1, last_good_end)
    /\ synced' = last_good_end
    /\ truncated' = TRUE
    /\ pc' = "replayed"
    /\ UNCHANGED <<writer, encoder, pos, fragments, last_good_end, replayed, history>>

\* kEof between two records.
EndOfLog ==
    /\ pc = "reading"
    /\ AtEof /\ fragments = <<>>
    /\ pc' = "replayed"
    /\ UNCHANGED <<file, synced, writer, encoder, reader, history>>

\* The rest of Open: the writer starts at the real end of the file.
AttachWriter ==
    /\ pc = "replayed"
    /\ file_offset' = Len(file)
    /\ acked' = replayed
    /\ durable' = IF truncated THEN Len(replayed) ELSE durable
    /\ pc' = "writing"
    /\ pos' = 0 /\ fragments' = <<>> /\ last_good_end' = 0
    /\ replayed' = <<>> /\ truncated' = FALSE
    /\ UNCHANGED <<file, synced, encoder, calls, restarts>>

\* The cuts a power failure may make: anywhere at or after the last fsync.
\* Without "header" damage, the cut leaves no part of the first header of a
\* record behind.
Cuts ==
    {n \in synced..Len(file) :
        \/ "header" \in Damage
        \/ n = 0
        \/ file[n] = Zero
        \/ file[n].at >= kHeaderSize
        \/ file[n].frag > 1}

\* The process ends and the log is opened again: after a kill or a clean
\* close with the whole file, after a power cut with what reached the disk.
\* A crash while a record is encoded leaves what a crash before the call does.
Restart ==
    /\ pc = "writing"
    /\ restarts < MaxRestarts
    /\ restarts' = restarts + 1
    /\ \E n \in Cuts \cup {Len(file)} : file' = SubSeq(file, 1, n)
    /\ pc' = "reading"
    /\ UNCHANGED <<synced, writer, encoder, reader, acked, durable, calls>>

-----------------------------------------------------------------------------
Next ==
    \/ (\E size \in PayloadSizes : AddRecord(size)) \/ EncodeFragment \/ WriteAll
    \/ Sync \/ Restart
    \/ SkipBlock \/ ReadFragment \/ TruncateTail \/ EndOfLog \/ AttachWriter

Spec == Init /\ [][Next]_vars

-----------------------------------------------------------------------------
\* A recovery replays every record an fsync has covered, in order, and
\* nothing that was not appended: the torn tail is all it loses.
RecoveryExact ==
    pc = "replayed" =>
        /\ IsPrefix(SubSeq(acked, 1, durable), replayed)
        /\ IsPrefix(replayed, acked)

=============================================================================
