------------------------------- MODULE VlogGc -------------------------------
(***************************************************************************)
(* Value separation: the value logs (VLog), the pointers the LSM carries   *)
(* instead of large values, their resolution by Get and Scan, and the      *)
(* garbage collection of value-log generations by the background thread,   *)
(* with snapshots, I/O failures, crashes and Open.                         *)
(*                                                                         *)
(* The LSM below is the history of its records in sequence order: a        *)
(* read bounded by seq finds the last record of its key at or below seq,   *)
(* which is what Lsm shows of memtables, SSTs and compactions.  Four       *)
(* positions in the history say where the records are kept:                *)
(*   1 .. flushed              published SSTs                              *)
(*   flushed + 1 .. rotated    older logs; those up to floor are below the *)
(*                             MANIFEST's log number and not replayed      *)
(*   rotated + 1 .. Len(log)   the live log                                *)
(* A write that failed after its bytes reached the WAL is in the history   *)
(* with key 0: no read finds it before a replay does.                      *)
(* Values and keys of separated writes have one size each, so the offset   *)
(* of an entry is its position in the file.                                *)
(***************************************************************************)
EXTENDS Integers, Sequences, FiniteSets

CONSTANTS
    Key,
    Snap,            \* snapshot handles
    Modes,           \* the sync modes the database may run in: "always", "never"
    vlog_gc_size,    \* bytes of the current generation that trigger a pass
    kValueSize,      \* bytes of a separated value
    kOverhead,       \* bytes of its entry header and key
    Faults,          \* the I/O steps that may fail: of a write "append" (the
                     \* value log), "wal" (AddRecord, nothing written),
                     \* "partial" (AddRecord, part of it written), "fsync"
                     \* (MaybeSync); of a pass "open", "manifest", "flush",
                     \* "sync" (ForceDurabilityLocked)
    Crashes,         \* "kill", "power"
    Damage,          \* "torn": part of an entry may be left at a file's end
                     \* "reorder": a power cut may keep a record and lose the
                     \* value bytes it points at
    MaxCalls,        \* bound: writes and snapshots
    MaxRotations,    \* bound: memtable rotations
    MaxGen,          \* bound: generation numbers
    MaxFaults,       \* bound: I/O failures
    MaxCrashes       \* bound: crashes

ASSUME VlogAssumption ==
    /\ Modes \subseteq {"always", "never"} /\ Modes # {}
    /\ vlog_gc_size \in Nat \ {0}
    /\ kValueSize \in Nat \ {0} /\ kOverhead \in Nat
    /\ Faults \subseteq {"append", "wal", "partial", "fsync",
                        "open", "manifest", "flush", "sync"}
    /\ Crashes \subseteq {"kill", "power"}
    /\ Damage \subseteq {"torn", "reorder"}
    /\ MaxCalls \in Nat /\ MaxRotations \in Nat /\ MaxGen \in Nat \ {0}
    /\ MaxFaults \in Nat /\ MaxCrashes \in Nat

Gen == 1..MaxGen
Inline == 0                 \* the generation of a value kept in the LSM
NotFound == 0
Latest == -1                \* a handle without a snapshot

VARIABLES
    up,          \* the database is open
    sync_mode,   \* sync_mode_
    log,         \* the LSM's records, in the order of the WAL
    flushed,     \* how many of them published SSTs hold
    floor,       \* how many of them are below the MANIFEST's log number
    rotated,     \* how many of them are not in the live log
    osynced,     \* how far fsync has covered the older logs
    synced,      \* how far fsync has covered the live log
    imm,         \* imm_ is set
    vlog,        \* the entries of each value-log file
    vsynced,     \* how many of them fsync has covered
    vfiles,      \* the value-log files in the directory
    vlogs,       \* vlogs_: the open generations; vlog_current_ is the last
    named,       \* the generations the MANIFEST names, or 1 when it names none
    next,        \* next_file_number_, as far as value logs go
    gcFloor,     \* vlog_gc_floor_
    snaps,       \* snapshots_: the sequence of each handle
    gc,          \* where RunVlogGC is, and its locals
    calls,       \* history: writes and snapshots so far
    store,       \* history: the value of each key
    views,       \* history: for each live snapshot, store when it was taken
    quiet,       \* history: a pass has completed and nothing was written since
    skipped,     \* history: a restart left out records below the floor
    rotations,   \* history: rotations so far
    faults,      \* history: I/O failures so far
    crashes      \* history: crashes so far

tables  == <<flushed, floor, rotated, osynced, imm>>
memory  == <<up, sync_mode, vlogs, next, gcFloor, snaps>>
disk    == <<log, synced, vlog, vsynced, vfiles, named>>
history == <<calls, store, views, quiet, skipped, rotations, faults, crashes>>
vars    == <<tables, memory, disk, gc, history>>

Torn == [key |-> 0, val |-> NotFound]

\* A record has its key as reads see it and as the WAL has it.
NoRecord == [key |-> 0, user |-> 0, gen |-> Inline, off |-> 0, val |-> NotFound]

\* What a failed write(2) leaves in the WAL: no record, and nothing behind it
\* in its log is read.
Remnant == [NoRecord EXCEPT !.user = -1]

NoPass == [pc |-> "idle", todo |-> {}, retired |-> {}, off |-> 1, rewritten |-> 0]

IsLast(g, S) == g \in S /\ \A h \in S : h <= g
Current == CHOOSE g \in vlogs : IsLast(g, vlogs)

Init ==
    /\ up = TRUE /\ sync_mode \in Modes
    /\ log = <<>> /\ synced = 0
    /\ flushed = 0 /\ floor = 0 /\ rotated = 0 /\ osynced = 0 /\ imm = FALSE
    /\ vlog = [g \in Gen |-> <<>>] /\ vsynced = [g \in Gen |-> 0]
    /\ vfiles = {1} /\ vlogs = {1} /\ named = {1} /\ next = 2
    /\ gcFloor = 0
    /\ snaps = [s \in Snap |-> Latest]
    /\ gc = NoPass
    /\ calls = 0
    /\ store = [k \in Key |-> NotFound]
    /\ views = [s \in Snap |-> <<>>]
    /\ quiet = FALSE /\ skipped = FALSE
    /\ rotations = 0 /\ faults = 0 /\ crashes = 0

Fails(kind) == kind \in Faults /\ faults < MaxFaults /\ faults' = faults + 1
Succeeds == UNCHANGED faults

-----------------------------------------------------------------------------
(***************************************************************************)
(* Reading.                                                                *)
(***************************************************************************)

\* The newest record of k in a history.
NewestOf(recs, k) ==
    LET hits == {i \in 1..Len(recs) : recs[i].key = k}
    IN  IF hits = {} THEN NoRecord ELSE recs[CHOOSE i \in hits : IsLast(i, hits)]

\* The record a Get of k bounded by seq finds under the mutex.  It resolves
\* the pointer later, without the mutex: a reader may hold any record that is
\* in the log.
RecordOf(k, seq) == NewestOf(SubSeq(log, 1, seq), k)

\* The generation a record points at is not open: "value log is gone".
Gone(rec) == rec.gen # Inline /\ rec.gen \notin vlogs

\* MaybeResolvePointer and VLog::ReadValue: the value, or <<>> for an error.
\* ReadValue checks the size and the CRC of the entry, not its key.
Resolve(rec) ==
    IF rec.gen = Inline THEN <<rec.val>>
    ELSE IF Gone(rec) \/ rec.off > Len(vlog[rec.gen]) THEN <<>>
    ELSE IF vlog[rec.gen][rec.off] = Torn THEN <<>>
    ELSE <<vlog[rec.gen][rec.off].val>>

NoSnapshots == \A s \in Snap : snaps[s] = Latest

GetSnapshot(s) ==
    /\ up /\ snaps[s] = Latest
    /\ calls < MaxCalls /\ calls' = calls + 1
    /\ snaps' = [snaps EXCEPT ![s] = Len(log)]
    /\ views' = [views EXCEPT ![s] = store]
    /\ UNCHANGED <<tables, up, sync_mode, vlogs, next, gcFloor, disk, gc,
                   store, quiet, skipped, rotations, faults, crashes>>

ReleaseSnapshot(s) ==
    /\ up /\ snaps[s] # Latest
    /\ snaps' = [snaps EXCEPT ![s] = Latest]
    /\ views' = [views EXCEPT ![s] = <<>>]
    /\ UNCHANGED <<tables, up, sync_mode, vlogs, next, gcFloor, disk, gc,
                   calls, store, quiet, skipped, rotations, faults, crashes>>

-----------------------------------------------------------------------------
(***************************************************************************)
(* Writing.                                                                *)
(***************************************************************************)

\* RotateForFlush: the live log, synced or not, becomes an older one.  How
\* full the memtable is is left open.
RotateForFlush ==
    /\ rotations < MaxRotations /\ rotations' = rotations + 1
    /\ \E i \in flushed + 1..Len(log) : log[i].key # 0
    /\ rotated' = Len(log)
    /\ osynced' = IF osynced = rotated THEN synced ELSE osynced
    /\ imm' = TRUE

\* Mutant: the value log is not synced.
SyncWalOnly(base) ==
    /\ synced' = IF sync_mode = "always" THEN Len(log') ELSE base
    /\ UNCHANGED vsynced

\* MaybeSync: the current value log, then the WAL, of which fsync has covered
\* the records up to base.
MaybeSync(base) ==
    IF sync_mode = "always"
    THEN /\ vsynced' = [vsynced EXCEPT ![Current] = Len(vlog'[Current])]
         /\ synced' = Len(log')
    ELSE synced' = base /\ UNCHANGED vsynced

\* WriteEntry returns Ok: the value log first, then the WAL record.
WriteEntry(k, v, separate, base) ==
    /\ IF separate
       THEN /\ vlog' = [vlog EXCEPT ![Current] = Append(@, [key |-> k, val |-> v])]
            /\ log' = Append(log, [key |-> k, user |-> k, gen |-> Current,
                                   off |-> Len(vlog'[Current]), val |-> v])
       ELSE /\ log' = Append(log, [key |-> k, user |-> k, gen |-> Inline,
                                   off |-> 0, val |-> v])
            /\ UNCHANGED vlog
    /\ MaybeSync(base)

\* The record of a write that MaybeSync failed: the WAL has it, the memtable
\* does not.
Unapplied(k, v, separate) ==
    [key |-> 0, user |-> k, gen |-> IF separate THEN Current ELSE Inline,
     off |-> IF separate THEN Len(vlog'[Current]) ELSE 0, val |-> v]

\* WriteEntry fails: in VLog::Append, which may leave a part of the entry; in
\* AddRecord, which leaves an orphan entry and perhaps a part of the record;
\* or in MaybeSync, at the value log or at the WAL, and both stay written.
WriteEntryFails(k, v, separate, base) ==
    /\ \/ /\ separate /\ Fails("append")
          /\ vlog' \in {vlog} \cup (IF "torn" \in Damage
                          THEN {[vlog EXCEPT ![Current] = Append(@, Torn)]} ELSE {})
          /\ UNCHANGED <<log, vsynced>>
       \/ /\ vlog' = IF separate
                     THEN [vlog EXCEPT ![Current] = Append(@, [key |-> k, val |-> v])]
                     ELSE vlog
          /\ \/ Fails("wal") /\ UNCHANGED <<log, vsynced>>
             \/ Fails("partial") /\ log' = Append(log, Remnant) /\ UNCHANGED vsynced
             \/ /\ sync_mode = "always" /\ Fails("fsync")
                /\ log' = Append(log, Unapplied(k, v, separate))
                /\ vsynced' \in {vsynced, [vsynced EXCEPT ![Current] = Len(vlog'[Current])]}
    /\ synced' = base

\* A user's Put of a value at or above the threshold, or of the pointer
\* shape (separate), a Put of a small value, or a Delete (v = NotFound).
\* Writers wait while imm_ is set.
Write(k, v, separate) ==
    /\ up /\ ~imm
    /\ calls < MaxCalls /\ calls' = calls + 1
    /\ \/ RotateForFlush
       \/ UNCHANGED <<rotated, osynced, imm, rotations>>
    /\ LET base == IF imm' THEN Len(log) ELSE synced IN
       \/ /\ Succeeds
          /\ WriteEntry(k, v, separate, base)
          /\ store' = [store EXCEPT ![k] = v]
       \/ /\ WriteEntryFails(k, v, separate, base)
          /\ UNCHANGED store
    /\ quiet' = FALSE
    /\ UNCHANGED <<flushed, floor, memory, vfiles, named, gc, views, skipped,
                   crashes>>

\* WriteManifest: the open generations, and the live log as the floor.
WriteManifest(generations) ==
    /\ named' = generations
    /\ floor' = rotated /\ osynced' = rotated

\* FlushImmMemTable and the drained imm_.
FlushImm ==
    /\ WriteManifest(vlogs)
    /\ flushed' = rotated
    /\ imm' = FALSE
    /\ UNCHANGED rotated

\* BackgroundLoop flushes before it does anything else.
Flush ==
    /\ up /\ gc.pc = "idle" /\ imm
    /\ FlushImm
    /\ UNCHANGED <<memory, log, synced, vlog, vsynced, vfiles, gc, history>>

\* The WriteManifest of a compaction, which a rotation may have overtaken.
InstallCompaction ==
    /\ up /\ gc.pc = "idle"
    /\ named # vlogs \/ floor # rotated
    /\ WriteManifest(vlogs)
    /\ UNCHANGED <<flushed, rotated, imm, memory, log, synced, vlog, vsynced, vfiles,
                   gc, history>>

-----------------------------------------------------------------------------
(***************************************************************************)
(* The collector.                                                          *)
(***************************************************************************)

FileSize(g) == Len(vlog[g]) * (kValueSize + kOverhead)

VlogGcNeeded ==
    /\ NoSnapshots
    /\ \/ Cardinality(vlogs) > 1
       \/ FileSize(Current) >= vlog_gc_size /\ FileSize(Current) >= gcFloor

\* BackgroundLoop sees VlogGcNeeded and releases the mutex.
StartGc ==
    /\ up /\ gc.pc = "idle" /\ ~imm
    /\ VlogGcNeeded
    /\ gc' = [NoPass EXCEPT !.pc = "rotate"]
    /\ UNCHANGED <<tables, memory, disk, history>>

\* The generations a pass scans and retires: all but the fresh one.
OlderGenerations == vlogs

\* Step 1 of RunVlogGC: a fresh generation, published at once.
GcRotate ==
    /\ up /\ gc.pc = "rotate"
    /\ \/ \* a snapshot was taken since VlogGcNeeded
          /\ ~NoSnapshots
          /\ gc' = NoPass
          /\ Succeeds
          /\ UNCHANGED <<vlogs, vfiles, named, floor, osynced, next>>
       \/ /\ NoSnapshots
          /\ Fails("open")
          /\ gc' = NoPass
          /\ UNCHANGED <<vlogs, vfiles, named, floor, osynced, next>>
       \/ \* WriteManifest fails, before or after the rename: roll back
          /\ NoSnapshots /\ next \in Gen
          /\ Fails("manifest")
          /\ vfiles' = vfiles \cup {next}
          /\ \/ UNCHANGED <<named, floor, osynced>>
             \/ WriteManifest(vlogs \cup {next})
          /\ gc' = NoPass
          /\ UNCHANGED <<vlogs, next>>
       \/ /\ NoSnapshots /\ next \in Gen
          /\ Succeeds
          /\ vfiles' = vfiles \cup {next}
          /\ vlogs' = vlogs \cup {next}
          /\ WriteManifest(vlogs')
          /\ next' = next + 1
          /\ gc' = [gc EXCEPT !.pc = "scan", !.todo = OlderGenerations,
                             !.retired = OlderGenerations]
    /\ quiet' = FALSE
    /\ UNCHANGED <<flushed, rotated, imm, up, sync_mode, gcFloor, snaps, log, synced,
                   vlog, vsynced, calls, store, views, skipped, rotations,
                   crashes>>

Scanned == CHOOSE g \in gc.todo : \A h \in gc.todo : g <= h

\* Mutant: every entry is written again.
AlwaysLive(g, off) == TRUE

\* The scan callback's test: the key's newest record points at this entry.
Live(g, off) ==
    LET rec == RecordOf(vlog[g][off].key, Len(log)) IN rec.gen = g /\ rec.off = off

\* ScanEntries comes to the end of a generation, or to an entry that is torn.
EndOfScan == gc.off <= Len(vlog[Scanned]) => vlog[Scanned][gc.off] = Torn

GcNextGeneration ==
    /\ up /\ gc.pc = "scan" /\ gc.todo # {}
    /\ EndOfScan
    /\ gc' = [gc EXCEPT !.todo = @ \ {Scanned}, !.off = 1]
    /\ UNCHANGED <<tables, memory, disk, history>>

\* One entry, under one hold of the mutex: a live one is written again,
\* without a rotation.  An error of the write ends the pass.
GcEntry ==
    /\ up /\ gc.pc = "scan" /\ gc.todo # {}
    /\ ~EndOfScan
    /\ LET cell == vlog[Scanned][gc.off] IN
       \/ /\ ~Live(Scanned, gc.off)
          /\ gc' = [gc EXCEPT !.off = @ + 1]
          /\ Succeeds
          /\ UNCHANGED <<log, synced, vlog, vsynced>>
       \/ /\ Live(Scanned, gc.off)
          /\ WriteEntry(cell.key, cell.val, TRUE, synced)
          /\ Succeeds
          /\ gc' = [gc EXCEPT !.pc = "drain", !.off = @ + 1, !.rewritten = @ + 1]
       \/ /\ Live(Scanned, gc.off)
          /\ WriteEntryFails(cell.key, cell.val, TRUE, synced)
          /\ gc' = NoPass
    /\ UNCHANGED <<tables, memory, vfiles, named, calls, store, views, quiet,
                   skipped, rotations, crashes>>

\* Mutant: the pass waits for the flush it holds up.
WaitForFlush ==
    /\ up /\ gc.pc = "drain"
    /\ ~imm
    /\ gc' = [gc EXCEPT !.pc = "scan"]
    /\ UNCHANGED <<tables, memory, disk, history>>

\* drain_flush, after each entry written: the pass holds the background
\* thread, so it flushes what writers wait for.
GcDrain ==
    /\ up /\ gc.pc = "drain"
    /\ \/ /\ ~imm
          /\ Succeeds
          /\ gc' = [gc EXCEPT !.pc = "scan"]
          /\ UNCHANGED <<tables, named>>
       \/ /\ imm
          /\ Succeeds
          /\ FlushImm
          /\ gc' = [gc EXCEPT !.pc = "scan"]
       \/ /\ imm
          /\ Fails("flush")
          /\ gc' = NoPass
          /\ UNCHANGED <<tables, named>>
    /\ UNCHANGED <<memory, log, synced, vlog, vsynced, vfiles, calls, store,
                   views, quiet, skipped, rotations, crashes>>

\* Mutant: the WAL is not synced.
SyncVlogOnly ==
    /\ vsynced' = [vsynced EXCEPT ![Current] = Len(vlog[Current])]
    /\ UNCHANGED synced

\* ForceDurabilityLocked: the current value log, then the live log.  Older
\* logs are not synced.
ForceDurability ==
    /\ vsynced' = [vsynced EXCEPT ![Current] = Len(vlog[Current])]
    /\ synced' = Len(log)

\* Mutant: snapshots taken during the pass are not looked at.
AlwaysRetire == TRUE

\* The snapshot guard of the retirement.
MayRetire == NoSnapshots

\* Mutant: no floor.
NoFloor == 0

\* The size the file must reach before the next rewrite.
NextFloor == 2 * gc.rewritten * kValueSize

\* Step 3: unless a snapshot is live now, what was written is made durable,
\* and the old generations leave vlogs_ and the MANIFEST.
GcRetire ==
    /\ up /\ gc.pc = "scan" /\ gc.todo = {}
    /\ \/ /\ ~MayRetire
          /\ Succeeds
          /\ gc' = NoPass
          /\ UNCHANGED <<synced, vsynced, vlogs, named, floor, osynced, gcFloor>>
       \/ /\ MayRetire
          /\ Fails("sync")
          /\ gc' = NoPass
          /\ UNCHANGED <<synced, vsynced, vlogs, named, floor, osynced, gcFloor>>
       \/ /\ MayRetire
          /\ ForceDurability
          /\ gcFloor' = NextFloor
          /\ \/ /\ Succeeds
                /\ vlogs' = vlogs \ gc.retired
                /\ WriteManifest(vlogs')
                /\ gc' = [gc EXCEPT !.pc = "unlink"]
             \/ \* the generations are put back; the MANIFEST may be renamed
                /\ Fails("manifest")
                /\ \/ UNCHANGED <<named, floor, osynced>>
                   \/ WriteManifest(vlogs \ gc.retired)
                /\ gc' = NoPass
                /\ UNCHANGED vlogs
    /\ UNCHANGED <<flushed, rotated, imm, up, sync_mode, next, snaps, log, vlog, vfiles,
                   calls, store, views, quiet, skipped, rotations, crashes>>

\* Outside the mutex the files go, one at a time.
GcUnlink ==
    /\ up /\ gc.pc = "unlink"
    /\ \E g \in gc.retired :
          /\ vfiles' = vfiles \ {g}
          /\ vlog' = [vlog EXCEPT ![g] = <<>>]
          /\ vsynced' = [vsynced EXCEPT ![g] = 0]
          /\ IF gc.retired = {g}
             THEN gc' = NoPass /\ quiet' = (Len(vlog[Current]) = gc.rewritten)
             ELSE gc' = [gc EXCEPT !.retired = @ \ {g}] /\ UNCHANGED quiet
    /\ UNCHANGED <<tables, memory, log, synced, named, calls, store, views,
                   skipped, rotations, faults, crashes>>

Collector == \/ StartGc \/ GcRotate \/ GcNextGeneration \/ GcEntry \/ GcDrain
             \/ GcRetire \/ GcUnlink

Background == Flush \/ InstallCompaction \/ Collector

-----------------------------------------------------------------------------
(***************************************************************************)
(* Crashes and Open.                                                       *)
(***************************************************************************)

\* The files a crash of this kind may cut, and where: a kill leaves every
\* byte written, a power cut at least what fsync has covered.
AtRisk(kind) == {g \in vfiles : kind = "power" /\ vsynced[g] < Len(vlog[g])}

Cuts(kind) ==
    {keep \in [AtRisk(kind) -> UNION {0..Len(vlog[g]) : g \in AtRisk(kind)}] :
        \A g \in AtRisk(kind) : keep[g] \in vsynced[g]..Len(vlog[g])}

\* Where the replay of the records a + 1 .. b of a log ends: it drops what is
\* behind a remnant, and the remnant unless that is the last thing there and
\* too short to be seen.
LogEnds(a, b) ==
    {e \in a..b : /\ \A i \in a + 1..e : log[i] = Remnant => i = e /\ e = b
                  /\ e < b => log[e + 1] = Remnant}

\* Every way to cut the older logs and the live log behind these records.
OldEnds(from)  == UNION {LogEnds(floor, m) : m \in from..rotated}
LiveEnds(from) == UNION {LogEnds(rotated, n) : n \in from..Len(log)}

\* A write that failed used no sequence number.
Failed(i) == log[i].key # log[i].user

\* The memtable has, of a replayed record with the same key and sequence
\* number, the first; but a Put comes before a Delete.
Shadowed(j, m) ==
    \E i \in (floor + 1..m) \cup (rotated + 1..Len(log)) :
        /\ i < j /\ \A h \in i..j - 1 : Failed(h)
        /\ log[i].user = log[j].user
        /\ log[i].val # NotFound \/ log[j].val = NotFound

\* The record as the replay puts it into the memtable.
Replayed(j, m) ==
    IF Shadowed(j, m) THEN NoRecord
    ELSE IF log[j] = Remnant THEN Remnant ELSE [log[j] EXCEPT !.key = log[j].user]

\* What is left of the history: the SSTs, and the replayed logs up to the
\* m-th and the n-th record.
Survivors(m, n) ==
    SubSeq(log, 1, flushed)
      \o [i \in 1..m - floor |-> Replayed(floor + i, m)]
      \o [i \in 1..n - rotated |-> Replayed(rotated + i, m)]

\* The process ends: a prefix is left of each log and of each value log,
\* perhaps with a part of the entry that was being appended.
Crash(kind) ==
    /\ up
    /\ kind \in Crashes /\ crashes < MaxCrashes
    /\ crashes' = crashes + 1
    /\ up' = FALSE
    /\ \E m \in OldEnds(IF kind = "power" THEN osynced ELSE rotated),
          n \in LiveEnds(IF kind = "power" THEN synced ELSE Len(log)),
          keep \in Cuts(kind),
          torn \in IF "torn" \in Damage /\ kind = "power" THEN BOOLEAN ELSE {FALSE} :
          /\ log' = Survivors(m, n)
          /\ \/ "reorder" \in Damage
             \/ \A i \in 1..Len(log') :
                   log'[i].gen \in DOMAIN keep => log'[i].off <= keep[log'[i].gen]
          /\ rotated' = flushed + (m - floor)
          /\ IF kind = "power" THEN osynced' = rotated' /\ synced' = Len(log')
             ELSE /\ osynced' = flushed + ((IF osynced < m THEN osynced ELSE m) - floor)
                  /\ synced' = rotated' + ((IF synced < n THEN synced ELSE n) - rotated)
          /\ vlog' = [g \in Gen |->
                (IF g \in DOMAIN keep THEN SubSeq(vlog[g], 1, keep[g]) ELSE vlog[g])
                  \o (IF torn /\ g = Current THEN <<Torn>> ELSE <<>>)]
    /\ vsynced' = IF kind = "power" THEN [g \in Gen |-> Len(vlog'[g])] ELSE vsynced
    /\ floor' = flushed /\ skipped' = (skipped \/ floor > flushed)
    /\ imm' = FALSE
    /\ vlogs' = {} /\ next' = 1 /\ gcFloor' = 0
    /\ snaps' = [s \in Snap |-> Latest]
    /\ views' = [s \in Snap |-> <<>>]
    /\ gc' = NoPass
    /\ quiet' = FALSE
    /\ store' = [k \in Key |-> NewestOf(log', k).val]
    /\ UNCHANGED <<flushed, sync_mode, vfiles, named, calls, rotations, faults>>

\* Mutant: O_TRUNC.
OpenTruncated(g) == <<>>

\* VLog::Open appends behind what is there, torn tail included.
OpenVlog(g) == vlog[g]

\* Open: the published generations are opened (and created if missing), the
\* other value-log files are removed.
Open ==
    /\ ~up /\ up' = TRUE
    /\ vlogs' = named
    /\ vfiles' = named
    /\ vlog' = [g \in Gen |-> IF g \in named THEN OpenVlog(g) ELSE <<>>]
    /\ vsynced' = [g \in Gen |-> IF g \in named THEN vsynced[g] ELSE 0]
    /\ \E g \in named : IsLast(g, named) /\ next' = g + 1
    /\ UNCHANGED <<tables, sync_mode, gcFloor, snaps, log, synced, named, gc,
                   history>>

-----------------------------------------------------------------------------
Next ==
    \/ \E k \in Key : \/ \E separate \in BOOLEAN : Write(k, calls + 1, separate)
                      \/ Write(k, NotFound, FALSE)
    \/ \E s \in Snap : GetSnapshot(s) \/ ReleaseSnapshot(s)
    \/ Background
    \/ \E kind \in Crashes : Crash(kind)
    \/ Open

Spec == Init /\ [][Next]_vars

\* The background thread runs (BackgroundLoop), and a closed database is
\* opened again.
FairSpec == Spec /\ WF_vars(Background) /\ WF_vars(Open)

-----------------------------------------------------------------------------
(***************************************************************************)
(* Properties.                                                             *)
(***************************************************************************)

Record == [key : Key \cup {0, -1}, user : Key \cup {0, -1}, gen : Gen \cup {Inline},
           off : Nat, val : 0..MaxCalls]

Cell == [key : Key \cup {0}, val : 0..MaxCalls]

Pass == [pc : {"idle", "rotate", "scan", "drain", "unlink"}, todo : SUBSET Gen,
         retired : SUBSET Gen, off : Nat \ {0}, rewritten : Nat]

\* Every variable has its type, the positions in the history are in order,
\* and an open database has a generation to append to.
TypeOK ==
    /\ up \in BOOLEAN /\ sync_mode \in Modes
    /\ log \in Seq(Record) /\ synced \in rotated..Len(log)
    /\ floor \in flushed..rotated /\ osynced \in floor..rotated
    /\ flushed \in Nat /\ rotated \in Nat /\ imm \in BOOLEAN /\ skipped \in BOOLEAN
    /\ vlog \in [Gen -> Seq(Cell)] /\ vsynced \in [Gen -> Nat]
    /\ \A g \in Gen : vsynced[g] <= Len(vlog[g])
    /\ vfiles \subseteq Gen /\ vlogs \subseteq vfiles /\ named \subseteq Gen
    /\ up => vlogs # {}
    /\ next \in 1..MaxGen + 1 /\ gcFloor \in Nat
    /\ snaps \in [Snap -> Nat \cup {Latest}]
    /\ views \in [Snap -> [Key -> 0..MaxCalls] \cup {<<>>}]
    /\ store \in [Key -> 0..MaxCalls] /\ calls \in 0..MaxCalls
    /\ gc \in Pass /\ quiet \in BOOLEAN

\* However often the collector moves the entries of a key, Get returns what
\* the last Put stored, and a Delete or a newer Put is never undone.  (Records
\* that a restart left out below the floor take the collector's with them.)
LatestResolves ==
    (up /\ ~skipped) => \A k \in Key : Resolve(RecordOf(k, Len(log))) = <<store[k]>>

\* Every key reads through a live snapshot as it did when the snapshot was
\* taken, however many passes were running or began since: the two guards of
\* RunVlogGC on snapshots_ are enough.
SnapshotsResolve ==
    (up /\ ~skipped) => \A s \in Snap, k \in Key :
        snaps[s] # Latest => Resolve(RecordOf(k, snaps[s])) = <<views[s][k]>>

\* A Get or Scan that found a record, at any moment of this process, and
\* comes to resolve its pointer only now returns the value that was put or an
\* error (its generation may be gone), never the bytes of another entry.
ReadersNeverWrong ==
    up => \A i \in 1..Len(log) : Resolve(log[i]) \in {<<>>, <<log[i].val>>}

\* Were the process to end now, by a kill or a power cut, every pointer that
\* Open may recover as the newest of its key is into a published generation:
\* "durability BEFORE retirement" loses no value to the sweep of unnamed files.
RecoveryNamed ==
    ~skipped => \A m \in OldEnds(osynced), n \in LiveEnds(synced), k \in Key :
        NewestOf(Survivors(m, n), k).gen \in {Inline} \cup named

\* That is so whenever the MANIFEST's floor has passed no record that is not
\* in an SST, whatever rotations, flushes, passes and crashes came before.
RecoveryNamedAtFloor == floor = flushed => RecoveryNamed

\* A record that survives a power cut never points at value bytes that might
\* not: the vLog is synced before the WAL.
DurableWalHasDurableVlog ==
    sync_mode = "always" =>
        \A i \in (1..osynced) \cup (rotated + 1..synced) :
            log[i].gen \in vlogs => log[i].off <= vsynced[log[i].gen]

\* A pass that nobody wrote behind leaves nothing for the next one to do
\* (vlog_gc_floor_ keeps a mostly live file from being rewritten for ever).
PassSettles == (up /\ quiet /\ gc.pc = "idle") => ~VlogGcNeeded

\* The collector comes to rest again and again: interrupted passes are
\* finished by later ones, and old generations are reclaimed.
GcSettles == []<>(up /\ gc.pc = "idle" /\ ~VlogGcNeeded)

=============================================================================
