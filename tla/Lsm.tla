-------------------------------- MODULE Lsm ---------------------------------
(***************************************************************************)
(* The storage engine: DB with value separation off and the synchronous    *)
(* WAL.  Client threads call Put, Delete, Get, Scan, GetSnapshot and       *)
(* ReleaseSnapshot; one background thread flushes the immutable memtable   *)
(* and compacts; the process may be killed or lose power at any step and   *)
(* be opened again.  An action is what a thread does between two points    *)
(* where another thread, or a crash, can tell the difference: a critical   *)
(* section of mutex_, one file written, one file unlinked.                 *)
(*                                                                         *)
(* Sizes (write_buffer_size, level_base_size, max_sst_size and the sync    *)
(* threshold) are counted in entries.  A memtable is named by the log      *)
(* generation its writes go to; readers hold memtables by name, because    *)
(* the live one keeps growing under them.                                  *)
(***************************************************************************)
EXTENDS Entries, Integers, Sequences

CONSTANTS
    Snap,                   \* snapshot handles
    Reader,                 \* client threads inside Get or Scan
    kMaxLevels,             \* L0 .. L(kMaxLevels - 1)
    write_buffer_size,
    l0_compaction_trigger,
    level_base_size,
    max_sst_size,
    sync_mode,              \* "always", "periodic" or "never"
    kSyncThreshold,         \* kSyncThresholdBytes
    Faults,                 \* the I/O steps that may fail
    Crashes,                \* "kill", "power": the ways the process may end
    MaxFile,                \* bound: file numbers
    MaxFaults,              \* bound: I/O failures in a behaviour
    MaxCrashes              \* bound: crashes in a behaviour

\* "append" fails before a byte of the record is in the log, "partial" after
\* some of them are.
FaultKind == {"rotate", "append", "partial", "sync", "sst", "manifest", "dirsync"}

ASSUME OptionsAssumption ==
    /\ kMaxLevels \in Nat /\ kMaxLevels >= 2
    /\ write_buffer_size \in Nat \ {0}
    /\ l0_compaction_trigger \in Nat \ {0}
    /\ level_base_size \in Nat
    /\ max_sst_size \in Nat \ {0}
    /\ sync_mode \in {"always", "periodic", "never"}
    /\ kSyncThreshold \in Nat \ {0}

ASSUME BoundsAssumption ==
    /\ Faults \subseteq FaultKind
    /\ Crashes \subseteq {"kill", "power"}
    /\ MaxFile \in Nat /\ MaxFile >= 2
    /\ MaxFaults \in Nat
    /\ MaxCrashes \in Nat

File == 1..MaxFile
Level == 1..kMaxLevels - 1           \* levels[i - 1] of the code holds L(i)
NoFile == 0

\* A log is whole, or ends in a remnant (the first bytes of a record), or has
\* records behind a remnant.
LogTail == {"whole", "remnant", "buried"}

Version == [l0 : Seq(File), levels : [Level -> SUBSET File]]

\* A MANIFEST: a version and log_number, the floor of the logs to replay.
Manifest == [l0 : Seq(File), levels : [Level -> SUBSET File], floor : File]

EmptyVersion == [l0 |-> <<>>, levels |-> [i \in Level |-> {}]]

VARIABLES
    \* ---- the DB object ----
    status,       \* "up", "down", "swept" (orphans removed) or "corrupt"
    nextSeq,      \* next_seq_
    nextFile,     \* next_file_number_
    logNumber,    \* log_number_, also the name of mem_
    unsynced,     \* unsynced_bytes_
    memtables,    \* the memtables, by the log generation they belong to
    imm,          \* imm_log_number_ while imm_ is set, else NoFile
    immSst,       \* imm_sst_number_
    current,      \* current_
    snaps,        \* snapshots_: the sequence of each handle, kMaxSeq if free
    disabled,     \* compaction_disabled_
    \* ---- the directory ----
    logFiles,     \* the log generations that exist
    logs,         \* the records a reader of each gets
    torn,         \* what else is in it, where they end
    synced,       \* how many of their records fsync has covered
    sstFiles,     \* the SSTs that exist
    ssts,         \* what each SST number was last written with
    manifest,     \* MANIFEST: a version and the replay floor
    \* ---- threads ----
    bg,           \* where the background thread is
    job,          \* the locals of the flush or compaction it is running
    readers,      \* the captures of the threads inside Get or Scan
    \* ---- history ----
    calls,        \* write calls so far
    store,        \* what the acknowledged writes add up to
    views,        \* for each live snapshot, store when it was taken
    maybe,        \* for each key, what failed writes of it tried to store
    faults,       \* I/O failures so far
    crashes       \* crashes so far

memory  == <<status, nextSeq, nextFile, logNumber, unsynced, memtables, imm,
             immSst, current, snaps, disabled>>
disk    == <<logFiles, logs, torn, synced, sstFiles, ssts, manifest>>
threads == <<bg, job, readers>>
history == <<calls, store, views, maybe, faults, crashes>>
vars    == <<memory, disk, threads, history>>

-----------------------------------------------------------------------------
(***************************************************************************)
(* Reading.                                                                *)
(***************************************************************************)

\* A view is what Get and Scan copy under the mutex: the two memtables and
\* the version.
View(mem, im, v) == [mem |-> mem, imm |-> im, ver |-> v]

\* The one file of a level LookupIn may open for k: the last whose smallest
\* key is at or left of k, if k is not past its largest key.
LevelTable(files, k) ==
    LET left == {f \in files : SmallestKey(ssts[f]) <= k}
        last == CHOOSE f \in left :
                    \A g \in left : SmallestKey(ssts[g]) <= SmallestKey(ssts[f])
    IN  IF left = {} \/ k > LargestKey(ssts[last]) THEN {} ELSE ssts[last]

\* The tables LookupIn asks for k, in its order: memtable, immutable
\* memtable, L0 newest file first, then one file per level.
Sources(view, k) ==
    <<view.mem, view.imm>>
      \o [i \in 1..Len(view.ver.l0) |-> ssts[view.ver.l0[i]]]
      \o [i \in Level |-> LevelTable(view.ver.levels[i], k)]

\* LookupIn: the first table with a visible version of k decides.
LookupIn(view, k, max_seq) ==
    LET src  == Sources(view, k)
        hits == {i \in DOMAIN src : Visible(src[i], k, max_seq) # {}}
        hit  == CHOOSE i \in hits : \A j \in hits : i <= j
    IN  IF hits = {} THEN NotFound ELSE ValueIn(src[hit], k, max_seq)

\* Scan merges every table in internal-key order instead: for one key the
\* version with the largest tag comes first, whatever table holds it.
AllEntries(view) ==
    view.mem \cup view.imm
      \cup (UNION {ssts[view.ver.l0[i]] : i \in 1..Len(view.ver.l0)})
      \cup (UNION {ssts[f] : f \in UNION {view.ver.levels[i] : i \in Level}})

ScanAt(view, k, max_seq) == ValueIn(AllEntries(view), k, max_seq)

\* mem_, imm_ and current_ as they stand.
ImmTable == IF imm = NoFile THEN {} ELSE memtables[imm]
LiveView == View(memtables[logNumber], ImmTable, current)

\* Mutant: the floor itself is not replayed.
ReplayAboveFloor == {n \in logFiles : n > manifest.floor}

\* The memtable Open rebuilds from the logs at or above the floor, oldest
\* first; of two records with one internal key the first stays.
ReplayLogs == {n \in logFiles : n >= manifest.floor}
Replayed ==
    LET at    == {p \in ReplayLogs \X (1..MaxCalls) : p[2] <= Len(logs[p[1]])}
        rec(p) == logs[p[1]][p[2]]
        before(p, q) == p[1] < q[1] \/ (p[1] = q[1] /\ p[2] < q[2])
    IN  {rec(p) : p \in {q \in at : \A o \in at :
                             before(o, q) => ~SameInternalKey(rec(o), rec(q))}}

\* The version Open assembles from the MANIFEST: L0 newest file first.
NewestFirst(files) ==
    {s \in [1..Cardinality(files) -> files] :
        /\ \A i, j \in 1..Cardinality(files) : i < j => s[i] > s[j]
        /\ files = {s[i] : i \in 1..Cardinality(files)}}

FilesOf(l0) == {l0[i] : i \in 1..Len(l0)}

RecoveredVersions == {[l0 |-> s, levels |-> manifest.levels] :
                         s \in NewestFirst(FilesOf(manifest.l0))}

RecoveredVersion == CHOOSE v \in RecoveredVersions : TRUE

RecoveredView == View(Replayed, {}, RecoveredVersion)

ManifestFiles == FilesOf(manifest.l0)
                   \cup UNION {manifest.levels[i] : i \in Level}

\* ParseManifest wants file numbers strictly ascending, and every file it
\* names must open.
ManifestOpens ==
    /\ \A i, j \in 1..Len(manifest.l0) : manifest.l0[i] = manifest.l0[j] => i = j
    /\ ManifestFiles \subseteq sstFiles

\* What a read of k finds once Open has accepted the MANIFEST, and what it
\* would find if the directory were opened as it stands: nothing at all when
\* Open refuses it.
Reopened(k) == LookupIn(RecoveredView, k, kMaxSeq)

Refused == -1

Recovered(k) == IF ManifestOpens THEN Reopened(k) ELSE Refused

-----------------------------------------------------------------------------
NoJob == [src |-> 0, inA |-> {}, inB |-> {}, floor |-> 0, todo |-> {}, outs |-> {}]

NoView == <<>>

NoRead == [mem |-> NoFile, imm |-> NoFile, ver |-> EmptyVersion, seq |-> 0,
           ok |-> [k \in Key |-> {}]]

Init ==
    /\ status = "up" /\ nextSeq = 1 /\ nextFile = 2 /\ logNumber = 1
    /\ unsynced = 0
    /\ memtables = [n \in File |-> {}]
    /\ imm = NoFile /\ immSst = NoFile
    /\ current = EmptyVersion
    /\ snaps = [s \in Snap |-> kMaxSeq]
    /\ disabled = FALSE
    /\ logFiles = {1}
    /\ logs = [n \in File |-> <<>>]
    /\ torn = [n \in File |-> "whole"]
    /\ synced = [n \in File |-> 0]
    /\ sstFiles = {}
    /\ ssts = [n \in File |-> {}]
    /\ manifest = [l0 |-> <<>>, levels |-> [i \in Level |-> {}], floor |-> 1]
    /\ bg = "idle"
    /\ job = NoJob
    /\ readers = [r \in Reader |-> NoRead]
    /\ calls = 0
    /\ store = [k \in Key |-> NotFound]
    /\ views = [s \in Snap |-> NoView]
    /\ maybe = [k \in Key |-> {}]
    /\ faults = 0
    /\ crashes = 0

\* mutex_ is free: only the install of a compaction keeps it across a point
\* where a crash matters (MANIFEST published, inputs not yet unlinked).
MutexFree == status = "up" /\ bg # "unlink_inputs"

\* An I/O step of this kind fails now.
Fails(kind) == kind \in Faults /\ faults < MaxFaults /\ faults' = faults + 1
Succeeds == UNCHANGED faults

-----------------------------------------------------------------------------
(***************************************************************************)
(* Writing.                                                                *)
(***************************************************************************)

MemFull == Cardinality(memtables[logNumber]) >= write_buffer_size

\* Mutant: no SST number is reserved for the old memtable.
RotateWithoutNumber ==
    /\ nextFile + 1 <= MaxFile
    /\ logFiles' = logFiles \cup {nextFile}
    /\ imm' = logNumber
    /\ logNumber' = nextFile
    /\ nextFile' = nextFile + 2
    /\ UNCHANGED immSst

\* RotateForFlush succeeds: a new log, its memtable, and the number of the
\* SST the old memtable will become.
RotateForFlush ==
    /\ nextFile + 1 <= MaxFile
    /\ logFiles' = logFiles \cup {nextFile}
    /\ imm' = logNumber
    /\ immSst' = nextFile + 1
    /\ logNumber' = nextFile
    /\ nextFile' = nextFile + 2

\* Mutant: a write is never fsynced.
NeverSynced(u) == FALSE

\* MaybeSync, with unsynced_bytes_ at u once the record is in the log.
SyncNeeded(u) == \/ sync_mode = "always"
                 \/ sync_mode = "periodic" /\ u >= kSyncThreshold

\* AddRecord writes at the end of the file, whatever is there: what lies
\* behind a remnant no reader gets to.
AddRecord(n, e) ==
    /\ logs' = [logs EXCEPT ![n] = IF torn[n] = "whole" THEN Append(@, e) ELSE @]
    /\ torn' = [torn EXCEPT ![n] = IF @ = "whole" THEN @ ELSE "buried"]

\* AddRecord fails with nothing of the record in the log, or part of it.
AddRecordFails(n) ==
    /\ UNCHANGED logs
    /\ \/ Fails("append") /\ UNCHANGED torn
       \/ /\ Fails("partial")
          /\ torn' = [torn EXCEPT ![n] = IF @ = "whole" THEN "remnant" ELSE "buried"]

\* WriteEntry: the WAL record, then MaybeSync, then the memtable and the
\* sequence number.  Only a write that comes to the end returns Ok.
WriteEntry(type, k) ==
    LET v == IF type = kTypeValue THEN calls + 1 ELSE NotFound
        e == [key |-> k, seq |-> nextSeq, type |-> type, val |-> v]
        n == logNumber'
        u == (IF n = logNumber THEN unsynced ELSE 0) + 1
    IN  \/ \* the append fails
           /\ AddRecordFails(n)
           /\ unsynced' = u - 1
           /\ maybe' = [maybe EXCEPT ![k] = @ \cup {v}]
           /\ UNCHANGED <<synced, memtables, nextSeq, store, readers>>
        \/ \* the fsync fails: the record is in the log and nowhere else
           /\ SyncNeeded(u)
           /\ Fails("sync")
           /\ unsynced' = u
           /\ AddRecord(n, e)
           /\ maybe' = [maybe EXCEPT ![k] = @ \cup {v}]
           /\ UNCHANGED <<synced, memtables, nextSeq, store, readers>>
        \/ \* acknowledged
           /\ Succeeds
           /\ AddRecord(n, e)
           /\ IF SyncNeeded(u)
              THEN unsynced' = 0 /\ synced' = [synced EXCEPT ![n] = Len(logs'[n])]
              ELSE unsynced' = u /\ UNCHANGED synced
           /\ memtables' = [memtables EXCEPT ![n] = Insert(@, e)]
           /\ nextSeq' = nextSeq + 1
           /\ store' = [store EXCEPT ![k] = v]
           /\ maybe' = [maybe EXCEPT ![k] = {}]
           /\ readers' = [r \in Reader |->
                IF readers[r].mem # NoFile /\ readers[r].seq = kMaxSeq
                THEN [readers[r] EXCEPT !.ok[k] = @ \cup {v}]
                ELSE readers[r]]

\* Put (type = kTypeValue) or Delete.  Every writer waits while an immutable
\* memtable is draining; a full memtable is rotated first.
Write(type, k) ==
    /\ MutexFree
    /\ imm = NoFile
    /\ calls < MaxCalls
    /\ calls' = calls + 1
    /\ \/ /\ ~MemFull
          /\ UNCHANGED <<logFiles, imm, immSst, logNumber, nextFile>>
          /\ WriteEntry(type, k)
       \/ /\ MemFull
          /\ RotateForFlush
          /\ WriteEntry(type, k)
       \/ \* RotateForFlush fails: its log file may be left behind
          /\ MemFull
          /\ nextFile + 1 <= MaxFile
          /\ Fails("rotate")
          /\ logFiles' \in {logFiles, logFiles \cup {nextFile}}
          /\ maybe' = [maybe EXCEPT ![k] = @ \cup
                         {IF type = kTypeValue THEN calls + 1 ELSE NotFound}]
          /\ UNCHANGED <<imm, immSst, logNumber, nextFile, unsynced, logs,
                         torn, synced, memtables, nextSeq, store, readers>>
    /\ UNCHANGED <<status, current, snaps, disabled, sstFiles, ssts, manifest,
                   bg, job, views, crashes>>

-----------------------------------------------------------------------------
(***************************************************************************)
(* Reading threads and snapshots.                                          *)
(***************************************************************************)

\* Mutant: the immutable memtable is not captured.
CaptureWithoutImm(seq, map) ==
    [mem |-> logNumber, imm |-> NoFile, ver |-> current, seq |-> seq,
     ok |-> [k \in Key |-> {map[k]}]]

\* The critical section of Get and Scan: of the latest state, or of the
\* snapshot s.  ok collects, for each key, the answers a correct read gives.
Capture(seq, map) ==
    [mem |-> logNumber, imm |-> imm, ver |-> current, seq |-> seq,
     ok |-> [k \in Key |-> {map[k]}]]

BeginRead(r) ==
    /\ MutexFree
    /\ readers[r] = NoRead
    /\ \/ readers' = [readers EXCEPT ![r] = Capture(kMaxSeq, store)]
       \/ \E s \in Snap :
            /\ snaps[s] # kMaxSeq
            /\ readers' = [readers EXCEPT ![r] = Capture(snaps[s], views[s])]
    /\ UNCHANGED <<memory, disk, bg, job, history>>

\* The lock-free half, and the return.
EndRead(r) ==
    /\ status = "up"
    /\ readers[r] # NoRead
    /\ readers' = [readers EXCEPT ![r] = NoRead]
    /\ UNCHANGED <<memory, disk, bg, job, history>>

GetSnapshot(s) ==
    /\ MutexFree
    /\ snaps[s] = kMaxSeq
    /\ snaps' = [snaps EXCEPT ![s] = nextSeq - 1]
    /\ views' = [views EXCEPT ![s] = store]
    /\ UNCHANGED <<status, nextSeq, nextFile, logNumber, unsynced, memtables,
                   imm, immSst, current, disabled, disk, threads, calls, store,
                   maybe, faults, crashes>>

ReleaseSnapshot(s) ==
    /\ MutexFree
    /\ snaps[s] # kMaxSeq
    /\ snaps' = [snaps EXCEPT ![s] = kMaxSeq]
    /\ views' = [views EXCEPT ![s] = NoView]
    /\ UNCHANGED <<status, nextSeq, nextFile, logNumber, unsynced, memtables,
                   imm, immSst, current, disabled, disk, threads, calls, store,
                   maybe, faults, crashes>>

\* kMaxSeq when no snapshot is live, because a free handle holds kMaxSeq.
SmallestSnapshotSeq ==
    CHOOSE q \in {kMaxSeq} \cup {snaps[s] : s \in Snap} :
        \A s \in Snap : q <= snaps[s]

-----------------------------------------------------------------------------
(***************************************************************************)
(* The background thread: BackgroundLoop runs one flush or one compaction  *)
(* at a time, a flush first.                                               *)
(***************************************************************************)

\* WriteManifest publishes version v and the current log as the floor.  It
\* fails with the old MANIFEST in place, or, when only the fsync of the
\* directory fails, with the new one.
Published(v) == [l0 |-> v.l0, levels |-> v.levels, floor |-> logNumber]

WriteManifestOk(v) == Succeeds /\ manifest' = Published(v)

WriteManifestFails(v) ==
    \/ Fails("manifest") /\ UNCHANGED manifest
    \/ Fails("dirsync") /\ manifest' = Published(v)

\* BackgroundLoop picks up the immutable memtable.
StartFlush ==
    /\ MutexFree /\ bg = "idle"
    /\ imm # NoFile
    /\ bg' = "flush"
    /\ UNCHANGED <<memory, disk, job, readers, history>>

\* Mutant: a failed build goes on to the install.
InstallUnbuiltSst ==
    /\ status = "up" /\ bg = "flush"
    /\ \/ Succeeds /\ sstFiles' = sstFiles \cup {immSst}
       \/ Fails("sst") /\ sstFiles' = sstFiles \ {immSst}
    /\ ssts' = [ssts EXCEPT ![immSst] = memtables[imm]]
    /\ bg' = "install_flush"
    /\ UNCHANGED <<memory, logFiles, logs, torn, synced, manifest, job, readers,
                   calls, store, views, maybe, crashes>>

\* FlushImmMemTable, outside the mutex: build the SST and open it again.
WriteFlushSst ==
    /\ status = "up" /\ bg = "flush"
    /\ \/ /\ Succeeds
          /\ ssts' = [ssts EXCEPT ![immSst] = memtables[imm]]
          /\ sstFiles' = sstFiles \cup {immSst}
          /\ bg' = "install_flush"
       \/ /\ Fails("sst")
          /\ sstFiles' = sstFiles \ {immSst}
          /\ bg' = "backoff"
          /\ UNCHANGED ssts
    /\ UNCHANGED <<memory, logFiles, logs, torn, synced, manifest, job, readers,
                   calls, store, views, maybe, crashes>>

\* The install under the mutex.  The new version stays even when the
\* MANIFEST cannot be written.
InstallFlush ==
    /\ status = "up" /\ bg = "install_flush"
    /\ current' = [current EXCEPT !.l0 = <<immSst>> \o @]
    /\ \/ WriteManifestOk(current') /\ bg' = "unlink_log"
       \/ WriteManifestFails(current') /\ bg' = "backoff"
    /\ UNCHANGED <<status, nextSeq, nextFile, logNumber, unsynced, memtables,
                   imm, immSst, snaps, disabled, logFiles, logs, torn, synced,
                   sstFiles, ssts, job, readers, calls, store, views, maybe, crashes>>

\* Outside the mutex: the retired log goes.
UnlinkLog ==
    /\ status = "up" /\ bg = "unlink_log"
    /\ logFiles' = logFiles \ {imm}
    /\ logs' = [logs EXCEPT ![imm] = <<>>]
    /\ torn' = [torn EXCEPT ![imm] = "whole"]
    /\ synced' = [synced EXCEPT ![imm] = 0]
    /\ bg' = "flushed"
    /\ UNCHANGED <<memory, sstFiles, ssts, manifest, job, readers, history>>

\* Back in BackgroundLoop: imm_ is drained, the writers are woken.
EndFlush ==
    /\ status = "up" /\ bg = "flushed"
    /\ imm' = NoFile /\ immSst' = NoFile
    /\ bg' = "idle"
    /\ UNCHANGED <<status, nextSeq, nextFile, logNumber, unsynced, memtables,
                   current, snaps, disabled, disk, job, readers, history>>

\* Mutant: the background thread stays in its back-off.
StayInBackoff ==
    /\ status = "up" /\ bg = "backoff"
    /\ UNCHANGED vars

\* A failed flush keeps imm_ and tries again after 200 ms.
RetryFlush ==
    /\ status = "up" /\ bg = "backoff"
    /\ bg' = "idle"
    /\ UNCHANGED <<memory, disk, job, readers, history>>

-----------------------------------------------------------------------------
KeyRange(files) ==
    LET T == UNION {ssts[f] : f \in files} IN <<SmallestKey(T), LargestKey(T)>>

LevelSize(i) == Cardinality(UNION {{f} \X ssts[f] : f \in current.levels[i]})

LevelOver(i) == /\ i + 1 \in Level
                /\ LevelSize(i) > level_base_size * 10^(i - 1)

L0Over == Len(current.l0) >= l0_compaction_trigger

CompactionNeeded == ~disabled /\ (L0Over \/ \E i \in Level : LevelOver(i))

\* PickCompaction: the source level (0 for all of L0) and its input files.
SourceLevel ==
    IF L0Over THEN 0
    ELSE CHOOSE i \in Level : LevelOver(i) /\ \A j \in Level : LevelOver(j) => i <= j

SourceFiles(src) ==
    IF src = 0 THEN FilesOf(current.l0)
    ELSE {f \in current.levels[src] : \A g \in current.levels[src] :
              SmallestKey(ssts[f]) <= SmallestKey(ssts[g])}

\* The target-level files the range-expansion fixpoint collects: the least
\* set that contains every file overlapping the range of all inputs.
OverlapClosed(A, B, target) ==
    \A f \in target : Overlap(KeyRange({f}), KeyRange(A \cup B)) => f \in B

\* Mutant: the target level's files are left out of the compaction.
NoOverlap(A, target) == {}

OverlappingFiles(A, target) ==
    {f \in target : \A B \in SUBSET target : OverlapClosed(A, B, target) => f \in B}

\* BackgroundLoop picks a compaction and releases the mutex.
PickCompaction ==
    /\ MutexFree /\ bg = "idle"
    /\ imm = NoFile
    /\ CompactionNeeded
    /\ LET src == SourceLevel
           A   == SourceFiles(src)
       IN  job' = [NoJob EXCEPT !.src = src, !.inA = A,
                     !.inB = OverlappingFiles(A, current.levels[src + 1])]
    /\ bg' = "floor"
    /\ UNCHANGED <<memory, disk, readers, history>>

\* RunCompaction takes the snapshot floor under the mutex; what the merge
\* will keep is then settled.
TakeFloor ==
    /\ MutexFree /\ bg = "floor"
    /\ LET T      == UNION {ssts[f] : f \in job.inA \cup job.inB}
           floor  == SmallestSnapshotSeq
           bottom == job.src + 1 = kMaxLevels - 1
       IN  job' = [job EXCEPT !.floor = floor, !.todo = Retain(T, floor, bottom)]
    /\ bg' = "merge"
    /\ UNCHANGED <<memory, disk, readers, history>>

\* The merge reads an input listed twice twice; Builder::Add refuses the
\* second copy of a version that both are above the floor to keep.
AddRefused(T) ==
    \E i, j \in 1..Len(current.l0) :
        /\ i # j /\ current.l0[i] = current.l0[j] /\ current.l0[i] \in job.inA
        /\ \E e \in T \cap ssts[current.l0[i]] : e.seq > job.floor

\* A failed compaction unlinks its outputs and is not tried again.
GiveUp ==
    /\ disabled' = TRUE
    /\ job' = NoJob
    /\ bg' = "idle"

\* seal: one output file gets a number under the mutex and is written.
SealOutput ==
    /\ MutexFree /\ bg = "merge"
    /\ job.todo # {}
    /\ LET T == FirstOutput(job.todo, max_sst_size) IN
       \/ /\ AddRefused(T)
          /\ Succeeds
          /\ sstFiles' = sstFiles \ job.outs
          /\ GiveUp
          /\ UNCHANGED <<nextFile, ssts>>
       \/ /\ ~AddRefused(T)
          /\ nextFile <= MaxFile
          /\ nextFile' = nextFile + 1
          /\ ssts' = [ssts EXCEPT ![nextFile] = T]
          /\ \/ /\ Succeeds
                /\ sstFiles' = sstFiles \cup {nextFile}
                /\ job' = [job EXCEPT !.todo = @ \ T, !.outs = @ \cup {nextFile}]
                /\ UNCHANGED <<bg, disabled>>
             \/ /\ Fails("sst")
                /\ sstFiles' \in {sstFiles \ job.outs,
                                  (sstFiles \ job.outs) \cup {nextFile}}
                /\ GiveUp
    /\ UNCHANGED <<status, nextSeq, logNumber, unsynced, memtables, imm, immSst,
                   current, snaps, logFiles, logs, torn, synced, manifest, readers,
                   calls, store, views, maybe, crashes>>

\* l0 less the inputs.  Nothing is left when they were all of it, which is
\* the case PickCompaction makes.
Without(l0, files) ==
    IF FilesOf(l0) \subseteq files THEN <<>>
    ELSE SelectSeq(l0, LAMBDA f : f \notin files)

\* The install of a compaction, under the mutex.
InstallCompaction ==
    /\ MutexFree /\ bg = "merge"
    /\ job.todo = {}
    /\ LET out == job.src + 1 IN
       current' =
         [l0     |-> IF job.src = 0 THEN Without(current.l0, job.inA) ELSE current.l0,
          levels |-> [i \in Level |->
                        IF i = out THEN (current.levels[i] \ job.inB) \cup job.outs
                        ELSE IF i = job.src THEN current.levels[i] \ job.inA
                        ELSE current.levels[i]]]
    /\ \/ /\ WriteManifestOk(current')
          /\ bg' = "unlink_inputs"
          /\ UNCHANGED <<disabled, job>>
       \/ /\ WriteManifestFails(current')
          /\ GiveUp
    /\ UNCHANGED <<status, nextSeq, nextFile, logNumber, unsynced, memtables,
                   imm, immSst, snaps, logFiles, logs, torn, synced, sstFiles, ssts,
                   readers, calls, store, views, maybe, crashes>>

\* Mutant: the inputs stay on disk.
KeepInputs ==
    /\ status = "up" /\ bg = "unlink_inputs"
    /\ job' = NoJob
    /\ bg' = "idle"
    /\ UNCHANGED <<memory, disk, readers, history>>

\* Still under the mutex: the inputs go.
UnlinkInputs ==
    /\ status = "up" /\ bg = "unlink_inputs"
    /\ sstFiles' = sstFiles \ (job.inA \cup job.inB)
    /\ job' = NoJob
    /\ bg' = "idle"
    /\ UNCHANGED <<memory, logFiles, logs, torn, synced, ssts, manifest, readers, history>>

Background ==
    \/ StartFlush \/ WriteFlushSst \/ InstallFlush \/ UnlinkLog \/ EndFlush
    \/ RetryFlush \/ PickCompaction \/ TakeFloor \/ SealOutput
    \/ InstallCompaction \/ UnlinkInputs

-----------------------------------------------------------------------------
(***************************************************************************)
(* Crashes and Open.                                                       *)
(***************************************************************************)

\* A key with failed writes may show any of them after a restart, or none.
Unresolved == [k \in Key |-> IF maybe[k] = {} THEN {} ELSE maybe[k] \cup {store[k]}]

\* What may follow the first `left` records of log n after a power cut: the cut
\* may go through a record, and may take a remnant and what is behind it.
CutTails(n, left) ==
    {"whole"}
      \cup {t \in {"remnant"} : "partial" \in Faults
                               /\ (left < Len(logs[n]) \/ torn[n] # "whole")}
      \cup {t \in {torn[n]} : left = Len(logs[n])}

\* The process ends.  A kill leaves every byte written in the page cache; a
\* power cut may take any records of a log that fsync has not covered.  A
\* clean close (~DB) leaves the directory a kill would leave while the
\* background thread is between two jobs.
Crash(kind) ==
    /\ status \in {"up", "swept"}
    /\ kind \in Crashes /\ crashes < MaxCrashes
    /\ crashes' = crashes + 1
    /\ status' = "down"
    /\ \E left \in [logFiles -> 0..MaxCalls] :
          /\ \A n \in logFiles : left[n] \in
                (IF kind = "power" THEN synced[n] ELSE Len(logs[n]))..Len(logs[n])
          /\ logs' = [n \in File |-> IF n \in logFiles
                                     THEN SubSeq(logs[n], 1, left[n]) ELSE <<>>]
          /\ \E tail \in [logFiles -> LogTail] :
                /\ \A n \in logFiles : tail[n] \in
                      (IF kind = "power" THEN CutTails(n, left[n]) ELSE {torn[n]})
                /\ torn' = [n \in File |-> IF n \in logFiles THEN tail[n] ELSE "whole"]
    /\ nextSeq' = 1 /\ nextFile' = 2 /\ logNumber' = 1 /\ unsynced' = 0
    /\ memtables' = [n \in File |-> {}]
    /\ imm' = NoFile /\ immSst' = NoFile
    /\ current' = EmptyVersion
    /\ snaps' = [s \in Snap |-> kMaxSeq]
    /\ disabled' = FALSE
    /\ bg' = "idle" /\ job' = NoJob
    /\ readers' = [r \in Reader |-> NoRead]
    /\ views' = [s \in Snap |-> NoView]
    /\ maybe' = Unresolved
    /\ UNCHANGED <<logFiles, synced, sstFiles, ssts, manifest, calls, store, faults>>

\* Open up to RemoveOrphanFiles.
OpenSweep ==
    /\ status = "down"
    /\ \/ /\ ~ManifestOpens
          /\ status' = "corrupt"
          /\ UNCHANGED <<logFiles, logs, torn, synced, sstFiles>>
       \/ /\ ManifestOpens
          /\ status' = "swept"
          /\ sstFiles' = ManifestFiles
          /\ logFiles' = ReplayLogs
          /\ logs' = [n \in File |-> IF n \in ReplayLogs THEN logs[n] ELSE <<>>]
          /\ torn' = [n \in File |-> IF n \in ReplayLogs THEN torn[n] ELSE "whole"]
          /\ synced' = [n \in File |-> IF n \in ReplayLogs THEN synced[n] ELSE 0]
    /\ UNCHANGED <<nextSeq, nextFile, logNumber, unsynced, memtables, imm, immSst,
                   current, snaps, disabled, ssts, manifest, threads, history>>

\* m is the largest element of S.
IsLargest(m, S) == m \in S /\ \A n \in S : n <= m

\* The rest of Open: replay, next_seq_, next_file_number_, the log to append
\* to, and the background thread.  The replay truncates a log where its records
\* end, except that a remnant shorter than a header, at the very end of the
\* file, passes for the end of the file.
OpenReplay ==
    /\ status = "swept"
    /\ status' = "up"
    /\ current' \in RecoveredVersions
    /\ \E live \in ReplayLogs \cup {manifest.floor} :
          /\ IsLargest(live, ReplayLogs \cup {manifest.floor})
          /\ logNumber' = live
          /\ logFiles' = logFiles \cup {live}
          /\ memtables' = [memtables EXCEPT ![live] = Replayed]
          /\ \E last \in ManifestFiles \cup {live} :
                /\ IsLargest(last, ManifestFiles \cup {live})
                /\ nextFile' = last + 1
    /\ LET view == RecoveredView
           seqs == {0} \cup {e.seq : e \in AllEntries(view)}
       IN  /\ \E max \in seqs : IsLargest(max, seqs) /\ nextSeq' = max + 1
           /\ store' = [k \in Key |-> Reopened(k)]
           /\ store' \in [Key -> Value]
    /\ \E short \in SUBSET {n \in ReplayLogs : torn[n] = "remnant"} :
          torn' = [n \in File |-> IF n \in short THEN "remnant" ELSE "whole"]
    /\ maybe' = Unresolved
    /\ UNCHANGED <<unsynced, imm, immSst, snaps, disabled, logs, synced, sstFiles,
                   ssts, manifest, threads, calls, views, faults, crashes>>

-----------------------------------------------------------------------------
Next ==
    \/ \E k \in Key : Write(kTypeValue, k) \/ Write(kTypeDeletion, k)
    \/ \E r \in Reader : BeginRead(r) \/ EndRead(r)
    \/ \E s \in Snap : GetSnapshot(s) \/ ReleaseSnapshot(s)
    \/ Background
    \/ \E kind \in Crashes : Crash(kind)
    \/ OpenSweep \/ OpenReplay

Spec == Init /\ [][Next]_vars

\* The background thread keeps running (BackgroundLoop only sleeps when it has
\* nothing to do or for 200 ms), and a directory that is down is opened again.
FairSpec == Spec /\ WF_vars(Background) /\ WF_vars(OpenSweep \/ OpenReplay)

-----------------------------------------------------------------------------
(***************************************************************************)
(* Properties.                                                             *)
(***************************************************************************)

Job == [src : 0..kMaxLevels - 1, inA : SUBSET File, inB : SUBSET File,
        floor : Nat, todo : SUBSET Entry, outs : SUBSET File]

Read == [mem : File \cup {NoFile}, imm : File \cup {NoFile}, ver : Version,
         seq : Nat, ok : [Key -> SUBSET Value]]

BgState == {"idle", "flush", "install_flush", "unlink_log", "flushed", "backoff",
            "floor", "merge", "unlink_inputs"}

MemoryType ==
    /\ status \in {"up", "down", "swept", "corrupt"}
    /\ nextSeq \in Nat \ {0}
    /\ nextFile \in 2..MaxFile + 1
    /\ logNumber \in File
    /\ unsynced \in Nat
    /\ memtables \in [File -> SUBSET Entry]
    /\ imm \in File \cup {NoFile}
    /\ immSst \in File \cup {NoFile}
    /\ current \in Version
    /\ snaps \in [Snap -> Nat]
    /\ disabled \in BOOLEAN

DiskType ==
    /\ logFiles \subseteq File
    /\ logs \in [File -> Seq(Entry)]
    /\ torn \in [File -> LogTail]
    /\ synced \in [File -> Nat]
    /\ sstFiles \subseteq File
    /\ ssts \in [File -> SUBSET Entry]
    /\ manifest \in Manifest

ThreadType ==
    /\ bg \in BgState
    /\ job \in Job
    /\ readers \in [Reader -> Read]

HistoryType ==
    /\ calls \in 0..MaxCalls
    /\ store \in [Key -> Value]
    /\ views \in [Snap -> {NoView} \cup [Key -> Value]]
    /\ maybe \in [Key -> SUBSET Value]
    /\ faults \in 0..MaxFaults
    /\ crashes \in 0..MaxCrashes

\* Every variable has its type.
TypeOK == MemoryType /\ DiskType /\ ThreadType /\ HistoryType

\* The engine implements the multi-version map of Mvcc: a restart brings back
\* the value of every acknowledged write, or of a failed one that followed it.
Abstract == INSTANCE Mvcc

ImplementsMvcc == Abstract!Spec

\* However far rotations, flushes, compactions and recoveries have carried the
\* versions, Get finds the last acknowledged write of every key, and through a
\* live snapshot the last one before the snapshot.
GetCorrect ==
    status = "up" =>
        \A k \in Key :
            /\ LookupIn(LiveView, k, kMaxSeq) = store[k]
            /\ \A s \in Snap : snaps[s] # kMaxSeq =>
                  LookupIn(LiveView, k, snaps[s]) = views[s][k]

\* Get stops at the first table that knows the key, Scan merges them all:
\* they agree for the latest state and for every live snapshot.
ScanAgreesWithGet ==
    status = "up" =>
        \A k \in Key : \A seq \in {kMaxSeq} \cup {snaps[s] : s \in Snap} :
            ScanAt(LiveView, k, seq) = LookupIn(LiveView, k, seq)

\* A Get or Scan that copied its view before any number of rotations,
\* flushes, compactions and writes still answers as of some moment between
\* its critical section and now (a snapshot read: as of the snapshot).
ReadsCorrect ==
    \A r \in Reader : readers[r] # NoRead =>
        LET c == readers[r]
            v == View(memtables[c.mem], IF c.imm = NoFile THEN {} ELSE memtables[c.imm],
                      c.ver)
        IN  \A k \in Key : /\ LookupIn(v, k, c.seq) \in c.ok[k]
                           /\ ScanAt(v, k, c.seq) \in c.ok[k]

\* Were the process killed now, Open would accept the directory and bring back
\* every acknowledged write ("kill -9 loses nothing").
KillLosesNothing ==
    status = "up" => \A k \in Key : Recovered(k) \in {store[k]} \cup maybe[k]

\* The MANIFEST parses and every SST it names is on disk, at every moment a
\* crash could make Open read it.
AlwaysOpens == ManifestOpens

\* Compactions publish the live log as the replay floor even while an
\* immutable memtable waits for its flush.  What a kill can then lose is
\* confined to that memtable and to records a previous recovery brought over
\* from older logs: never a write in an SST or in the live log, and never the
\* directory itself.
LossWindow ==
    status = "up" =>
        LET live   == {logs[logNumber][i] : i \in 1..Len(logs[logNumber])}
            atRisk == ImmTable \cup (memtables[logNumber] \ live)
        IN  \A k \in Key :
                /\ Recovered(k) # Refused
                /\ Recovered(k) \notin {store[k]} \cup maybe[k] =>
                      \E e \in atRisk : e.key = k

\* Between two jobs, when no I/O step has failed, the directory holds the
\* published SSTs and nothing else, and a drained engine has one log.
NothingLeaks ==
    (status = "up" /\ bg = "idle" /\ faults = 0) =>
        /\ sstFiles = ManifestFiles
        /\ (imm = NoFile /\ crashes = 0) => logFiles = {logNumber}

\* A log file disappears only once the MANIFEST's floor is past it, and the
\* floor never moves back.
LogsOutliveFloor ==
    [][/\ manifest'.floor >= manifest.floor
       /\ \A n \in logFiles \ logFiles' : n < manifest.floor]_vars

\* Whatever the writers do and however often the process restarts, the
\* background thread gets to a point where the immutable memtable is flushed
\* and no level is over its limit, unless a MANIFEST refuses to open.
BackgroundDrains ==
    []<>(\/ status = "corrupt"
         \/ status = "up" /\ bg = "idle" /\ imm = NoFile /\ ~CompactionNeeded)

=============================================================================
