# BedrockKV in TLA+

TLA+ models of the BedrockKV storage engine, the TLC runs that check them and
the TLAPS proofs about them. The code is the reference: every definition that
models code is tied to its lines in `PROJECT.json` ("map").

## 1. Inventory

BedrockKV is an LSM-tree key-value store: client threads call `DB` directly or
through a single-threaded Redis-protocol server, and one background thread
flushes, compacts and collects value logs.

| component | state | operations | what makes it correct |
|---|---|---|---|
| write path (`db.cpp`) | `next_seq_`, `mem_`, `imm_`, WAL, `unsynced_bytes_` | `Put`, `Delete`, `RotateForFlush`, `WriteEntry`, `MaybeSync` | an acknowledged write is visible at once and survives what its sync mode promises |
| read path (`db.cpp`, `iterator.h`) | view copied under `mutex_` | `Get`, `Scan`, `LookupIn`, `MaybeResolvePointer` | a read answers as of one moment, whatever the background thread does meanwhile |
| snapshots | `snapshots_` | `GetSnapshot`, `ReleaseSnapshot`, `SmallestSnapshotSeq` | a live snapshot reads as it did when it was taken |
| flush | `imm_`, `imm_log_number_`, `imm_sst_number_` | `BackgroundLoop`, `FlushImmMemTable` | the SST is published before the log goes; failures are retried; writers are released in the end |
| compaction | `current_`, `compaction_disabled_` | `CompactionNeeded`, `PickCompaction`, `RunCompaction` | levels stay disjoint, no version a snapshot needs is dropped, no deleted key comes back |
| MANIFEST, recovery | MANIFEST, directory | `WriteManifest`, `ParseManifest`, `Open`, `RemoveOrphanFiles` | at every moment the directory can be opened and holds every acknowledged write |
| WAL format (`log.cpp`) | file, `file_offset_`; reader position, `last_good_end_` | `Writer::AddRecord`, `Reader::ReadRecord`, tail truncation | every synced record is replayed, in order, and nothing else |
| value log (`vlog.cpp`, `db.cpp`) | `vlogs_`, `vlog_current_`, `vlog_gc_floor_` | `VLog::Append`, `ReadValue`, `ScanEntries`, `RunVlogGC`, `ForceDurabilityLocked` | a pointer resolves to the value that was put; collection loses nothing and comes to rest |
| memtable, skiplist | entries in internal-key order | `Put`, `Delete`, `Get`; lock-free `Insert` and iteration | bounded lookup returns the newest visible version |
| SSTables, blocks, filters | immutable files | `Builder`, `Table::Get`, iterators | a table answers as the set of its entries |
| background machinery (`signal_`) | wait set of one condition variable | `wait`, `notify_one`, `notify_all` in writers, `wait_for_background_work`, `BackgroundLoop`, `~DB` | no wakeup is lost, nobody sleeps on work, shutdown ends |
| io_uring ring, asynchronous WAL | `queued_`, `outstanding_`, `wal_pending_`, `wal_ring_error_` | `QueueWrite`, `QueueFsync`, `Flush`, `Reap`, `DrainWalRing`, `SyncViaRing` | buffers and descriptors outlive what uses them; an fsync covers what was submitted; errors are not lost |
| server, RESP parser | per-connection buffers, epoll interest | accept, read, parse, execute, write, close, `Stop` | every request executed once and in order, every reply delivered in order |
| LRU cache | shards of entries with weights | `Get`, `Put`, `Clear` | weights exact and in bounds, oldest evicted first |
| helpers, tools | none | encoding, CRC, command line, benchmarks | not modelled: stateless or outside the engine |

Interactions: all mutable engine state is guarded by `mutex_`; `Get` and `Scan`
copy pointers under it and read without it; writers wait on `signal_` while
`imm_` is set; the background thread does its I/O outside the mutex and installs
under it. MANIFEST, logs, SSTs and value logs are the only state that survives.

Hard behaviours: readers and snapshots that overlap any stage of a flush, a
compaction or a collection pass; a kill or a power cut between any two file
operations, and again during or right after `Open`; one failing step among several
(WAL append, fsync, SST, MANIFEST, directory sync) with a retry behind it;
fragmentation at block boundaries; waiting writers. `PROJECT.json` ("hazards")
lists them line by line with the properties that watch them.

## 2. Modules

| module | models |
|---|---|
| `Entries` | versioned entries: internal-key order, bounded lookup in a table, what a compaction retains (`Retain`), where its output is cut (`FirstOutput`) |
| `Mvcc` | abstract specification: a map with acknowledged and failed writes, frozen snapshots and restarts |
| `Lsm` | the engine: memtables, logs, SSTs, MANIFEST, snapshots, readers, background thread, crashes, `Open` |
| `Wal` | the log format byte by byte, Writer, Reader, torn-tail truncation |
| `VlogGc` | value separation, pointer resolution and value-log collection |
| `Signal` | the condition variable `signal_` and every thread that waits on it or notifies |
| `Ring`, `AsyncWal` | the io_uring wrapper with the kernel behind it; the WAL on it |
| `KvService` | abstract specification: a sequential store with one session per client |
| `Resp`, `Server` | the request parser as a function; the epoll loop with clients and sockets as its environment |
| `SkipList` | the memtable's skiplist, one load or store of a pointer at a time |
| `LruCache` | the sharded value cache |
| `SsTable` | block and table building, index, filters, point lookup and iterator |
| `MCLsm`, `MCVlogGc`, `MCServer`, `MCStructures`, `MCWal` | the modules TLC runs on |
| `LsmProofs`, `LsmReadProofs`, `LsmCrashProofs` (each extends the one before), `VlogGcProofs`, `SignalProofs`, `AsyncWalProofs`, `ServerProofs`, `StructureProofs` | theorems |

`AsyncWal` extends `Ring`, and `Server` extends `Resp`: a ring or a parser has no
thread of its own, its operators are parts of the caller's actions. `Lsm`
implements `Mvcc` and `Server` implements `KvService` (`ImplementsMvcc`,
`ImplementsService`).

### Lsm

An action is what a thread does between two points where another thread or a
crash can tell the difference: a critical section of `mutex_`, one file written,
one file unlinked. `Write` is `Put`/`Delete` with rotation, WAL append, sync and
memtable insert in one step, because they happen under one hold of the mutex and
readers cannot see inside it; a crash inside it leaves a directory that a crash
just before or after it leaves, or the one of a failed write. `StartFlush`,
`WriteFlushSst`, `InstallFlush`, `UnlinkLog`, `EndFlush`, `RetryFlush` are
`FlushImmMemTable` between its lock regions; `PickCompaction`, `TakeFloor`,
`SealOutput`, `InstallCompaction`, `UnlinkInputs` are `RunCompaction`.
`BeginRead` copies the view; `ReadsCorrect` evaluates the lock-free half in every
state until `EndRead`, so in every interleaving. `Crash`, `OpenSweep` and
`OpenReplay` end and reopen the process; a second crash may fall between the two.

Each file step may fail (`Faults`): `rotate`, `append` (nothing written), `partial`
(an append that fails after part of its bytes), `sync`, `sst`, `manifest` (old
MANIFEST in place), `dirsync` (the rename has happened). `torn` says how a log ends:
`whole`; with the `remnant` of a half-written record; or with later records `buried`
behind one, which the reader does not reach. `logs` is what the reader returns.
`Open` cuts a remnant off, except one shorter than a header, which it takes for a
clean end. `Recovered` is what a key reads after a crash now: `Refused` when `Open`
would not take the MANIFEST.

Abstractions:
- Sizes (`write_buffer_size`, level sizes, `max_sst_size`, the sync threshold)
  count entries. A value is the number of the call that supplied it.
- The merge is what it keeps: `Retain` over the union of the inputs, cut by
  `FirstOutput`; the picker's range-expansion loop is the least closed set.
  Its outcomes for an input listed twice are kept (`AddRefused`).
- Open files: a deleted SST stays readable for a version that holds it (shared
  `Table` with an open descriptor), so `ssts` keeps the contents by number;
  numbers in use are not reused in one process.
- `EndFlush` resets `immSst`; the code leaves `imm_sst_number_` stale and does
  not read it until the next rotation sets it.
- An unlink is final. After a power cut an unlinked file may reappear; `Open`
  removes it again as an orphan.
- `wait`/`notify` are not steps: an action is enabled when its wait predicate
  holds. `Signal` is where the wait set itself is modelled.
- The history variable `maybe` collects, per key, what failed writes tried to
  store: `Mvcc` lets a restart bring such a write back until a later write of
  the key is acknowledged.

### Wal

The file is a sequence of cells, one per byte; a cell knows its fragment and its
position in it, which stands for header fields and CRC together. `AddRecord`
begins a record, `EncodeFragment` is one round of the loop of `EncodeRecord`
(padding, fragmentation, type), and `WriteAll` is the write that ends the call; a
crash during the encoding leaves what a crash before the call does. The reader is
`ReadPhysicalRecord`/`ReadRecord` step by step with `last_good_end`. The writer
fragments by `file_offset_`, which differs from the file's real end only after
a failed partial write.

### VlogGc

The LSM below is taken as the history of its records in sequence order (what
`Lsm` establishes about memtables and SSTs). Four positions in it say what a
restart brings back: records up to `flushed` are in SSTs, those up to `rotated`
are in older logs (replayed only above the MANIFEST's `floor`), the rest is in the
live log; `osynced` and `synced` say how far fsync has covered the older logs and
the live one. Values and keys of separated writes have one size, so an offset is
a position in its file.

The collector is one action per critical section: `StartGc`, `GcRotate`, then one
`GcEntry` per entry scanned (liveness test and rewrite under one hold of the
mutex) with `GcDrain` behind each rewrite, `GcNextGeneration`, `GcRetire`,
`GcUnlink`. `Flush` and `InstallCompaction` are the MANIFESTs the background thread
writes between passes. Writers may rotate at any write (`MaxRotations`): how full a
memtable is is left open. A `Get` finds a record under the mutex and resolves it
later without it; since it may hold any record of the process, no reader state is
needed: `ReadersNeverWrong` speaks of every record.

The sync mode is fixed per behaviour. The value cache is left out: it is keyed
by pointers whose bytes do not change while a process lives. Retries of a flush
belong to `Lsm`. Unless `Damage` contains `"reorder"`, a power cut is assumed to keep
the value bytes of every record it keeps.

A write may fail before anything is in the WAL (`append`, `wal`), half-way through
its record (`partial`, a `Remnant`), or in `MaybeSync` (`fsync`), with or without the
value log having been synced. What such a write leaves in the WAL is in the
history with key 0, so that no read finds it. A crash ends a log at the first
`Remnant` and turns a record whose fsync failed into one of its key (`Replayed`);
of two that share a sequence number the skiplist keeps the first (`Shadowed`).

### Signal

A thread inside `wait` is in `waiting` until a notify takes it out; it then tests
its predicate again under the mutex. An action is one critical section, so a
notify sent after unlocking (`ReleaseSnapshot`, `~DB`) is a step of its own. Of the
data only what the predicates read is kept. `notify_one` chooses any waiter.

### Ring and AsyncWal

A submission is queued (`sq`), in flight, or completed and not yet reaped (`cq`);
`queued_` and `outstanding_` are the class's own counters beside them. The kernel
completes in any order, with success, an error or a short count. Since every call
holds `mutex_`, one call runs at a time, but its results may arrive in later ones.
`cached` and `durable` are judged in every state, which stands for a crash there.
`enter` takes a batch whole (`FlushOk`), takes part of it and succeeds (`FlushShort`,
then it does not wait either), or fails, with part of the batch consumed or none
(`FlushFails`); the fault `submit` allows the partial cases, and the history variable
`partly` remembers that one has happened. `~DB` closes the log whatever its drain
returned. Assumptions: value separation is on, so `SyncViaRing`
queues two fsyncs, and a wait that a signal interrupts is resumed (`enter` is
retried on `EINTR`).

### Resp and Server

The parser works on bytes, as far as it tells them apart, and keeps the code's
buffer, position and argument spans. The server takes one system call or one
command per step. Clients send their scripts in any fragments, read when they like,
half-close or reset; a socket closed with unread input may lose replies the client
has not read. A reply is one unit of the output buffers, so a partial write falls
between replies. `Execute` is the command table with an engine of which any call may
fail, so a `DEL` may delete some of its keys. `Stop` sets `stop_`, `Wake` writes the
eventfd, and `StopEnd` is what follows the join: the loop tests `stop_` only between
batches, and asleep in `epoll_wait` it goes on only when a connection, the listener
or the eventfd is ready. `accept4` and `epoll_wait` may fail.

### SkipList

`Insert` fills `prev` with one load per step, then wires and publishes level by
level; readers take one load per step. The stores are release and the loads
acquire, so they are seen in the order they are made. `linked`, `before` and `seen`
are history variables.

### LruCache and SsTable

`Get` and `Put` hold one shard's mutex throughout. `Get` is one step; `Put` is one
for the entry and one for each victim of its eviction loop (`Evict`), during which
`evicting` stands for the mutex: calls on the same shard wait, others go on. `Clear`
takes the shards one by one. `latest` and `newer` are history variables. A table is built entry by entry; lookups and walks are
functions of the finished file and are compared with the list of entries added, for
every key, bound and start. Internal keys are bytes, since a prefix may be shared
across the border between user key and tag. The hash word is rotated by half its
width (the code rotates 32 bits by 17).

## 3. Runs

Deadlock is checked in `lsm_reads`, `lsm_crash` and `lsm_manifest_retry`. The others
say `CHECK_DEADLOCK FALSE`: their bounds (calls, generations, restarts, scripts) leave
states in which nothing is left to do, and in `lsm_versions` a MANIFEST that `Open`
refuses leaves the database down.

| run | shows |
|---|---|
| `lsm_versions` | two keys, one snapshot, three writes, levels L0–L2 with merges into overlapping files, any one I/O failure, half-written appends included, and a kill: `GetCorrect`, `ScanAgreesWithGet`, `NothingLeaks`, `LogsOutliveFloor`, `TypeOK` |
| `lsm_reads` | the same without failures and with a reader inside `Get` or `Scan`: `ReadsCorrect` |
| `lsm_crash` | two crashes (kill or power) at any step in `kSyncAlways`, a failing rotation, append or SST: `KillLosesNothing`, `AlwaysOpens`, and `ImplementsMvcc` (refinement of `Mvcc`, identity on `store`, `maybe`, `views`) |
| `lsm_compaction_crash` | compactions on two keys with two kills in `kSyncPeriodic`, a failing rotation, append or SST: the directory opens and `LossWindow` bounds what a kill can lose; `BackgroundDrains` under fairness |
| `vlog_gc` | `kSyncAlways` and `kSyncNever`, a snapshot, writes, two rotations and flushes at every point of a pass, one failing step of the pass or write that leaves nothing in the WAL, one crash: `LatestResolves`, `SnapshotsResolve`, `RecoveryNamedAtFloor`, `DurableWalHasDurableVlog` |
| `vlog_settles` | one key and generations enough, with writes that fail after reaching the WAL, half-way or in their fsync, among the failures: `ReadersNeverWrong`, `PassSettles`, and under fairness `GcSettles`, the collector comes to rest again and again |
| `structures` | the log file, the skiplist, the cache and a table, each explored alone: `RecoveryExact`, `NothingMissed`, `CacheExact`, `EvictsOldest`, `TableGetExact`, `WalkExact` |
| `signal` | two writers, a thread that waits for background work, a snapshot holder, the background thread and the destructor, one failing background step: `BackgroundAwake`, `NobodyForgotten`, and `WritersWoken`, `ShutdownEnds` under fairness |
| `async_wal` | a ring of two slots, all sync modes, four calls, two failures (a submission refused or taken in part, a write, a short write, an fsync, an open): `BuffersOutliveWrites`, `NothingUncounted` and `ErrorsNotSwallowed` throughout; `NothingOnClosedLog`, `AckedReplayed`, and `MutexReleased` under fairness, until a batch is taken in part |
| `server` | one client with any of fourteen scripts in any fragments, or two clients on one key, or three for two places: `RequestsExact`, `RepliesInOrder`, `InterestExact`, the refinement `ImplementsService`, and `AllAnswered`, `StopEnds` under fairness |

The two violation runs (`lsm_manifest_retry`, `async_wal_hole`) and the other
configurations that TLC refutes are in section 5. Together with the passing runs they
mark out where a property holds: a passing run leaves out exactly the failures with
which a configuration of section 5 refutes one of its properties.

`Signal`, `VlogGc`, `AsyncWal`, `Server` and `SkipList` have type invariants
(`TypeOK`, `SkipTypeOK`) that document their state; they hold in these runs and are
left out of the configurations, where the other properties use the time better.

**Bounds.** `write_buffer_size = 1` makes every write after the first rotate, so
three writes fill two L0 files, and `l0_compaction_trigger = 1` with
`level_base_size = 0` carries them, together or one after the other, to the bottom
level L2, where tombstones are dropped: a compaction meets an older version of its
key in the level below, and a tombstone in L1 covers a value in L2. `max_sst_size
= 1` cuts an output at every key; two keys give disjoint and overlapping files.
`MaxFile = 14` is never the reason a behaviour of these runs stops: `nextFile`
stays below it in all of them. In `Wal`, a block of 6
bytes with a header of 2 and payloads 0, 1, 2 and 9 gives the full block tails
0 to 5: shorter than a header (padding), exactly a header (an empty first
fragment), and records of one to three fragments. In `VlogGc`, an entry of 3 bytes with
`vlog_gc_size = 3` triggers a pass on the first separated write; three calls give
an overwrite, a delete or a snapshot on both sides of a pass, two rotations put
records into an SST, a pending memtable and the live log at once, and `MaxGen = 3`
lets two passes start, the second one after an interrupted first. `vlog_settles`
uses `MaxGen = 8`, so that generation numbers do not run out: exhausting them
would look like a collector that never finishes; one key is enough there, since its
properties speak of single records and of whole passes.

`structures` runs `MCStructures`, the sum of four modules that share no state: a
behaviour takes steps of one of them only, so the state space is the sum and not
the product of theirs. The skiplist has three keys on two levels and one reader
that may start before, during or after any insertion; the cache two shards and
values that fit a shard, only the cache, or neither; the tables are all those of up
to four entries over keys that are prefixes of one another, in six layouts (blocks
of one, two or all entries; restarts at every entry or every second one), with
filter bits that collide. In `signal`, thresholds of one make every write
rotate, every flush start a compaction and every separated value start a pass. In
`async_wal`, two slots are filled by one record left behind by a failed submission
and one more, so that the fsyncs find no room; blocks of two records put a hole in
front of an acknowledged record. In `server`, `kMaxOutBytes`, `kMaxInBytes`,
`kReadChunk` and the send buffer are small enough for the scripts to cross them;
`SendBound` lets a client alone send any fragments, and several clients whole
scripts.

**Fairness.** `WF(Background)`, in `Lsm` and in `VlogGc`: `BackgroundLoop` never ends
while the process is up and sleeps at most 200 ms after a failure.
`WF(OpenSweep \/ OpenReplay)` and `WF(Open)`: a database that is down is opened
again. `Signal`: `WF(Background)`, and weak fairness of a notify that is due and of
a notified waiter, which gets the mutex in the end. `AsyncWal`: the holder of the
mutex runs on and the kernel completes what it has been given. `Server`: the loop
thread and the thread in `Stop` run, `accept4` does not fail for ever (strong
fairness: the level-triggered listener offers it again), and clients read their
replies; sending is never assumed. That `epoll_wait` fails is not part of the loop's
fairness, so a loop asleep there stays asleep until a descriptor is ready, and
`StopEnds` rests on the eventfd. A client's script is finite: a client that sends for
ever is not modelled (the code reads once per readable event and tests `stop_` after
every batch).
Otherwise nothing is
assumed of clients. Failures and crashes are bounded in number, so they stop;
liveness says what happens afterwards.

## 4. Proofs

All theorems hold for every value of the constants (keys, threads, ring slots,
sizes, numbers of calls, failures and crashes) that satisfies the named assumptions
of the module they are about, which TLC evaluates on every run that extends it.
Where a theorem has a further hypothesis, the counterexample without it is a run or
configuration of section 5 or the documented limitation described there. The
inductive invariants that TLC can evaluate were first checked by it; those that
speak of arbitrary functions (`Layout`) rest on their proofs.

- `RetainKeepsAnswers`, `CompactionKeepsAnswers` (`LsmProofs`): for every table with
  unique tags per key, what `RunCompaction` keeps answers every read at or above the
  snapshot floor as all of the input did, alone and inside a view of other tables.
  `OutputsCutBetweenKeys`: an output takes all versions of its keys and leaves only
  larger keys, so outputs are disjoint.
- `TypeCorrect` (`LsmProofs`): `Spec => []TypeOK`. `TypeOK` is not
  inductive: a flush writes the SST number reserved at the rotation, a reader
  copies the map of a snapshot, an L0 compaction filters `l0`. `TypeInv` adds
  `FlushPending` (a flush runs only with `imm` and `immSst` set, a dead process
  has neither), `SnapshotViews` and `AllOfL0` (no file joins L0 during an L0
  compaction, since one thread does both).
- `LogsOutliveFloorHolds` (`LsmProofs`): `Spec => LogsOutliveFloor`, with any
  failures and crashes. `LogInv` orders the generations: the immutable
  memtable's log is older than the live log, the floor is at most the live log,
  and past the retired one once the flush is published.
- `AlwaysOpensHolds` (`LsmProofs`): if no MANIFEST write or directory sync
  fails, every published MANIFEST parses and names only existing SSTs. The
  premise is needed: `lsm_manifest_retry` is the counterexample without it.
  `OpenInv` says that a file is published in one level, that `current_` and the
  MANIFEST agree, that reserved numbers are fresh, and that a compaction's
  inputs are published, its outputs on disk and unpublished until the install.
- `NothingLeaksHolds` (`LsmProofs`): `LeakInv` says that as long as no I/O step has
  failed `OpenInv` holds, every SST on disk is published or belongs to the job in
  hand, and, as long as nothing crashed, every log is the live one, the immutable
  memtable's or the one about to be unlinked.
- `LookupExact`, `GetCorrectHolds`, `ScanAgreesWithGetHolds`, `ReadsCorrectHolds`
  (`LsmReadProofs`): reads are right through every rotation, flush, compaction,
  failure, crash and recovery, without any hypothesis on `Faults` or `Crashes`.
  `ViewOrdered` says that of every key a table asked earlier holds the newer versions,
  L0 by file number, the levels one below the other, and that the files of a level
  have ranges that do not meet; `LookupExact` turns that into the answer. `ReadInv` is
  the ordering of the live view, of every reader's copy and of the MANIFEST, with
  what each answers to each key. A failed MANIFEST write leaves the immutable memtable
  beside the SST made of it: `ViewOrdered` allows that one repetition, which
  changes no answer. The compaction step rests on `CompactionKeepsAnswers`, and on
  the picked ranges being closed: of a key in the inputs, nothing outside them lies
  between.
- `LossWindowHolds`, `KillLosesNothingHolds`, `ImplementsMvccHolds`
  (`LsmCrashProofs`): what a crash leaves. `OnDisk` is what `Open` would read, the
  MANIFEST's SSTs and the logs from its floor on; `LogContents` says that no sequence
  number is logged twice and that logs and memtables agree; `LossBounded` and
  `DiskAnswers` that `OnDisk` answers for every key with nothing at risk as memory
  does. `LogsWhole` says that no log has a remnant. Hypotheses: no fsync fails
  (`LsmSeqReuse` otherwise) and no append half-way (`LsmPartialAppend`); for the
  first two no MANIFEST write or directory sync (`lsm_manifest_retry`: the directory
  would not open; in the refinement it then stays down); for the last two no compaction
  publishes its MANIFEST while something is `AtRisk`, that is, in memory and
  in no log from the new floor on (the documented limitation 1, see section 5;
  `LossWindow` is what remains without it); for the refinement, power cuts only with
  `kSyncAlways`. `lsm_crash` satisfies them, and
  `lsm_compaction_crash` those of `LossWindowHolds`.
  `ImplementsMvccHolds` goes action by action: a write is `Mvcc`'s write, an
  `OpenReplay` its restart, a snapshot a copy of the map, and everything the
  background thread does a stutter.
- `InterestExactHolds` (`ServerProofs`): between two events `armed` is right for every
  open connection, and while the loop has one in hand for all others. `ServerInv`
  adds that no event is about a connection that was not accepted.
  `RepliesInOrderHolds`: `ReplyInv` follows the replies of each client through what
  it has read, the socket and `out` from `out_off` on; in order, without a gap, as
  long as the connection lives, and cut short at one point when it does not. Both are
  for any number of clients and places, all limits and any faults.
- `CacheExactHolds`, `EvictsOldestHolds` (`StructureProofs`): for any number of shards,
  keys, values and any budget. `Tidy` says of one shard what `CacheExact` does, with
  the list ordered by last use; the weight of a list is the last of its
  prefix weights (`Weighs`), so that no sum over data is needed.
- `RecoveryExactHolds` (`StructureProofs`): for every block size, header size and all
  payload lengths. `Layout` says that the records lie one after the other, padded and
  cut at the block ends, as far as the file goes, so that a cut of the file keeps it;
  `SoFar` that the encoder, which knows only its offset in the block, follows it
  fragment by fragment; `ReaderAt` that the reader does, with `last_good_end` at a
  record's end. What stops the reader is the end of the file inside a record or in
  padding, and all that an fsync has covered lies before it. Hypothesis: `Damage =
  {}` (`WalTornHeader` otherwise).
- `SkipTypeInvariant`, `LevelsAlwaysWhole`, `TowersAlwaysStand`,
  `ReadersMissNothing` (`StructureProofs`): for every set of keys, every number of
  levels and any number of readers, `SkipSpec` keeps its types, every level whole
  and every tower standing on the levels below, and a lock-free read misses nothing
  (`NothingMissed`, which `structures` checks on three keys). None of the last three is
  inductive alone. `Inv` adds `Writing` (the searching writer stands on a linked
  node left of its key, and each `prev` it has filled is the last node before the
  key on its level; a tower under construction is linked on exactly the lower
  levels) and `Walking` (a seeking reader stands on a linked node left of its
  target). That `prev` stays right between the search and the stores rests on
  there being one writer.

- `BackgroundAlwaysAwake`, `NobodyEverForgotten` (`SignalProofs`): for any number of
  writers, waiting threads and snapshot holders, no wakeup is lost. Hypothesis: no
  snapshot is taken while a thread is in `wait_for_background_work`;
  `SignalForgotten` is the counterexample without it. `Inv` proves the two
  together, since each `notify_one` is right only if whoever else is in the wait
  set has no use for it, and adds `Places`: who can be in the wait set at all, and
  that `exit_` is set only when no client is inside a call.
- `BuffersAlwaysOutliveWrites`, `NothingEverUncounted`, `ErrorsNeverSwallowed`
  (`AsyncWalProofs`): for every ring size, sync mode and choice of failures, whatever
  the kernel takes of a batch. `LooseAt` says that tokens are distinct over submission
  queue, kernel and completion queue, so that reaping one completion frees one buffer,
  and that the two counters together miss nothing; `ErrorKept` that an error is in the
  completion queue, in `wal_ring_error_`, or has been returned.
  `CountsStayExact`, `NothingEverOnClosedLog`, `AckedAlwaysReplayed`: until a batch is
  taken in part, which `partly` records (`AsyncWalShortSubmit` is what happens then).
  `Inv` is inductive for every step that does not set `partly`, and `partly` stays set
  (`WholeInv`). `RingInOrder` has the counters exact. `Phases` says what a call has
  established where it stands: a drain leaves an empty ring, so a rotation closes a log
  nobody refers to. `Numbered` and `Placed` follow a record from its slot to the page
  cache or to an error; `SyncAhead` and `ErrorAhead` say that a failure the running
  call has not seen yet is still ahead of it; `AckedPrefix` is what an acknowledgement
  then establishes.
- `TypesKept`, `DurablePointersAlways`, `PassesSettle`, `ReadersAlwaysRight`,
  `LatestAlwaysResolves`, `SnapshotsAlwaysResolve`, `RecoveryAlwaysNamed`
  (`VlogGcProofs`). `Base` (types, `Generations`: numbers are published before they are
  used and never used twice, `Passes`: which generations a pass has under it) holds
  without further hypotheses. `Durable`, which is `DurableWalHasDurableVlog` for every
  record, needs that no write fails after reaching the WAL (`partial`, `fsync`;
  `VlogUnsyncedPointer` otherwise). `Settled` needs `kOverhead < kValueSize`; the other
  case is the last gap of section 5. `Exact` (a pointer into a generation that is there points at its
  own entry) needs that a power cut keeps value bytes before records
  (`VlogForeignValue` otherwise), and survives torn entries and failed writes. The
  last three need `Damage = {}` (`VlogTornScan` otherwise), because the scan must meet
  every entry, and that no write fails after reaching the WAL (`VlogFailedSync`
  otherwise), because the collector must see every record that a replay will. `Moved`
  says that no key's newest record is in the part of the retiring generations the pass
  has been through. `Recoverable` says that every prefix of the
  history a crash may leave has its newest pointers in published generations;
  retirement keeps it because `ForceDurability` has just made the whole history the
  only such prefix, and `Moved` covers that one. `Viewed` is the same for the prefix
  a snapshot sees; the two tests of `snapshots_` in `RunVlogGC` keep it.

Induction over a prefix or a finite set (the cardinalities in `AsyncWalProofs`, the
newest record of a key and the prefixes in `VlogGcProofs`, the fragments of a record
in `StructureProofs`) goes through the existence of a least counterexample or through
the library's facts about finite sets.

Only model-checked: liveness under fairness (`BackgroundDrains`, `GcSettles`,
`WritersWoken`, `ShutdownEnds`, `MutexReleased`, `AllAnswered`, `StopEnds`), which the
prover does not do; `RequestsExact` and the refinement `ImplementsService`, which rest on
what the parser computes for every buffer, and `TableGetExact` and `WalkExact`, which
rest on what block building, scans and bisection compute for every table: recursive
definitions over data, whose induction the installed provers cannot do. All other
properties of the passing runs are theorems.

## 5. Where code and documentation disagree

Two runs of `PROJECT.json` are counterexamples to a sentence of the code's own
comments; "findings" there quotes the lines. The configurations below them are not
among the runs: each is checked in the same way (`tlc -config X.cfg M` with the module
in the second column), and TLC refutes the property in the third.

| run | property | what it shows |
|---|---|---|
| `lsm_manifest_retry` | `AlwaysOpens` | a flush whose MANIFEST write fails is retried with the same SST number while the first install is still in `current_`; the next MANIFEST lists the file twice and `ParseManifest` refuses it (`db.cpp:1680`: "in-memory install is harmless") |
| `async_wal_hole` | `AckedSurvive` | `wal_size_` is not taken back when a write fails; the next record is written, synced and acknowledged behind a hole, and the reader skips the rest of a block at a zero header (`db.h:90-91`) |

| configuration | module | property | what it shows |
|---|---|---|---|
| `LsmPartialAppend` | `MCLsm` | `KillLosesNothing` | an append that fails half-way leaves its bytes in the log; later records, acknowledged and synced, lie behind them and are cut off at recovery (`db.h:90-91`: "acknowledged writes survive even a power cut") |
| `LsmSeqReuse` | `MCLsm` | `KillLosesNothing` | a write whose fsync fails leaves its record in the WAL and does not consume its sequence number; replay prefers it to the acknowledged write that reuses the number (`memtable.h:35`: "seq must be strictly increasing") |
| `WalTornHeader` | `MCWal` | `RecoveryExact` | a power cut inside a record's header is reported as a clean end; nothing is truncated, the writer appends behind the remnant, and the next recovery drops what follows, synced or not (`log.h:17-18`) |
| `VlogFailedSync` | `MCVlogGc` | `LatestResolves` | a write whose fsync fails is in the WAL and in no memtable; a pass finds its value dead and unlinks the generation, and after a kill replay puts the pointer to it over an acknowledged value (`db.cpp:1546-1547`: "Their entries are dead already") |
| `VlogUnsyncedPointer` | `MCVlogGc` | `DurableWalHasDurableVlog` | a failed fsync of a value log, then a pass that rotates: the next write syncs the new generation and the WAL, and the old bytes stay unsynced under a durable record (`db.cpp:823-824`) |
| `VlogTornScan` | `MCVlogGc` | `LatestResolves` | the scan of a value log stops at a torn entry, but later values are appended behind it; the pass retires them with the generation (`vlog.h:88-89`) |
| `VlogForeignValue` | `MCVlogGc` | `ReadersNeverWrong` | without a sync on every write a power cut may keep a pointer and lose its bytes; the next value takes the offset, and `ReadValue` does not compare keys (`docs/vlog-format.md:41-43`) |
| `SignalForgotten` | `Signal` | `BackgroundAwake` | a snapshot taken while a thread is in `wait_for_background_work` makes its predicate true without a notify; that thread then takes the `notify_one` of a rotation, finds its predicate false again, and the background thread sleeps on a pending memtable with the writers behind it, until the next `notify_all` (`db.h:390`: "wakes bg") |
| `AsyncWalShortSubmit` | `AsyncWal` | `CountsExact` | `Flush` does not look at how many SQEs `enter` took, so `outstanding_` counts some the kernel does not have (`ring.h:83`) |
| `AsyncWalStuckDrain` | `AsyncWal` | `DrainsEnd` | a drain then waits for their completions for ever, with `mutex_` held (`db.cpp:841-842`) |
| `AsyncWalUndrained` | `AsyncWal` | `DrainedBeforeClose` | `~DB` closes the log after a drain that failed (`ring.cpp:119-121`: "DB always drains before closing its files") |
| `ServerBacklog` | `MCServer` | `BacklogBounded` | a connection marked closing still executes what later reads bring, so its backlog passes `kMaxOutBytes` (`server.h:26-28`: "must not be able to grow our memory without bound") |
| `RespBlankLine` | `MCServer` | `AllAnswered` | a line of spaces returns kNeedMore ("keep scanning", `resp.cpp:168`), and the request behind it in the same read waits until the client sends more |

Failed writes that reach the WAL reach further than the configurations of `VlogGc` above:
with `partial` faults `LatestResolves` and `RecoveryNamedAtFloor` fail as well, and
with `fsync` faults `SnapshotsResolve` does, through a snapshot taken after the
recovery that `VlogFailedSync` shows.

Also met while modelling: a line longer than the limits is accepted when it arrives
whole and refused when it arrives in pieces (`resp.h:56`: "Any fragmentation pattern
is valid"; `Asked` allows both); a client that half-closes after pipelining loses the
replies still in `out` (`server.cpp:326`); no callback looks for a short
asynchronous write; under `kSyncNever` an asynchronous error is kept and no write
returns it.

Documented limitations, confirmed and not reported again: a compaction's
MANIFEST moves the replay floor past a pending immutable memtable
(`docs/vlog-format.md`, 1); `LossWindow` shows that this, and records carried
over by an earlier recovery, is all a kill can lose. With value separation the
same MANIFEST has a further effect the document does not name: when it also retires
generations, the skipped records are those by which an entry was judged dead or
moved, so a kill brings back an older pointer into a generation that is gone.
`RecoveryNamedAtFloor` shows that, as long as no write fails after reaching the WAL
(`VlogFailedSync`), this is the only way to such a pointer. A reader may find its
generation retired (limitation 2); `ReadersNeverWrong` shows that it gets an
error and never other bytes.

Two gaps no configuration covers: under `kSyncPeriodic` a collection that rotates
leaves the old generation unsynced while the WAL is synced with the new one; and
when header plus key of an entry is at least as long as its value,
`vlog_gc_floor_` (value bytes) stays below the file size and the collector starts
again at once.

## 6. Not modelled

CRC arithmetic, status strings and the fixed-width encoders are stateless; the
models use what they decide. Setup and mapping of the rings, the listening socket,
the table footer and the checks that only a damaged table can fail are left out.
Command-line tools and benchmarks have no state worth a model.

## 7. Plan

Every component with state of its own is modelled and has a run, and every safety
property of the runs that does not rest on recursion over data is a theorem. Left:

1. Invariants of `Server` that connect the parser with the scripts for a given
   script length, so that `ImplementsService` can be reduced to a property of `Resp`
   alone, which TLC checks.
2. The merge and picker loops as functions, checked against `Retain`, `FirstOutput`
   and `OverlappingFiles`.
