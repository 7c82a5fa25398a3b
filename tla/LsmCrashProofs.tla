--------------------------- MODULE LsmCrashProofs ---------------------------
(***************************************************************************)
(* What a crash can take.  The MANIFEST's SSTs with the records of the     *)
(* logs at or above its floor answer for every acknowledged write, but for *)
(* the ones a publication moved the floor past: those of the immutable     *)
(* memtable and those an earlier recovery brought over from older logs.    *)
(*                                                                         *)
(* fsync does not fail here, and no record is written in part.  A record   *)
(* whose fsync failed stays in the log with a sequence number that the     *)
(* next write uses again, and what is written behind a partial record is   *)
(* lost: LsmSeqReuse.cfg and LsmPartialAppend.cfg show what either         *)
(* takes.                                                                  *)
(***************************************************************************)
EXTENDS LsmReadProofs

\* The records Open would replay, and everything it would read.
Logged == UNION {Records(logs[n]) : n \in {m \in File : manifest.floor <= m}}
OnDisk == Logged \cup SstEntries(ssts, manifest)

\* What is in memory and not in the live log or an SST: a publication moves the
\* floor past the log it is in.
AtRisk == ImmTable \cup (memtables[logNumber] \ Records(logs[logNumber]))

\* No two records have one sequence number, and a log that is not there is
\* empty.
LogsDistinct ==
    /\ \A n, m \in File : \A i \in 1..Len(logs[n]), j \in 1..Len(logs[m]) :
          (manifest.floor <= n /\ manifest.floor <= m /\ logs[n][i].seq = logs[m][j].seq)
              => n = m /\ i = j
    /\ \A n \in File : Len(logs[n]) <= calls
    /\ \A n \in File \ logFiles : logs[n] = <<>>

\* The memtables hold what the logs hold, and after a rotation the live log
\* holds what the live memtable holds.
LogsInMemory ==
    status = "up" =>
        /\ logNumber \in logFiles
        /\ Logged \subseteq memtables[logNumber] \cup ImmTable
        /\ Records(logs[logNumber]) \subseteq memtables[logNumber]
        /\ imm # NoFile => memtables[logNumber] \subseteq Records(logs[logNumber])

\* No log has a remnant.
LogsWhole == \A n \in File : torn[n] = "whole"

\* A flush that has come to its unlink has published the current version.
FlushPublished == bg \in {"unlink_log", "flushed"} => manifest = Published(current)

LogContents == LogsDistinct /\ LogsInMemory /\ FlushPublished

\* What the directory answers, for every key with nothing at risk.
LossBounded ==
    status = "up" => \A k \in Key :
        ValueIn(OnDisk, k, kMaxSeq) = store[k] \/ \E e \in AtRisk : e.key = k

-----------------------------------------------------------------------------
(***************************************************************************)
(* What Open would find.                                                   *)
(***************************************************************************)

\* A set of file numbers can be sorted: a file's place is the number of files
\* that are not older.
LEMMA NewestFirstExists == ASSUME NEW F \in SUBSET File PROVE NewestFirst(F) # {}
<1> DEFINE n == Cardinality(F)
           above(x) == {y \in F : x <= y}
           rank == [x \in F |-> Cardinality(above(x))]
           s == [i \in 1..n |-> CHOOSE x \in F : rank[x] = i]
<1>1. IsFiniteSet(F) /\ n \in Nat /\ F \subseteq Nat
  <2>1. IsFiniteSet(File)
    BY FS_Interval, BoundsAssumption DEF File
  <2> QED
    BY <2>1, FS_Subset, FS_CardinalityType, FileNumbers
<1>2. ASSUME NEW x \in F
      PROVE  IsFiniteSet(above(x)) /\ Cardinality(above(x)) \in 1..n
  <2>1. above(x) \in SUBSET F /\ x \in above(x)
    BY <1>1
  <2> HIDE DEF above
  <2>2. IsFiniteSet(above(x)) /\ Cardinality(above(x)) <= n
    BY <1>1, <2>1, FS_Subset
  <2>3. Cardinality(above(x)) \in Nat /\ Cardinality(above(x)) # 0
    BY <2>1, <2>2, FS_CardinalityType, FS_EmptySet
  <2> QED
    BY <1>1, <2>2, <2>3
<1>3. ASSUME NEW x \in F, NEW y \in F, x < y
      PROVE  Cardinality(above(y)) < Cardinality(above(x))
  <2>1. above(y) \in SUBSET above(x) /\ above(y) # above(x)
    <3>1. x \in Nat /\ y \in Nat /\ x \in above(x) /\ x \notin above(y)
      BY <1>1, <1>3
    <3>2. \A z \in above(y) : z \in above(x)
      BY <1>1, <1>3
    <3> QED
      BY <3>1, <3>2
  <2> HIDE DEF above
  <2>2. Cardinality(above(y)) <= Cardinality(above(x)) /\ Cardinality(above(y)) # Cardinality(above(x))
    BY <1>2, <2>1, FS_Subset
  <2>3. Cardinality(above(y)) \in Nat /\ Cardinality(above(x)) \in Nat
    BY <1>2
  <2> QED
    BY <2>2, <2>3
<1> HIDE DEF above
<1>4. rank \in [F -> 1..n] /\ \A x \in F : rank[x] = Cardinality(above(x))
  BY <1>2
<1> HIDE DEF rank
<1>5. \A x, y \in F : rank[x] = rank[y] => x = y
  <2> SUFFICES ASSUME NEW x \in F, NEW y \in F, rank[x] = rank[y], x # y PROVE FALSE
    OBVIOUS
  <2>1. x < y \/ y < x
    BY <1>1
  <2>2. rank[x] \in Nat /\ rank[y] \in Nat
    BY <1>4
  <2> QED
    BY <1>3, <1>4, <2>1, <2>2
<1>6. \A i \in 1..n : \E x \in F : rank[x] = i
  <2>1. rank \in Injection(F, 1..n)
    BY <1>4, <1>5 DEF Injection, IsInjective
  <2>2. IsFiniteSet(1..n) /\ Cardinality(1..n) = n
    BY <1>1, FS_Interval
  <2>3. rank \in Surjection(F, 1..n)
    BY <2>1, <2>2, FS_Injection
  <2> QED
    BY <2>3 DEF Surjection
<1>7. \A i \in 1..n : s[i] \in F /\ rank[s[i]] = i
  BY <1>6
<1>8. s \in [1..n -> F]
  BY <1>7
<1> HIDE DEF s
<1>9. ASSUME NEW i \in 1..n, NEW j \in 1..n, i < j PROVE s[i] > s[j]
  <2>1. s[i] \in Nat /\ s[j] \in Nat /\ s[i] \in F /\ s[j] \in F
    BY <1>1, <1>7
  <2>2. s[i] # s[j]
    BY <1>7, <1>9
  <2>3. ~(s[i] < s[j])
    <3>1. s[i] < s[j] => rank[s[j]] < rank[s[i]]
      BY <1>3, <1>4, <2>1
    <3> QED
      BY <1>7, <1>9, <3>1
  <2> QED
    BY <2>1, <2>2, <2>3
<1>10. F = {s[i] : i \in 1..n}
  <2>1. ASSUME NEW x \in F PROVE \E i \in 1..n : x = s[i]
    <3>1. rank[x] \in 1..n
      BY <1>4
    <3> QED
      BY <1>5, <1>7, <3>1
  <2> QED
    BY <1>7, <2>1
<1> HIDE DEF n
<1>11. s \in NewestFirst(F)
  BY <1>8, <1>9, <1>10 DEF NewestFirst, n
<1> QED
  BY <1>11

\* Open replays every record: none hides another.
LEMMA ReplayedIsLogged == ASSUME TypeInv, ReadInv, LogsDistinct PROVE Replayed = Logged
<1> DEFINE at    == {p \in ReplayLogs \X (1..MaxCalls) : p[2] <= Len(logs[p[1]])}
           rec(p) == logs[p[1]][p[2]]
           before(p, q) == p[1] < q[1] \/ (p[1] = q[1] /\ p[2] < q[2])
           first(q) == \A o \in at : before(o, q) => ~SameInternalKey(rec(o), rec(q))
<1>1. Replayed = {rec(p) : p \in {q \in at : first(q)}}
  BY DEF Replayed
<1>2. /\ ReplayLogs \subseteq File /\ File \subseteq Nat /\ MaxCalls \in Nat
      /\ \A n \in File : n \in ReplayLogs <=> (n \in logFiles /\ manifest.floor <= n)
  BY FileNumbers, CallsAssumption, NumberTypes DEF ReplayLogs, TypeInv, TypeOK, DiskType
<1>3. Replayed \subseteq Logged
  BY <1>2, ReplayedTable DEF Logged
<1>4. ASSUME NEW n \in File, manifest.floor <= n, NEW i \in 1..Len(logs[n])
      PROVE  logs[n][i] \in Replayed
  <2>1. logs[n] \in Seq(Entry) /\ Len(logs[n]) \in Nat /\ calls \in 0..MaxCalls /\ Len(logs[n]) <= calls
    BY DEF TypeInv, TypeOK, DiskType, HistoryType, LogsDistinct
  <2>2. n \in logFiles
    <3>1. Len(logs[n]) # 0
      BY <2>1
    <3> QED
      BY <3>1 DEF LogsDistinct
  <2>3. n \in ReplayLogs /\ i \in 1..MaxCalls /\ i <= Len(logs[n])
    BY <1>2, <1>4, <2>1, <2>2
  <2>4. <<n, i>> \in at
    BY <2>3
  <2>5. first(<<n, i>>)
    <3> SUFFICES ASSUME NEW o \in at, before(o, <<n, i>>)
                 PROVE  ~SameInternalKey(rec(o), rec(<<n, i>>))
      OBVIOUS
    <3>1. PICK m \in ReplayLogs, j \in 1..MaxCalls : o = <<m, j>>
      OBVIOUS
    <3>2. m \in File /\ manifest.floor <= m /\ j <= Len(logs[m]) /\ Len(logs[m]) \in Nat
      <4>1. m \in File /\ manifest.floor <= m /\ j <= Len(logs[m])
        BY <1>2, <3>1
      <4>2. logs[m] \in Seq(Entry)
        BY <4>1 DEF TypeInv, TypeOK, DiskType
      <4> QED
        BY <4>1, <4>2
    <3>3. j \in 1..Len(logs[m])
      BY <1>2, <3>2
    <3>4. ~(m = n /\ j = i)
      <4>1. m < n \/ (m = n /\ j < i)
        BY <3>1
      <4>2. m \in Nat /\ n \in Nat /\ i \in Nat /\ j \in Nat
        BY <1>2
      <4> QED
        BY <4>1, <4>2
    <3>5. logs[m][j].seq # logs[n][i].seq
      BY <1>4, <3>2, <3>3, <3>4 DEF LogsDistinct
    <3> QED
      BY <3>1, <3>5 DEF SameInternalKey
  <2>6. rec(<<n, i>>) = logs[n][i]
    OBVIOUS
  <2> HIDE DEF at, first, rec
  <2> QED
    BY <1>1, <2>4, <2>5, <2>6
<1> HIDE DEF at, first, rec
<1> QED
  BY <1>3, <1>4 DEF Logged, Records

\* What a later Open would answer: everything on disk, as one table.
LEMMA RecoveredIs ==
    ASSUME TypeInv, ReadInv, LogsDistinct
    PROVE  /\ Table(OnDisk)
           /\ \A k \in Key : Reopened(k) = ValueIn(OnDisk, k, kMaxSeq)
<1>1. RecoveredVersion \in RecoveredVersions
  <2>1. FilesOf(manifest.l0) \in SUBSET File
    BY VersionTypes, FilesMembers DEF InUse
  <2>2. NewestFirst(FilesOf(manifest.l0)) # {}
    BY <2>1, NewestFirstExists
  <2> QED
    BY <2>2 DEF RecoveredVersion, RecoveredVersions
<1>2. /\ IsVersion(RecoveredVersion) /\ ViewOrdered(ssts, Replayed, {}, RecoveredVersion)
      /\ SstEntries(ssts, RecoveredVersion) = SstEntries(ssts, manifest)
  BY <1>1, RecoveredOrdered
<1>3. ViewEntries(ssts, Replayed, {}, RecoveredVersion) = OnDisk
  BY <1>2, ReplayedIsLogged DEF ViewEntries, OnDisk
<1>4. Table(OnDisk)
  BY <1>2, <1>3, ViewTable
<1>5. ssts \in [File -> SUBSET Entry] /\ kMaxSeq \in Nat
  BY VersionTypes, CallsAssumption
<1>6. ASSUME NEW k \in Key PROVE Reopened(k) = ValueIn(OnDisk, k, kMaxSeq)
  <2>1. LookupIn(View(Replayed, {}, RecoveredVersion), k, kMaxSeq) =
          ValueIn(ViewEntries(ssts, Replayed, {}, RecoveredVersion), k, kMaxSeq)
    BY <1>2, <1>5, LookupExact
  <2> QED
    BY <1>3, <2>1 DEF Reopened, RecoveredView
<1> QED
  BY <1>4, <1>6

\* What is read off the disk is a value, never the answer of an Open that fails.
LEMMA OnDiskValue ==
    ASSUME TypeInv, Table(OnDisk), NEW k \in Key PROVE ValueIn(OnDisk, k, kMaxSeq) # Refused
<1>1. OnDisk \subseteq Entry
  <2>1. ASSUME NEW n \in File PROVE Records(logs[n]) \subseteq Entry
    <3>1. logs[n] \in Seq(Entry)
      BY DEF TypeInv, TypeOK, DiskType
    <3> QED
      BY <3>1, ElementOfSeq DEF Records
  <2>2. SstEntries(ssts, manifest) \subseteq Entry
    BY VersionTypes, SstEntriesType DEF InUse
  <2> QED
    BY <2>1, <2>2 DEF OnDisk, Logged
<1>2. \A e \in Entry : ValueOf(e) \in Nat
  BY DEF ValueOf, Entry, Value, NotFound
<1>3. CASE Visible(OnDisk, k, kMaxSeq) = {}
  BY <1>3 DEF ValueIn, NotFound, Refused
<1>4. CASE Visible(OnDisk, k, kMaxSeq) # {}
  <2>1. Newest(OnDisk, k, kMaxSeq) \in Entry
    BY <1>1, <1>4, NewestIsNewest, CallsAssumption DEF Visible
  <2> QED
    BY <1>2, <1>4, <2>1 DEF ValueIn, Refused
<1> QED
  BY <1>3, <1>4

-----------------------------------------------------------------------------
(***************************************************************************)
(* Steps that change neither the logs, the memtables nor the MANIFEST.     *)
(***************************************************************************)

Still ==
    /\ UNCHANGED <<status, logNumber, memtables, imm, current, logFiles, logs, manifest,
                   calls, store>>
    /\ SstEntries(ssts', manifest) = SstEntries(ssts, manifest)
    /\ bg' \in {"unlink_log", "flushed"} => bg \in {"unlink_log", "flushed"}

\* Reads, snapshots, the start of a flush or a compaction and the SSTs they
\* write.
LEMMA StillSteps ==
    ASSUME TypeInv, TypeInv', LogInv, ReadInv,
           \/ UNCHANGED vars
           \/ \E r \in Reader : BeginRead(r) \/ EndRead(r)
           \/ \E s \in Snap : GetSnapshot(s) \/ ReleaseSnapshot(s)
           \/ StartFlush \/ RetryFlush \/ WriteFlushSst \/ PickCompaction \/ TakeFloor
           \/ SealOutput \/ UnlinkInputs
    PROVE  Still
<1>1. CASE UNCHANGED <<memory, disk, bg, calls, store>>
  BY <1>1 DEF Still, memory, disk
<1>2. CASE UNCHANGED vars
  BY <1>2 DEF Still, vars, memory, disk, threads, history
<1>3. CASE \/ \E r \in Reader : BeginRead(r) \/ EndRead(r)
           \/ \E s \in Snap : GetSnapshot(s) \/ ReleaseSnapshot(s)
  <2>1. UNCHANGED <<status, logNumber, memtables, imm, current, logFiles, logs, ssts, manifest,
                    bg, calls, store>>
    BY <1>3 DEF BeginRead, EndRead, GetSnapshot, ReleaseSnapshot, memory, disk, threads, history
  <2> QED
    BY <2>1 DEF Still
<1>4. CASE StartFlush \/ RetryFlush \/ PickCompaction \/ TakeFloor \/ UnlinkInputs
  <2>1. /\ UNCHANGED <<status, logNumber, memtables, imm, current, logFiles, logs, ssts, manifest,
                       calls, store>>
        /\ bg' \in {"idle", "flush", "floor", "merge"}
    BY <1>4 DEF StartFlush, RetryFlush, PickCompaction, TakeFloor, UnlinkInputs, memory, disk, history
  <2> QED
    BY <2>1 DEF Still
<1>5. CASE WriteFlushSst
  <2>1. /\ UNCHANGED <<status, logNumber, memtables, imm, current, logFiles, logs, manifest,
                       calls, store>>
        /\ bg' \in {"install_flush", "backoff"} /\ bg = "flush"
        /\ ssts' = ssts \/ ssts' = [ssts EXCEPT ![immSst] = memtables[imm]]
    BY <1>5 DEF WriteFlushSst, memory
  <2>2. imm # NoFile /\ immSst \in File /\ ssts \in [File -> SUBSET Entry] /\ Files(manifest) \subseteq File
    <3>1. imm # NoFile
      BY <2>1 DEF TypeInv, FlushPending, Flushing
    <3> QED
      BY <3>1, NumberTypes, VersionTypes DEF InUse
  <2>3. immSst \in Files(manifest) => ssts[immSst] = memtables[imm]
    BY <2>2 DEF ReadInv, WorkInv, FlushState, InUse
  <2>4. \A f \in Files(manifest) : ssts'[f] = ssts[f]
    BY <2>1, <2>2, <2>3
  <2> QED
    BY <2>1, <2>4, SameSsts DEF Still
<1>6. CASE SealOutput
  <2>1. /\ UNCHANGED <<status, logNumber, memtables, imm, current, logFiles, logs, manifest,
                       calls, store>>
        /\ status = "up" /\ bg = "merge"
        /\ \/ ssts' = ssts /\ bg' = "idle"
           \/ /\ ssts' = [ssts EXCEPT ![nextFile] = FirstOutput(job.todo, max_sst_size)]
              /\ bg' = "idle" \/ bg' = bg
    BY <1>6 DEF SealOutput, GiveUp, MutexFree
  <2>2. /\ \A f \in Files(manifest) : f < nextFile /\ f \in File
        /\ nextFile \in Nat /\ File \subseteq Nat /\ ssts \in [File -> SUBSET Entry]
    BY <2>1, NumberTypes, FileNumbers, VersionTypes DEF ReadInv, CoreInv, Numbers, InUse
  <2>3. \A f \in Files(manifest) : f \in File /\ f # nextFile
    BY <2>2
  <2>4. \A f \in Files(manifest) : ssts'[f] = ssts[f]
    BY <2>1, <2>2, <2>3
  <2> QED
    BY <2>1, <2>4, SameSsts DEF Still
<1> QED
  BY <1>2, <1>3, <1>4, <1>5, <1>6

\* They leave the invariant alone.
LEMMA StillFrame ==
    ASSUME Still
    PROVE  /\ OnDisk' = OnDisk /\ AtRisk' = AtRisk
           /\ LogContents => LogContents'
           /\ LossBounded => LossBounded'
<1>1. /\ UNCHANGED <<status, logNumber, memtables, imm, current, logFiles, logs, manifest,
                     calls, store>>
      /\ SstEntries(ssts', manifest) = SstEntries(ssts, manifest)
      /\ bg' \in {"unlink_log", "flushed"} => bg \in {"unlink_log", "flushed"}
  BY DEF Still
<1>2. Logged' = Logged /\ ImmTable' = ImmTable
  BY <1>1 DEF Logged, ImmTable
<1>3. OnDisk' = OnDisk /\ AtRisk' = AtRisk
  BY <1>1, <1>2 DEF OnDisk, AtRisk
<1>4. LogsDistinct => LogsDistinct'
  BY <1>1 DEF LogsDistinct
<1>5. LogsInMemory => LogsInMemory'
  BY <1>1, <1>2 DEF LogsInMemory
<1>6. FlushPublished => FlushPublished'
  BY <1>1 DEF FlushPublished, Published
<1>7. LossBounded => LossBounded'
  BY <1>1, <1>3 DEF LossBounded
<1> QED
  BY <1>3, <1>4, <1>5, <1>6, <1>7 DEF LogContents

-----------------------------------------------------------------------------
(***************************************************************************)
(* Writes.                                                                 *)
(***************************************************************************)

\* Without a partial write the logs stay whole: nothing else leaves a remnant.
LEMMA LogsWholeStep ==
    ASSUME "partial" \notin Faults, TypeInv, LogsWhole, [Next]_vars
    PROVE  LogsWhole'
<1>1. torn \in [File -> LogTail] /\ ~Fails("partial")
  BY DEF TypeInv, TypeOK, DiskType, Fails
<1>2. CASE UNCHANGED torn
  BY <1>2 DEF LogsWhole
<1>3. ASSUME NEW n, NEW e, AddRecord(n, e) \/ AddRecordFails(n) PROVE LogsWhole'
  BY <1>1, <1>3 DEF LogsWhole, AddRecord, AddRecordFails
<1>4. ASSUME NEW type, NEW k, Write(type, k) PROVE LogsWhole'
  <2>1. UNCHANGED torn \/ WriteEntry(type, k)
    BY <1>4 DEF Write
  <2> QED
    BY <1>2, <1>3, <2>1 DEF WriteEntry
<1>5. CASE UnlinkLog
  BY <1>1, <1>5 DEF LogsWhole, UnlinkLog
<1>6. ASSUME NEW kind \in Crashes, Crash(kind) PROVE LogsWhole'
  <2>1. \A n \in logFiles, left \in Nat :
           CutTails(n, left) \subseteq {"whole"} /\ torn[n] = "whole"
    BY DEF TypeInv, TypeOK, DiskType, LogsWhole, CutTails
  <2>2. PICK left \in [logFiles -> 0..MaxCalls], tail \in [logFiles -> LogTail] :
          /\ \A n \in logFiles : tail[n] \in
                (IF kind = "power" THEN CutTails(n, left[n]) ELSE {torn[n]})
          /\ torn' = [n \in File |-> IF n \in logFiles THEN tail[n] ELSE "whole"]
    BY <1>6 DEF Crash
  <2>3. ASSUME NEW n \in logFiles PROVE tail[n] = "whole"
    <3>1. left[n] \in Nat
      BY CallsAssumption
    <3> QED
      BY <2>1, <2>2, <3>1
  <2> QED
    BY <2>2, <2>3 DEF LogsWhole
<1>7. CASE OpenSweep
  BY <1>1, <1>7 DEF LogsWhole, OpenSweep
<1>8. CASE OpenReplay
  <2>1. {n \in ReplayLogs : torn[n] = "remnant"} = {}
    BY DEF LogsWhole, ReplayLogs, TypeInv, TypeOK, DiskType
  <2> QED
    BY <1>8, <2>1 DEF LogsWhole, OpenReplay
<1>9. CASE \/ UNCHANGED vars
           \/ \E r \in Reader : BeginRead(r) \/ EndRead(r)
           \/ \E s \in Snap : GetSnapshot(s) \/ ReleaseSnapshot(s)
  BY <1>2, <1>9 DEF BeginRead, EndRead, GetSnapshot, ReleaseSnapshot, vars, disk
<1>10. CASE \/ StartFlush \/ WriteFlushSst \/ InstallFlush \/ EndFlush \/ RetryFlush
            \/ PickCompaction \/ TakeFloor \/ SealOutput \/ InstallCompaction \/ UnlinkInputs
  BY <1>2, <1>10 DEF StartFlush, WriteFlushSst, InstallFlush, EndFlush, RetryFlush, PickCompaction,
     TakeFloor, SealOutput, InstallCompaction, UnlinkInputs, disk
<1> QED
  BY <1>4, <1>5, <1>6, <1>7, <1>8, <1>9, <1>10 DEF Next, Background

\* When fsync does not fail and the logs are whole, a write is in the log and
\* acknowledged or neither.
LEMMA WriteOutcome ==
    ASSUME "sync" \notin Faults, LogsWhole, TypeInv, TypeInv', NEW type, NEW k \in Key, Write(type, k)
    PROVE  /\ \/ UNCHANGED <<logs, synced, memtables, nextSeq, store>>
              \/ /\ logs' = [logs EXCEPT ![logNumber'] = Append(@, NewEntry(type, k))]
                 /\ memtables' = [memtables EXCEPT ![logNumber'] = Insert(@, NewEntry(type, k))]
                 /\ store' = [store EXCEPT ![k] = NewEntry(type, k).val]
                 /\ sync_mode = "always" =>
                       synced' = [synced EXCEPT ![logNumber'] = Len(logs'[logNumber'])]
           /\ \/ Stays /\ (logFiles' = logFiles \/ logFiles' = logFiles \cup {nextFile})
              \/ logNumber' = nextFile /\ logFiles' = logFiles \cup {nextFile}
<1>1. ~Fails("sync")
  BY DEF Fails
<1>2. WriteEntry(type, k) =>
        \/ UNCHANGED <<logs, synced, memtables, nextSeq, store>>
        \/ /\ logs' = [logs EXCEPT ![logNumber'] = Append(@, NewEntry(type, k))]
           /\ memtables' = [memtables EXCEPT ![logNumber'] = Insert(@, NewEntry(type, k))]
           /\ store' = [store EXCEPT ![k] = NewEntry(type, k).val]
           /\ sync_mode = "always" =>
                 synced' = [synced EXCEPT ![logNumber'] = Len(logs'[logNumber'])]
  <2>1. logNumber' \in File
    BY DEF TypeInv, TypeOK, MemoryType
  <2>2. torn[logNumber'] = "whole"
    BY <2>1 DEF LogsWhole
  <2>3. \A e : AddRecord(logNumber', e) => logs' = [logs EXCEPT ![logNumber'] = Append(@, e)]
    BY <2>2 DEF AddRecord
  <2>4. AddRecordFails(logNumber') => UNCHANGED logs
    BY DEF AddRecordFails
  <2> QED
    BY <1>1, <2>3, <2>4 DEF WriteEntry, NewEntry, SyncNeeded
<1>3. WriteEntry(type, k) \/ UNCHANGED <<logs, synced, memtables, nextSeq, store>>
  BY DEF Write
<1>4. \/ Stays /\ (logFiles' = logFiles \/ logFiles' = logFiles \cup {nextFile})
      \/ logNumber' = nextFile /\ logFiles' = logFiles \cup {nextFile}
  BY DEF Write, Stays, RotateForFlush
<1> QED
  BY <1>2, <1>3, <1>4

\* The logs after a write: A holds the entry if it was acknowledged.
LEMMA WriteOnDisk ==
    ASSUME TypeInv, TypeInv', LogInv, ReadInv, LogContents, LogsWhole, "sync" \notin Faults,
           NEW type \in {kTypeDeletion, kTypeValue}, NEW k \in Key, Write(type, k)
    PROVE  \E A \in {{}, {NewEntry(type, k)}} :
             /\ A = {} => UNCHANGED <<logs, synced, memtables, store>>
             /\ A # {} => /\ logs' = [logs EXCEPT ![logNumber'] = Append(@, NewEntry(type, k))]
                          /\ store' = [store EXCEPT ![k] = ValueOf(NewEntry(type, k))]
                          /\ sync_mode = "always" =>
                                synced' = [synced EXCEPT ![logNumber'] = Len(logs'[logNumber'])]
             /\ \A n \in File : n # logNumber' => logs'[n] = logs[n]
             /\ Records(logs'[logNumber']) = Records(logs[logNumber']) \cup A
             /\ Logged' = Logged \cup A
             /\ memtables'[logNumber'] = memtables[logNumber'] \cup A
             /\ \/ Stays /\ ImmTable' = {}
                \/ /\ Rotates /\ ImmTable' = memtables[logNumber]
                   /\ memtables[logNumber'] = {} /\ logs[logNumber'] = <<>>
             /\ LiveEntries' = LiveEntries \cup A
<1> DEFINE e == NewEntry(type, k)
<1>1. /\ UNCHANGED <<status, current, ssts, manifest>> /\ status = "up" /\ imm = NoFile
      /\ Rotates \/ Stays
      /\ e \in Entry /\ e.seq = nextSeq
  BY WriteParts
<1>2. \/ UNCHANGED <<logs, synced, memtables, nextSeq, store>>
      \/ /\ logs' = [logs EXCEPT ![logNumber'] = Append(@, e)]
         /\ memtables' = [memtables EXCEPT ![logNumber'] = Insert(@, e)]
         /\ store' = [store EXCEPT ![k] = e.val]
         /\ sync_mode = "always" =>
               synced' = [synced EXCEPT ![logNumber'] = Len(logs'[logNumber'])]
  BY WriteOutcome
<1>3. ValueOf(e) = e.val
  BY DEF ValueOf, NewEntry
<1> HIDE DEF e
<1>4. PICK A \in {{}, {e}} :
         /\ A = {} => UNCHANGED <<logs, synced, memtables, store>>
         /\ A # {} => /\ logs' = [logs EXCEPT ![logNumber'] = Append(@, e)]
                      /\ memtables' = [memtables EXCEPT ![logNumber'] = Insert(@, e)]
                      /\ store' = [store EXCEPT ![k] = ValueOf(e)]
                      /\ sync_mode = "always" =>
                            synced' = [synced EXCEPT ![logNumber'] = Len(logs'[logNumber'])]
  <2>1. CASE UNCHANGED <<logs, synced, memtables, nextSeq, store>>
    BY <2>1
  <2>2. CASE ~ UNCHANGED <<logs, synced, memtables, nextSeq, store>>
    <3>1. {e} # {}
      OBVIOUS
    <3> QED
      BY <1>2, <1>3, <2>2, <3>1
  <2> QED
    BY <2>1, <2>2
<1>5. /\ logNumber' \in File /\ logNumber <= logNumber'
      /\ memtables'[logNumber'] = memtables[logNumber'] \cup A
      /\ \/ Stays /\ ImmTable' = {} /\ logNumber' = logNumber
         \/ /\ Rotates /\ memtables[logNumber'] = {} /\ ImmTable' = memtables[logNumber]
            /\ logNumber < logNumber'
      /\ LiveEntries' = LiveEntries \cup A
  <2>1. \/ A = {} /\ UNCHANGED memtables
        \/ A = {e} /\ memtables' = [memtables EXCEPT ![logNumber'] = Insert(@, e)]
    BY <1>4
  <2> QED
    BY <1>1, <2>1, WriteTables
<1>6. logs \in [File -> Seq(Entry)]
  BY DEF TypeInv, TypeOK, DiskType
<1>7. \A n \in File : n # logNumber' => logs'[n] = logs[n]
  BY <1>4, <1>6
<1>8. Records(logs'[logNumber']) = Records(logs[logNumber']) \cup A
  <2>1. CASE A = {}
    BY <1>4, <2>1
  <2>2. CASE A = {e}
    <3>1. logs'[logNumber'] = Append(logs[logNumber'], e) /\ logs[logNumber'] \in Seq(Entry)
      BY <1>4, <1>5, <1>6, <2>2
    <3>2. \A l \in Seq(Entry) : Records(Append(l, e)) = Records(l) \cup {e}
      <4> SUFFICES ASSUME NEW l \in Seq(Entry) PROVE Records(Append(l, e)) = Records(l) \cup {e}
        OBVIOUS
      <4>1. /\ Len(Append(l, e)) = Len(l) + 1 /\ Len(l) \in Nat
            /\ \A i \in 1..Len(l) : Append(l, e)[i] = l[i]
            /\ Append(l, e)[Len(l) + 1] = e
        BY <1>1
      <4>2. \A i \in 1..Len(l) + 1 : i \in 1..Len(l) \/ i = Len(l) + 1
        BY <4>1
      <4>3. Len(l) + 1 \in 1..Len(l) + 1 /\ \A i \in 1..Len(l) : i \in 1..Len(l) + 1
        BY <4>1
      <4> QED
        BY <4>1, <4>2, <4>3 DEF Records
    <3> QED
      BY <2>2, <3>1, <3>2
  <2> QED
    BY <2>1, <2>2
<1>9. Logged' = Logged \cup A
  <2>1. manifest.floor <= logNumber'
    <3>1. manifest.floor \in Nat /\ logNumber \in Nat /\ logNumber' \in Nat /\ manifest.floor <= logNumber
      BY <1>1, <1>5, NumberTypes, FileNumbers DEF LogInv
    <3> QED
      BY <1>5, <3>1
  <2> QED
    BY <1>1, <1>5, <1>7, <1>8, <2>1 DEF Logged
<1>10. Rotates => logs[logNumber'] = <<>>
  <2>1. \A n \in File : logNumber < n => logs[n] = <<>>
    BY <1>1 DEF ReadInv, CoreInv, DiskOrdered
  <2>2. Rotates => logNumber < logNumber'
    BY <1>1, NumberTypes DEF Rotates, LogInv
  <2> QED
    BY <1>5, <2>1, <2>2
<1> QED
  BY <1>4, <1>5, <1>7, <1>8, <1>9, <1>10 DEF e

\* Put and Delete keep the logs and the memtables in step.
LEMMA WriteContents ==
    ASSUME TypeInv, TypeInv', LogInv, ReadInv, LogContents, LogsWhole, "sync" \notin Faults,
           NEW type \in {kTypeDeletion, kTypeValue}, NEW k \in Key, Write(type, k)
    PROVE  LogContents'
<1> DEFINE e == NewEntry(type, k)
<1>1. /\ UNCHANGED <<status, current, ssts, manifest, bg>> /\ status = "up" /\ imm = NoFile
      /\ calls' = calls + 1 /\ e \in Entry /\ e.seq = nextSeq
  BY WriteParts
<1>2. PICK A \in {{}, {e}} :
        /\ A = {} => UNCHANGED <<logs, synced, memtables, store>>
        /\ A # {} => logs' = [logs EXCEPT ![logNumber'] = Append(@, e)]
        /\ \A n \in File : n # logNumber' => logs'[n] = logs[n]
        /\ Records(logs'[logNumber']) = Records(logs[logNumber']) \cup A
        /\ Logged' = Logged \cup A
        /\ memtables'[logNumber'] = memtables[logNumber'] \cup A
        /\ \/ Stays /\ ImmTable' = {}
           \/ /\ Rotates /\ ImmTable' = memtables[logNumber]
              /\ memtables[logNumber'] = {} /\ logs[logNumber'] = <<>>
  BY WriteOnDisk
<1> HIDE DEF e
<1>3. /\ \/ Stays /\ (logFiles' = logFiles \/ logFiles' = logFiles \cup {nextFile})
         \/ logNumber' = nextFile /\ logFiles' = logFiles \cup {nextFile}
  BY WriteOutcome
<1>4. /\ logs \in [File -> Seq(Entry)] /\ logNumber' \in File /\ calls \in Nat /\ File \subseteq Nat
      /\ manifest.floor \in Nat /\ logNumber \in File
  BY NumberTypes, FileNumbers DEF TypeInv, TypeOK, DiskType, MemoryType
<1>5. LogsDistinct /\ LogsInMemory /\ ImmTable = {}
  BY <1>1 DEF LogContents, ImmTable
<1>6. /\ Logged \subseteq memtables[logNumber]
      /\ Records(logs[logNumber]) \subseteq memtables[logNumber]
      /\ logNumber \in logFiles
  BY <1>1, <1>5 DEF LogsInMemory
<1>7. \A x \in Logged : x.seq < e.seq
  <2>1. Logged \subseteq LiveEntries
    BY <1>6 DEF LiveEntries, ViewEntries
  <2> QED
    BY <1>1, <2>1 DEF ReadInv, CoreInv, Sequences
<1>8. logNumber' \in logFiles'
  BY <1>3, <1>6 DEF Stays
<1>9. LogsInMemory'
  <2>1. CASE Stays
    <3>1. logNumber' = logNumber /\ imm' = NoFile /\ ImmTable' = {}
      BY <1>1, <2>1 DEF Stays, ImmTable
    <3> QED
      BY <1>2, <1>6, <1>8, <3>1 DEF LogsInMemory
  <2>2. CASE /\ ImmTable' = memtables[logNumber]
             /\ memtables[logNumber'] = {} /\ logs[logNumber'] = <<>>
    <3>1. Records(<<>>) = {}
      BY DEF Records
    <3>2. memtables'[logNumber'] = A /\ Records(logs'[logNumber']) = A
      BY <1>2, <2>2, <3>1
    <3> QED
      BY <1>2, <1>6, <1>8, <2>2, <3>2 DEF LogsInMemory
  <2> QED
    BY <1>2, <2>1, <2>2
<1>10. LogsDistinct'
  <2>1. \A n \in File \ logFiles' : logs'[n] = <<>>
    <3> SUFFICES ASSUME NEW n \in File \ logFiles' PROVE logs'[n] = <<>>
      OBVIOUS
    <3>1. n \notin logFiles /\ n # logNumber'
      BY <1>3, <1>8 DEF Stays
    <3> QED
      BY <1>2, <1>5, <3>1 DEF LogsDistinct
  <2>2. CASE A = {}
    <3>1. logs' = logs
      BY <1>2, <2>2
    <3>2. \A n \in File : Len(logs[n]) <= calls'
      BY <1>1, <1>4, <1>5 DEF LogsDistinct
    <3> QED
      BY <1>1, <1>5, <2>1, <3>1, <3>2 DEF LogsDistinct
  <2>3. CASE A = {e}
    <3>1. logs' = [logs EXCEPT ![logNumber'] = Append(@, e)]
      BY <1>2, <2>3
    <3>2. /\ logs'[logNumber'] = Append(logs[logNumber'], e) /\ logs[logNumber'] \in Seq(Entry)
          /\ \A n \in File : n # logNumber' => logs'[n] = logs[n]
      BY <1>4, <3>1
    <3>3. /\ Len(logs'[logNumber']) = Len(logs[logNumber']) + 1 /\ Len(logs[logNumber']) \in Nat
          /\ \A i \in 1..Len(logs[logNumber']) : logs'[logNumber'][i] = logs[logNumber'][i]
          /\ logs'[logNumber'][Len(logs[logNumber']) + 1] = e
      BY <1>1, <3>2
    <3>4. \A n \in File : Len(logs'[n]) <= calls'
      <4> SUFFICES ASSUME NEW n \in File PROVE Len(logs'[n]) <= calls'
        OBVIOUS
      <4>1. Len(logs[n]) <= calls /\ Len(logs[n]) \in Nat
        BY <1>4, <1>5 DEF LogsDistinct
      <4>2. Len(logs'[n]) <= Len(logs[n]) + 1
        BY <3>2, <3>3, <4>1
      <4> QED
        BY <1>1, <1>4, <4>1, <4>2, <3>2, <3>3
    <3>5. ASSUME NEW n \in File, manifest.floor <= n, NEW i \in 1..Len(logs'[n])
          PROVE  \/ i \in 1..Len(logs[n]) /\ logs'[n][i] = logs[n][i] /\ logs[n][i].seq < e.seq
                 \/ n = logNumber' /\ i = Len(logs[logNumber']) + 1 /\ logs'[n][i] = e
      <4>1. i \in 1..Len(logs[n]) => logs[n][i] \in Logged
        BY <3>5 DEF Logged, Records
      <4>2. CASE n # logNumber'
        BY <1>7, <3>2, <4>1, <4>2
      <4>3. CASE n = logNumber'
        <5>1. i \in 1..Len(logs[n]) \/ i = Len(logs[n]) + 1
          BY <3>3, <4>3
        <5> QED
          BY <1>7, <3>3, <4>1, <4>3, <5>1
      <4> QED
        BY <4>2, <4>3
    <3>6. ASSUME NEW n \in File, NEW m \in File, NEW i \in 1..Len(logs'[n]), NEW j \in 1..Len(logs'[m]),
                 manifest.floor <= n, manifest.floor <= m, logs'[n][i].seq = logs'[m][j].seq
          PROVE  n = m /\ i = j
      <4>1. e.seq \in Nat
        BY <1>1 DEF Entry
      <4>2. CASE i \in 1..Len(logs[n]) /\ logs'[n][i] = logs[n][i] /\ logs[n][i].seq < e.seq
        <5>1. j \in 1..Len(logs[m]) /\ logs'[m][j] = logs[m][j]
          BY <3>5, <3>6, <4>1, <4>2
        <5> QED
          BY <1>5, <3>6, <4>2, <5>1 DEF LogsDistinct
      <4>3. CASE n = logNumber' /\ i = Len(logs[logNumber']) + 1 /\ logs'[n][i] = e
        <5>1. m = logNumber' /\ j = Len(logs[logNumber']) + 1
          BY <3>5, <3>6, <4>1, <4>3
        <5> QED
          BY <4>3, <5>1
      <4> QED
        BY <3>5, <3>6, <4>2, <4>3
    <3> QED
      BY <1>1, <2>1, <3>4, <3>6 DEF LogsDistinct
  <2> QED
    BY <2>2, <2>3
<1>11. FlushPublished'
  <2>1. bg \notin {"unlink_log", "flushed"}
    BY <1>1 DEF TypeInv, FlushPending, Flushing
  <2> QED
    BY <1>1, <2>1 DEF FlushPublished
<1> QED
  BY <1>9, <1>10, <1>11 DEF LogContents

\* The entry of an acknowledged write is newer than all that is on disk.
LEMMA WriteAnswered ==
    ASSUME TypeInv, TypeInv', LogInv, ReadInv, LogContents, LogsWhole, "sync" \notin Faults,
           NEW type \in {kTypeDeletion, kTypeValue}, NEW k \in Key, Write(type, k)
    PROVE  \A q \in Key :
             \/ store'[q] = ValueIn(OnDisk', q, kMaxSeq)
             \/ store'[q] = store[q] /\ ValueIn(OnDisk', q, kMaxSeq) = ValueIn(OnDisk, q, kMaxSeq)
<1> DEFINE e == NewEntry(type, k)
<1>1. /\ UNCHANGED <<status, current, ssts, manifest>> /\ status = "up" /\ imm = NoFile
      /\ e \in Entry /\ e.seq = nextSeq /\ e.key = k /\ nextSeq <= kMaxSeq
  BY WriteParts
<1>2. PICK A \in {{}, {e}} :
        /\ A = {} => UNCHANGED <<logs, synced, memtables, store>>
        /\ A # {} => store' = [store EXCEPT ![k] = ValueOf(e)]
        /\ Logged' = Logged \cup A
  BY WriteOnDisk
<1> HIDE DEF e
<1>3. OnDisk' = OnDisk \cup A
  BY <1>1, <1>2 DEF OnDisk
<1>4. CASE A = {}
  BY <1>2, <1>3, <1>4
<1>5. CASE A = {e}
  <2>1. LogsDistinct /\ LogsInMemory /\ ImmTable = {}
    BY <1>1 DEF LogContents, ImmTable
  <2>2. Logged \subseteq LiveEntries
    BY <1>1, <2>1 DEF LiveEntries, ViewEntries, LogsInMemory
  <2>3. \A x \in OnDisk : x.seq < e.seq
    BY <1>1, <2>2 DEF OnDisk, ReadInv, CoreInv, Sequences
  <2>4. Table(OnDisk)
    BY <2>1, RecoveredIs
  <2>5. kMaxSeq \in Nat /\ store \in [Key -> Value] /\ e.seq <= kMaxSeq
    BY <1>1, CallsAssumption DEF TypeInv, TypeOK, HistoryType
  <2>6. /\ ValueIn(OnDisk \cup {e}, e.key, kMaxSeq) = ValueOf(e)
        /\ \A q : q # e.key => ValueIn(OnDisk \cup {e}, q, kMaxSeq) = ValueIn(OnDisk, q, kMaxSeq)
    <3>1. /\ \A s \in Nat : e.seq <= s => ValueIn(OnDisk \cup {e}, e.key, s) = ValueOf(e)
          /\ \A q : \A s \in Nat : (q # e.key \/ s < e.seq) =>
                ValueIn(OnDisk \cup {e}, q, s) = ValueIn(OnDisk, q, s)
      BY <1>1, <2>3, <2>4, <2>5, WriteAnswers
    <3> QED
      BY <2>5, <3>1
  <2>7. store' = [store EXCEPT ![k] = ValueOf(e)]
    BY <1>2, <1>5
  <2> SUFFICES ASSUME NEW q \in Key
               PROVE  \/ store'[q] = ValueIn(OnDisk', q, kMaxSeq)
                      \/ /\ store'[q] = store[q]
                         /\ ValueIn(OnDisk', q, kMaxSeq) = ValueIn(OnDisk, q, kMaxSeq)
    OBVIOUS
  <2>8. OnDisk' = OnDisk \cup {e}
    BY <1>3, <1>5
  <2>9. CASE q = k
    BY <1>1, <2>5, <2>6, <2>7, <2>8, <2>9
  <2>10. CASE q # k
    BY <1>1, <2>5, <2>6, <2>7, <2>8, <2>10
  <2> QED
    BY <2>9, <2>10
<1> QED
  BY <1>4, <1>5

-----------------------------------------------------------------------------
(***************************************************************************)
(* Publications, and the end of a flush.                                   *)
(***************************************************************************)

\* Logs that lose records, or a floor that moves up.
LEMMA FewerLogs ==
    ASSUME LogsDistinct, TypeInv, TypeInv',
           manifest.floor <= manifest'.floor, calls' = calls,
           \A n \in File : /\ Len(logs'[n]) <= Len(logs[n])
                           /\ \A i \in 1..Len(logs'[n]) : logs'[n][i] = logs[n][i],
           \A n \in File \ logFiles' : logs'[n] = <<>>
    PROVE  LogsDistinct' /\ Logged' \subseteq Logged
<1>1. \A n \in File : Len(logs[n]) \in Nat /\ Len(logs'[n]) \in Nat
  BY DEF TypeInv, TypeOK, DiskType
<1>2. /\ manifest.floor \in Nat /\ manifest'.floor \in Nat /\ calls \in Nat /\ File \subseteq Nat
  <2>1. manifest.floor \in File /\ manifest'.floor \in File /\ calls \in Nat
    BY CallsAssumption DEF TypeInv, TypeOK, DiskType, HistoryType, Manifest
  <2> QED
    BY <2>1, FileNumbers
<1>3. \A n \in File : manifest'.floor <= n => manifest.floor <= n
  <2> SUFFICES ASSUME NEW n \in File, manifest'.floor <= n PROVE manifest.floor <= n
    OBVIOUS
  <2>1. n \in Nat
    BY <1>2
  <2>2. manifest.floor <= manifest'.floor /\ manifest'.floor <= n
    OBVIOUS
  <2> QED
    BY <1>2, <2>1, <2>2
<1>4. \A n \in File : \A i \in 1..Len(logs'[n]) : i \in 1..Len(logs[n])
  BY <1>1
<1>5. \A n \in File : Len(logs'[n]) <= calls'
  <2> SUFFICES ASSUME NEW n \in File PROVE Len(logs'[n]) <= calls'
    OBVIOUS
  <2>1. Len(logs[n]) <= calls
    BY DEF LogsDistinct
  <2> QED
    BY <1>1, <1>2, <2>1
<1>6. LogsDistinct'
  <2>1. ASSUME NEW n \in File, NEW m \in File, NEW i \in 1..Len(logs'[n]), NEW j \in 1..Len(logs'[m]),
               manifest'.floor <= n, manifest'.floor <= m, logs'[n][i].seq = logs'[m][j].seq
        PROVE  n = m /\ i = j
    <3>1. /\ i \in 1..Len(logs[n]) /\ j \in 1..Len(logs[m])
          /\ manifest.floor <= n /\ manifest.floor <= m /\ logs[n][i].seq = logs[m][j].seq
      BY <1>3, <1>4, <2>1
    <3> QED
      BY <3>1 DEF LogsDistinct
  <2> QED
    BY <1>5, <2>1 DEF LogsDistinct
<1>7. Logged' \subseteq Logged
  BY <1>3, <1>4 DEF Logged, Records
<1> QED
  BY <1>6, <1>7

\* Both installs, by what they leave on disk.
LEMMA InstallSteps ==
    ASSUME TypeInv, TypeInv', LogInv, ReadInv, LogContents, InstallFlush \/ InstallCompaction
    PROVE  /\ UNCHANGED <<status, logNumber, memtables, imm, logFiles, logs, ssts, calls, store>>
           /\ status = "up" /\ ImmTable' = ImmTable /\ AtRisk' = AtRisk
           /\ LogContents'
           /\ \/ OnDisk' = OnDisk
              \/ /\ OnDisk' = Records(logs[logNumber]) \cup SstEntries(ssts, current')
                 /\ manifest' = Published(current')
<1>1. /\ UNCHANGED <<status, logNumber, memtables, imm, logFiles, logs, ssts, calls, store>>
      /\ status = "up"
      /\ manifest' = manifest \/ manifest' = Published(current')
      /\ bg' \in {"unlink_log", "flushed"} => manifest' = Published(current')
  BY ManifestWritten DEF InstallFlush, InstallCompaction, MutexFree, GiveUp, WriteManifestOk
<1>2. ImmTable' = ImmTable /\ AtRisk' = AtRisk
  BY <1>1 DEF ImmTable, AtRisk
<1>3. LogsDistinct /\ LogsInMemory
  BY DEF LogContents
<1>4. manifest' = Published(current') =>
         manifest'.l0 = current'.l0 /\ manifest'.levels = current'.levels /\ manifest'.floor = logNumber
  BY DEF Published
<1>5. manifest.floor <= manifest'.floor
  <2>1. manifest.floor <= logNumber /\ manifest.floor \in Nat
    BY <1>1, NumberTypes, FileNumbers DEF LogInv
  <2> QED
    BY <1>1, <1>4, <2>1
<1>6. LogsDistinct' /\ Logged' \subseteq Logged
  <2>1. \A n \in File \ logFiles' : logs'[n] = <<>>
    BY <1>1, <1>3 DEF LogsDistinct
  <2>2. \A n \in File : Len(logs'[n]) <= Len(logs[n])
    <3>1. \A n \in File : Len(logs[n]) \in Nat
      BY DEF TypeInv, TypeOK, DiskType
    <3> QED
      BY <1>1, <3>1
  <2> QED
    BY <1>1, <1>3, <1>5, <2>1, <2>2, FewerLogs
<1>7. LogsInMemory'
  BY <1>1, <1>2, <1>3, <1>6 DEF LogsInMemory
<1>8. FlushPublished'
  BY <1>1 DEF FlushPublished, Published
<1>9. CASE manifest' = manifest
  <2>1. OnDisk' = OnDisk
    BY <1>1, <1>9 DEF OnDisk, Logged
  <2> QED
    BY <1>1, <1>2, <1>6, <1>7, <1>8, <2>1 DEF LogContents
<1>10. CASE manifest' = Published(current')
  <2>1. SstEntries(ssts, manifest') = SstEntries(ssts, current')
    BY <1>4, <1>10, SameShape
  <2>2. Logged' = Records(logs[logNumber])
    <3>1. \A n \in File : logNumber < n => Records(logs[n]) = {}
      BY <1>1 DEF ReadInv, CoreInv, DiskOrdered, Records
    <3>2. logNumber \in File /\ File \subseteq Nat
      BY NumberTypes, FileNumbers
    <3>3. \A n \in File : logNumber <= n => n = logNumber \/ logNumber < n
      BY <3>2
    <3>4. Logged' = UNION {Records(logs[n]) : n \in {m \in File : logNumber <= m}}
      BY <1>1, <1>4, <1>10 DEF Logged
    <3>5. logNumber <= logNumber
      BY <3>2
    <3> QED
      BY <3>1, <3>2, <3>3, <3>4, <3>5
  <2>3. OnDisk' = Records(logs[logNumber]) \cup SstEntries(ssts, current')
    BY <1>1, <2>1, <2>2 DEF OnDisk
  <2> QED
    BY <1>1, <1>2, <1>6, <1>7, <1>8, <1>10, <2>3 DEF LogContents
<1> QED
  BY <1>1, <1>9, <1>10

\* A key with nothing at risk is answered from what an install publishes.
LEMMA InstallBounded ==
    ASSUME TypeInv, TypeInv', LogInv, ReadInv, ReadInv', LogContents, LossBounded,
           InstallFlush \/ InstallCompaction
    PROVE  LossBounded'
<1>1. /\ UNCHANGED <<status, logNumber, memtables, imm, logFiles, logs, ssts, calls, store>>
      /\ status = "up" /\ ImmTable' = ImmTable /\ AtRisk' = AtRisk
      /\ \/ OnDisk' = OnDisk
         \/ OnDisk' = Records(logs[logNumber]) \cup SstEntries(ssts, current')
  BY InstallSteps
<1>2. CASE OnDisk' = OnDisk
  BY <1>1, <1>2 DEF LossBounded
<1>3. CASE OnDisk' = Records(logs[logNumber]) \cup SstEntries(ssts, current')
  <2> SUFFICES ASSUME NEW k \in Key, ~ \E e \in AtRisk : e.key = k
               PROVE  ValueIn(OnDisk', k, kMaxSeq) = store'[k]
    BY <1>1 DEF LossBounded
  <2>1. LiveEntries' = memtables[logNumber] \cup ImmTable \cup SstEntries(ssts, current')
    BY <1>1 DEF LiveEntries, ViewEntries
  <2>2. Records(logs[logNumber]) \subseteq memtables[logNumber]
    BY <1>1 DEF LogContents, LogsInMemory
  <2>3. Visible(OnDisk', k, kMaxSeq) = Visible(LiveEntries', k, kMaxSeq)
    BY <1>3, <2>1, <2>2 DEF Visible, AtRisk
  <2>4. ValueIn(LiveEntries', k, kMaxSeq) = store'[k]
    BY <1>1 DEF ReadInv, CoreInv, Answers
  <2> QED
    BY <2>3, <2>4, SameVisible
<1> QED
  BY <1>1, <1>2, <1>3

\* The end of a flush: what it published answers for all of it.
LEMMA EndFlushCrash ==
    ASSUME TypeInv, TypeInv', LogInv, ReadInv, ReadInv', LogContents, EndFlush
    PROVE  /\ LogContents' /\ OnDisk' = OnDisk /\ AtRisk' = {} /\ UNCHANGED <<store, status>>
           /\ \A k \in Key : ValueIn(OnDisk', k, kMaxSeq) = store'[k]
<1>1. /\ UNCHANGED <<status, logNumber, memtables, current, logFiles, logs, synced, ssts, manifest, calls, store>>
      /\ status = "up" /\ bg = "flushed" /\ bg' = "idle" /\ imm' = NoFile
  BY DEF EndFlush, disk, history
<1>2. imm # NoFile /\ ImmTable' = {}
  BY <1>1 DEF TypeInv, FlushPending, Flushing, ImmTable
<1>3. /\ LogsDistinct /\ logNumber \in logFiles /\ manifest = Published(current)
      /\ memtables[logNumber] = Records(logs[logNumber])
  BY <1>1, <1>2 DEF LogContents, LogsInMemory, FlushPublished
<1>4. manifest.l0 = current.l0 /\ manifest.levels = current.levels /\ manifest.floor = logNumber
  BY <1>3 DEF Published
<1>5. SstEntries(ssts, manifest) = SstEntries(ssts, current)
  BY <1>4, SameShape
<1>6. Logged = Records(logs[logNumber]) /\ Logged' = Logged
  <2>1. \A n \in File : logNumber < n => Records(logs[n]) = {}
    BY <1>1 DEF ReadInv, CoreInv, DiskOrdered, Records
  <2>2. logNumber \in File /\ File \subseteq Nat
    BY NumberTypes, FileNumbers
  <2>3. \A n \in File : logNumber <= n => n = logNumber \/ logNumber < n
    BY <2>2
  <2>4. Logged = UNION {Records(logs[n]) : n \in {m \in File : logNumber <= m}}
    BY <1>4 DEF Logged
  <2>5. logNumber <= logNumber
    BY <2>2
  <2>6. Logged = Records(logs[logNumber])
    BY <2>1, <2>2, <2>3, <2>4, <2>5
  <2>7. Logged' = Logged
    BY <1>1 DEF Logged
  <2> QED
    BY <2>6, <2>7
<1>7. OnDisk' = OnDisk /\ AtRisk' = {}
  BY <1>1, <1>2, <1>3, <1>6 DEF OnDisk, AtRisk
<1>8. LiveEntries' = OnDisk'
  BY <1>1, <1>2, <1>3, <1>5, <1>6 DEF LiveEntries, ViewEntries, OnDisk
<1>9. \A k \in Key : ValueIn(OnDisk', k, kMaxSeq) = store'[k]
  BY <1>1, <1>8 DEF ReadInv, CoreInv, Answers
<1>10. LogsDistinct'
  BY <1>1, <1>3 DEF LogsDistinct
<1>11. LogsInMemory' /\ FlushPublished'
  BY <1>1, <1>2, <1>3, <1>6 DEF LogsInMemory, FlushPublished
<1> QED
  BY <1>1, <1>7, <1>9, <1>10, <1>11 DEF LogContents

\* A write leaves what was at risk at risk, and puts no key beyond the log.
LEMMA WriteBounded ==
    ASSUME TypeInv, TypeInv', LogInv, ReadInv, LogContents, LossBounded, LogsWhole,
           "sync" \notin Faults,
           NEW type \in {kTypeDeletion, kTypeValue}, NEW k \in Key, Write(type, k)
    PROVE  LossBounded'
<1> DEFINE e == NewEntry(type, k)
<1>1. UNCHANGED status /\ status = "up" /\ imm = NoFile
  BY WriteParts
<1>2. PICK A \in {{}, {e}} :
        /\ Records(logs'[logNumber']) = Records(logs[logNumber']) \cup A
        /\ memtables'[logNumber'] = memtables[logNumber'] \cup A
        /\ \/ Stays /\ ImmTable' = {}
           \/ ImmTable' = memtables[logNumber]
        /\ A = {} \/ LiveEntries' = LiveEntries \cup A
  BY WriteOnDisk
<1>3. \A q \in Key :
         \/ store'[q] = ValueIn(OnDisk', q, kMaxSeq)
         \/ store'[q] = store[q] /\ ValueIn(OnDisk', q, kMaxSeq) = ValueIn(OnDisk, q, kMaxSeq)
  BY WriteAnswered
<1> HIDE DEF e
<1>4. AtRisk = memtables[logNumber] \ Records(logs[logNumber])
  BY <1>1 DEF AtRisk, ImmTable
<1>5. A = {e} => e \notin memtables[logNumber]
  <2>1. memtables[logNumber] \subseteq LiveEntries
    BY DEF LiveEntries, ViewEntries
  <2>2. \A x \in LiveEntries : x.seq < nextSeq
    BY <1>1 DEF ReadInv, CoreInv, Sequences
  <2>3. e.seq = nextSeq /\ nextSeq \in Nat
    BY WriteParts, NumberTypes DEF e
  <2> QED
    BY <2>1, <2>2, <2>3
<1>6. AtRisk \subseteq AtRisk'
  <2>1. CASE Stays /\ ImmTable' = {}
    <3>1. logNumber' = logNumber
      BY <2>1 DEF Stays
    <3> QED
      BY <1>2, <1>4, <1>5, <3>1 DEF AtRisk
  <2>2. CASE ImmTable' = memtables[logNumber]
    BY <1>4, <2>2 DEF AtRisk
  <2> QED
    BY <1>2, <2>1, <2>2
<1> SUFFICES ASSUME NEW q \in Key
             PROVE  ValueIn(OnDisk', q, kMaxSeq) = store'[q] \/ \E x \in AtRisk' : x.key = q
  BY DEF LossBounded
<1>7. ValueIn(OnDisk, q, kMaxSeq) = store[q] \/ \E x \in AtRisk : x.key = q
  BY <1>1 DEF LossBounded
<1> QED
  BY <1>3, <1>6, <1>7

\* The log a flush unlinks is below the floor.
LEMMA UnlinkLogCrash ==
    ASSUME TypeInv, TypeInv', LogInv, ReadInv, LogContents, UnlinkLog
    PROVE  LogContents' /\ OnDisk' = OnDisk /\ AtRisk' = AtRisk /\ UNCHANGED <<status, store>>
<1>1. /\ UNCHANGED <<status, logNumber, memtables, imm, current, ssts, manifest, calls, store>>
      /\ status = "up" /\ bg = "unlink_log" /\ bg' = "flushed"
      /\ logFiles' = logFiles \ {imm} /\ logs' = [logs EXCEPT ![imm] = <<>>]
  BY DEF UnlinkLog, memory, history
<1>2. /\ imm \in File /\ imm \in Nat /\ logNumber \in Nat /\ manifest.floor \in Nat
      /\ imm < logNumber /\ imm < manifest.floor /\ logNumber \in File
  <2>1. imm # NoFile
    BY <1>1 DEF TypeInv, FlushPending, Flushing
  <2> QED
    BY <1>1, <2>1, NumberTypes, FileNumbers DEF LogInv
<1>3. /\ logs \in [File -> Seq(Entry)] /\ logs'[imm] = <<>>
      /\ \A n \in File : n # imm => logs'[n] = logs[n]
  BY <1>1, <1>2 DEF TypeInv, TypeOK, DiskType
<1>4. LogsDistinct /\ LogsInMemory /\ FlushPublished
  BY DEF LogContents
<1>5. Logged' = Logged
  <2>1. \A n \in File : manifest.floor <= n => n # imm
    BY <1>2, FileNumbers
  <2> QED
    BY <1>1, <1>3, <2>1 DEF Logged
<1>6. OnDisk' = OnDisk /\ ImmTable' = ImmTable
  BY <1>1, <1>5 DEF OnDisk, ImmTable
<1>7. logs'[logNumber] = logs[logNumber] /\ logNumber \in logFiles'
  <2>1. logNumber # imm /\ logNumber \in logFiles
    BY <1>1, <1>2, <1>4 DEF LogsInMemory
  <2> QED
    BY <1>1, <1>2, <1>3, <2>1
<1>8. AtRisk' = AtRisk
  BY <1>1, <1>6, <1>7 DEF AtRisk
<1>9. LogsDistinct'
  <2>1. \A n \in File : /\ Len(logs'[n]) <= Len(logs[n])
                        /\ \A i \in 1..Len(logs'[n]) : logs'[n][i] = logs[n][i]
    <3> SUFFICES ASSUME NEW n \in File
                 PROVE  /\ Len(logs'[n]) <= Len(logs[n])
                        /\ \A i \in 1..Len(logs'[n]) : logs'[n][i] = logs[n][i]
      OBVIOUS
    <3>1. Len(logs[n]) \in Nat
      BY <1>3
    <3>2. n = imm => Len(logs'[n]) = 0
      BY <1>3
    <3> QED
      BY <1>3, <3>1, <3>2
  <2>2. \A n \in File \ logFiles' : logs'[n] = <<>>
    BY <1>1, <1>3, <1>4 DEF LogsDistinct
  <2>3. manifest.floor <= manifest'.floor
    BY <1>1, <1>2
  <2> QED
    BY <1>1, <1>4, <2>1, <2>2, <2>3, FewerLogs
<1>10. LogsInMemory'
  BY <1>1, <1>4, <1>5, <1>6, <1>7 DEF LogsInMemory
<1>11. FlushPublished'
  BY <1>1, <1>4 DEF FlushPublished, Published
<1> QED
  BY <1>1, <1>6, <1>8, <1>9, <1>10, <1>11 DEF LogContents

-----------------------------------------------------------------------------
(***************************************************************************)
(* Crashes and Open.                                                       *)
(***************************************************************************)

\* Every record of every log is fsynced.
AllSynced == \A n \in File : synced[n] = Len(logs[n])

\* A crash leaves a prefix of every log; a kill leaves all of it, and so does a
\* power cut when all of it is fsynced.
LEMMA CrashContents ==
    ASSUME TypeInv, TypeInv', LogInv, ReadInv, LogContents, NEW kind, Crash(kind)
    PROVE  /\ LogContents' /\ status' = "down"
           /\ kind # "power" \/ AllSynced => logs' = logs /\ OnDisk' = OnDisk
<1>1. /\ UNCHANGED <<logFiles, synced, ssts, manifest, calls, store>>
      /\ status' = "down" /\ bg' = "idle"
  BY DEF Crash
<1>2. PICK left \in [logFiles -> 0..MaxCalls] :
         /\ \A n \in logFiles : left[n] \in
              (IF kind = "power" THEN synced[n] ELSE Len(logs[n]))..Len(logs[n])
         /\ logs' = [n \in File |-> IF n \in logFiles
                                    THEN SubSeq(logs[n], 1, left[n]) ELSE <<>>]
  BY DEF Crash
<1>3. /\ logs \in [File -> Seq(Entry)] /\ synced \in [File -> Nat] /\ logFiles \subseteq File
      /\ LogsDistinct /\ logs' \in [File -> Seq(Entry)] /\ manifest.floor \in Nat
  BY NumberTypes, FileNumbers DEF TypeInv, TypeOK, DiskType, LogContents
<1>4. ASSUME NEW n \in logFiles
      PROVE  /\ left[n] \in Nat /\ Len(logs[n]) \in Nat /\ left[n] <= Len(logs[n])
             /\ kind # "power" \/ AllSynced => left[n] = Len(logs[n])
             /\ logs'[n] = SubSeq(logs[n], 1, left[n])
             /\ Len(logs'[n]) = left[n]
             /\ \A i \in 1..left[n] : logs'[n][i] = logs[n][i]
  <2>1. n \in File /\ logs[n] \in Seq(Entry) /\ Len(logs[n]) \in Nat /\ synced[n] \in Nat
    BY <1>3, <1>4
  <2>2. /\ left[n] \in Nat /\ left[n] <= Len(logs[n])
        /\ IF kind = "power" THEN synced[n] <= left[n] ELSE Len(logs[n]) <= left[n]
    BY <1>2, <2>1, CallsAssumption
  <2>3. kind # "power" \/ AllSynced => left[n] = Len(logs[n])
    BY <2>1, <2>2 DEF AllSynced
  <2>4. logs'[n] = SubSeq(logs[n], 1, left[n])
    BY <1>2, <2>1
  <2>5. /\ Len(SubSeq(logs[n], 1, left[n])) = left[n]
        /\ \A i \in 1..left[n] : SubSeq(logs[n], 1, left[n])[i] = logs[n][i]
    BY <2>1, <2>2
  <2> QED
    BY <2>1, <2>2, <2>3, <2>4, <2>5
<1>5. \A n \in File \ logFiles : logs'[n] = <<>> /\ logs[n] = <<>>
  BY <1>2, <1>3 DEF LogsDistinct
<1>6. LogsDistinct'
  <2>1. \A n \in File : /\ Len(logs'[n]) <= Len(logs[n])
                        /\ \A i \in 1..Len(logs'[n]) : logs'[n][i] = logs[n][i]
    <3> SUFFICES ASSUME NEW n \in File
                 PROVE  /\ Len(logs'[n]) <= Len(logs[n])
                        /\ \A i \in 1..Len(logs'[n]) : logs'[n][i] = logs[n][i]
      OBVIOUS
    <3>1. CASE n \in logFiles
      BY <1>4, <3>1
    <3>2. CASE n \notin logFiles
      <4>1. logs'[n] = logs[n] /\ Len(logs[n]) \in Nat
        BY <1>3, <1>5, <3>2
      <4> QED
        BY <4>1
    <3> QED
      BY <3>1, <3>2
  <2>2. manifest.floor <= manifest'.floor
    BY <1>1, <1>3
  <2>3. \A n \in File \ logFiles' : logs'[n] = <<>>
    BY <1>1, <1>5
  <2> QED
    BY <1>1, <1>3, <2>1, <2>2, <2>3, FewerLogs
<1>7. LogContents'
  BY <1>1, <1>6 DEF LogContents, LogsInMemory, FlushPublished
<1>8. ASSUME kind # "power" \/ AllSynced PROVE logs' = logs /\ OnDisk' = OnDisk
  <2>1. \A n \in logFiles : logs'[n] = logs[n]
    <3> SUFFICES ASSUME NEW n \in logFiles PROVE logs'[n] = logs[n]
      OBVIOUS
    <3>1. /\ Len(logs'[n]) = Len(logs[n]) /\ logs'[n] \in Seq(Entry) /\ logs[n] \in Seq(Entry)
          /\ \A i \in 1..Len(logs[n]) : logs'[n][i] = logs[n][i]
      BY <1>3, <1>4, <1>8
    <3> QED
      BY <3>1, SeqEqual
  <2>2. logs' = logs
    BY <1>3, <1>5, <2>1
  <2> QED
    BY <1>1, <2>2 DEF OnDisk, Logged
<1> QED
  BY <1>1, <1>7, <1>8

\* Open removes the logs it would not replay.
LEMMA OpenSweepContents ==
    ASSUME TypeInv, TypeInv', LogInv, ReadInv, LogContents, OpenSweep
    PROVE  /\ LogContents' /\ OnDisk' = OnDisk /\ UNCHANGED store
           /\ status' # "up" /\ (AllSynced => AllSynced')
<1>1. /\ UNCHANGED <<ssts, manifest, calls, store, bg>>
      /\ status = "down" /\ status' # "up" /\ bg = "idle"
  BY DEF OpenSweep, threads, history, TypeInv, FlushPending
<1>2. LogsDistinct
  BY DEF LogContents
<1>3. CASE UNCHANGED <<logFiles, logs, synced>>
  <2>1. OnDisk' = OnDisk
    BY <1>1, <1>3 DEF OnDisk, Logged
  <2>2. LogsDistinct' /\ (AllSynced => AllSynced')
    BY <1>1, <1>2, <1>3 DEF LogsDistinct, AllSynced
  <2> QED
    BY <1>1, <2>1, <2>2 DEF LogContents, LogsInMemory, FlushPublished
<1>4. CASE /\ logFiles' = ReplayLogs
           /\ logs' = [n \in File |-> IF n \in ReplayLogs THEN logs[n] ELSE <<>>]
           /\ synced' = [n \in File |-> IF n \in ReplayLogs THEN synced[n] ELSE 0]
  <2>1. \A n \in File : IF n \in ReplayLogs THEN logs'[n] = logs[n] ELSE logs'[n] = <<>>
    BY <1>4
  <2>2. /\ logs \in [File -> Seq(Entry)] /\ manifest.floor \in Nat /\ File \subseteq Nat
        /\ \A n \in File : n \in ReplayLogs <=> (n \in logFiles /\ manifest.floor <= n)
    <3>1. logs \in [File -> Seq(Entry)] /\ manifest.floor \in Nat /\ File \subseteq Nat
      BY NumberTypes, FileNumbers DEF TypeInv, TypeOK, DiskType
    <3> QED
      BY <3>1 DEF ReplayLogs
  <2>3. \A n \in File : manifest.floor <= n => logs'[n] = logs[n]
    <3> SUFFICES ASSUME NEW n \in File, manifest.floor <= n PROVE logs'[n] = logs[n]
      OBVIOUS
    <3>1. n \notin logFiles => logs[n] = <<>>
      BY <1>2 DEF LogsDistinct
    <3> QED
      BY <2>1, <2>2, <3>1
  <2>4. OnDisk' = OnDisk
    BY <1>1, <2>3 DEF OnDisk, Logged
  <2>5. LogsDistinct'
    <3>1. \A n \in File : /\ Len(logs'[n]) <= Len(logs[n])
                          /\ \A i \in 1..Len(logs'[n]) : logs'[n][i] = logs[n][i]
      <4> SUFFICES ASSUME NEW n \in File
                   PROVE  /\ Len(logs'[n]) <= Len(logs[n])
                          /\ \A i \in 1..Len(logs'[n]) : logs'[n][i] = logs[n][i]
        OBVIOUS
      <4>1. Len(logs[n]) \in Nat /\ Len(<<>>) = 0
        BY <2>2
      <4> QED
        BY <2>1, <4>1
    <3>2. \A n \in File \ logFiles' : logs'[n] = <<>>
      BY <1>4, <2>1
    <3>3. manifest.floor <= manifest'.floor
      BY <1>1, <2>2
    <3> QED
      BY <1>1, <1>2, <3>1, <3>2, <3>3, FewerLogs
  <2>6. AllSynced => AllSynced'
    <3> SUFFICES ASSUME AllSynced, NEW n \in File PROVE synced'[n] = Len(logs'[n])
      BY DEF AllSynced
    <3>1. Len(<<>>) = 0 /\ synced[n] = Len(logs[n])
      BY DEF AllSynced
    <3> QED
      BY <1>4, <2>1, <3>1
  <2> QED
    BY <1>1, <2>4, <2>5, <2>6 DEF LogContents, LogsInMemory, FlushPublished
<1> QED
  BY <1>3, <1>4 DEF OpenSweep

\* The rest of Open: the memtable is what is in the logs, and the map is what
\* the directory answers.
LEMMA OpenReplayContents ==
    ASSUME TypeInv, TypeInv', LogInv, ReadInv, LogContents, OpenReplay
    PROVE  /\ LogContents' /\ OnDisk' = OnDisk /\ UNCHANGED <<logs, synced>>
           /\ \A k \in Key : store'[k] = ValueIn(OnDisk, k, kMaxSeq)
<1>1. /\ UNCHANGED <<imm, logs, synced, ssts, manifest, bg, calls>>
      /\ status = "swept" /\ status' = "up" /\ imm = NoFile /\ bg = "idle"
  BY DEF OpenReplay, threads, TypeInv, FlushPending
<1>2. PICK live \in ReplayLogs \cup {manifest.floor} :
         /\ IsLargest(live, ReplayLogs \cup {manifest.floor})
         /\ logNumber' = live /\ logFiles' = logFiles \cup {live}
         /\ memtables' = [memtables EXCEPT ![live] = Replayed]
  BY DEF OpenReplay
<1>3. LogsDistinct
  BY DEF LogContents
<1>4. /\ live \in File /\ live \in Nat /\ manifest.floor \in Nat /\ manifest.floor <= live
      /\ memtables \in [File -> SUBSET Entry]
  <2>1. /\ ReplayLogs \subseteq File /\ manifest.floor \in File /\ File \subseteq Nat
        /\ memtables \in [File -> SUBSET Entry]
    BY NumberTypes, FileNumbers DEF ReplayLogs, TypeInv, TypeOK, DiskType, MemoryType
  <2> QED
    BY <1>2, <2>1 DEF IsLargest
<1>5. Logged' = Logged /\ OnDisk' = OnDisk
  BY <1>1 DEF OnDisk, Logged
<1>6. memtables'[logNumber'] = Logged
  BY <1>2, <1>3, <1>4, ReplayedIsLogged
<1>7. Records(logs[live]) \subseteq Logged
  BY <1>4 DEF Logged
<1>8. LogsInMemory'
  BY <1>1, <1>2, <1>5, <1>6, <1>7 DEF LogsInMemory
<1>9. LogsDistinct'
  BY <1>1, <1>2, <1>3 DEF LogsDistinct
<1>10. FlushPublished'
  BY <1>1 DEF FlushPublished
<1>11. ASSUME NEW k \in Key PROVE store'[k] = ValueIn(OnDisk, k, kMaxSeq)
  <2>1. store'[k] = Reopened(k)
    BY DEF OpenReplay, Recovered
  <2> QED
    BY <1>3, <2>1, RecoveredIs
<1> QED
  BY <1>1, <1>5, <1>8, <1>9, <1>10, <1>11 DEF LogContents

-----------------------------------------------------------------------------
(***************************************************************************)
(* The invariant, and what may be lost.                                    *)
(***************************************************************************)

LEMMA CrashInvInit ==
    ASSUME Init
    PROVE  /\ LogContents /\ OnDisk = {} /\ AtRisk = {} /\ AllSynced
           /\ \A k \in Key : ValueIn(OnDisk, k, kMaxSeq) = store[k]
<1>1. /\ logs = [n \in File |-> <<>>] /\ synced = [n \in File |-> 0] /\ logFiles = {1}
      /\ memtables = [n \in File |-> {}] /\ imm = NoFile /\ bg = "idle" /\ logNumber = 1
      /\ ssts = [n \in File |-> {}] /\ calls = 0 /\ 1 \in File
      /\ Files(manifest) \subseteq File
  <2>1. TypeInv
    BY InitTypeInv
  <2> QED
    BY <2>1, FileNumbers, VersionTypes DEF Init, InUse
<1>2. \A n \in File : logs[n] = <<>> /\ Len(logs[n]) = 0 /\ Records(logs[n]) = {}
  <2>1. Len(<<>>) = 0 /\ Records(<<>>) = {}
    BY DEF Records
  <2> QED
    BY <1>1, <2>1
<1>3. Logged = {} /\ ImmTable = {}
  BY <1>1, <1>2 DEF Logged, ImmTable
<1>4. OnDisk = {} /\ AtRisk = {}
  BY <1>1, <1>2, <1>3 DEF OnDisk, AtRisk, SstEntries
<1>5. LogsDistinct /\ LogsInMemory /\ FlushPublished /\ AllSynced
  BY <1>1, <1>2, <1>3 DEF LogsDistinct, LogsInMemory, FlushPublished, AllSynced
<1>6. ASSUME NEW k \in Key PROVE ValueIn({}, k, kMaxSeq) = store[k]
  BY DEF Init, ValueIn, Visible
<1> QED
  BY <1>4, <1>5, <1>6 DEF LogContents

\* One step.
LEMMA CrashInvStep ==
    ASSUME "sync" \notin Faults, LogsWhole, TypeInv, TypeInv', LogInv, ReadInv, ReadInv', LogContents,
           LossBounded, [Next]_vars
    PROVE  LogContents' /\ LossBounded'
<1>1. CASE \E k \in Key : Write(kTypeValue, k) \/ Write(kTypeDeletion, k)
  BY <1>1, WriteContents, WriteBounded
<1>2. CASE \/ UNCHANGED vars
           \/ \E r \in Reader : BeginRead(r) \/ EndRead(r)
           \/ \E s \in Snap : GetSnapshot(s) \/ ReleaseSnapshot(s)
           \/ StartFlush \/ RetryFlush \/ WriteFlushSst \/ PickCompaction \/ TakeFloor
           \/ SealOutput \/ UnlinkInputs
  <2>1. Still
    BY <1>2, StillSteps
  <2> QED
    BY <2>1, StillFrame
<1>3. CASE InstallFlush \/ InstallCompaction
  <2>1. LogContents'
    BY <1>3, InstallSteps
  <2>2. LossBounded'
    BY <1>3, InstallBounded
  <2> QED
    BY <2>1, <2>2
<1>4. CASE UnlinkLog
  <2>1. LogContents' /\ OnDisk' = OnDisk /\ AtRisk' = AtRisk /\ UNCHANGED <<status, store>>
    BY <1>4, UnlinkLogCrash
  <2> QED
    BY <2>1 DEF LossBounded
<1>5. CASE EndFlush
  <2>1. LogContents' /\ \A k \in Key : ValueIn(OnDisk', k, kMaxSeq) = store'[k]
    BY <1>5, EndFlushCrash
  <2> QED
    BY <2>1 DEF LossBounded
<1>6. CASE \E kind \in Crashes : Crash(kind)
  <2>1. LogContents' /\ status' = "down"
    BY <1>6, CrashContents
  <2> QED
    BY <2>1 DEF LossBounded
<1>7. CASE OpenSweep
  <2>1. LogContents' /\ status' # "up"
    BY <1>7, OpenSweepContents
  <2> QED
    BY <2>1 DEF LossBounded
<1>8. CASE OpenReplay
  <2>1. LogContents' /\ OnDisk' = OnDisk /\ \A k \in Key : store'[k] = ValueIn(OnDisk, k, kMaxSeq)
    BY <1>8, OpenReplayContents
  <2> QED
    BY <2>1 DEF LossBounded
<1> QED
  BY <1>1, <1>2, <1>3, <1>4, <1>5, <1>6, <1>7, <1>8 DEF Next, Background

\* What RotateForFlush, the installs and WriteManifest let a kill take is
\* confined to the immutable memtable and to what a recovery brought over from
\* older logs: Open accepts the MANIFEST and answers every other key with its
\* last acknowledged write.  WriteManifest and fsync do not fail, and AddRecord
\* leaves no part of a record (AlwaysOpens, LossWindow and KillLosesNothing fail
\* otherwise); SST builds, rotations and appends that write nothing may fail.
THEOREM LossWindowHolds ==
    ASSUME SureManifest, "sync" \notin Faults, "partial" \notin Faults
    PROVE  Spec => []LossWindow
<1>1. Init => LogContents /\ LossBounded /\ LogsWhole
  BY CrashInvInit DEF LossBounded, LogsWhole, Init
<1>2. (TypeInv /\ LogInv /\ ReadInv) /\ (TypeInv /\ LogInv /\ ReadInv)'
        /\ LogContents /\ LossBounded /\ LogsWhole /\ [Next]_vars
          => LogContents' /\ LossBounded' /\ LogsWhole'
  BY CrashInvStep, LogsWholeStep
<1>3. TypeInv /\ LogInv /\ ReadInv /\ LogContents /\ LossBounded /\ AlwaysOpens => LossWindow
  <2> SUFFICES ASSUME TypeInv, ReadInv, LogContents, LossBounded, AlwaysOpens, status = "up",
                      NEW k \in Key
               PROVE  /\ Recovered(k) # Refused
                      /\ Recovered(k) \notin {store[k]} \cup maybe[k]
                            => \E e \in AtRisk : e.key = k
    BY DEF LossWindow, AtRisk, Records
  <2>1. Recovered(k) = ValueIn(OnDisk, k, kMaxSeq)
    BY RecoveredIs DEF LogContents, Recovered, AlwaysOpens
  <2>2. Recovered(k) # Refused
    BY <2>1, OnDiskValue, RecoveredIs DEF LogContents
  <2> QED
    BY <2>1, <2>2 DEF LossBounded
<1>4. Spec => []AlwaysOpens
  BY AlwaysOpensHolds
<1> QED
  BY <1>1, <1>2, <1>3, <1>4, ReadInvariant, PTL DEF Spec

-----------------------------------------------------------------------------
(***************************************************************************)
(* Nothing is lost while no compaction publishes the floor past an entry   *)
(* that is only in memory.                                                 *)
(***************************************************************************)

\* What the directory answers is what was acknowledged.
DiskAnswers == \A k \in Key : ValueIn(OnDisk, k, kMaxSeq) = store[k]

\* A flush publishes its SST with the floor: all of the live view is on disk.
LEMMA InstallAnswered ==
    ASSUME TypeInv, TypeInv', LogInv, ReadInv, ReadInv', LogContents,
           InstallFlush \/ (InstallCompaction /\ AtRisk = {})
    PROVE  UNCHANGED status /\ (DiskAnswers => DiskAnswers')
<1>1. /\ UNCHANGED <<status, logNumber, memtables, imm, ssts, store>>
      /\ status = "up" /\ ImmTable' = ImmTable
      /\ \/ OnDisk' = OnDisk
         \/ OnDisk' = Records(logs[logNumber]) \cup SstEntries(ssts, current')
  BY InstallSteps
<1>2. LogsInMemory
  BY DEF LogContents
<1>3. CASE OnDisk' = OnDisk
  BY <1>1, <1>3 DEF DiskAnswers
<1>4. CASE OnDisk' = Records(logs[logNumber]) \cup SstEntries(ssts, current')
  <2>1. LiveEntries' = memtables[logNumber] \cup ImmTable \cup SstEntries(ssts, current')
    BY <1>1 DEF LiveEntries, ViewEntries
  <2>2. /\ memtables[logNumber] = Records(logs[logNumber])
        /\ ImmTable \subseteq SstEntries(ssts, current')
    <3>1. CASE InstallCompaction /\ AtRisk = {}
      BY <1>1, <1>2, <3>1 DEF AtRisk, LogsInMemory
    <3>2. CASE InstallFlush
      <4>1. imm # NoFile /\ bg = "install_flush" /\ current' = [current EXCEPT !.l0 = <<immSst>> \o @]
        BY <3>2 DEF InstallFlush, TypeInv, FlushPending, Flushing
      <4>2. ssts[immSst] = memtables[imm]
        BY <4>1 DEF ReadInv, WorkInv, FlushState
      <4>3. immSst \in FilesOf(current'.l0)
        <5>1. current \in Version /\ current.l0 \in Seq(File) /\ immSst \in File
          BY <4>1, NumberTypes DEF TypeInv, TypeOK, MemoryType, Version
        <5>2. current'.l0 = <<immSst>> \o current.l0
          BY <4>1, <5>1 DEF Version
        <5>3. /\ Len(<<immSst>> \o current.l0) = 1 + Len(current.l0) /\ Len(current.l0) \in Nat
              /\ (<<immSst>> \o current.l0)[1] = immSst
          BY <5>1
        <5>4. 1 \in 1..Len(current'.l0) /\ current'.l0[1] = immSst
          BY <5>2, <5>3
        <5> QED
          BY <5>4 DEF FilesOf
      <4>4. immSst \in Files(current')
        BY <4>3 DEF Files
      <4>5. ImmTable \subseteq SstEntries(ssts, current')
        BY <4>1, <4>2, <4>4, SstMembers DEF ImmTable
      <4> QED
        BY <1>1, <1>2, <4>1, <4>5 DEF LogsInMemory
    <3> QED
      BY <3>1, <3>2
  <2>3. LiveEntries' = OnDisk'
    BY <1>4, <2>1, <2>2
  <2>4. DiskAnswers'
    BY <1>1, <2>3 DEF DiskAnswers, ReadInv, CoreInv, Answers
  <2> QED
    BY <1>1, <2>4
<1> QED
  BY <1>1, <1>3, <1>4

\* Every step but a crash keeps the directory's answers, or makes them anew.
LEMMA AnswersStep ==
    ASSUME "sync" \notin Faults, LogsWhole, TypeInv, TypeInv', LogInv, ReadInv, ReadInv', LogContents,
           [Next]_vars, InstallCompaction => AtRisk = {}
    PROVE  \/ UNCHANGED status /\ (DiskAnswers => DiskAnswers')
           \/ DiskAnswers'
           \/ status' # "up" /\ (DiskAnswers => DiskAnswers')
           \/ \E kind \in Crashes : Crash(kind)
<1>1. ASSUME NEW type \in {kTypeDeletion, kTypeValue}, NEW k \in Key, Write(type, k)
      PROVE  UNCHANGED status /\ (DiskAnswers => DiskAnswers')
  <2>1. UNCHANGED status
    BY <1>1, WriteParts
  <2>2. \A q \in Key :
           \/ store'[q] = ValueIn(OnDisk', q, kMaxSeq)
           \/ store'[q] = store[q] /\ ValueIn(OnDisk', q, kMaxSeq) = ValueIn(OnDisk, q, kMaxSeq)
    BY <1>1, WriteAnswered
  <2> QED
    BY <2>1, <2>2 DEF DiskAnswers
<1>2. CASE \/ UNCHANGED vars
           \/ \E r \in Reader : BeginRead(r) \/ EndRead(r)
           \/ \E s \in Snap : GetSnapshot(s) \/ ReleaseSnapshot(s)
           \/ StartFlush \/ RetryFlush \/ WriteFlushSst \/ PickCompaction \/ TakeFloor
           \/ SealOutput \/ UnlinkInputs
  <2>1. Still
    BY <1>2, StillSteps
  <2>2. OnDisk' = OnDisk /\ UNCHANGED <<status, store>>
    BY <2>1, StillFrame DEF Still
  <2> QED
    BY <2>2 DEF DiskAnswers
<1>3. CASE InstallFlush \/ InstallCompaction
  BY <1>3, InstallAnswered
<1>4. CASE UnlinkLog
  <2>1. OnDisk' = OnDisk /\ UNCHANGED <<status, store>>
    BY <1>4, UnlinkLogCrash
  <2> QED
    BY <2>1 DEF DiskAnswers
<1>5. CASE EndFlush
  BY <1>5, EndFlushCrash DEF DiskAnswers
<1>6. CASE OpenSweep
  <2>1. OnDisk' = OnDisk /\ UNCHANGED store /\ status' # "up"
    BY <1>6, OpenSweepContents
  <2> QED
    BY <2>1 DEF DiskAnswers
<1>7. CASE OpenReplay
  <2>1. OnDisk' = OnDisk /\ \A k \in Key : store'[k] = ValueIn(OnDisk, k, kMaxSeq)
    BY <1>7, OpenReplayContents
  <2> QED
    BY <2>1 DEF DiskAnswers
<1>8. CASE \E kind \in Crashes : Crash(kind)
  BY <1>8
<1>9. CASE \E k \in Key : Write(kTypeValue, k) \/ Write(kTypeDeletion, k)
  BY <1>1, <1>9
<1> QED
  BY <1>2, <1>3, <1>4, <1>5, <1>6, <1>7, <1>8, <1>9 DEF Next, Background

\* The crash invariant of every behaviour.
LEMMA CrashInvariant ==
    ASSUME "sync" \notin Faults, "partial" \notin Faults
    PROVE  Spec => [](TypeInv /\ LogInv /\ ReadInv /\ LogContents /\ LogsWhole)
<1>1. Init => LogContents /\ LossBounded /\ LogsWhole
  BY CrashInvInit DEF LossBounded, LogsWhole, Init
<1>2. (TypeInv /\ LogInv /\ ReadInv) /\ (TypeInv /\ LogInv /\ ReadInv)'
        /\ LogContents /\ LossBounded /\ LogsWhole /\ [Next]_vars
          => LogContents' /\ LossBounded' /\ LogsWhole'
  BY CrashInvStep, LogsWholeStep
<1> QED
  BY <1>1, <1>2, ReadInvariant, PTL DEF Spec

\* "kill -9 loses nothing": WriteEntry, the flushes and Open keep every
\* acknowledged write in the logs at or above the floor or in an SST of the
\* MANIFEST that Open accepts, as long as no compaction publishes the live log
\* as the floor while an entry is in neither, and with the failures of
\* LossWindowHolds.
THEOREM KillLosesNothingHolds ==
    ASSUME SureManifest, "sync" \notin Faults, "partial" \notin Faults
    PROVE  Spec /\ [][InstallCompaction => AtRisk = {}]_vars => []KillLosesNothing
<1> DEFINE Up == status = "up" => DiskAnswers
<1>1. Init => Up
  BY CrashInvInit DEF DiskAnswers
<1>2. (TypeInv /\ LogInv /\ ReadInv /\ LogContents /\ LogsWhole)
        /\ (TypeInv /\ LogInv /\ ReadInv /\ LogContents /\ LogsWhole)'
        /\ Up /\ [Next]_vars /\ [InstallCompaction => AtRisk = {}]_vars => Up'
  <2> SUFFICES ASSUME TypeInv, LogInv, ReadInv, LogContents, LogsWhole, TypeInv', ReadInv', Up,
                      [Next]_vars, [InstallCompaction => AtRisk = {}]_vars
               PROVE  Up'
    OBVIOUS
  <2>1. CASE UNCHANGED vars
    <3>1. Still
      BY <2>1, StillSteps
    <3>2. OnDisk' = OnDisk /\ UNCHANGED <<status, store>>
      BY <3>1, StillFrame DEF Still
    <3> QED
      BY <3>2 DEF DiskAnswers
  <2>2. CASE InstallCompaction => AtRisk = {}
    <3>1. \/ UNCHANGED status /\ (DiskAnswers => DiskAnswers')
          \/ DiskAnswers'
          \/ status' # "up" /\ (DiskAnswers => DiskAnswers')
          \/ \E kind \in Crashes : Crash(kind)
      BY <2>2, AnswersStep
    <3>2. (\E kind \in Crashes : Crash(kind)) => status' # "up"
      BY DEF Crash
    <3> QED
      BY <3>1, <3>2
  <2> QED
    BY <2>1, <2>2
<1>3. (TypeInv /\ LogInv /\ ReadInv /\ LogContents) /\ Up /\ AlwaysOpens => KillLosesNothing
  <2> SUFFICES ASSUME TypeInv, ReadInv, LogContents, Up, AlwaysOpens, status = "up", NEW k \in Key
               PROVE  Recovered(k) \in {store[k]} \cup maybe[k]
    BY DEF KillLosesNothing
  <2>1. Recovered(k) = ValueIn(OnDisk, k, kMaxSeq)
    BY RecoveredIs DEF LogContents, Recovered, AlwaysOpens
  <2> QED
    BY <2>1 DEF DiskAnswers
<1>4. Spec => []AlwaysOpens
  BY AlwaysOpensHolds
<1> HIDE DEF Up
<1> QED
  BY <1>1, <1>2, <1>3, <1>4, CrashInvariant, PTL DEF Spec

-----------------------------------------------------------------------------
(***************************************************************************)
(* The refinement of Mvcc.  A crash and the Open after it are a Restart    *)
(* each, and neither changes the map: a kill leaves every record, and a    *)
(* power cut does when every write is fsynced.                             *)
(***************************************************************************)

\* A free snapshot handle has no map.
FreeSnapshots == \A s \in Snap : snaps[s] = kMaxSeq => views[s] = NoView

\* With sync_mode "always" every record is fsynced.
SyncedWhenAlways == sync_mode = "always" => AllSynced

RestartInv == FreeSnapshots /\ SyncedWhenAlways /\ DiskAnswers

LEMMA FreeSnapshotsStep == TypeInv /\ ReadInv /\ FreeSnapshots /\ [Next]_vars => FreeSnapshots'
<1> SUFFICES ASSUME TypeInv, ReadInv, FreeSnapshots, [Next]_vars PROVE FreeSnapshots'
  OBVIOUS
<1>1. snaps \in [Snap -> Nat] /\ views \in [Snap -> {NoView} \cup [Key -> Value]]
  BY DEF TypeInv, TypeOK, MemoryType, HistoryType
<1>2. CASE UNCHANGED <<snaps, views>>
  BY <1>2 DEF FreeSnapshots
<1>3. ASSUME NEW s \in Snap, GetSnapshot(s) PROVE FreeSnapshots'
  <2>1. snaps' = [snaps EXCEPT ![s] = nextSeq - 1] /\ views' = [views EXCEPT ![s] = store] /\ status = "up"
    BY <1>3 DEF GetSnapshot, MutexFree
  <2>2. nextSeq - 1 < kMaxSeq
    <3>1. nextSeq \in Nat /\ calls \in 0..MaxCalls /\ nextSeq <= calls + 1
      BY NumberTypes DEF ReadInv, CoreInv, Sequences, TypeInv, TypeOK, HistoryType
    <3> QED
      BY <3>1, CallsAssumption
  <2>3. nextSeq - 1 # kMaxSeq
    BY <2>2, NumberTypes
  <2> QED
    BY <1>1, <2>1, <2>3 DEF FreeSnapshots
<1>4. ASSUME NEW s \in Snap, ReleaseSnapshot(s) PROVE FreeSnapshots'
  <2>1. snaps' = [snaps EXCEPT ![s] = kMaxSeq] /\ views' = [views EXCEPT ![s] = NoView]
    BY <1>4 DEF ReleaseSnapshot
  <2> QED
    BY <1>1, <2>1 DEF FreeSnapshots
<1>5. CASE \E kind \in Crashes : Crash(kind)
  BY <1>5 DEF Crash, FreeSnapshots
<1>6. CASE \/ UNCHANGED vars
           \/ \E k \in Key : Write(kTypeValue, k) \/ Write(kTypeDeletion, k)
           \/ \E r \in Reader : BeginRead(r) \/ EndRead(r)
  <2>1. UNCHANGED <<snaps, views>>
    BY <1>6 DEF Write, BeginRead, EndRead, vars, memory, history
  <2> QED
    BY <1>2, <2>1
<1>7. CASE Background
  <2>1. UNCHANGED <<snaps, views>>
    BY <1>7 DEF Background, StartFlush, WriteFlushSst, InstallFlush, UnlinkLog, EndFlush,
       RetryFlush, PickCompaction, TakeFloor, SealOutput, InstallCompaction, UnlinkInputs,
       memory, history
  <2> QED
    BY <1>2, <2>1
<1>8. CASE OpenSweep \/ OpenReplay
  <2>1. UNCHANGED <<snaps, views>>
    BY <1>8 DEF OpenSweep, OpenReplay, history
  <2> QED
    BY <1>2, <2>1
<1> QED
  BY <1>3, <1>4, <1>5, <1>6, <1>7, <1>8 DEF Next

\* fsync comes before the acknowledgement, and no step adds a record after it.
LEMMA SyncedStep ==
    ASSUME "sync" \notin Faults, LogsWhole, TypeInv, TypeInv', LogInv, ReadInv, LogContents,
           SyncedWhenAlways, [Next]_vars
    PROVE  SyncedWhenAlways'
<1> SUFFICES ASSUME sync_mode = "always" PROVE AllSynced'
  BY DEF SyncedWhenAlways
<1>1. AllSynced
  BY DEF SyncedWhenAlways
<1>2. CASE UNCHANGED <<logs, synced>>
  BY <1>1, <1>2 DEF AllSynced
<1>3. synced \in [File -> Nat]
  BY DEF TypeInv, TypeOK, DiskType
<1>4. ASSUME NEW type \in {kTypeDeletion, kTypeValue}, NEW k \in Key, Write(type, k)
      PROVE  AllSynced'
  <2> DEFINE e == NewEntry(type, k)
  <2>1. PICK A \in {{}, {e}} :
          /\ A = {} => UNCHANGED <<logs, synced, memtables, store>>
          /\ A # {} => synced' = [synced EXCEPT ![logNumber'] = Len(logs'[logNumber'])]
          /\ \A n \in File : n # logNumber' => logs'[n] = logs[n]
    BY <1>4, WriteOnDisk
  <2> HIDE DEF e
  <2>2. CASE A = {}
    BY <1>2, <2>1, <2>2
  <2>3. CASE A # {}
    BY <1>1, <1>3, <2>1, <2>3 DEF AllSynced
  <2> QED
    BY <2>2, <2>3
<1>5. CASE UnlinkLog
  <2>1. logs' = [logs EXCEPT ![imm] = <<>>] /\ synced' = [synced EXCEPT ![imm] = 0] /\ Len(<<>>) = 0
    BY <1>5 DEF UnlinkLog
  <2>2. logs \in [File -> Seq(Entry)]
    BY DEF TypeInv, TypeOK, DiskType
  <2>3. ASSUME NEW n \in File PROVE synced'[n] = Len(logs'[n])
    BY <1>1, <1>3, <2>1, <2>2 DEF AllSynced
  <2> QED
    BY <2>3 DEF AllSynced
<1>6. CASE \E kind \in Crashes : Crash(kind)
  <2>1. logs' = logs
    BY <1>1, <1>6, CrashContents
  <2>2. synced' = synced
    BY <1>6 DEF Crash
  <2> QED
    BY <1>2, <2>1, <2>2
<1>7. CASE OpenSweep
  BY <1>1, <1>7, OpenSweepContents
<1>8. CASE OpenReplay
  BY <1>2, <1>8, OpenReplayContents
<1>9. CASE \/ UNCHANGED vars
           \/ \E r \in Reader : BeginRead(r) \/ EndRead(r)
           \/ \E s \in Snap : GetSnapshot(s) \/ ReleaseSnapshot(s)
  <2>1. UNCHANGED <<logs, synced>>
    BY <1>9 DEF BeginRead, EndRead, GetSnapshot, ReleaseSnapshot, vars, disk
  <2> QED
    BY <1>2, <2>1
<1>10. CASE \/ StartFlush \/ WriteFlushSst \/ InstallFlush \/ EndFlush \/ RetryFlush
            \/ PickCompaction \/ TakeFloor \/ SealOutput \/ InstallCompaction \/ UnlinkInputs
  <2>1. UNCHANGED <<logs, synced>>
    BY <1>10 DEF StartFlush, WriteFlushSst, InstallFlush, EndFlush, RetryFlush, PickCompaction,
       TakeFloor, SealOutput, InstallCompaction, UnlinkInputs, disk
  <2> QED
    BY <1>2, <2>1
<1>11. CASE \E k \in Key : Write(kTypeValue, k) \/ Write(kTypeDeletion, k)
  BY <1>4, <1>11
<1> QED
  BY <1>5, <1>6, <1>7, <1>8, <1>9, <1>10, <1>11 DEF Next, Background

\* A Put or Delete is acknowledged or fails.
LEMMA WriteIsAbstract ==
    ASSUME TypeInv, ReadInv, NEW type \in {kTypeDeletion, kTypeValue}, NEW k \in Key, Write(type, k)
    PROVE  \E v \in Value : Abstract!Write(k, v) \/ Abstract!FailedWrite(k, v)
<1> DEFINE v == IF type = kTypeValue THEN calls + 1 ELSE NotFound
<1>1. v \in Value
  <2>1. calls < MaxCalls /\ calls \in 0..MaxCalls
    BY DEF Write, TypeInv, TypeOK, HistoryType
  <2> QED
    BY <2>1, CallsAssumption DEF Value, NotFound
<1>2. UNCHANGED views
  BY DEF Write
<1>3. \/ maybe' = [maybe EXCEPT ![k] = @ \cup {v}] /\ UNCHANGED store
      \/ maybe' = [maybe EXCEPT ![k] = {}] /\ store' = [store EXCEPT ![k] = v]
  BY DEF Write, WriteEntry
<1> HIDE DEF v
<1>4. Abstract!Write(k, v) \/ Abstract!FailedWrite(k, v)
  BY <1>2, <1>3 DEF Abstract!Write, Abstract!FailedWrite
<1> QED
  BY <1>1, <1>4

\* A crash and the end of Open are restarts that keep the map.
LEMMA RestartIsAbstract ==
    ASSUME TypeInv, TypeInv', LogInv, ReadInv, LogContents, RestartInv,
           (\E kind \in Crashes : Crash(kind)) \/ OpenReplay
    PROVE  Abstract!Restart
<1>1. CASE \E kind \in Crashes : Crash(kind)
  <2>1. /\ UNCHANGED store /\ maybe' = Unresolved /\ views' = [s \in Snap |-> NoView]
        /\ DOMAIN store = Key
    BY <1>1 DEF Crash, TypeInv, TypeOK, HistoryType
  <2> QED
    BY <2>1 DEF Abstract!Restart, Unresolved, NoView, Abstract!NoView
<1>2. CASE OpenReplay
  <2>1. /\ UNCHANGED views /\ maybe' = Unresolved /\ status = "swept"
        /\ DOMAIN store' = Key
    BY <1>2 DEF OpenReplay
  <2>2. \A k \in Key : store'[k] = store[k]
    <3>1. \A k \in Key : store'[k] = ValueIn(OnDisk, k, kMaxSeq)
      BY <1>2, OpenReplayContents
    <3> QED
      BY <3>1 DEF RestartInv, DiskAnswers
  <2>3. views' = [s \in Snap |-> NoView]
    <3>1. \A s \in Snap : views[s] = NoView
      BY <2>1 DEF RestartInv, FreeSnapshots, ReadInv, CoreInv, Numbers
    <3>2. views \in [Snap -> {NoView} \cup [Key -> Value]]
      BY DEF TypeInv, TypeOK, HistoryType
    <3> QED
      BY <2>1, <3>1, <3>2
  <2> QED
    BY <2>1, <2>2, <2>3 DEF Abstract!Restart, Unresolved, NoView, Abstract!NoView
<1> QED
  BY <1>1, <1>2

\* Snapshots are snapshots.
LEMMA SnapshotIsAbstract ==
    ASSUME TypeInv, RestartInv, NEW s \in Snap, GetSnapshot(s) \/ ReleaseSnapshot(s)
    PROVE  Abstract!GetSnapshot(s) \/ Abstract!ReleaseSnapshot(s)
<1>1. CASE GetSnapshot(s)
  BY <1>1 DEF GetSnapshot, Abstract!GetSnapshot, RestartInv, FreeSnapshots, NoView, Abstract!NoView
<1>2. CASE ReleaseSnapshot(s)
  <2>1. views[s] \in [Key -> Value]
    BY <1>2 DEF ReleaseSnapshot, TypeInv, SnapshotViews
  <2>2. views[s] # <<>>
    <3>1. DOMAIN views[s] = Key /\ DOMAIN <<>> = {}
      BY <2>1
    <3> QED
      BY <3>1, KeyAssumption
  <2> QED
    BY <1>2, <2>2 DEF ReleaseSnapshot, Abstract!ReleaseSnapshot, NoView, Abstract!NoView
<1> QED
  BY <1>1, <1>2

\* One step of the engine is one of the abstract map, or none.
LEMMA StepIsAbstract ==
    ASSUME TypeInv, TypeInv', LogInv, ReadInv, LogContents, RestartInv, [Next]_vars
    PROVE  [Abstract!Next]_(Abstract!vars)
<1>1. CASE \E k \in Key : Write(kTypeValue, k) \/ Write(kTypeDeletion, k)
  BY <1>1, WriteIsAbstract DEF Abstract!Next
<1>2. CASE \E s \in Snap : GetSnapshot(s) \/ ReleaseSnapshot(s)
  BY <1>2, SnapshotIsAbstract DEF Abstract!Next
<1>3. CASE (\E kind \in Crashes : Crash(kind)) \/ OpenReplay
  BY <1>3, RestartIsAbstract DEF Abstract!Next
<1>4. CASE UNCHANGED vars \/ (\E r \in Reader : BeginRead(r) \/ EndRead(r)) \/ OpenSweep
  <2>1. UNCHANGED <<store, maybe, views>>
    BY <1>4 DEF BeginRead, EndRead, OpenSweep, vars, history
  <2> QED
    BY <2>1 DEF Abstract!vars
<1>5. CASE Background
  <2>1. UNCHANGED <<store, maybe, views>>
    BY <1>5 DEF Background, StartFlush, WriteFlushSst, InstallFlush, UnlinkLog, EndFlush,
       RetryFlush, PickCompaction, TakeFloor, SealOutput, InstallCompaction, UnlinkInputs, history
  <2> QED
    BY <2>1 DEF Abstract!vars
<1> QED
  BY <1>1, <1>2, <1>3, <1>4, <1>5 DEF Next

\* The whole DB object implements the multi-version map: through rotations,
\* flushes, compactions, I/O failures, kills and (with fsync on every write)
\* power cuts, an Open that succeeds brings back every acknowledged write and
\* nothing else, and snapshots are frozen copies.  Every I/O step may fail but
\* fsync, and an AddRecord that fails leaves no part of its record.
THEOREM ImplementsMvccHolds ==
    ASSUME "sync" \notin Faults, "partial" \notin Faults,
           "power" \notin Crashes \/ sync_mode = "always"
    PROVE  Spec /\ [][InstallCompaction => AtRisk = {}]_vars => ImplementsMvcc
<1>1. Init => RestartInv
  <2> SUFFICES ASSUME Init PROVE FreeSnapshots /\ SyncedWhenAlways /\ DiskAnswers
    BY DEF RestartInv
  <2>1. FreeSnapshots
    BY DEF Init, FreeSnapshots
  <2> QED
    BY <2>1, CrashInvInit DEF SyncedWhenAlways, DiskAnswers
<1>2. (TypeInv /\ LogInv /\ ReadInv /\ LogContents /\ LogsWhole)
        /\ (TypeInv /\ LogInv /\ ReadInv /\ LogContents /\ LogsWhole)'
        /\ RestartInv /\ [Next]_vars /\ [InstallCompaction => AtRisk = {}]_vars => RestartInv'
  <2> SUFFICES ASSUME TypeInv, LogInv, ReadInv, LogContents, LogsWhole, TypeInv', ReadInv', RestartInv,
                      [Next]_vars, [InstallCompaction => AtRisk = {}]_vars
               PROVE  RestartInv'
    OBVIOUS
  <2>1. FreeSnapshots' /\ SyncedWhenAlways'
    BY FreeSnapshotsStep, SyncedStep DEF RestartInv
  <2>2. DiskAnswers
    BY DEF RestartInv
  <2>3. CASE UNCHANGED vars
    <3>1. Still
      BY <2>3, StillSteps
    <3>2. OnDisk' = OnDisk /\ UNCHANGED <<status, store>>
      BY <3>1, StillFrame DEF Still
    <3> QED
      BY <2>1, <2>2, <3>2 DEF DiskAnswers, RestartInv
  <2>4. ASSUME NEW kind \in Crashes, Crash(kind) PROVE DiskAnswers'
    <3>1. kind # "power" \/ AllSynced
      BY <2>4 DEF RestartInv, SyncedWhenAlways
    <3>2. OnDisk' = OnDisk
      BY <2>4, <3>1, CrashContents
    <3>3. store' = store
      BY <2>4 DEF Crash
    <3> QED
      BY <2>2, <3>2, <3>3 DEF DiskAnswers
  <2>5. CASE InstallCompaction => AtRisk = {}
    <3>1. \/ UNCHANGED status /\ (DiskAnswers => DiskAnswers')
          \/ DiskAnswers'
          \/ status' # "up" /\ (DiskAnswers => DiskAnswers')
          \/ \E kind \in Crashes : Crash(kind)
      BY <2>5, AnswersStep
    <3>2. DiskAnswers'
      BY <2>2, <2>4, <3>1
    <3> QED
      BY <2>1, <3>2 DEF RestartInv
  <2> QED
    BY <2>3, <2>5
<1>3. Init => Abstract!Init
  BY DEF Init, Abstract!Init, NotFound, NoView, Abstract!NoView
<1>4. (TypeInv /\ LogInv /\ ReadInv /\ LogContents /\ LogsWhole)
        /\ (TypeInv /\ LogInv /\ ReadInv /\ LogContents /\ LogsWhole)'
        /\ RestartInv /\ [Next]_vars => [Abstract!Next]_(Abstract!vars)
  BY StepIsAbstract
<1> QED
  BY <1>1, <1>2, <1>3, <1>4, CrashInvariant, PTL DEF Spec, ImplementsMvcc, Abstract!Spec

=============================================================================
