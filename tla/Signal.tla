------------------------------- MODULE Signal -------------------------------
(***************************************************************************)
(* The condition variable DB::signal_.  Writers wait on it for imm_ to be  *)
(* flushed, wait_for_background_work waits on it for the background thread *)
(* to have nothing left, and the background thread waits on it for work.   *)
(* Some places notify one waiter, some all of them.                        *)
(*                                                                         *)
(* An action is a critical section of mutex_.  A thread inside wait() is   *)
(* in the wait set `waiting` until a notify takes it out; it then competes *)
(* for the mutex and tests its predicate again.  (A spurious wakeup tests  *)
(* the predicate and waits again: it changes nothing.)                     *)
(*                                                                         *)
(* Of the data only what the predicates read is kept: how full the         *)
(* memtable is, whether imm_ is set, the compaction triggers, and the      *)
(* value log's size against its trigger.                                   *)
(***************************************************************************)
EXTENDS Integers, FiniteSets

CONSTANTS
    Writer,                 \* threads that call Put and Delete
    Waiter,                 \* threads that call wait_for_background_work
    Snapper,                \* threads that take and release snapshots
    bg,                     \* the background thread
    Owner,                  \* the thread that destroys the DB
    write_buffer_size, l0_compaction_trigger, vlog_gc_size,
    SnapshotWhileWaiting,   \* may a snapshot be taken while a thread is
                            \* inside wait_for_background_work?
    MaxVlog,                \* bound: a value log's size is counted up to here
    MaxScan,                \* bound: entries a collection pass scans
    MaxFaults               \* bound: failing background steps

Client == Writer \cup Waiter \cup Snapper

ASSUME SignalAssumption ==
    /\ bg \notin Client /\ Owner \notin Client /\ Owner # bg
    /\ Writer \cap Waiter = {} /\ Writer \cap Snapper = {} /\ Waiter \cap Snapper = {}
    /\ write_buffer_size \in Nat \ {0} /\ l0_compaction_trigger \in Nat \ {0}
    /\ vlog_gc_size \in Nat \ {0} /\ MaxVlog \in Nat \ {0}
    /\ MaxScan \in Nat /\ MaxFaults \in Nat
    /\ SnapshotWhileWaiting \in BOOLEAN

VARIABLES
    mem,          \* entries in mem_
    imm,          \* imm_ # nullptr
    l0,           \* files in L0, counted up to the trigger
    deep,         \* some deeper level is over its size
    disabled,     \* compaction_disabled_
    vlog,         \* size of vlog_current_
    leftover,     \* vlogs_.size() > 1
    floor,        \* vlog_gc_floor_
    snaps,        \* the threads that hold a snapshot
    gcActive,     \* vlog_gc_active_
    exit,         \* exit_
    waiting,      \* the threads in the wait set of signal_
    pc,           \* where each client and the owner is
    bgpc,         \* where the background thread is
    left,         \* entries the pass still has to scan
    rewritten,    \* entries the pass has written again
    faults        \* history: failed steps

work    == <<mem, imm, l0, deep, disabled, vlog, leftover, floor>>
pass    == <<left, rewritten>>
vars    == <<work, snaps, gcActive, exit, waiting, pc, bgpc, pass, faults>>

Init ==
    /\ mem = 0 /\ imm = FALSE
    /\ l0 = 0 /\ deep = FALSE /\ disabled = FALSE
    /\ vlog = 0 /\ leftover = FALSE /\ floor = 0
    /\ snaps = {} /\ gcActive = FALSE /\ exit = FALSE
    /\ waiting = {}
    /\ pc = [t \in Client \cup {Owner} |-> "idle"]
    /\ bgpc = "loop"
    /\ left = 0 /\ rewritten = 0
    /\ faults = 0

-----------------------------------------------------------------------------
(***************************************************************************)
(* What the predicates read.                                               *)
(***************************************************************************)

CompactionNeeded == ~disabled /\ (l0 = l0_compaction_trigger \/ deep)

Trigger == IF vlog_gc_size > floor THEN vlog_gc_size ELSE floor

\* VlogGcNeeded without its snapshot gate.
VlogGcDue == leftover \/ vlog >= Trigger

VlogGcNeeded == snaps = {} /\ VlogGcDue

Work == imm \/ CompactionNeeded \/ VlogGcNeeded

Count(n, max) == IF n < max THEN n + 1 ELSE max

\* notify_one: the wait sets it may leave.
NotifyOne(W) == {W \ {t} : t \in W} \cup (IF W = {} THEN {W} ELSE {})

-----------------------------------------------------------------------------
(***************************************************************************)
(* Clients.                                                                *)
(***************************************************************************)

\* t is outside, or has been notified inside wait() and has the mutex again.
Runs(t, here) == pc[t] \in {"idle", here} /\ t \notin waiting

\* Put and Delete find imm_ set and wait.
WriterWaits(w) ==
    /\ Runs(w, "put") /\ ~exit
    /\ imm
    /\ pc' = [pc EXCEPT ![w] = "put"]
    /\ waiting' = waiting \cup {w}
    /\ UNCHANGED <<work, snaps, gcActive, exit, bgpc, pass, faults>>

\* The wait sets WriteEntry may leave: it notifies one thread when a
\* separated value takes the value log over the trigger.
AfterAppend(W, size) == IF size >= Trigger THEN NotifyOne(W) ELSE {W}

\* RotateForFlush leaves a fresh memtable.
Kept(full) == IF full THEN 0 ELSE mem

\* Mutant: the rotation tells nobody.
RotatedSilently(full) == {waiting}

\* The wait sets a rotation may leave: it notifies one thread.
AfterRotation(full) == IF full THEN NotifyOne(waiting) ELSE {waiting}

\* Put and Delete go on: rotate when the memtable is full and notify one
\* thread, then WriteEntry.  A rotation that fails ends the call.  A separated
\* value grows the value log before the WAL append, which may fail and leave
\* the memtable as it is.
Write(w) ==
    /\ Runs(w, "put") /\ ~exit
    /\ ~imm
    /\ LET full == mem >= write_buffer_size
       IN  \/ /\ full /\ UNCHANGED <<mem, imm, vlog, waiting>>
           \/ /\ imm' = full
              /\ mem' \in {Kept(full), Kept(full) + 1}
              /\ \E W \in AfterRotation(full) :
                   \/ /\ vlog' = Count(vlog, MaxVlog)
                      /\ waiting' \in AfterAppend(W, vlog')
                   \/ /\ UNCHANGED vlog
                      /\ waiting' = W
    /\ pc' = [pc EXCEPT ![w] = "idle"]
    /\ UNCHANGED <<l0, deep, disabled, leftover, floor, snaps, gcActive, exit, bgpc,
                   pass, faults>>

\* The predicate of wait_for_background_work.
Drained == exit \/ (~Work /\ ~gcActive)

\* wait_for_background_work: notify_all on entry, then the wait.
CallWait(t) ==
    /\ pc[t] = "idle" /\ ~exit
    /\ IF Drained
       THEN waiting' = {} /\ UNCHANGED pc
       ELSE waiting' = {t} /\ pc' = [pc EXCEPT ![t] = "drain"]
    /\ UNCHANGED <<work, snaps, gcActive, exit, bgpc, pass, faults>>

WakeWaiter(t) ==
    /\ pc[t] = "drain" /\ t \notin waiting
    /\ IF Drained
       THEN pc' = [pc EXCEPT ![t] = "idle"] /\ UNCHANGED waiting
       ELSE waiting' = waiting \cup {t} /\ UNCHANGED pc
    /\ UNCHANGED <<work, snaps, gcActive, exit, bgpc, pass, faults>>

GetSnapshot(s) ==
    /\ pc[s] = "idle" /\ ~exit
    /\ s \notin snaps
    /\ SnapshotWhileWaiting \/ \A t \in Waiter : pc[t] = "idle"
    /\ snaps' = snaps \cup {s}
    /\ UNCHANGED <<work, gcActive, exit, waiting, pc, bgpc, pass, faults>>

\* ReleaseSnapshot erases the snapshot under the mutex ...
ReleaseSnapshot(s) ==
    /\ pc[s] = "idle" /\ ~exit
    /\ s \in snaps
    /\ snaps' = snaps \ {s}
    /\ pc' = [pc EXCEPT ![s] = "notify"]
    /\ UNCHANGED <<work, gcActive, exit, waiting, bgpc, pass, faults>>

\* Mutant: the destructor does not notify.
DestroySilently ==
    /\ pc[Owner] = "idle"
    /\ \A t \in Client : pc[t] = "idle"
    /\ exit' = TRUE
    /\ pc' = [pc EXCEPT ![Owner] = "done"]
    /\ UNCHANGED <<work, snaps, gcActive, waiting, bgpc, pass, faults>>

\* The destructor, called when no other thread uses the DB, sets exit_ ...
Destroy ==
    /\ pc[Owner] = "idle"
    /\ \A t \in Client : pc[t] = "idle"
    /\ exit' = TRUE
    /\ pc' = [pc EXCEPT ![Owner] = "notify"]
    /\ UNCHANGED <<work, snaps, gcActive, waiting, bgpc, pass, faults>>

\* ... and both notify everyone after unlocking.
NotifyAfterUnlock(t) ==
    /\ pc[t] = "notify"
    /\ waiting' = {}
    /\ pc' = [pc EXCEPT ![t] = IF t = Owner THEN "done" ELSE "idle"]
    /\ UNCHANGED <<work, snaps, gcActive, exit, bgpc, pass, faults>>

-----------------------------------------------------------------------------
(***************************************************************************)
(* The background thread.                                                  *)
(***************************************************************************)

\* The top of BackgroundLoop: the wait with its predicate, and the branch.
BgLoop ==
    /\ bgpc = "loop" /\ bg \notin waiting
    /\ \/ /\ exit
          /\ bgpc' = "done" /\ UNCHANGED <<gcActive, waiting>>
       \/ /\ ~exit /\ imm
          /\ bgpc' = "flush" /\ UNCHANGED <<gcActive, waiting>>
       \/ /\ ~exit /\ ~imm /\ CompactionNeeded
          /\ bgpc' = "compact" /\ UNCHANGED <<gcActive, waiting>>
       \/ /\ ~exit /\ ~imm /\ ~CompactionNeeded /\ VlogGcNeeded
          /\ bgpc' = "gc" /\ gcActive' = TRUE /\ UNCHANGED waiting
       \/ /\ ~exit /\ ~Work
          /\ waiting' = waiting \cup {bg} /\ UNCHANGED <<bgpc, gcActive>>
    /\ UNCHANGED <<work, snaps, exit, pc, pass, faults>>

\* FlushImmMemTable installs the table in its own critical section, for the
\* loop and for a collection pass.
FlushInstall ==
    /\ bgpc \in {"flush", "gcflush"}
    /\ l0' = Count(l0, l0_compaction_trigger)
    /\ bgpc' = IF bgpc = "flush" THEN "flushed" ELSE "gcflushed"
    /\ UNCHANGED <<mem, imm, deep, disabled, vlog, leftover, floor, snaps, gcActive, exit,
                   waiting, pc, pass, faults>>

\* Mutant: one thread is notified, though several may wait for imm_.
FlushEndNotifiesOne ==
    /\ bgpc \in {"flushed", "gcflushed"}
    /\ imm' = FALSE
    /\ waiting' \in NotifyOne(waiting)
    /\ bgpc' = IF bgpc = "flushed" THEN "loop" ELSE "scan"
    /\ UNCHANGED <<mem, l0, deep, disabled, vlog, leftover, floor, snaps, gcActive, exit,
                   pc, pass, faults>>

\* The flush succeeded: imm_ is dropped and everyone notified.
FlushEnd ==
    /\ bgpc \in {"flushed", "gcflushed"}
    /\ imm' = FALSE
    /\ waiting' = {}
    /\ bgpc' = IF bgpc = "flushed" THEN "loop" ELSE "scan"
    /\ UNCHANGED <<mem, l0, deep, disabled, vlog, leftover, floor, snaps, gcActive, exit,
                   pc, pass, faults>>

\* It failed, before or after the install: BackgroundLoop sleeps without the
\* mutex; a pass notifies and gives up.
FlushFails ==
    /\ bgpc \in {"flush", "flushed", "gcflush", "gcflushed"}
    /\ faults < MaxFaults
    /\ faults' = faults + 1
    /\ IF bgpc \in {"flush", "flushed"}
       THEN bgpc' = "backoff" /\ UNCHANGED waiting
       ELSE bgpc' = "gcfailed" /\ waiting' = {}
    /\ UNCHANGED <<work, snaps, gcActive, exit, pc, pass>>

\* Mutant: a failed flush ends the background thread.
GiveUp ==
    /\ bgpc = "backoff"
    /\ bgpc' = "done"
    /\ UNCHANGED <<work, snaps, gcActive, exit, waiting, pc, pass, faults>>

\* After the sleep: notify_all and around again.
Backoff ==
    /\ bgpc = "backoff"
    /\ waiting' = {}
    /\ bgpc' = "loop"
    /\ UNCHANGED <<work, snaps, gcActive, exit, pc, pass, faults>>

\* RunCompaction has installed its result: an L0 compaction takes all of L0
\* and may put the level below over its size.
CompactEnd ==
    /\ bgpc = "compact"
    /\ IF l0 = l0_compaction_trigger THEN l0' = 0 /\ deep' \in BOOLEAN
                                     ELSE UNCHANGED l0 /\ deep' = FALSE
    /\ bgpc' = "loop" /\ waiting' = {}
    /\ UNCHANGED <<mem, imm, disabled, vlog, leftover, floor, snaps, gcActive, exit, pc,
                   pass, faults>>

CompactFails ==
    /\ bgpc = "compact"
    /\ faults < MaxFaults
    /\ faults' = faults + 1
    /\ disabled' = TRUE
    /\ bgpc' = "loop" /\ waiting' = {}
    /\ UNCHANGED <<mem, imm, l0, deep, vlog, leftover, floor, snaps, gcActive, exit, pc, pass>>

\* RunVlogGC gives the pass up before the first step if a snapshot exists by
\* now, and rotates to a fresh generation otherwise.
GcStart ==
    /\ bgpc = "gc"
    /\ IF snaps # {}
       THEN bgpc' = "gcdone" /\ UNCHANGED <<vlog, leftover, pass>>
       ELSE /\ bgpc' = "scan"
            /\ vlog' = 0 /\ leftover' = TRUE
            /\ left' \in 0..MaxScan /\ rewritten' = 0
    /\ UNCHANGED <<mem, imm, l0, deep, disabled, floor, snaps, gcActive, exit, waiting, pc,
                   faults>>

\* One entry of the scan: dead, or live and written again by WriteEntry (which
\* may notify); a pending imm_ is then flushed by the pass itself.
GcEntry ==
    /\ bgpc = "scan" /\ left > 0
    /\ left' = left - 1
    /\ \/ UNCHANGED <<mem, vlog, waiting, rewritten, bgpc>>
       \/ /\ vlog' = Count(vlog, MaxVlog)
          /\ waiting' \in AfterAppend(waiting, vlog')
          /\ mem' = Count(mem, write_buffer_size)
          /\ rewritten' = rewritten + 1
          /\ bgpc' = IF imm THEN "gcflush" ELSE "scan"
    /\ UNCHANGED <<imm, l0, deep, disabled, leftover, floor, snaps, gcActive, exit, pc, faults>>

\* The old generations are retired unless a snapshot has appeared.
GcRetire ==
    /\ bgpc = "scan" /\ left = 0
    /\ IF snaps # {}
       THEN UNCHANGED <<leftover, floor>>
       ELSE leftover' = FALSE /\ floor' = 2 * rewritten
    /\ bgpc' = "gcdone"
    /\ UNCHANGED <<mem, imm, l0, deep, disabled, vlog, snaps, gcActive, exit, waiting, pc,
                   pass, faults>>

\* A failing step of the pass: opening the fresh generation or its MANIFEST;
\* a rewrite, perhaps behind its append; the last sync or the last MANIFEST,
\* which finds the floor already moved.
GcFails ==
    /\ bgpc \in {"gc", "scan"}
    /\ faults < MaxFaults
    /\ faults' = faults + 1
    /\ \/ UNCHANGED <<vlog, waiting, floor>>
       \/ /\ bgpc = "scan" /\ left > 0
          /\ vlog' = Count(vlog, MaxVlog)
          /\ waiting' \in AfterAppend(waiting, vlog')
          /\ UNCHANGED floor
       \/ /\ bgpc = "scan" /\ left = 0
          /\ floor' = 2 * rewritten
          /\ UNCHANGED <<vlog, waiting>>
    /\ bgpc' = "gcfailed"
    /\ UNCHANGED <<mem, imm, l0, deep, disabled, leftover, snaps, gcActive, exit, pc, pass>>

\* BackgroundLoop behind RunVlogGC: a failed pass sleeps without the mutex
\* before everyone is notified.
GcEnd ==
    /\ bgpc \in {"gcdone", "gcfailed"}
    /\ gcActive' = FALSE
    /\ IF bgpc = "gcdone" THEN bgpc' = "loop" /\ waiting' = {}
                          ELSE bgpc' = "backoff" /\ UNCHANGED waiting
    /\ left' = 0 /\ rewritten' = 0
    /\ UNCHANGED <<work, snaps, exit, pc, faults>>

-----------------------------------------------------------------------------
Background ==
    \/ BgLoop \/ FlushInstall \/ FlushEnd \/ FlushFails \/ Backoff
    \/ CompactEnd \/ CompactFails
    \/ GcStart \/ GcEntry \/ GcRetire \/ GcFails \/ GcEnd

Next ==
    \/ \E w \in Writer : WriterWaits(w) \/ Write(w)
    \/ \E t \in Waiter : CallWait(t) \/ WakeWaiter(t)
    \/ \E s \in Snapper : GetSnapshot(s) \/ ReleaseSnapshot(s)
    \/ \E t \in Snapper \cup {Owner} : NotifyAfterUnlock(t)
    \/ Destroy
    \/ Background

Spec == Init /\ [][Next]_vars

\* The background thread and a thread on its way to notify keep running, and
\* a notified waiter gets the mutex.  Nothing is assumed of new calls.
FairSpec ==
    /\ Spec
    /\ WF_vars(Background)
    /\ \A t \in Snapper \cup {Owner} : WF_vars(NotifyAfterUnlock(t))
    /\ \A w \in Writer : WF_vars(pc[w] = "put" /\ (WriterWaits(w) \/ Write(w)))
    /\ \A t \in Waiter : WF_vars(WakeWaiter(t))

-----------------------------------------------------------------------------
TypeOK ==
    /\ mem \in 0..write_buffer_size /\ imm \in BOOLEAN
    /\ l0 \in 0..l0_compaction_trigger /\ deep \in BOOLEAN /\ disabled \in BOOLEAN
    /\ vlog \in 0..MaxVlog /\ leftover \in BOOLEAN /\ floor \in Nat
    /\ snaps \subseteq Snapper /\ gcActive \in BOOLEAN /\ exit \in BOOLEAN
    /\ waiting \subseteq Writer \cup Waiter \cup {bg}
    /\ pc \in [Client \cup {Owner} -> {"idle", "put", "drain", "notify", "done"}]
    /\ bgpc \in {"loop", "flush", "flushed", "backoff", "compact", "gc", "scan", "gcflush",
                 "gcflushed", "gcdone", "gcfailed", "done"}
    /\ left \in 0..MaxScan /\ rewritten \in Nat
    /\ faults \in 0..MaxFaults

\* The background thread never sleeps on work: a notify_one that was meant
\* for it cannot have gone to another thread.  Only a thread that has
\* unlocked and not yet notified may stand in between.
BackgroundAwake ==
    bg \in waiting /\ (Work \/ exit) =>
        \E t \in Snapper \cup {Owner} : pc[t] = "notify"

\* Nobody is left in the wait set when what it waits for has come true,
\* except while the background thread sleeps off a failure: it notifies
\* everyone when it is back.
NobodyForgotten ==
    /\ \A w \in Writer : w \in waiting => imm
    /\ \A t \in Waiter : t \in waiting => ~Drained \/ bgpc = "backoff"

\* A writer that sleeps because of a pending memtable is woken.
WritersWoken == \A w \in Writer : w \in waiting ~> w \notin waiting

\* The destructor's join returns: the background thread sees exit_.
ShutdownEnds == exit ~> bgpc = "done"

=============================================================================
