------------------------------ MODULE AsyncWal ------------------------------
(***************************************************************************)
(* The write-ahead log on io_uring: WriteEntry, MaybeSync, DrainWalRing,   *)
(* SyncViaRing, ForceDurabilityLocked, RotateForFlush and ~DB when         *)
(* io_uring_active_ is set.  All of them hold mutex_, so one call runs at  *)
(* a time; the kernel completes submissions meanwhile, and results arrive  *)
(* in later calls than the ones that submitted them.                       *)
(*                                                                         *)
(* A record takes one slot of the log; kBlockRecords slots make a block.   *)
(* What a completion leaves in the page cache and what an fsync makes of   *)
(* it durable is kept per record, so that a crash can be judged in every   *)
(* state: AckedReplayed runs the reader over what would be left.           *)
(***************************************************************************)
EXTENDS Ring

CONSTANTS
    Modes,               \* the sync modes to start in
    kSyncThreshold,      \* kSyncThresholdBytes, in records
    write_buffer_size,   \* in records
    kBlockRecords,       \* records per block of the log
    Faults,              \* "enter", "submit", "write", "short", "fsync", "open"
    MaxCalls,            \* bound: calls of Put and ForceDurabilityLocked
    MaxFaults            \* bound: failures

ASSUME AsyncWalAssumption ==
    /\ Modes \subseteq {"always", "periodic", "never"}
    /\ {kSyncThreshold, write_buffer_size, kBlockRecords} \subseteq Nat \ {0}
    /\ Faults \subseteq {"enter", "submit", "write", "short", "fsync", "open"}
    /\ MaxCalls \in Nat /\ MaxFaults \in Nat

VARIABLES
    mode,            \* sync_mode_
    pc,              \* where the holder of the mutex is
    call,            \* what it executes: "put", "force" or "close"
    after,           \* what follows the drain: "rotate", "fsync" or "close"
    log,             \* the number of the live log
    slots,           \* the records at the offsets of the live log (wal_size_)
    mem,             \* records in mem_
    token,           \* wal_token_
    pending,         \* tokens in wal_pending_
    ringError,       \* wal_ring_error_ is set
    unsynced,        \* unsynced_bytes_, in records
    cached, durable, \* records in the page cache, and on the device
    failed,          \* records whose write ended with an error
    torn,            \* records whose write ended short
    acked,           \* history: records whose Put returned Ok
    reported,        \* history: a call has returned a completion's error
    partly,          \* history: the kernel has taken a batch only in part
    calls, faults    \* history: calls and failures so far

wal     == <<log, slots, mem, token, pending, ringError, unsynced>>
disk    == <<cached, durable, failed, torn>>
control == <<pc, call, after>>
vars    == <<ring, mode, wal, disk, control, acked, reported, partly, calls, faults>>

Init ==
    /\ RingInit
    /\ mode \in Modes
    /\ pc = "idle" /\ call = "put" /\ after = "fsync"
    /\ log = 1 /\ slots = <<>> /\ mem = 0
    /\ token = 0 /\ pending = {} /\ ringError = FALSE /\ unsynced = 0
    /\ cached = {} /\ durable = {} /\ failed = {} /\ torn = {}
    /\ acked = {} /\ reported = FALSE /\ partly = FALSE /\ calls = 0 /\ faults = 0

-----------------------------------------------------------------------------
\* The failure f happens now.
Fault(f) == f \in Faults /\ faults < MaxFaults /\ faults' = faults + 1

\* The call returns with a status: a Put that is Ok inserts into mem_ and is
\* acknowledged; the record of a call is its number.
Return(ok) ==
    /\ pc' = IF call = "close" THEN "closed" ELSE "idle"
    /\ IF ok /\ call = "put" THEN acked' = acked \cup {calls} /\ mem' = mem + 1
                             ELSE UNCHANGED <<acked, mem>>
    /\ UNCHANGED <<call, after>>

\* Flush hands the queue q, with n SQEs counted in queued_, to the kernel.
Submits(q, n) == FlushOk(q, n) /\ UNCHANGED <<partly, faults>>

\* Flush succeeds although the kernel took less than n: part of the queue, or
\* all that an earlier failed attempt had left of it.
SubmitsLess(q, n) ==
    \/ n > Len(q) /\ FlushShort(q, n, Len(q)) /\ UNCHANGED <<partly, faults>>
    \/ /\ \E m \in 1..n - 1 : m <= Len(q) /\ FlushShort(q, n, m)
       /\ Fault("submit") /\ partly' = TRUE

\* Flush fails; the kernel may have consumed some of the batch before.
SubmitFails(q, n) ==
    \E m \in 0..Len(q) :
        /\ m <= n /\ (m > 0 => "submit" \in Faults)
        /\ Fault("enter") /\ FlushFails(q, n, m)
        /\ partly' = (partly \/ m > 0)

\* A completion's error is returned to the caller; ~DB has nowhere to send it.
Report == reported' = (reported \/ call # "close")

\* The call goes on at step.
Goto(step) == pc' = step /\ UNCHANGED <<call, after, acked, mem>>

-----------------------------------------------------------------------------
(***************************************************************************)
(* Calls.                                                                  *)
(***************************************************************************)

\* Mutant: the log is switched without draining the ring.
RotateAtOnce == pc' = "rotate" /\ after' = "rotate"

\* RotateForFlush drains first.
RotateForFlush == pc' = "drain" /\ after' = "rotate"

\* Put, up to RotateForFlush's drain or WriteEntry.
Put ==
    /\ pc = "idle" /\ calls < MaxCalls
    /\ calls' = calls + 1
    /\ call' = "put"
    /\ IF mem >= write_buffer_size THEN RotateForFlush
                                   ELSE pc' = "queue" /\ UNCHANGED after
    /\ UNCHANGED <<ring, mode, wal, disk, acked, reported, partly, faults>>

\* ForceDurabilityLocked, called by the value-log collector.
ForceDurability ==
    /\ pc = "idle" /\ calls < MaxCalls
    /\ calls' = calls + 1
    /\ call' = "force" /\ pc' = "drain" /\ after' = "fsync"
    /\ UNCHANGED <<ring, mode, wal, disk, acked, reported, partly, faults>>

\* ~DB.
Close ==
    /\ pc = "idle"
    /\ call' = "close" /\ pc' = "drain" /\ after' = "close"
    /\ UNCHANGED <<ring, mode, wal, disk, acked, reported, partly, calls, faults>>

\* WriteEntry places the record at wal_size_, keeps its buffer in
\* wal_pending_, queues it and submits it at once.
QueueRecord ==
    LET tok == token + 1
        sqe == [op |-> "write", fd |-> log, tok |-> tok, rec |-> calls]
    IN  /\ pc = "queue"
        /\ token' = tok
        /\ IF HasRoom(sq)
           THEN /\ pending' = pending \cup {tok}
                /\ slots' = Append(slots, calls)
                /\ unsynced' = unsynced + 1
                /\ \/ /\ Submits(Append(sq, sqe), queued + 1) \/ SubmitsLess(Append(sq, sqe), queued + 1)
                      /\ Goto("reap")
                   \/ /\ SubmitFails(Append(sq, sqe), queued + 1)
                      /\ Return(FALSE)
           ELSE /\ Return(FALSE)
                /\ UNCHANGED <<ring, pending, slots, unsynced, partly, faults>>
        /\ UNCHANGED <<mode, log, ringError, disk, reported, calls>>

\* Mutant: wal_pending_ is cleared.
AllTokens(c) == pending

\* The buffers that completions release.
Tokens(c) == {c[i].tok : i \in 1..Len(c)}

\* Mutant: a later success overwrites an earlier error.
LastIsError(c) == c # <<>> /\ Last(c).res = "error"

\* Some completion is an error (res < 0).
HasError(c) == \E i \in 1..Len(c) : c[i].res = "error"

\* ... and reaps what has completed by now; an error is kept for MaybeSync.
ReapSome ==
    /\ pc = "reap"
    /\ ReapAll
    /\ pending' = pending \ Tokens(cq)
    /\ ringError' = (ringError \/ HasError(cq))
    /\ Goto("sync")
    /\ UNCHANGED <<mode, log, slots, token, unsynced, disk, reported, partly, calls, faults>>

NeedSync ==
    \/ mode = "always"
    \/ mode = "periodic" /\ unsynced >= kSyncThreshold

\* Mutant: the fsyncs are queued without draining the writes.
SyncAtOnce == pc' = "fsync" /\ after' = "fsync"

\* A sync drains first, then calls SyncViaRing.
DrainAndSync == pc' = "drain" /\ after' = "fsync"

\* MaybeSync: kSyncNever returns first; then a kept error is handed to this
\* caller and forgotten; then the sync, if one is due.
MaybeSync ==
    /\ pc = "sync"
    /\ IF mode # "never" /\ ringError
       THEN ringError' = FALSE /\ reported' = TRUE /\ Return(FALSE)
       ELSE /\ IF NeedSync
               THEN DrainAndSync /\ UNCHANGED <<call, acked, mem>>
               ELSE Return(TRUE)
            /\ UNCHANGED <<ringError, reported>>
    /\ UNCHANGED <<ring, mode, log, slots, token, pending, unsynced, disk, partly, calls, faults>>

-----------------------------------------------------------------------------
(***************************************************************************)
(* DrainWalRing, SyncViaRing, RotateForFlush.                              *)
(***************************************************************************)

\* Where a drain that succeeded leads.
Drained == IF after = "close" THEN Return(TRUE) ELSE Goto(after)

\* Where a drain that could not submit leads: the call fails, and ~DB goes on to
\* close the log all the same.
Undrained ==
    IF after = "close" THEN Goto("undrained") ELSE Return(FALSE)

\* DrainWalRing has nothing to wait for, or submits what is queued.
DrainStart ==
    /\ pc = "drain"
    /\ \/ /\ outstanding = 0 /\ queued = 0
          /\ Drained
          /\ UNCHANGED <<ring, partly, faults>>
       \/ /\ outstanding # 0 \/ queued # 0
          /\ \/ Submits(sq, queued) /\ Goto("drainwait")
             \/ SubmitsLess(sq, queued) /\ Goto("drainreap")
             \/ SubmitFails(sq, queued) /\ Undrained
    /\ UNCHANGED <<mode, log, slots, token, pending, ringError, unsynced, disk, reported, calls>>

\* Everything has arrived, or the kernel did not wait: reap what there is; the
\* first error fails the call.
DrainEnd ==
    /\ pc = "drainreap" \/ (pc = "drainwait" /\ AllArrived)
    /\ ReapAll
    /\ pending' = pending \ Tokens(cq)
    /\ IF HasError(cq) THEN Return(FALSE) /\ Report ELSE Drained /\ UNCHANGED reported
    /\ UNCHANGED <<mode, log, slots, token, ringError, unsynced, disk, partly, calls, faults>>

\* SyncViaRing queues the fsyncs of the WAL and of the value log, as far as
\* there is room, and submits both together.
QueueFsyncs ==
    LET walSync  == [op |-> "fsync", fd |-> log, tok |-> token + 1, rec |-> 0]
        vlogSync == [op |-> "fsync", fd |-> 0, tok |-> token + 2, rec |-> 0]
        one      == Append(sq, walSync)
        both     == Append(one, vlogSync)
    IN  /\ pc = "fsync"
        /\ token' = IF HasRoom(sq) THEN token + 2 ELSE token + 1
        /\ IF HasRoom(sq) /\ HasRoom(one)
           THEN \/ Submits(both, queued + 2) /\ Goto("fsyncwait")
                \/ SubmitsLess(both, queued + 2) /\ Goto("fsyncreap")
                \/ SubmitFails(both, queued + 2) /\ Return(FALSE)
           ELSE /\ IF HasRoom(sq) THEN sq' = one /\ queued' = queued + 1
                                  ELSE UNCHANGED <<sq, queued>>
                /\ Return(FALSE)
                /\ UNCHANGED <<inflight, cq, outstanding, partly, faults>>
        /\ UNCHANGED <<mode, log, slots, pending, ringError, unsynced, disk, reported, calls>>

FsyncEnd ==
    /\ pc = "fsyncreap" \/ (pc = "fsyncwait" /\ AllArrived)
    /\ ReapAll
    /\ IF HasError(cq) THEN Return(FALSE) /\ Report /\ UNCHANGED unsynced
                       ELSE Return(TRUE) /\ unsynced' = 0 /\ UNCHANGED reported
    /\ UNCHANGED <<mode, log, slots, token, pending, ringError, disk, partly, calls, faults>>

\* The rest of RotateForFlush: a new log, the old descriptor closed.  Creating
\* the file may fail.
Rotate ==
    /\ pc = "rotate"
    /\ \/ /\ log' = log + 1 /\ slots' = <<>> /\ unsynced' = 0
          /\ pc' = "queue" /\ mem' = 0
          /\ UNCHANGED <<call, after, acked, faults>>
       \/ /\ Fault("open")
          /\ Return(FALSE)
          /\ UNCHANGED <<log, slots, unsynced>>
    /\ UNCHANGED <<ring, mode, token, pending, ringError, disk, reported, partly, calls>>

-----------------------------------------------------------------------------
(***************************************************************************)
(* The kernel.                                                             *)
(***************************************************************************)

CompleteWrite(e) ==
    /\ e.op = "write"
    /\ \/ /\ Complete(e, "ok") /\ cached' = cached \cup {e.rec}
          /\ UNCHANGED <<failed, torn, faults>>
       \/ /\ Fault("write") /\ Complete(e, "error")
          /\ failed' = failed \cup {e.rec} /\ UNCHANGED <<cached, torn>>
       \/ /\ Fault("short") /\ Complete(e, "short")
          /\ torn' = torn \cup {e.rec} /\ UNCHANGED <<cached, failed>>
    /\ UNCHANGED durable

\* An fsync covers what is in the page cache when it completes.
CompleteFsync(e) ==
    /\ e.op = "fsync"
    /\ \/ /\ Complete(e, "ok")
          /\ durable' = IF e.fd = 0 THEN durable
                        ELSE durable \cup (cached \cap ToSet(slots))
          /\ UNCHANGED faults
       \/ Fault("fsync") /\ Complete(e, "error") /\ UNCHANGED durable
    /\ UNCHANGED <<cached, failed, torn>>

Kernel ==
    /\ \E e \in inflight : CompleteWrite(e) \/ CompleteFsync(e)
    /\ UNCHANGED <<mode, wal, control, acked, reported, partly, calls>>

-----------------------------------------------------------------------------
Holder ==
    \/ QueueRecord \/ ReapSome \/ MaybeSync
    \/ DrainStart \/ DrainEnd \/ QueueFsyncs \/ FsyncEnd \/ Rotate

Next == Put \/ ForceDurability \/ Close \/ Holder \/ Kernel

Spec == Init /\ [][Next]_vars

\* The holder of the mutex runs on, and the kernel completes what it has.
FairSpec == Spec /\ WF_vars(Holder) /\ WF_vars(Kernel)

-----------------------------------------------------------------------------
Sqe == [op : {"write", "fsync"}, fd : Nat, tok : Nat, rec : 0..MaxCalls]

\* The variables keep their types, and the submission queue its capacity.
TypeOK ==
    /\ sq \in Seq(Sqe) /\ Len(sq) <= Entries /\ inflight \subseteq Sqe
    /\ cq \in Seq([tok : Nat, res : {"ok", "error", "short"}])
    /\ queued \in Nat /\ outstanding \in Nat
    /\ mode \in Modes
    /\ pc \in {"idle", "queue", "reap", "sync", "drain", "drainwait", "drainreap", "fsync",
               "fsyncwait", "fsyncreap", "rotate", "closed", "undrained"}
    /\ call \in {"put", "force", "close"} /\ after \in {"rotate", "fsync", "close"}
    /\ log \in Nat /\ slots \in Seq(0..MaxCalls) /\ mem \in Nat
    /\ token \in Nat /\ pending \subseteq Nat /\ ringError \in BOOLEAN /\ unsynced \in Nat
    /\ cached \subseteq 0..MaxCalls /\ durable \subseteq cached /\ failed \subseteq 0..MaxCalls
    /\ torn \subseteq 0..MaxCalls
    /\ acked \subseteq 0..MaxCalls /\ reported \in BOOLEAN /\ partly \in BOOLEAN
    /\ calls \in 0..MaxCalls /\ faults \in 0..MaxFaults

\* The submissions that have not completed.
Open == ToSet(sq) \cup inflight

\* The kernel never reads a buffer that is gone: a record stays in wal_pending_
\* until its completion has been reaped.
BuffersOutliveWrites == \A e \in Open : e.op = "write" => e.tok \in pending

\* While the kernel has taken every batch whole or not at all, no submission
\* outlives the descriptor it names: when a rotation closes the old log nothing
\* queued or in flight refers to it, and when ~DB has drained and closes the
\* live log nothing is queued or in flight at all.
NothingOnClosedLog ==
    ~partly =>
        /\ \A e \in Open : e.fd \in {0, log}
        /\ pc = "closed" => Open = {}

\* "DB always drains before closing its files": also the ~DB whose drain could
\* not submit.
DrainedBeforeClose == pc \in {"closed", "undrained"} => Open = {}

\* The two counters together never lose a submission, whatever enter() took or
\* refused: what is published, in flight or waiting to be reaped is counted in
\* queued_ or in outstanding_ ("never undercounts").
NothingUncounted == queued + outstanding = Len(sq) + Cardinality(inflight) + Len(cq)

\* queued_ counts exactly what waits to be submitted and outstanding_ what was
\* submitted and is not yet reaped.
CountsExact == queued = Len(sq) /\ outstanding = Cardinality(inflight) + Len(cq)

Block(i) == (i - 1) \div kBlockRecords

\* What the reader gets from the live log when the records in S are intact:
\* a hole is a zero header, which sends it to the next block.
Replayed(S) ==
    {slots[i] : i \in {n \in 1..Len(slots) :
        \A j \in 1..n : Block(j) = Block(n) => slots[j] \in S}}

\* With kSyncAlways, and while no batch was taken in part, an acknowledged
\* record is on the device, and so is all that precedes it in its block.  Only
\* the hole of a failed write can make the reader skip it, and only a short
\* write, which no callback looks for, can tear it.
AckedReplayed ==
    mode = "always" /\ ~partly =>
        \A i \in 1..Len(slots) : slots[i] \in acked =>
            /\ slots[i] \in durable \cup torn
            /\ slots[i] \in Replayed(durable \cup failed \cup torn)

\* An acknowledged write whose completion was an error does not go unnoticed:
\* once reaped, the error is kept or has been returned to some caller.
ErrorsNotSwallowed ==
    (pc \notin {"closed", "undrained"} /\ cq = <<>> /\ failed \cap acked # {}) => ringError \/ reported

\* With kSyncAlways every acknowledged record survives a power cut.
AckedSurvive ==
    mode = "always" => \A i \in 1..Len(slots) : slots[i] \in acked => slots[i] \in Replayed(durable)

\* The holder of the mutex comes back from every wait for the kernel, unless a
\* batch was taken in part: outstanding_ may then count what was never submitted.
MutexReleased == pc # "idle" ~> pc \in {"idle", "closed", "undrained"} \/ partly

\* The holder of the mutex comes back from every wait, whatever the kernel takes
\* of a batch.
DrainsEnd == pc # "idle" ~> pc \in {"idle", "closed", "undrained"}
=============================================================================
