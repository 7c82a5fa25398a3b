-------------------------------- MODULE Ring --------------------------------
(***************************************************************************)
(* The io_uring wrapper of ring.h and ring.cpp with the kernel behind it.  *)
(* A submission (SQE) waits in sq until enter() hands it to the kernel, is *)
(* in flight until the kernel completes it, in any order, and its          *)
(* completion waits in cq until it is reaped.  The class keeps two         *)
(* counters of its own: queued_ and outstanding_.                          *)
(*                                                                         *)
(* The operators here are the parts of the caller's actions: the ring has  *)
(* no thread of its own.  Setup and mapping are left out; indices and      *)
(* masks become the sequences they select.                                 *)
(***************************************************************************)
EXTENDS Integers, Sequences, FiniteSets, SequencesExt

CONSTANT Entries    \* entries_: submission slots

ASSUME RingAssumption == Entries \in Nat \ {0}

VARIABLES
    sq,             \* SQEs between the kernel's head and the ring's tail
    queued,         \* queued_
    inflight,       \* SQEs the kernel works on
    cq,             \* completions not yet reaped
    outstanding     \* outstanding_

ring == <<sq, queued, inflight, cq, outstanding>>

RingInit ==
    /\ sq = <<>> /\ queued = 0
    /\ inflight = {} /\ cq = <<>>
    /\ outstanding = 0

\* QueueWrite and QueueFsync return false when the queue is full, measured
\* at the kernel's head.
HasRoom(q) == Len(q) < Entries

\* The kernel takes the first m SQEs of the queue q.
Take(q, m) ==
    /\ sq' = SubSeq(q, m + 1, Len(q))
    /\ inflight' = inflight \cup ToSet(SubSeq(q, 1, m))
    /\ UNCHANGED cq

\* Flush on the queue q with n SQEs counted in queued_: enter(n) succeeds and
\* the kernel takes that many from its head.
FlushOk(q, n) ==
    /\ n <= Len(q) /\ Take(q, n)
    /\ queued' = 0
    /\ outstanding' = outstanding + n

\* Mutant: only what the kernel took counts as submitted, the rest as nothing.
FlushShortUncounted(q, n, m) ==
    /\ Take(q, m)
    /\ queued' = 0
    /\ outstanding' = outstanding + m

\* enter(n) returns m < n: the kernel took m.  Flush looks only at the sign of
\* the result, so the whole batch counts as submitted.  The kernel does not
\* wait when it took fewer than it was given.
FlushShort(q, n, m) ==
    /\ Take(q, m)
    /\ queued' = 0
    /\ outstanding' = outstanding + n

\* enter() fails after the kernel has consumed m: the SQEs stay published and
\* all n of them counted in queued_.
FlushFails(q, n, m) ==
    /\ Take(q, m)
    /\ queued' = n
    /\ UNCHANGED outstanding

\* A flush with wait_all that submitted all of its batch returns: the kernel
\* has the completions of all that outstanding_ counts.
AllArrived == Len(cq) >= outstanding

\* Mutant: outstanding_ is not decremented.
ReapUncounted ==
    /\ cq' = <<>>
    /\ UNCHANGED <<sq, queued, inflight, outstanding>>

\* Reap without waiting: all the completions there are.
ReapAll ==
    /\ cq' = <<>>
    /\ outstanding' = IF outstanding > Len(cq) THEN outstanding - Len(cq) ELSE 0
    /\ UNCHANGED <<sq, queued, inflight>>

\* The kernel completes e with a result.
Complete(e, res) ==
    /\ inflight' = inflight \ {e}
    /\ cq' = Append(cq, [tok |-> e.tok, res |-> res])
    /\ UNCHANGED <<sq, queued, outstanding>>
=============================================================================
