--------------------------- MODULE AsyncWalProofs ---------------------------
(***************************************************************************)
(* The log on io_uring, for every queue size, buffer, threshold and block  *)
(* size.  Under every fault no write loses its buffer before it completes  *)
(* the ring's counters lose no submission, and the error of an             *)
(* acknowledged write reaches a caller.  As long as the kernel has taken   *)
(* every batch whole or not at all (~partly), no write loses its           *)
(* descriptor, the counters are exact, and what kSyncAlways acknowledged   *)
(* is on the device.                                                       *)
(***************************************************************************)
EXTENDS AsyncWal, TLAPS, FiniteSetTheorems, SequenceTheorems

-----------------------------------------------------------------------------
(***************************************************************************)
(* The inductive invariant.                                                *)
(***************************************************************************)

Cqe == [tok : Nat, res : {"ok", "error", "short"}]

\* Of the SQEs q and I and the completions c no two share a token, and none
\* has a token above t.
Distinct(q, I, c, t) ==
    /\ \A i \in 1..Len(q) : q[i].tok <= t
    /\ \A e \in I : e.tok <= t
    /\ \A k \in 1..Len(c) : c[k].tok <= t
    /\ \A i, j \in 1..Len(q) : q[i].tok = q[j].tok => i = j
    /\ \A e, f \in I : e.tok = f.tok => e = f
    /\ \A i \in 1..Len(q), e \in I : q[i].tok # e.tok
    /\ \A k \in 1..Len(c), i \in 1..Len(q) : c[k].tok # q[i].tok
    /\ \A k \in 1..Len(c), e \in I : c[k].tok # e.tok

\* A ring in order: queued_ and outstanding_ are exact, and wal_token_ has
\* given every submission a token of its own.
RingAt(q, n, I, c, o, t) ==
    /\ q \in Seq(Sqe) /\ Len(q) <= Entries /\ n = Len(q)
    /\ I \in SUBSET Sqe /\ IsFiniteSet(I)
    /\ c \in Seq(Cqe) /\ o = Cardinality(I) + Len(c)
    /\ t \in Nat /\ Distinct(q, I, c, t)

\* ... and the kernel has taken every batch whole or not at all.
RingInOrder ==
    /\ partly = FALSE
    /\ RingAt(sq, queued, inflight, cq, outstanding, token)

\* The places a call can be in.
Draining == {"drain", "drainwait"}

\* The record of the running Put is not placed yet.
BeforeQueue == pc \in {"queue", "rotate"} \/ (pc \in Draining /\ after = "rotate")

\* What a call has established when it is at a place: a drain has emptied
\* the ring, and a sync works on an empty ring.
Phases ==
    /\ pc \notin {"drainreap", "fsyncreap"}
    /\ pc \in {"drainwait", "fsyncwait"} => sq = <<>>
    /\ pc \in {"rotate", "fsync"} => sq = <<>> /\ inflight = {} /\ cq = <<>>
    /\ pc = "fsyncwait" => \A e \in inflight : e.op = "fsync"
    /\ pc \in {"queue", "reap", "sync", "rotate"} => call = "put"
    /\ pc \in {"fsync", "fsyncwait"} => call # "close"
    /\ pc \in Draining => (after = "close" <=> call = "close")
    /\ BeforeQueue => call = "put"

\* Records are numbered by the calls that made them, and the record of a Put
\* that has not come to its queueing is nowhere yet.
Numbered ==
    /\ \A e \in Open : e.rec <= calls
    /\ \A r \in failed \cup acked : r <= calls
    /\ call = "put" /\ pc \notin {"idle", "closed", "undrained"} => calls \notin acked
    /\ BeforeQueue => calls \notin failed /\ \A e \in Open : e.op = "write" => e.rec # calls

\* A record with a slot in the live log is in the page cache, has failed, is
\* torn or is still to be written.
Placed ==
    \A i \in 1..Len(slots) :
        \/ slots[i] \in cached \cup failed \cup torn
        \/ \E e \in Open : e.op = "write" /\ e.rec = slots[i]

\* No submission names a closed log, and a drained ~DB has none left.
DescriptorsOpen ==
    /\ \A e \in Open : e.fd \in {0, log}
    /\ pc = "closed" => Open = {}

\* The error of the running Put's own write cannot pass it by.
ErrorAhead ==
    /\ pc \in {"reap", "sync"} /\ calls \in failed => ringError \/ HasError(cq)
    /\ pc \in Draining /\ call = "put" /\ calls \in failed => HasError(cq)
    /\ pc \in {"fsync", "fsyncwait"} /\ call = "put" => calls \notin failed

\* While SyncViaRing waits, the fsync of the log is still to complete, has
\* failed, or has made the whole log durable.
SyncAhead ==
    pc = "fsyncwait" =>
        \/ \E e \in inflight : e.fd = log
        \/ HasError(cq)
        \/ \A i \in 1..Len(slots) : slots[i] \in cached => slots[i] \in durable

\* With kSyncAlways, whatever precedes an acknowledged record in the log has
\* been synced or has failed.
AckedPrefix ==
    mode = "always" =>
        \A i \in 1..Len(slots) : slots[i] \in acked =>
            /\ slots[i] \in durable \cup torn
            /\ \A j \in 1..i : slots[j] \in durable \cup failed \cup torn

Inv ==
    /\ TypeOK /\ log > 0
    /\ RingInOrder /\ Phases
    /\ DescriptorsOpen /\ BuffersOutliveWrites
    /\ Numbered /\ Placed /\ ErrorAhead /\ SyncAhead
    /\ AckedPrefix

-----------------------------------------------------------------------------
(***************************************************************************)
(* Sequences as sets.                                                      *)
(***************************************************************************)

LEMMA ToSetIndex ==
    ASSUME NEW S, NEW q \in Seq(S), NEW x
    PROVE  x \in ToSet(q) <=> \E i \in 1..Len(q) : x = q[i]
  BY DEF ToSet

LEMMA ToSetEmpty == ToSet(<<>>) = {}
  BY DEF ToSet

LEMMA ToSetAppend ==
    ASSUME NEW S, NEW q \in Seq(S), NEW e \in S
    PROVE  ToSet(Append(q, e)) = ToSet(q) \cup {e}
  <1> DEFINE r == Append(q, e)
  <1>1. r \in Seq(S) /\ Len(r) = Len(q) + 1 /\ r[Len(q) + 1] = e
        /\ \A i \in 1..Len(q) : r[i] = q[i]
    OBVIOUS
  <1>2. \A x : x \in ToSet(r) <=> \E i \in 1..Len(r) : x = r[i]
    BY <1>1, ToSetIndex
  <1>3. \A x : x \in ToSet(q) <=> \E i \in 1..Len(q) : x = q[i]
    BY ToSetIndex
  <1> HIDE DEF r
  <1>4. \A x : x \in ToSet(r) <=> x \in ToSet(q) \cup {e}
    BY <1>1, <1>2, <1>3
  <1> QED
    BY <1>4 DEF r

\* A flush of all that is queued empties the queue.
LEMMA FlushAll ==
    ASSUME NEW q \in Seq(Sqe), FlushOk(q, Len(q))
    PROVE  /\ sq' = <<>> /\ inflight' = inflight \cup ToSet(q)
           /\ queued' = 0 /\ outstanding' = outstanding + Len(q) /\ cq' = cq
  <1>1. SubSeq(q, 1, Len(q)) = q
    OBVIOUS
  <1>2. SubSeq(q, Len(q) + 1, Len(q)) = <<>>
    OBVIOUS
  <1> QED
    BY <1>1, <1>2 DEF FlushOk, Take

-----------------------------------------------------------------------------
(***************************************************************************)
(* Tokens stay distinct.                                                   *)
(***************************************************************************)

LEMMA TokensAreNumbers ==
    ASSUME NEW q \in Seq(Sqe), NEW I \in SUBSET Sqe, NEW c \in Seq(Cqe)
    PROVE  /\ \A i \in 1..Len(q) : q[i].tok \in Nat
           /\ \A f \in I : f.tok \in Nat
           /\ \A k \in 1..Len(c) : c[k].tok \in Nat
  <1>1. (\A x \in Sqe : x.tok \in Nat) /\ (\A x \in Cqe : x.tok \in Nat)
    BY DEF Sqe, Cqe
  <1>2. (\A i \in 1..Len(q) : q[i] \in Sqe) /\ (\A k \in 1..Len(c) : c[k] \in Cqe)
    OBVIOUS
  <1> QED
    BY <1>1, <1>2

\* An SQE with a new token is queued.
LEMMA DistinctAppend ==
    ASSUME NEW q \in Seq(Sqe), NEW I \in SUBSET Sqe, NEW c \in Seq(Cqe),
           NEW t \in Nat, NEW u \in Nat, NEW e \in Sqe,
           Distinct(q, I, c, t), t < e.tok, e.tok <= u
    PROVE  Distinct(Append(q, e), I, c, u)
  <1> DEFINE r == Append(q, e)
  <1>1. r \in Seq(Sqe) /\ Len(r) = Len(q) + 1 /\ r[Len(q) + 1] = e
        /\ \A i \in 1..Len(q) : r[i] = q[i]
    OBVIOUS
  <1>2. \A i \in 1..Len(r) : i \in 1..Len(q) \/ i = Len(q) + 1
    BY <1>1
  <1>3. /\ \A i \in 1..Len(q) : q[i].tok \in Nat
        /\ \A f \in I : f.tok \in Nat
        /\ \A k \in 1..Len(c) : c[k].tok \in Nat
        /\ e.tok \in Nat
    <2>1. e.tok \in Nat
      BY DEF Sqe
    <2> QED
      BY <2>1, TokensAreNumbers
  <1> HIDE DEF r
  <1>4. \A i \in 1..Len(r) : r[i].tok <= u
    <2>1. \A i \in 1..Len(q) : q[i].tok <= t
      BY DEF Distinct
    <2>2. \A i \in 1..Len(q) : r[i].tok <= u
      BY <1>1, <1>3, <2>1
    <2> QED
      BY <1>1, <1>2, <2>2
  <1>5. (\A f \in I : f.tok <= u) /\ (\A k \in 1..Len(c) : c[k].tok <= u)
    BY <1>3 DEF Distinct
  <1>a. \A n \in Nat : n <= t => n # e.tok
    BY <1>3
  <1>b. /\ \A i \in 1..Len(q) : q[i].tok # e.tok
        /\ \A f \in I : f.tok # e.tok
        /\ \A k \in 1..Len(c) : c[k].tok # e.tok
    BY <1>3, <1>a, Zenon DEF Distinct
  <1>6. \A i, j \in 1..Len(r) : r[i].tok = r[j].tok => i = j
    <2> SUFFICES ASSUME NEW i \in 1..Len(r), NEW j \in 1..Len(r), r[i].tok = r[j].tok
                 PROVE  i = j
      OBVIOUS
    <2>1. CASE i \in 1..Len(q) /\ j \in 1..Len(q)
      BY <1>1, <2>1, Zenon DEF Distinct
    <2>2. CASE i = Len(q) + 1 /\ j \in 1..Len(q)
      BY <1>1, <1>b, <2>2, Zenon
    <2>3. CASE j = Len(q) + 1 /\ i \in 1..Len(q)
      BY <1>1, <1>b, <2>3, Zenon
    <2> QED
      BY <1>2, <2>1, <2>2, <2>3, Zenon
  <1>7. \A i \in 1..Len(r), f \in I : r[i].tok # f.tok
    <2>1. \A i \in 1..Len(q), f \in I : q[i].tok # f.tok
      BY DEF Distinct
    <2> QED
      BY <1>1, <1>2, <1>b, <2>1, Zenon
  <1>8. \A k \in 1..Len(c), i \in 1..Len(r) : c[k].tok # r[i].tok
    <2>1. \A k \in 1..Len(c), i \in 1..Len(q) : c[k].tok # q[i].tok
      BY DEF Distinct
    <2> QED
      BY <1>1, <1>2, <1>b, <2>1, Zenon
  <1>9. (\A f, g \in I : f.tok = g.tok => f = g) /\ \A k \in 1..Len(c), f \in I : c[k].tok # f.tok
    BY DEF Distinct
  <1> QED
    BY <1>4, <1>5, <1>6, <1>7, <1>8, <1>9 DEF Distinct, r

\* The queue goes to the kernel.
LEMMA DistinctFlush ==
    ASSUME NEW q \in Seq(Sqe), NEW I \in SUBSET Sqe, NEW c \in Seq(Cqe), NEW t \in Nat,
           Distinct(q, I, c, t)
    PROVE  Distinct(<<>>, I \cup ToSet(q), c, t)
  <1> DEFINE J == I \cup ToSet(q)
  <1>1. \A e \in J : e \in I \/ \E i \in 1..Len(q) : e = q[i]
    BY ToSetIndex
  <1> HIDE DEF J
  <1>2. \A e \in J : e.tok <= t
    BY <1>1 DEF Distinct
  <1>3. \A e, f \in J : e.tok = f.tok => e = f
    BY <1>1 DEF Distinct
  <1>4. \A k \in 1..Len(c), e \in J : c[k].tok # e.tok
    BY <1>1 DEF Distinct
  <1>5. \A i \in 1..Len(<<>>) : FALSE
    OBVIOUS
  <1> QED
    BY <1>2, <1>3, <1>4, <1>5 DEF Distinct, J

\* The kernel completes a submission.
LEMMA DistinctComplete ==
    ASSUME NEW q \in Seq(Sqe), NEW I \in SUBSET Sqe, NEW c \in Seq(Cqe), NEW t \in Nat,
           NEW e \in I, NEW res \in {"ok", "error", "short"},
           Distinct(q, I, c, t)
    PROVE  Distinct(q, I \ {e}, Append(c, [tok |-> e.tok, res |-> res]), t)
  <1> DEFINE x == [tok |-> e.tok, res |-> res]
             d == Append(c, x)
  <1>1. x \in Cqe /\ x.tok = e.tok
    BY DEF Cqe, Sqe
  <1>2. d \in Seq(Cqe) /\ Len(d) = Len(c) + 1 /\ d[Len(c) + 1] = x
        /\ \A i \in 1..Len(c) : d[i] = c[i]
    BY <1>1
  <1>3. \A k \in 1..Len(d) : k \in 1..Len(c) \/ k = Len(c) + 1
    BY <1>2
  <1> HIDE DEF x, d
  <1>4. \A k \in 1..Len(d) : d[k].tok <= t
    BY <1>1, <1>2, <1>3 DEF Distinct
  <1>5. \A k \in 1..Len(d), i \in 1..Len(q) : d[k].tok # q[i].tok
    <2>1. /\ \A k \in 1..Len(c), i \in 1..Len(q) : c[k].tok # q[i].tok
          /\ \A i \in 1..Len(q) : q[i].tok # e.tok
      BY Zenon DEF Distinct
    <2> QED
      BY <1>1, <1>2, <1>3, <2>1, Zenon
  <1>6. \A k \in 1..Len(d), f \in I \ {e} : d[k].tok # f.tok
    <2> SUFFICES ASSUME NEW k \in 1..Len(d), NEW f \in I, f # e PROVE d[k].tok # f.tok
      BY Zenon
    <2>1. CASE k \in 1..Len(c)
      BY <1>2, <2>1, Zenon DEF Distinct
    <2>2. CASE k = Len(c) + 1
      BY <1>1, <1>2, <2>2, Zenon DEF Distinct
    <2> QED
      BY <1>3, <2>1, <2>2, Zenon
  <1>7. Distinct(q, I \ {e}, d, t)
    BY <1>4, <1>5, <1>6 DEF Distinct
  <1> QED
    BY <1>7 DEF d, x

\* Completions are reaped, or tokens handed out and not used.
LEMMA DistinctReap ==
    ASSUME NEW q, NEW I, NEW c, NEW t, Distinct(q, I, c, t)
    PROVE  Distinct(q, I, <<>>, t)
  <1>1. \A i \in 1..Len(<<>>) : FALSE
    OBVIOUS
  <1> QED
    BY <1>1 DEF Distinct

LEMMA DistinctLater ==
    ASSUME NEW q \in Seq(Sqe), NEW I \in SUBSET Sqe, NEW c \in Seq(Cqe),
           NEW t \in Nat, NEW u \in Nat, t <= u, Distinct(q, I, c, t)
    PROVE  Distinct(q, I, c, u)
  <1>1. /\ \A i \in 1..Len(q) : q[i].tok \in Nat
        /\ \A f \in I : f.tok \in Nat
        /\ \A k \in 1..Len(c) : c[k].tok \in Nat
    BY TokensAreNumbers
  <1>2. \A x \in Nat : x <= t => x <= u
    OBVIOUS
  <1>3. /\ \A i \in 1..Len(q) : q[i].tok <= u
        /\ \A f \in I : f.tok <= u
        /\ \A k \in 1..Len(c) : c[k].tok <= u
    BY <1>1, <1>2, Zenon DEF Distinct
  <1> QED
    BY <1>3, Zenon DEF Distinct

\* So many SQEs are queued, so many more are in flight after the flush.
LEMMA FlushCounts ==
    ASSUME NEW q \in Seq(Sqe), NEW I \in SUBSET Sqe, NEW c \in Seq(Cqe), NEW t \in Nat,
           Distinct(q, I, c, t), IsFiniteSet(I)
    PROVE  /\ IsFiniteSet(I \cup ToSet(q))
           /\ Cardinality(I \cup ToSet(q)) = Cardinality(I) + Len(q)
  <1> DEFINE f == [i \in 1..Len(q) |-> q[i]]
  <1>1. f \in Bijection(1..Len(q), ToSet(q))
    <2>1. f \in [1..Len(q) -> ToSet(q)]
      BY ToSetIndex
    <2>2. \A i, j \in 1..Len(q) : f[i] = f[j] => i = j
      BY DEF Distinct
    <2>3. \A x \in ToSet(q) : \E i \in 1..Len(q) : f[i] = x
      BY ToSetIndex
    <2> QED
      BY <2>1, <2>2, <2>3 DEF Bijection, Injection, Surjection, IsInjective
  <1>2. IsFiniteSet(1..Len(q)) /\ Cardinality(1..Len(q)) = Len(q)
    <2>1. 1 \in Int /\ Len(q) \in Nat /\ Len(q) \in Int
      OBVIOUS
    <2>2. /\ IsFiniteSet(1..Len(q))
          /\ Cardinality(1..Len(q)) = IF 1 > Len(q) THEN 0 ELSE Len(q) - 1 + 1
      BY <2>1, FS_Interval, Zenon
    <2> QED
      BY <2>1, <2>2, SMT
  <1>3. IsFiniteSet(ToSet(q)) /\ Cardinality(ToSet(q)) = Len(q)
    BY <1>1, <1>2, FS_Bijection DEF ExistsBijection
  <1>4. I \cap ToSet(q) = {}
    BY ToSetIndex DEF Distinct
  <1>5. /\ IsFiniteSet(I \cup ToSet(q))
        /\ Cardinality(I \cup ToSet(q))
             = Cardinality(I) + Cardinality(ToSet(q)) - Cardinality(I \cap ToSet(q))
    BY <1>3, FS_Union
  <1>6. Cardinality(I \cap ToSet(q)) = 0 /\ Cardinality(I) \in Nat
    BY <1>4, FS_EmptySet, FS_CardinalityType
  <1>7. Len(q) \in Nat
    OBVIOUS
  <1> QED
    BY <1>3, <1>5, <1>6, <1>7

-----------------------------------------------------------------------------
(***************************************************************************)
(* The ring stays in order.                                                *)
(***************************************************************************)

LEMMA QueueInOrder ==
    ASSUME NEW q, NEW n, NEW I, NEW c, NEW o, NEW t, NEW u \in Nat, NEW e \in Sqe,
           RingAt(q, n, I, c, o, t), HasRoom(q), t < e.tok, e.tok <= u
    PROVE  RingAt(Append(q, e), n + 1, I, c, o, u)
  <1>1. /\ q \in Seq(Sqe) /\ I \in SUBSET Sqe /\ c \in Seq(Cqe) /\ t \in Nat
        /\ Distinct(q, I, c, t)
    BY DEF RingAt
  <1>2. Distinct(Append(q, e), I, c, u)
    BY <1>1, DistinctAppend
  <1>3. Append(q, e) \in Seq(Sqe) /\ Len(Append(q, e)) = Len(q) + 1 /\ Len(q) \in Nat
    BY <1>1
  <1>4. Len(q) + 1 <= Entries
    BY <1>3, RingAssumption DEF HasRoom
  <1> QED
    BY <1>2, <1>3, <1>4 DEF RingAt

LEMMA FlushInOrder ==
    ASSUME NEW q, NEW n, NEW t,
           RingAt(q, n, inflight, cq, outstanding, t), Submits(q, n)
    PROVE  /\ RingAt(sq', queued', inflight', cq', outstanding', t)
           /\ sq' = <<>> /\ cq' = cq
           /\ inflight' = inflight \cup ToSet(q)
           /\ Open' = ToSet(q) \cup inflight /\ UNCHANGED faults
  <1>1. /\ q \in Seq(Sqe) /\ inflight \in SUBSET Sqe /\ cq \in Seq(Cqe) /\ t \in Nat
        /\ Distinct(q, inflight, cq, t) /\ IsFiniteSet(inflight) /\ n = Len(q)
        /\ outstanding = Cardinality(inflight) + Len(cq)
    BY DEF RingAt
  <1>2. /\ sq' = <<>> /\ inflight' = inflight \cup ToSet(q)
        /\ queued' = 0 /\ outstanding' = outstanding + Len(q) /\ cq' = cq
    BY <1>1, FlushAll DEF Submits
  <1>3. IsFiniteSet(inflight') /\ Cardinality(inflight') = Cardinality(inflight) + Len(q)
    BY <1>1, <1>2, FlushCounts
  <1>4. Distinct(<<>>, inflight', cq, t)
    BY <1>1, <1>2, DistinctFlush
  <1>5. Open' = ToSet(q) \cup inflight
    BY <1>2, ToSetEmpty DEF Open
  <1>6. inflight' \in SUBSET Sqe
    BY <1>1, <1>2, ToSetIndex
  <1>7. outstanding' = Cardinality(inflight') + Len(cq)
    BY <1>1, <1>2, <1>3, FS_CardinalityType
  <1>8. <<>> \in Seq(Sqe) /\ Len(<<>>) = 0 /\ 0 <= Entries
    BY RingAssumption
  <1> QED
    BY <1>1, <1>2, <1>3, <1>4, <1>5, <1>6, <1>7, <1>8 DEF RingAt, Submits

LEMMA FailInOrder ==
    ASSUME NEW q, NEW n, NEW t, partly' = FALSE,
           RingAt(q, n, inflight, cq, outstanding, t), SubmitFails(q, n)
    PROVE  /\ RingAt(sq', queued', inflight', cq', outstanding', t)
           /\ cq' = cq /\ inflight' = inflight
           /\ Open' = ToSet(q) \cup inflight /\ Fault("enter")
  <1>1. Fault("enter") /\ FlushFails(q, n, 0)
    <2>1. PICK m \in 0..Len(q) :
             /\ partly' = (partly \/ m > 0)
             /\ Fault("enter") /\ FlushFails(q, n, m)
      BY DEF SubmitFails
    <2>2. ~(m > 0)
      BY <2>1, Zenon
    <2>3. m = 0
      BY <2>2
    <2> QED
      BY <2>1, <2>3
  <1>2. q \in Seq(Sqe)
    BY DEF RingAt
  <1>3. SubSeq(q, 0 + 1, Len(q)) = q /\ SubSeq(q, 1, 0) = <<>>
    BY <1>2
  <1>4. sq' = q /\ inflight' = inflight /\ cq' = cq /\ queued' = n /\ outstanding' = outstanding
    BY <1>1, <1>3, ToSetEmpty DEF FlushFails, Take
  <1> QED
    BY <1>1, <1>4 DEF RingAt, Open

\* A batch that is taken in part is remembered.
LEMMA NoShortSubmit ==
    ASSUME NEW q, NEW n, NEW t, partly' = FALSE,
           RingAt(q, n, inflight, cq, outstanding, t)
    PROVE  ~SubmitsLess(q, n)
  <1>1. n = Len(q) /\ Len(q) \in Nat
    BY DEF RingAt
  <1> QED
    BY <1>1 DEF SubmitsLess, Fault

LEMMA ReapInOrder ==
    ASSUME RingInOrder, partly' = FALSE, ReapAll, UNCHANGED token
    PROVE  /\ RingInOrder'
           /\ cq' = <<>> /\ sq' = sq /\ inflight' = inflight /\ Open' = Open
  <1>1. Distinct(sq, inflight, <<>>, token)
    BY DistinctReap DEF RingInOrder, RingAt
  <1>2. /\ cq \in Seq(Cqe) /\ Len(cq) \in Nat /\ Cardinality(inflight) \in Nat
        /\ outstanding = Cardinality(inflight) + Len(cq)
    BY FS_CardinalityType DEF RingInOrder, RingAt
  <1>3. outstanding' = Cardinality(inflight) + 0
    BY <1>2 DEF ReapAll
  <1>4. <<>> \in Seq(Cqe) /\ Len(<<>>) = 0
    OBVIOUS
  <1> QED
    BY <1>1, <1>3, <1>4 DEF RingInOrder, RingAt, ReapAll, Open

LEMMA CompleteInOrder ==
    ASSUME RingInOrder, partly' = FALSE, NEW e \in inflight, NEW res \in {"ok", "error", "short"},
           Complete(e, res), UNCHANGED token
    PROVE  /\ RingInOrder'
           /\ sq' = sq /\ inflight' = inflight \ {e} /\ Open' = Open \ {e}
           /\ cq' = Append(cq, [tok |-> e.tok, res |-> res])
           /\ cq' \in Seq(Cqe) /\ Len(cq') = Len(cq) + 1
           /\ cq'[Len(cq) + 1].res = res
           /\ \A i \in 1..Len(cq) : cq'[i] = cq[i]
  <1> DEFINE x == [tok |-> e.tok, res |-> res]
  <1>1. /\ sq \in Seq(Sqe) /\ inflight \in SUBSET Sqe /\ cq \in Seq(Cqe) /\ token \in Nat
        /\ Distinct(sq, inflight, cq, token) /\ IsFiniteSet(inflight)
        /\ outstanding = Cardinality(inflight) + Len(cq)
    BY DEF RingInOrder, RingAt
  <1>2. Distinct(sq, inflight \ {e}, Append(cq, x), token)
    BY <1>1, DistinctComplete
  <1>3. IsFiniteSet(inflight \ {e}) /\ Cardinality(inflight \ {e}) = Cardinality(inflight) - 1
    BY <1>1, FS_RemoveElement
  <1>4. x \in Cqe /\ x.res = res
    BY <1>1 DEF Cqe, Sqe
  <1>5. /\ Append(cq, x) \in Seq(Cqe) /\ Len(Append(cq, x)) = Len(cq) + 1
        /\ Append(cq, x)[Len(cq) + 1] = x /\ \A i \in 1..Len(cq) : Append(cq, x)[i] = cq[i]
        /\ Len(cq) \in Nat
    BY <1>1, <1>4
  <1>6. outstanding = Cardinality(inflight \ {e}) + (Len(cq) + 1)
    <2>1. Cardinality(inflight) \in Nat /\ Len(cq) \in Nat
      BY <1>1, <1>5, FS_CardinalityType
    <2> QED
      BY <1>1, <1>3, <2>1
  <1>7. /\ sq' = sq /\ inflight' = inflight \ {e} /\ cq' = Append(cq, x)
        /\ queued' = queued /\ outstanding' = outstanding
    BY DEF Complete
  <1>8. e \notin ToSet(sq)
    BY <1>1, ToSetIndex DEF Distinct
  <1>9. Open' = Open \ {e}
    BY <1>7, <1>8 DEF Open
  <1>10. RingInOrder'
    BY <1>1, <1>2, <1>3, <1>5, <1>6, <1>7 DEF RingInOrder, RingAt
  <1> QED
    BY <1>4, <1>5, <1>7, <1>9, <1>10

\* A wait for everything leaves nothing in flight.
LEMMA AllArrivedEmpties ==
    ASSUME RingInOrder, AllArrived
    PROVE  inflight = {}
  <1>1. /\ cq \in Seq(Cqe) /\ Len(cq) \in Nat /\ Cardinality(inflight) \in Nat
        /\ outstanding = Cardinality(inflight) + Len(cq) /\ IsFiniteSet(inflight)
    BY FS_CardinalityType DEF RingInOrder, RingAt
  <1>2. Cardinality(inflight) = 0
    BY <1>1 DEF AllArrived
  <1> QED
    BY <1>1, <1>2, FS_EmptySet

\* Counters at zero mean an empty ring.
LEMMA ZeroMeansEmpty ==
    ASSUME RingInOrder, outstanding = 0, queued = 0
    PROVE  sq = <<>> /\ inflight = {} /\ cq = <<>>
  <1>1. /\ sq \in Seq(Sqe) /\ cq \in Seq(Cqe) /\ IsFiniteSet(inflight)
        /\ Cardinality(inflight) \in Nat /\ Len(sq) = 0
        /\ Cardinality(inflight) + Len(cq) = 0
    BY FS_CardinalityType DEF RingInOrder, RingAt
  <1>2. Len(cq) \in Nat
    BY <1>1
  <1>3. Len(cq) = 0 /\ Cardinality(inflight) = 0
    BY <1>1, <1>2
  <1>4. sq = <<>> /\ cq = <<>>
    BY <1>1, <1>3
  <1> QED
    BY <1>1, <1>3, <1>4, FS_EmptySet

LEMMA RingTypes ==
    ASSUME NEW q, NEW n, NEW I, NEW c, NEW o, NEW t, RingAt(q, n, I, c, o, t)
    PROVE  /\ q \in Seq(Sqe) /\ Len(q) <= Entries /\ I \subseteq Sqe
           /\ c \in Seq([tok : Nat, res : {"ok", "error", "short"}])
           /\ n \in Nat /\ o \in Nat /\ t \in Nat
  <1>1. /\ q \in Seq(Sqe) /\ Len(q) <= Entries /\ I \subseteq Sqe /\ t \in Nat
        /\ c \in Seq(Cqe) /\ n = Len(q) /\ o = Cardinality(I) + Len(c)
        /\ Cardinality(I) \in Nat
    BY FS_CardinalityType DEF RingAt
  <1>2. Len(q) \in Nat /\ Len(c) \in Nat
    BY <1>1
  <1>3. n \in Nat /\ o \in Nat
    BY <1>1, <1>2
  <1> QED
    BY <1>1, <1>3 DEF Cqe

-----------------------------------------------------------------------------
(***************************************************************************)
(* What the actions that submit do to the ring.                            *)
(***************************************************************************)

\* The SQE of the running Put.
NewWrite == [op |-> "write", fd |-> log, tok |-> token + 1, rec |-> calls]

\* The SQEs of SyncViaRing.
WalSync  == [op |-> "fsync", fd |-> log, tok |-> token + 1, rec |-> 0]
VlogSync == [op |-> "fsync", fd |-> 0, tok |-> token + 2, rec |-> 0]

LEMMA SqeTypes ==
    ASSUME TypeOK
    PROVE  /\ NewWrite \in Sqe /\ NewWrite.tok = token + 1
           /\ WalSync \in Sqe /\ WalSync.tok = token + 1
           /\ VlogSync \in Sqe /\ VlogSync.tok = token + 2
           /\ token + 1 \in Nat /\ token + 2 \in Nat
  <1>1. log \in Nat /\ token \in Nat /\ calls \in 0..MaxCalls /\ MaxCalls \in Nat
    BY AsyncWalAssumption DEF TypeOK
  <1> QED
    BY <1>1 DEF NewWrite, WalSync, VlogSync, Sqe

\* WriteEntry queues its record and hands it to the kernel, or leaves it
\* queued, or finds no room.
LEMMA QueueRecordEffect ==
    ASSUME TypeOK, RingInOrder, partly' = FALSE, QueueRecord
    PROVE  /\ RingInOrder' /\ cq' = cq
           /\ \/ /\ Open' = Open \cup {NewWrite}
                 /\ pending' = pending \cup {token + 1} /\ slots' = Append(slots, calls)
                 /\ unsynced' = unsynced + 1
                 /\ \/ sq' = <<>> /\ Goto("reap") /\ UNCHANGED faults
                    \/ Fault("enter") /\ Return(FALSE)
              \/ /\ Open' = Open /\ UNCHANGED <<pending, slots, unsynced, faults>>
                 /\ Return(FALSE)
  <1> DEFINE q == Append(sq, NewWrite)
  <1>1. NewWrite \in Sqe /\ NewWrite.tok = token + 1 /\ token + 1 \in Nat /\ token \in Nat
    BY SqeTypes DEF TypeOK
  <1>2. token' = token + 1
    BY DEF QueueRecord
  <1>3. CASE HasRoom(sq)
    <2>1. RingAt(q, queued + 1, inflight, cq, outstanding, token + 1)
      BY <1>1, <1>3, QueueInOrder DEF RingInOrder
    <2>2. ToSet(q) \cup inflight = Open \cup {NewWrite}
      BY <1>1, ToSetAppend DEF TypeOK, Open
    <2> HIDE DEF q
    <2>0. ~SubmitsLess(q, queued + 1)
      BY <2>1, NoShortSubmit DEF RingInOrder
    <2>3. CASE Submits(q, queued + 1) /\ Goto("reap")
      BY <2>1, <2>2, <2>3, <1>2, <1>3, FlushInOrder DEF QueueRecord, RingInOrder
    <2>4. CASE SubmitFails(q, queued + 1) /\ Return(FALSE)
      BY <2>1, <2>2, <2>4, <1>2, <1>3, FailInOrder DEF QueueRecord, RingInOrder
    <2> QED
      BY <1>3, <2>0, <2>3, <2>4 DEF QueueRecord, NewWrite, q
  <1>4. CASE ~HasRoom(sq)
    <2>1. UNCHANGED <<sq, queued, inflight, cq, outstanding, pending, slots, unsynced, faults>>
          /\ Return(FALSE)
      BY <1>4 DEF QueueRecord, ring
    <2>2. RingAt(sq, queued, inflight, cq, outstanding, token + 1)
      BY <1>1, DistinctLater DEF RingInOrder, RingAt
    <2> QED
      BY <1>2, <2>1, <2>2 DEF RingInOrder, Open
  <1> QED
    BY <1>3, <1>4

\* DrainWalRing finds the ring empty, or hands everything to the kernel, or
\* fails to.
LEMMA DrainStartEffect ==
    ASSUME RingInOrder, partly' = FALSE, DrainStart
    PROVE  /\ RingInOrder' /\ cq' = cq /\ Open' = Open
           /\ \/ /\ sq' = <<>> /\ inflight' = {} /\ cq' = <<>>
                 /\ Drained /\ UNCHANGED faults
              \/ sq' = <<>> /\ Goto("drainwait") /\ UNCHANGED faults
              \/ Fault("enter") /\ Undrained
  <1>0. token' = token /\ RingAt(sq, queued, inflight, cq, outstanding, token)
    BY DEF DrainStart, RingInOrder
  <1>4. ~SubmitsLess(sq, queued)
    BY <1>0, NoShortSubmit DEF RingInOrder
  <1>1. CASE outstanding = 0 /\ queued = 0 /\ Drained /\ UNCHANGED <<ring, faults>>
    BY <1>0, <1>1, ZeroMeansEmpty DEF ring, RingInOrder, Open
  <1>2. CASE Submits(sq, queued) /\ Goto("drainwait")
    BY <1>0, <1>2, FlushInOrder DEF RingInOrder, Open
  <1>3. CASE SubmitFails(sq, queued) /\ Undrained
    BY <1>0, <1>3, FailInOrder DEF RingInOrder, Open
  <1> QED
    BY <1>1, <1>2, <1>3, <1>4 DEF DrainStart

\* SyncViaRing, on an empty ring, submits both fsyncs or fails with some of
\* them queued.
LEMMA QueueFsyncsEffect ==
    ASSUME TypeOK, RingInOrder, partly' = FALSE, Phases, QueueFsyncs
    PROVE  /\ RingInOrder' /\ cq' = cq
           /\ Open' \subseteq {WalSync, VlogSync}
           /\ \/ sq' = <<>> /\ WalSync \in inflight' /\ Goto("fsyncwait") /\ UNCHANGED faults
              \/ Return(FALSE) /\ (Fault("enter") \/ UNCHANGED faults)
  <1> DEFINE one  == Append(sq, WalSync)
             both == Append(one, VlogSync)
  <1>1. /\ WalSync \in Sqe /\ WalSync.tok = token + 1
        /\ VlogSync \in Sqe /\ VlogSync.tok = token + 2
        /\ token + 1 \in Nat /\ token + 2 \in Nat /\ token \in Nat
    BY SqeTypes DEF TypeOK
  <1>2. sq = <<>> /\ inflight = {} /\ ToSet(sq) = {} /\ sq \in Seq(Sqe)
    BY ToSetEmpty DEF QueueFsyncs, Phases, TypeOK
  <1>3. one \in Seq(Sqe) /\ ToSet(one) = {WalSync}
    <2>1. sq \in Seq(Sqe) /\ WalSync \in Sqe
      BY <1>1, <1>2
    <2>2. ToSet(one) = ToSet(sq) \cup {WalSync}
      BY <2>1, ToSetAppend
    <2> QED
      BY <1>2, <2>1, <2>2
  <1>4. ToSet(both) = {WalSync, VlogSync}
    <2> HIDE DEF one
    <2>1. ToSet(both) = ToSet(one) \cup {VlogSync}
      BY <1>1, <1>3, ToSetAppend
    <2> QED
      BY <1>3, <2>1
  <1>5. token' = IF HasRoom(sq) THEN token + 2 ELSE token + 1
    BY DEF QueueFsyncs
  <1>6. CASE HasRoom(sq) /\ HasRoom(one)
    <2>1. RingAt(one, queued + 1, inflight, cq, outstanding, token + 1)
      BY <1>1, <1>6, QueueInOrder DEF RingInOrder
    <2> HIDE DEF one
    <2>2. RingAt(both, (queued + 1) + 1, inflight, cq, outstanding, token + 2)
      BY <1>1, <1>6, <2>1, QueueInOrder
    <2>3. RingAt(both, queued + 2, inflight, cq, outstanding, token + 2)
      BY <2>2, RingTypes DEF RingInOrder
    <2> HIDE DEF both
    <2>6. ~SubmitsLess(both, queued + 2)
      BY <2>3, NoShortSubmit DEF RingInOrder
    <2>4. CASE Submits(both, queued + 2) /\ Goto("fsyncwait")
      BY <1>2, <1>4, <1>5, <1>6, <2>3, <2>4, FlushInOrder DEF RingInOrder
    <2>5. CASE SubmitFails(both, queued + 2) /\ Return(FALSE)
      BY <1>2, <1>4, <1>5, <1>6, <2>3, <2>5, FailInOrder DEF RingInOrder
    <2> QED
      BY <1>6, <2>4, <2>5, <2>6 DEF QueueFsyncs, WalSync, VlogSync, one, both
  <1>7. CASE HasRoom(sq) /\ ~HasRoom(one)
    <2>1. RingAt(one, queued + 1, inflight, cq, outstanding, token + 2)
      BY <1>1, <1>7, QueueInOrder DEF RingInOrder
    <2>2. /\ sq' = one /\ queued' = queued + 1 /\ Return(FALSE)
          /\ UNCHANGED <<inflight, cq, outstanding, faults>>
      BY <1>7 DEF QueueFsyncs, WalSync, one
    <2> HIDE DEF one
    <2> QED
      BY <1>2, <1>3, <1>5, <1>7, <2>1, <2>2 DEF RingInOrder, Open
  <1>8. CASE ~HasRoom(sq)
    <2>1. Return(FALSE) /\ UNCHANGED <<sq, queued, inflight, cq, outstanding, faults>>
      BY <1>8 DEF QueueFsyncs
    <2>2. RingAt(sq, queued, inflight, cq, outstanding, token + 1)
      BY <1>1, DistinctLater DEF RingInOrder, RingAt
    <2> QED
      BY <1>2, <1>5, <1>8, <2>1, <2>2 DEF RingInOrder, Open
  <1> QED
    BY <1>6, <1>7, <1>8

-----------------------------------------------------------------------------
(***************************************************************************)
(* The ring's part of the invariant, and the types.                        *)
(***************************************************************************)

LEMMA RingStep ==
    ASSUME TypeOK, RingInOrder, partly' = FALSE, Phases, [Next]_vars
    PROVE  RingInOrder'
  <1>1. CASE QueueRecord
    BY <1>1, QueueRecordEffect
  <1>2. CASE ReapSome
    BY <1>2, ReapInOrder DEF ReapSome
  <1>3. CASE DrainStart
    BY <1>3, DrainStartEffect
  <1>4. CASE DrainEnd
    BY <1>4, ReapInOrder DEF DrainEnd
  <1>5. CASE QueueFsyncs
    BY <1>5, QueueFsyncsEffect
  <1>6. CASE FsyncEnd
    BY <1>6, ReapInOrder DEF FsyncEnd
  <1>7. CASE Kernel
    <2>1. PICK e \in inflight : CompleteWrite(e) \/ CompleteFsync(e)
      BY <1>7 DEF Kernel
    <2>2. UNCHANGED token
      BY <1>7 DEF Kernel, wal
    <2>3. \E res \in {"ok", "error", "short"} : Complete(e, res)
      BY <2>1 DEF CompleteWrite, CompleteFsync
    <2> QED
      BY <2>2, <2>3, CompleteInOrder
  <1>8. CASE Put \/ ForceDurability \/ Close \/ MaybeSync \/ Rotate \/ UNCHANGED vars
    <2>1. UNCHANGED <<sq, queued, inflight, cq, outstanding, token>>
      BY <1>8 DEF Put, ForceDurability, Close, MaybeSync, Rotate, vars, ring, wal
    <2> QED
      BY <2>1 DEF RingInOrder
  <1> QED
    BY <1>1, <1>2, <1>3, <1>4, <1>5, <1>6, <1>7, <1>8 DEF Next, Holder

\* The types of the variables outside the ring.
RestTypes ==
    /\ mode \in Modes
    /\ pc \in {"idle", "queue", "reap", "sync", "drain", "drainwait", "drainreap", "fsync",
               "fsyncwait", "fsyncreap", "rotate", "closed", "undrained"}
    /\ call \in {"put", "force", "close"} /\ after \in {"rotate", "fsync", "close"}
    /\ log \in Nat /\ slots \in Seq(0..MaxCalls) /\ mem \in Nat
    /\ pending \subseteq Nat /\ ringError \in BOOLEAN /\ unsynced \in Nat
    /\ cached \subseteq 0..MaxCalls /\ durable \subseteq cached /\ failed \subseteq 0..MaxCalls
    /\ torn \subseteq 0..MaxCalls
    /\ acked \subseteq 0..MaxCalls /\ reported \in BOOLEAN
    /\ calls \in 0..MaxCalls /\ faults \in 0..MaxFaults

LEMMA ReturnFails ==
    ASSUME TypeOK, Return(FALSE)
    PROVE  /\ pc' \in {"idle", "closed"} /\ (pc' = "closed" <=> call = "close")
           /\ UNCHANGED <<call, after, acked, mem>>
           /\ acked' \subseteq 0..MaxCalls /\ mem' \in Nat
  BY DEF TypeOK, Return

LEMMA ReturnSucceeds ==
    ASSUME TypeOK, Return(TRUE)
    PROVE  /\ pc' \in {"idle", "closed"} /\ (pc' = "closed" <=> call = "close")
           /\ UNCHANGED <<call, after>>
           /\ acked' = IF call = "put" THEN acked \cup {calls} ELSE acked
           /\ acked' \subseteq 0..MaxCalls /\ mem' \in Nat
  <1>1. CASE call = "put"
    <2>1. acked' = acked \cup {calls} /\ mem' = mem + 1
      BY <1>1 DEF Return
    <2>2. mem' \in Nat
      BY <2>1 DEF TypeOK
    <2>3. acked' \subseteq 0..MaxCalls
      BY <2>1 DEF TypeOK
    <2> QED
      BY <1>1, <2>1, <2>2, <2>3 DEF Return
  <1>2. CASE call # "put"
    BY <1>2 DEF TypeOK, Return
  <1> QED
    BY <1>1, <1>2

LEMMA DrainedTypes ==
    ASSUME TypeOK, Drained
    PROVE  /\ pc' \in {"idle", "closed", "rotate", "fsync"} /\ call' = call /\ after' = after
           /\ acked' \subseteq 0..MaxCalls /\ mem' \in Nat
  BY ReturnSucceeds DEF TypeOK, Drained, Goto

LEMMA UndrainedTypes ==
    ASSUME TypeOK, Undrained
    PROVE  /\ pc' \in {"idle", "closed", "undrained"} /\ UNCHANGED <<call, after, acked, mem>>
           /\ pc' = "closed" => call = "close" /\ after # "close"
           /\ acked' \subseteq 0..MaxCalls /\ mem' \in Nat
  BY ReturnFails DEF TypeOK, Undrained, Goto

LEMMA FaultTypes ==
    ASSUME TypeOK, NEW f, Fault(f)
    PROVE  faults' \in 0..MaxFaults
  BY AsyncWalAssumption DEF TypeOK, Fault

LEMMA TypeStep ==
    ASSUME TypeOK, RingInOrder, partly' = FALSE, Phases, [Next]_vars
    PROVE  TypeOK'
  <1>1. RingInOrder'
    BY RingStep
  <1>2. /\ sq' \in Seq(Sqe) /\ Len(sq') <= Entries /\ inflight' \subseteq Sqe
        /\ cq' \in Seq([tok : Nat, res : {"ok", "error", "short"}])
        /\ queued' \in Nat /\ outstanding' \in Nat /\ token' \in Nat
    BY <1>1, RingTypes DEF RingInOrder
  <1>3. RestTypes
    BY DEF TypeOK, RestTypes
  <1>4. RestTypes'
    <2>1. CASE Put
      BY <1>3, <2>1, AsyncWalAssumption DEF Put, RestTypes, RotateForFlush, wal, disk
    <2>2. CASE ForceDurability
      BY <1>3, <2>2, AsyncWalAssumption DEF ForceDurability, RestTypes, wal, disk
    <2>3. CASE Close
      BY <1>3, <2>3 DEF Close, RestTypes, wal, disk
    <2>4. CASE QueueRecord
      <3>1. /\ pc' \in {"reap", "idle", "closed"} /\ call' = call /\ after' = after
            /\ acked' \subseteq 0..MaxCalls /\ mem' \in Nat /\ faults' \in 0..MaxFaults
        BY <1>3, <2>4, QueueRecordEffect, ReturnFails, ReturnSucceeds, FaultTypes DEF Goto, RestTypes
      <3>2. token + 1 \in Nat
        BY SqeTypes
      <3>3. pending' \subseteq Nat /\ unsynced' \in Nat /\ slots' \in Seq(0..MaxCalls)
        <4>1. \/ /\ pending' = pending \cup {token + 1} /\ slots' = Append(slots, calls)
                 /\ unsynced' = unsynced + 1
              \/ UNCHANGED <<pending, slots, unsynced>>
          BY <2>4, QueueRecordEffect
        <4>2. pending' \subseteq Nat
          BY <1>3, <3>2, <4>1 DEF RestTypes
        <4>3. unsynced' \in Nat
          BY <1>3, <4>1 DEF RestTypes
        <4>4. slots' \in Seq(0..MaxCalls)
          <5>1. slots \in Seq(0..MaxCalls) /\ calls \in 0..MaxCalls
            BY <1>3 DEF RestTypes
          <5>2. Append(slots, calls) \in Seq(0..MaxCalls)
            BY <5>1, AppendProperties
          <5> QED
            BY <4>1, <5>1, <5>2, Zenon
        <4> QED
          BY <4>2, <4>3, <4>4
      <3> QED
        BY <1>3, <2>4, <3>1, <3>3 DEF QueueRecord, RestTypes, disk
    <2>5. CASE ReapSome
      <3>1. ringError' \in BOOLEAN
        BY <2>5, Zenon DEF ReapSome
      <3> QED
        BY <1>3, <2>5, <3>1 DEF ReapSome, RestTypes, disk, Goto
    <2>6. CASE MaybeSync
      <3>1. /\ pc' \in {"idle", "closed", "drain"} /\ call' = call /\ after' \in {after, "fsync"}
            /\ acked' \subseteq 0..MaxCalls /\ mem' \in Nat
        BY <1>3, <2>6, ReturnFails, ReturnSucceeds DEF MaybeSync, DrainAndSync, RestTypes
      <3>2. ringError' \in {ringError, FALSE} /\ reported' \in {reported, TRUE}
        BY <2>6 DEF MaybeSync
      <3> QED
        BY <1>3, <2>6, <3>1, <3>2 DEF MaybeSync, RestTypes, disk
    <2>7. CASE DrainStart
      <3>0. \/ Drained /\ UNCHANGED faults
            \/ Goto("drainwait") /\ UNCHANGED faults
            \/ Fault("enter") /\ Undrained
        BY <2>7, DrainStartEffect
      <3>1. /\ pc' \in {"idle", "closed", "undrained", "rotate", "fsync", "drainwait"}
            /\ call' = call /\ after' = after
            /\ acked' \subseteq 0..MaxCalls /\ mem' \in Nat /\ faults' \in 0..MaxFaults
        BY <1>3, <3>0, UndrainedTypes, DrainedTypes, FaultTypes DEF Goto, RestTypes
      <3> QED
        BY <1>3, <2>7, <3>1 DEF DrainStart, RestTypes, disk
    <2>8. CASE DrainEnd
      <3>1. /\ pc' \in {"idle", "closed", "rotate", "fsync"} /\ call' = call /\ after' = after
            /\ acked' \subseteq 0..MaxCalls /\ mem' \in Nat
        BY <2>8, ReturnFails, ReturnSucceeds, DrainedTypes DEF DrainEnd
      <3>2. reported' \in BOOLEAN
        BY <1>3, <2>8, Zenon DEF DrainEnd, Report, RestTypes
      <3> QED
        BY <1>3, <2>8, <3>1, <3>2 DEF DrainEnd, RestTypes, disk
    <2>9. CASE QueueFsyncs
      <3>1. /\ pc' \in {"idle", "closed", "fsyncwait"} /\ call' = call /\ after' = after
            /\ acked' \subseteq 0..MaxCalls /\ mem' \in Nat /\ faults' \in 0..MaxFaults
        BY <1>3, <2>9, QueueFsyncsEffect, ReturnFails, ReturnSucceeds, FaultTypes DEF Goto, RestTypes
      <3> QED
        BY <1>3, <2>9, <3>1 DEF QueueFsyncs, RestTypes, disk
    <2>10. CASE FsyncEnd
      <3>1. /\ pc' \in {"idle", "closed"} /\ call' = call /\ after' = after
            /\ acked' \subseteq 0..MaxCalls /\ mem' \in Nat
        BY <2>10, ReturnFails, ReturnSucceeds DEF FsyncEnd
      <3>2. reported' \in BOOLEAN
        BY <1>3, <2>10, Zenon DEF FsyncEnd, Report, RestTypes
      <3>3. unsynced' \in Nat
        <4>1. unsynced' \in {unsynced, 0}
          BY <2>10 DEF FsyncEnd
        <4> QED
          BY <1>3, <4>1 DEF RestTypes
      <3> QED
        BY <1>3, <2>10, <3>1, <3>2, <3>3 DEF FsyncEnd, RestTypes, disk
    <2>11. CASE Rotate
      <3>1. /\ pc' \in {"idle", "closed", "queue"} /\ call' = call /\ after' = after
            /\ acked' \subseteq 0..MaxCalls /\ mem' \in Nat /\ faults' \in 0..MaxFaults
        <4>1. CASE Fault("open") /\ Return(FALSE)
          BY <4>1, ReturnFails, FaultTypes
        <4>2. CASE pc' = "queue" /\ mem' = 0 /\ UNCHANGED <<call, after, acked, faults>>
          BY <1>3, <4>2 DEF RestTypes
        <4> QED
          BY <2>11, <4>1, <4>2 DEF Rotate
      <3>2. log' \in Nat /\ slots' \in Seq(0..MaxCalls) /\ unsynced' \in Nat
        <4>1. \/ log' = log + 1 /\ slots' = <<>> /\ unsynced' = 0
              \/ UNCHANGED <<log, slots, unsynced>>
          BY <2>11 DEF Rotate
        <4>2. log' \in Nat /\ unsynced' \in Nat
          BY <1>3, <4>1 DEF RestTypes
        <4>3. slots' \in Seq(0..MaxCalls)
          <5>1. slots \in Seq(0..MaxCalls) /\ <<>> \in Seq(0..MaxCalls)
            BY <1>3, EmptySeq DEF RestTypes
          <5> QED
            BY <4>1, <5>1, Zenon
        <4> QED
          BY <4>2, <4>3
      <3> QED
        BY <1>3, <2>11, <3>1, <3>2 DEF Rotate, RestTypes, disk
    <2>12. CASE Kernel
      <3>1. PICK e \in inflight : CompleteWrite(e) \/ CompleteFsync(e)
        BY <2>12 DEF Kernel
      <3>2. e.rec \in 0..MaxCalls
        BY DEF TypeOK, Sqe
      <3>3. faults' \in 0..MaxFaults
        BY <1>3, <3>1, FaultTypes DEF CompleteWrite, CompleteFsync, RestTypes
      <3>4. /\ cached' \subseteq 0..MaxCalls /\ durable' \subseteq cached'
            /\ failed' \subseteq 0..MaxCalls /\ torn' \subseteq 0..MaxCalls
        BY <1>3, <3>1, <3>2 DEF CompleteWrite, CompleteFsync, RestTypes
      <3> QED
        BY <1>3, <2>12, <3>3, <3>4 DEF Kernel, RestTypes, wal, control
    <2>13. CASE UNCHANGED vars
      BY <1>3, <2>13 DEF vars, RestTypes, wal, disk, control
    <2> QED
      BY <2>1, <2>2, <2>3, <2>4, <2>5, <2>6, <2>7, <2>8, <2>9, <2>10, <2>11, <2>12, <2>13
      DEF Next, Holder
  <1> QED
    BY <1>2, <1>4 DEF TypeOK, RestTypes

-----------------------------------------------------------------------------
(***************************************************************************)
(* Where a call is and what that says of the ring.                         *)
(***************************************************************************)

\* What a completion does to the ring and to nothing else in the program.
LEMMA KernelEffect ==
    ASSUME TypeOK, RingInOrder, partly' = FALSE, Kernel
    PROVE  \E e \in inflight, res \in {"ok", "error", "short"} :
             /\ CompleteWrite(e) \/ CompleteFsync(e)
             /\ Complete(e, res)
             /\ sq' = sq /\ inflight' = inflight \ {e} /\ Open' = Open \ {e}
             /\ HasError(cq') <=> HasError(cq) \/ res = "error"
             /\ UNCHANGED <<mode, log, slots, mem, token, pending, ringError, unsynced,
                            pc, call, after, acked, reported, calls>>
  <1>1. PICK e \in inflight : CompleteWrite(e) \/ CompleteFsync(e)
    BY DEF Kernel
  <1>2. PICK res \in {"ok", "error", "short"} : Complete(e, res)
    BY <1>1 DEF CompleteWrite, CompleteFsync
  <1>3. UNCHANGED <<mode, log, slots, mem, token, pending, ringError, unsynced,
                    pc, call, after, acked, reported, calls>>
    BY DEF Kernel, wal, control
  <1>4. /\ sq' = sq /\ inflight' = inflight \ {e} /\ Open' = Open \ {e}
        /\ Len(cq') = Len(cq) + 1 /\ cq'[Len(cq) + 1].res = res
        /\ \A i \in 1..Len(cq) : cq'[i] = cq[i]
    BY <1>2, <1>3, CompleteInOrder
  <1>5. Len(cq) \in Nat
    BY DEF TypeOK
  <1>6. HasError(cq') <=> HasError(cq) \/ res = "error"
    BY <1>4, <1>5 DEF HasError
  <1> QED
    BY <1>1, <1>2, <1>3, <1>4, <1>6

LEMMA NoErrorInEmpty == ~HasError(<<>>)
  BY DEF HasError

LEMMA PhaseStep ==
    ASSUME TypeOK, RingInOrder, partly' = FALSE, Phases, [Next]_vars
    PROVE  Phases'
  <1>1. CASE Put
    BY <1>1 DEF Put, Phases, RotateForFlush, BeforeQueue, Draining, ring
  <1>2. CASE ForceDurability
    BY <1>2 DEF ForceDurability, Phases, BeforeQueue, Draining, ring
  <1>3. CASE Close
    BY <1>3 DEF Close, Phases, BeforeQueue, Draining, ring
  <1>4. CASE QueueRecord
    <2>1. pc' \in {"reap", "idle", "closed"} /\ call' = call /\ call = "put"
      BY <1>4, QueueRecordEffect, ReturnFails DEF Goto, QueueRecord, Phases
    <2> QED
      BY <2>1 DEF Phases, BeforeQueue, Draining
  <1>5. CASE ReapSome
    BY <1>5 DEF ReapSome, Phases, BeforeQueue, Draining, Goto
  <1>6. CASE MaybeSync
    <2>1. \/ pc' \in {"idle", "closed"}
          \/ pc' = "drain" /\ after' = "fsync" /\ call' = "put"
      BY <1>6, ReturnFails, ReturnSucceeds DEF MaybeSync, DrainAndSync, Phases
    <2> QED
      BY <2>1 DEF Phases, BeforeQueue, Draining
  <1>7. CASE DrainStart
    <2>1. /\ call' = call /\ after' = after
          /\ \/ pc' \in {"idle", "closed", "undrained"}
             \/ sq' = <<>> /\ pc' = "drainwait"
             \/ /\ sq' = <<>> /\ inflight' = {} /\ cq' = <<>>
                /\ pc' = after /\ after \in {"rotate", "fsync"}
      BY <1>7, DrainStartEffect, UndrainedTypes, ReturnSucceeds DEF Drained, Goto, TypeOK
    <2>2. pc = "drain"
      BY <1>7 DEF DrainStart
    <2> QED
      BY <2>1, <2>2 DEF Phases, BeforeQueue, Draining
  <1>8. CASE DrainEnd
    <2>1. pc = "drainwait" /\ sq' = <<>> /\ inflight' = {} /\ cq' = <<>>
      BY <1>8, ReapInOrder, AllArrivedEmpties DEF DrainEnd, Phases
    <2>2. /\ call' = call /\ after' = after
          /\ \/ pc' \in {"idle", "closed"}
             \/ pc' = after /\ after \in {"rotate", "fsync"}
      BY <1>8, ReturnFails, ReturnSucceeds DEF DrainEnd, Drained, Goto, TypeOK
    <2> QED
      BY <2>1, <2>2 DEF Phases, BeforeQueue, Draining
  <1>9. CASE QueueFsyncs
    <2>1. /\ call' = call
          /\ \/ pc' \in {"idle", "closed"}
             \/ sq' = <<>> /\ pc' = "fsyncwait"
      <3>1. (sq' = <<>> /\ Goto("fsyncwait")) \/ Return(FALSE)
        BY <1>9, QueueFsyncsEffect
      <3> QED
        BY <3>1, ReturnFails DEF Goto
    <2>2. \A e \in inflight' : e.op = "fsync"
      <3>1. Open' \subseteq {WalSync, VlogSync}
        BY <1>9, QueueFsyncsEffect
      <3> QED
        BY <3>1 DEF WalSync, VlogSync, Open
    <2>3. call # "close"
      BY <1>9 DEF QueueFsyncs, Phases
    <2> QED
      BY <2>1, <2>2, <2>3 DEF Phases, BeforeQueue, Draining
  <1>10. CASE FsyncEnd
    <2>1. pc' \in {"idle", "closed"}
      BY <1>10, ReturnFails, ReturnSucceeds DEF FsyncEnd
    <2> QED
      BY <2>1 DEF Phases, BeforeQueue, Draining
  <1>11. CASE Rotate
    <2>1. \/ pc' \in {"idle", "closed"}
          \/ pc' = "queue" /\ call' = "put"
      BY <1>11, ReturnFails DEF Rotate, Phases
    <2> QED
      BY <2>1 DEF Phases, BeforeQueue, Draining
  <1>12. CASE Kernel
    <2>1. /\ sq' = sq /\ inflight' \subseteq inflight /\ inflight # {}
          /\ UNCHANGED <<pc, call, after>>
      BY <1>12, KernelEffect
    <2> QED
      BY <2>1 DEF Phases, BeforeQueue, Draining
  <1>13. CASE UNCHANGED vars
    BY <1>13 DEF vars, ring, control, Phases, BeforeQueue, Draining
  <1> QED
    BY <1>1, <1>2, <1>3, <1>4, <1>5, <1>6, <1>7, <1>8, <1>9, <1>10, <1>11, <1>12, <1>13
    DEF Next, Holder

-----------------------------------------------------------------------------
(***************************************************************************)
(* Descriptors and buffers.                                                *)
(***************************************************************************)

\* Reaping releases the buffers of completed writes only.
LEMMA ReapKeepsBuffers ==
    ASSUME TypeOK, RingInOrder, BuffersOutliveWrites,
           pending' = pending \ Tokens(cq), Open' = Open
    PROVE  BuffersOutliveWrites'
  <1>1. \A e \in Open, k \in 1..Len(cq) : cq[k].tok # e.tok
    <2>1. \A e \in Open : e \in inflight \/ \E i \in 1..Len(sq) : e = sq[i]
      BY ToSetIndex DEF Open, TypeOK
    <2>2. Distinct(sq, inflight, cq, token)
      BY DEF RingInOrder, RingAt
    <2> QED
      BY <2>1, <2>2 DEF Distinct
  <1>2. \A e \in Open : e.tok \notin Tokens(cq)
    BY <1>1 DEF Tokens
  <1> QED
    BY <1>2 DEF BuffersOutliveWrites

LEMMA DescriptorStep ==
    ASSUME TypeOK, log > 0, RingInOrder, partly' = FALSE, Phases, DescriptorsOpen, BuffersOutliveWrites,
           [Next]_vars
    PROVE  log' > 0 /\ DescriptorsOpen' /\ BuffersOutliveWrites'
  <1>1. CASE QueueRecord
    <2>1. log' = log
      BY <1>1 DEF QueueRecord
    <2>2. \/ Open' = Open \cup {NewWrite} /\ pending' = pending \cup {token + 1}
          \/ Open' = Open /\ pending' = pending
      BY <1>1, QueueRecordEffect
    <2>3. NewWrite.fd = log /\ NewWrite.tok = token + 1
      BY DEF NewWrite
    <2>4. pc' # "closed"
      <3>1. Goto("reap") \/ Return(FALSE)
        BY <1>1, QueueRecordEffect
      <3>2. call = "put"
        BY <1>1 DEF QueueRecord, Phases
      <3> QED
        BY <3>1, <3>2, ReturnFails DEF Goto
    <2> QED
      BY <2>1, <2>2, <2>3, <2>4 DEF DescriptorsOpen, BuffersOutliveWrites
  <1>2. CASE ReapSome
    <2>1. Open' = Open /\ log' = log /\ pending' = pending \ Tokens(cq) /\ pc' = "sync"
      BY <1>2, ReapInOrder DEF ReapSome, Goto
    <2> QED
      BY <2>1, ReapKeepsBuffers DEF DescriptorsOpen
  <1>3. CASE DrainEnd
    <2>1. Open' = Open /\ log' = log /\ pending' = pending \ Tokens(cq)
      BY <1>3, ReapInOrder DEF DrainEnd
    <2>2. sq = <<>> /\ inflight = {}
      BY <1>3, AllArrivedEmpties DEF DrainEnd, Phases
    <2>3. Open = {}
      BY <2>2, ToSetEmpty DEF Open
    <2> QED
      BY <2>1, <2>3, ReapKeepsBuffers DEF DescriptorsOpen
  <1>4. CASE FsyncEnd
    <2>1. Open' = Open /\ log' = log /\ pending' = pending
      BY <1>4, ReapInOrder DEF FsyncEnd
    <2>2. pc' # "closed"
      <3>1. Return(FALSE) \/ Return(TRUE)
        BY <1>4 DEF FsyncEnd
      <3>2. call # "close"
        BY <1>4 DEF FsyncEnd, Phases
      <3> QED
        BY <3>1, <3>2, ReturnFails, ReturnSucceeds
    <2> QED
      BY <2>1, <2>2 DEF DescriptorsOpen, BuffersOutliveWrites
  <1>5. CASE DrainStart
    <2>1. Open' = Open /\ log' = log /\ pending' = pending
      BY <1>5, DrainStartEffect DEF DrainStart
    <2>2. pc' = "closed" => Open' = {}
      <3>1. \/ sq' = <<>> /\ inflight' = {}
            \/ Goto("drainwait")
            \/ Undrained
        BY <1>5, DrainStartEffect
      <3>2. Undrained => pc' # "closed"
        <4>1. call = "close" <=> after = "close"
          BY <1>5 DEF DrainStart, Phases, Draining
        <4> QED
          BY <4>1, UndrainedTypes
      <3> QED
        BY <3>1, <3>2, ToSetEmpty DEF Goto, Open
    <2> QED
      BY <2>1, <2>2 DEF DescriptorsOpen, BuffersOutliveWrites
  <1>6. CASE QueueFsyncs
    <2>1. log' = log /\ Open' \subseteq {WalSync, VlogSync}
      BY <1>6, QueueFsyncsEffect DEF QueueFsyncs
    <2>2. \A e \in {WalSync, VlogSync} : e.op = "fsync" /\ e.fd \in {0, log}
      BY DEF WalSync, VlogSync
    <2>3. pc' # "closed"
      <3>1. Return(FALSE) \/ Goto("fsyncwait")
        BY <1>6, QueueFsyncsEffect
      <3>2. call # "close"
        BY <1>6 DEF QueueFsyncs, Phases
      <3> QED
        BY <3>1, <3>2, ReturnFails DEF Goto
    <2> QED
      BY <2>1, <2>2, <2>3 DEF DescriptorsOpen, BuffersOutliveWrites
  <1>7. CASE Rotate
    <2>1. Open' = {} /\ log' \in {log, log + 1}
      BY <1>7, ToSetEmpty DEF Rotate, ring, Phases, Open
    <2>2. log' > 0
      BY <2>1 DEF TypeOK
    <2> QED
      BY <2>1, <2>2 DEF DescriptorsOpen, BuffersOutliveWrites
  <1>8. CASE Kernel
    <2>1. Open' \subseteq Open /\ log' = log /\ pending' = pending /\ pc' = pc
      BY <1>8, KernelEffect
    <2> QED
      BY <2>1 DEF DescriptorsOpen, BuffersOutliveWrites
  <1>9. CASE Put \/ ForceDurability \/ Close \/ MaybeSync \/ UNCHANGED vars
    <2>1. UNCHANGED <<sq, inflight, log, pending>>
      BY <1>9 DEF Put, ForceDurability, Close, MaybeSync, vars, ring, wal
    <2>2. Open' = Open
      BY <2>1 DEF Open
    <2>3. pc' = "closed" => pc = "closed"
      <3>1. CASE MaybeSync
        <4>1. Return(FALSE) \/ Return(TRUE) \/ pc' = "drain"
          BY <3>1 DEF MaybeSync, DrainAndSync
        <4>2. call = "put"
          BY <3>1 DEF MaybeSync, Phases
        <4> QED
          BY <4>1, <4>2, ReturnFails, ReturnSucceeds
      <3>2. CASE Put \/ ForceDurability \/ Close \/ UNCHANGED vars
        BY <3>2 DEF Put, ForceDurability, Close, RotateForFlush, vars, control
      <3> QED
        BY <1>9, <3>1, <3>2
    <2> QED
      BY <2>1, <2>2, <2>3 DEF DescriptorsOpen, BuffersOutliveWrites
  <1> QED
    BY <1>1, <1>2, <1>3, <1>4, <1>5, <1>6, <1>7, <1>8, <1>9 DEF Next, Holder

-----------------------------------------------------------------------------
(***************************************************************************)
(* Records.                                                                *)
(***************************************************************************)

LEMMA OpenTypes ==
    ASSUME TypeOK
    PROVE  Open \subseteq Sqe /\ \A e \in Open : e.rec \in Nat /\ e.rec \in 0..MaxCalls
  <1>1. Open \subseteq Sqe
    BY ToSetIndex DEF TypeOK, Open
  <1>2. \A e \in Sqe : e.rec \in 0..MaxCalls
    BY DEF Sqe
  <1> QED
    BY <1>1, <1>2

\* A drain that succeeds acknowledges nothing.
LEMMA DrainedAcksNothing ==
    ASSUME TypeOK, Phases, pc \in Draining, Drained
    PROVE  /\ UNCHANGED <<call, after, acked>>
           /\ \/ pc' \in {"idle", "closed"}
              \/ pc' = after /\ after \in {"rotate", "fsync"}
  <1>1. CASE after = "close"
    <2>1. call = "close" /\ Return(TRUE)
      BY <1>1 DEF Phases, Drained
    <2> QED
      BY <2>1, ReturnSucceeds
  <1>2. CASE after # "close"
    BY <1>2 DEF Drained, Goto, TypeOK
  <1> QED
    BY <1>1, <1>2

\* What a drain does outside the ring.
LEMMA DrainEffect ==
    ASSUME TypeOK, RingInOrder, partly' = FALSE, Phases, DrainStart \/ DrainEnd
    PROVE  /\ Open' = Open /\ pc \in Draining
           /\ UNCHANGED <<mode, log, slots, ringError, call, after, acked, calls>>
           /\ UNCHANGED <<cached, durable, failed, torn>>
           /\ \/ pc' \in {"idle", "closed", "undrained"}
              \/ pc' = "drainwait" /\ cq' = cq
              \/ pc' = after /\ after \in {"rotate", "fsync"} /\ ~HasError(cq)
  <1>1. CASE DrainStart
    <2>1. /\ pc \in Draining
          /\ UNCHANGED <<mode, log, slots, ringError, calls, cached, durable, failed, torn>>
      BY <1>1 DEF DrainStart, Draining, disk
    <2>2. /\ Open' = Open /\ cq' = cq
          /\ \/ cq' = <<>> /\ Drained
             \/ Goto("drainwait")
             \/ Undrained
      BY <1>1, DrainStartEffect
    <2>3. CASE cq' = <<>> /\ Drained
      BY <2>1, <2>2, <2>3, DrainedAcksNothing, NoErrorInEmpty
    <2>4. CASE Goto("drainwait")
      BY <2>1, <2>2, <2>4 DEF Goto
    <2>5. CASE Undrained
      BY <2>1, <2>2, <2>5, UndrainedTypes
    <2> QED
      BY <2>2, <2>3, <2>4, <2>5
  <1>2. CASE DrainEnd
    <2>1. /\ pc \in Draining /\ Open' = Open
          /\ UNCHANGED <<mode, log, slots, ringError, calls, cached, durable, failed, torn>>
      BY <1>2, ReapInOrder DEF DrainEnd, Draining, Phases, disk
    <2>2. CASE HasError(cq)
      BY <1>2, <2>1, <2>2, ReturnFails DEF DrainEnd
    <2>3. CASE ~HasError(cq)
      BY <1>2, <2>1, <2>3, DrainedAcksNothing DEF DrainEnd
    <2> QED
      BY <2>2, <2>3
  <1> QED
    BY <1>1, <1>2

\* What WriteEntry does outside the ring.
LEMMA QueueRecordRest ==
    ASSUME TypeOK, RingInOrder, partly' = FALSE, Phases, QueueRecord
    PROVE  /\ pc = "queue" /\ call = "put" /\ cq' = cq
           /\ pc' \in {"reap", "idle"}
           /\ UNCHANGED <<mode, log, ringError, call, after, acked, reported, calls>>
           /\ UNCHANGED <<cached, durable, failed, torn>>
           /\ \/ Open' = Open \cup {NewWrite} /\ slots' = Append(slots, calls)
              \/ Open' = Open /\ slots' = slots
  <1>1. /\ pc = "queue" /\ call = "put"
        /\ UNCHANGED <<mode, log, ringError, reported, calls, cached, durable, failed, torn>>
    BY DEF QueueRecord, Phases, disk
  <1>2. Goto("reap") \/ Return(FALSE)
    BY QueueRecordEffect
  <1>3. pc' \in {"reap", "idle"} /\ UNCHANGED <<call, after, acked>>
    BY <1>1, <1>2, ReturnFails DEF Goto
  <1> QED
    BY <1>1, <1>3, QueueRecordEffect

\* What SyncViaRing does outside the ring.
LEMMA QueueFsyncsRest ==
    ASSUME TypeOK, RingInOrder, partly' = FALSE, Phases, QueueFsyncs
    PROVE  /\ pc = "fsync" /\ cq' = cq /\ Open = {}
           /\ \A e \in Open' : e.op = "fsync" /\ e.rec = 0
           /\ UNCHANGED <<mode, log, slots, ringError, call, after, acked, reported, calls>>
           /\ UNCHANGED <<cached, durable, failed, torn>>
           /\ \/ pc' \in {"idle", "closed"}
              \/ pc' = "fsyncwait" /\ WalSync \in inflight'
  <1>1. /\ pc = "fsync"
        /\ UNCHANGED <<mode, log, slots, ringError, reported, calls, cached, durable, failed, torn>>
    BY DEF QueueFsyncs, disk
  <1>2. Open = {}
    BY <1>1, ToSetEmpty DEF Phases, Open
  <1>3. \A e \in {WalSync, VlogSync} : e.op = "fsync" /\ e.rec = 0
    BY DEF WalSync, VlogSync
  <1>4. /\ UNCHANGED <<call, after, acked>>
        /\ \/ pc' \in {"idle", "closed"}
           \/ pc' = "fsyncwait" /\ WalSync \in inflight'
    BY QueueFsyncsEffect, ReturnFails DEF Goto
  <1> QED
    BY <1>1, <1>2, <1>3, <1>4, QueueFsyncsEffect

LEMMA NumberedStep ==
    ASSUME TypeOK, RingInOrder, partly' = FALSE, Phases, Numbered, [Next]_vars
    PROVE  Numbered'
  <1>1. CASE Put \/ ForceDurability
    <2>1. /\ calls' = calls + 1 /\ UNCHANGED <<failed, acked>> /\ Open' = Open
      BY <1>1 DEF Put, ForceDurability, ring, disk, Open
    <2>2. /\ \A r \in failed \cup acked : r \in Nat /\ r <= calls
          /\ \A e \in Open : e.rec \in Nat /\ e.rec <= calls
          /\ calls \in Nat
      BY OpenTypes DEF TypeOK, Numbered
    <2>3. /\ \A r \in failed \cup acked : r <= calls + 1 /\ r # calls + 1
          /\ \A e \in Open : e.rec <= calls + 1 /\ e.rec # calls + 1
      BY <2>2
    <2> QED
      BY <2>1, <2>3 DEF Numbered
  <1>2. CASE Close
    BY <1>2 DEF Close, Numbered, ring, disk, Open, BeforeQueue, Draining
  <1>3. CASE QueueRecord
    <2>1. /\ call' = "put" /\ pc' \in {"reap", "idle"} /\ calls \notin acked
          /\ UNCHANGED <<calls, failed, acked>>
      BY <1>3, QueueRecordRest DEF Numbered
    <2>2. \A e \in Open' : e \in Open \/ e.rec = calls
      <3>1. Open' = Open \cup {NewWrite} \/ Open' = Open
        BY <1>3, QueueRecordRest
      <3> QED
        BY <3>1 DEF NewWrite
    <2>3. calls <= calls
      BY DEF TypeOK
    <2> QED
      BY <2>1, <2>2, <2>3 DEF Numbered, BeforeQueue, Draining
  <1>4. CASE ReapSome
    <2>1. /\ Open' = Open /\ pc = "reap" /\ pc' = "sync"
          /\ UNCHANGED <<call, calls, failed, acked>>
      BY <1>4, ReapInOrder DEF ReapSome, Goto, disk
    <2> QED
      BY <2>1 DEF Numbered, BeforeQueue, Draining
  <1>5. CASE MaybeSync
    <2>1. /\ pc = "sync" /\ Open' = Open /\ UNCHANGED <<calls, failed>> /\ call' = call
          /\ \/ pc' \in {"idle", "closed"} /\ acked' \subseteq acked \cup {calls}
             \/ pc' = "drain" /\ after' = "fsync" /\ acked' = acked
      BY <1>5, ReturnFails, ReturnSucceeds DEF MaybeSync, DrainAndSync, ring, disk, Open
    <2>2. calls <= calls
      BY DEF TypeOK
    <2> QED
      BY <2>1, <2>2 DEF Numbered, BeforeQueue, Draining
  <1>6. CASE DrainStart \/ DrainEnd
    BY <1>6, DrainEffect DEF Numbered, BeforeQueue, Draining
  <1>7. CASE QueueFsyncs
    <2>1. 0 <= calls
      BY DEF TypeOK
    <2> QED
      BY <1>7, <2>1, QueueFsyncsRest DEF Numbered, BeforeQueue, Draining
  <1>8. CASE FsyncEnd
    <2>1. /\ Open' = Open /\ UNCHANGED <<calls, failed>>
          /\ pc' \in {"idle", "closed"} /\ acked' \subseteq acked \cup {calls}
      BY <1>8, ReapInOrder, ReturnFails, ReturnSucceeds DEF FsyncEnd, disk
    <2>2. calls <= calls
      BY DEF TypeOK
    <2> QED
      BY <2>1, <2>2 DEF Numbered, BeforeQueue, Draining
  <1>9. CASE Rotate
    <2>1. /\ pc = "rotate" /\ call = "put" /\ Open' = Open /\ pc' \in {"idle", "queue", "closed"}
          /\ UNCHANGED <<call, calls, failed, acked>>
      BY <1>9, ReturnFails DEF Rotate, Phases, ring, disk, Open
    <2> QED
      BY <2>1 DEF Numbered, BeforeQueue, Draining
  <1>10. CASE Kernel
    <2>1. PICK e \in inflight :
             /\ CompleteWrite(e) \/ CompleteFsync(e)
             /\ Open' = Open \ {e}
             /\ UNCHANGED <<pc, call, after, acked, calls>>
      BY <1>10, KernelEffect
    <2>2. e \in Open /\ (failed' = failed \/ (e.op = "write" /\ failed' = failed \cup {e.rec}))
      BY <2>1 DEF Open, CompleteWrite, CompleteFsync
    <2> QED
      BY <2>1, <2>2 DEF Numbered, BeforeQueue, Draining
  <1>11. CASE UNCHANGED vars
    BY <1>11 DEF vars, ring, disk, control, Numbered, BeforeQueue, Draining, Open
  <1> QED
    BY <1>1, <1>2, <1>3, <1>4, <1>5, <1>6, <1>7, <1>8, <1>9, <1>10, <1>11 DEF Next, Holder

\* The steps that leave slots, disk and open submissions alone.
LEMMA QuietSteps ==
    ASSUME TypeOK, RingInOrder, partly' = FALSE, Phases,
           \/ Put \/ ForceDurability \/ Close \/ ReapSome \/ MaybeSync
           \/ DrainStart \/ DrainEnd \/ FsyncEnd \/ UNCHANGED vars
    PROVE  Open' = Open /\ UNCHANGED <<mode, log, slots, cached, durable, failed, torn>>
  <1>1. CASE Put \/ ForceDurability \/ Close \/ MaybeSync \/ UNCHANGED vars
    BY <1>1 DEF Put, ForceDurability, Close, MaybeSync, vars, ring, wal, disk, Open
  <1>2. CASE ReapSome \/ FsyncEnd
    <2>1. ReapAll /\ UNCHANGED <<token, mode, log, slots, cached, durable, failed, torn>>
      BY <1>2 DEF ReapSome, FsyncEnd, disk
    <2> QED
      BY <2>1, ReapInOrder
  <1>3. CASE DrainStart \/ DrainEnd
    BY <1>3, DrainEffect
  <1> QED
    BY <1>1, <1>2, <1>3

LEMMA PlacedStep ==
    ASSUME TypeOK, RingInOrder, partly' = FALSE, Phases, Placed, [Next]_vars
    PROVE  Placed'
  <1>1. CASE QueueRecord
    <2>1. CASE Open' = Open \cup {NewWrite} /\ slots' = Append(slots, calls)
      <3>1. NewWrite.op = "write" /\ NewWrite.rec = calls
        BY DEF NewWrite
      <3>2. /\ Len(slots') = Len(slots) + 1 /\ slots'[Len(slots) + 1] = calls
            /\ \A i \in 1..Len(slots) : slots'[i] = slots[i]
            /\ \A i \in 1..Len(slots') : i \in 1..Len(slots) \/ i = Len(slots) + 1
        BY <2>1 DEF TypeOK
      <3>3. UNCHANGED <<cached, failed, torn>>
        BY <1>1, QueueRecordRest
      <3> QED
        BY <2>1, <3>1, <3>2, <3>3 DEF Placed
    <2>2. CASE Open' = Open /\ slots' = slots
      BY <1>1, <2>2, QueueRecordRest DEF Placed
    <2> QED
      BY <1>1, <2>1, <2>2, QueueRecordRest
  <1>2. CASE QueueFsyncs
    BY <1>2, QueueFsyncsRest DEF Placed
  <1>3. CASE Rotate
    <2>1. /\ slots' = slots \/ slots' = <<>>
          /\ Open' = Open /\ UNCHANGED <<cached, failed, torn>>
      BY <1>3 DEF Rotate, ring, disk, Open
    <2>2. \A i \in 1..Len(<<>>) : FALSE
      OBVIOUS
    <2> QED
      BY <2>1, <2>2 DEF Placed
  <1>4. CASE Kernel
    <2>1. PICK e \in inflight :
             /\ CompleteWrite(e) \/ CompleteFsync(e)
             /\ Open' = Open \ {e} /\ slots' = slots
      BY <1>4, KernelEffect
    <2>2. /\ cached \subseteq cached' /\ failed \subseteq failed' /\ torn \subseteq torn'
          /\ e.op = "write" => e.rec \in cached' \cup failed' \cup torn'
      BY <2>1 DEF CompleteWrite, CompleteFsync
    <2> QED
      BY <2>1, <2>2 DEF Placed
  <1>5. CASE \/ Put \/ ForceDurability \/ Close \/ ReapSome \/ MaybeSync
             \/ DrainStart \/ DrainEnd \/ FsyncEnd \/ UNCHANGED vars
    BY <1>5, QuietSteps DEF Placed
  <1> QED
    BY <1>1, <1>2, <1>3, <1>4, <1>5 DEF Next, Holder

LEMMA ErrorArrives ==
    ASSUME TypeOK, RingInOrder, partly' = FALSE, NEW e \in inflight, Complete(e, "error"), UNCHANGED token
    PROVE  HasError(cq')
  <1>1. Len(cq) \in Nat
    BY DEF TypeOK
  <1>2. Len(cq') = Len(cq) + 1 /\ cq'[Len(cq) + 1].res = "error"
    BY CompleteInOrder
  <1>3. Len(cq) + 1 \in 1..Len(cq')
    BY <1>1, <1>2
  <1> QED
    BY <1>2, <1>3 DEF HasError

LEMMA ErrorAheadStep ==
    ASSUME TypeOK, RingInOrder, partly' = FALSE, Phases, Numbered, ErrorAhead, [Next]_vars
    PROVE  ErrorAhead'
  <1>0. Numbered'
    BY NumberedStep
  <1>1. CASE Put
    <2>1. \/ pc' = "queue"
          \/ pc' = "drain" /\ BeforeQueue'
      BY <1>1 DEF Put, RotateForFlush, BeforeQueue, Draining
    <2> QED
      BY <1>0, <2>1 DEF Numbered, ErrorAhead, Draining
  <1>2. CASE ForceDurability \/ Close
    BY <1>2 DEF ForceDurability, Close, ErrorAhead, Draining
  <1>3. CASE QueueRecord
    <2>1. calls \notin failed
      BY <1>3, QueueRecordRest DEF Numbered, BeforeQueue
    <2> QED
      BY <1>3, <2>1, QueueRecordRest DEF ErrorAhead, Draining
  <1>4. CASE ReapSome
    <2>1. /\ pc = "reap" /\ pc' = "sync" /\ UNCHANGED <<calls, failed>>
          /\ HasError(cq) => ringError'
          /\ ringError => ringError'
      BY <1>4 DEF ReapSome, Goto, disk
    <2> QED
      BY <2>1 DEF ErrorAhead, Draining
  <1>5. CASE MaybeSync
    <2>1. /\ pc = "sync" /\ UNCHANGED <<cq, calls, failed>>
          /\ \/ pc' \in {"idle", "closed"}
             \/ pc' = "drain" /\ mode # "never" /\ ~ringError
             \/ pc' = "drain" /\ mode = "never" /\ NeedSync
      BY <1>5, ReturnFails, ReturnSucceeds DEF MaybeSync, DrainAndSync, ring, disk
    <2>2. NeedSync => mode # "never"
      BY DEF NeedSync
    <2> QED
      BY <2>1, <2>2 DEF ErrorAhead, Draining
  <1>6. CASE DrainStart \/ DrainEnd
    BY <1>6, DrainEffect DEF ErrorAhead, Draining
  <1>7. CASE QueueFsyncs
    BY <1>7, QueueFsyncsRest DEF ErrorAhead, Draining
  <1>8. CASE FsyncEnd \/ Rotate
    <2>1. pc' \in {"idle", "closed", "queue"}
      BY <1>8, ReturnFails, ReturnSucceeds DEF FsyncEnd, Rotate
    <2> QED
      BY <2>1 DEF ErrorAhead, Draining
  <1>9. CASE Kernel
    <2>1. PICK e \in inflight, res \in {"ok", "error", "short"} :
             /\ CompleteWrite(e) \/ CompleteFsync(e)
             /\ Complete(e, res)
             /\ HasError(cq') <=> HasError(cq) \/ res = "error"
             /\ UNCHANGED <<pc, call, ringError, calls>>
      BY <1>9, KernelEffect
    <2>2. CASE failed' = failed
      BY <2>1, <2>2 DEF ErrorAhead, Draining
    <2>3. CASE failed' # failed
      <3>1. e.op = "write" /\ HasError(cq')
        <4>1. e.op = "write" /\ Complete(e, "error")
          BY <2>1, <2>3 DEF CompleteWrite, CompleteFsync
        <4>2. UNCHANGED token
          BY <1>9 DEF Kernel, wal
        <4> QED
          BY <4>1, <4>2, ErrorArrives
      <3>2. pc \notin {"fsync", "fsyncwait"}
        BY <3>1 DEF Phases
      <3> QED
        BY <2>1, <3>1, <3>2 DEF ErrorAhead, Draining
    <2> QED
      BY <2>2, <2>3
  <1>10. CASE UNCHANGED vars
    BY <1>10 DEF vars, ring, wal, disk, control, ErrorAhead, Draining
  <1> QED
    BY <1>1, <1>2, <1>3, <1>4, <1>5, <1>6, <1>7, <1>8, <1>9, <1>10 DEF Next, Holder

LEMMA SyncAheadStep ==
    ASSUME TypeOK, log > 0, RingInOrder, partly' = FALSE, Phases, SyncAhead, [Next]_vars
    PROVE  SyncAhead'
  <1>1. CASE QueueFsyncs
    <2>1. WalSync.fd = log
      BY DEF WalSync
    <2>2. log' = log /\ (pc' \in {"idle", "closed"} \/ WalSync \in inflight')
      BY <1>1, QueueFsyncsRest
    <2> QED
      BY <2>1, <2>2 DEF SyncAhead
  <1>2. CASE Kernel
    <2> SUFFICES ASSUME pc' = "fsyncwait"
                 PROVE  \/ \E f \in inflight' : f.fd = log'
                        \/ HasError(cq')
                        \/ \A i \in 1..Len(slots') : slots'[i] \in cached' => slots'[i] \in durable'
      BY DEF SyncAhead
    <2>1. PICK e \in inflight, res \in {"ok", "error", "short"} :
             /\ CompleteWrite(e) \/ CompleteFsync(e)
             /\ Complete(e, res)
             /\ inflight' = inflight \ {e}
             /\ HasError(cq') <=> HasError(cq) \/ res = "error"
             /\ UNCHANGED <<pc, log, slots>>
      BY <1>2, KernelEffect
    <2>2. CompleteFsync(e) /\ UNCHANGED cached
      BY <2>1 DEF Phases, CompleteWrite, CompleteFsync
    <2>3. CASE HasError(cq')
      BY <2>3
    <2>4. CASE ~HasError(cq') /\ e.fd = log
      <3>1. Complete(e, "error") => HasError(cq')
        <4>1. UNCHANGED token
          BY <1>2 DEF Kernel, wal
        <4> QED
          BY <4>1, ErrorArrives
      <3>2. e.fd # 0
        BY <2>4 DEF TypeOK
      <3>3. durable' = durable \cup (cached \cap ToSet(slots))
        BY <2>2, <2>4, <3>1, <3>2 DEF CompleteFsync
      <3>4. \A i \in 1..Len(slots) : slots[i] \in ToSet(slots)
        BY ToSetIndex DEF TypeOK
      <3> QED
        BY <2>1, <2>2, <3>3, <3>4
    <2>5. CASE ~HasError(cq') /\ e.fd # log
      <3>1. durable \subseteq durable'
        BY <2>2 DEF CompleteFsync
      <3> QED
        BY <2>1, <2>2, <2>5, <3>1 DEF SyncAhead
    <2> QED
      BY <2>3, <2>4, <2>5
  <1>3. CASE UNCHANGED vars
    BY <1>3 DEF vars, ring, wal, disk, control, SyncAhead
  <1>4. CASE \/ Put \/ ForceDurability \/ Close \/ QueueRecord \/ ReapSome \/ MaybeSync
             \/ DrainStart \/ DrainEnd \/ FsyncEnd \/ Rotate
    <2>1. CASE Put \/ ForceDurability \/ Close \/ ReapSome
      BY <2>1 DEF Put, ForceDurability, Close, ReapSome, RotateForFlush, Goto, SyncAhead
    <2>2. CASE QueueRecord
      BY <2>2, QueueRecordRest DEF SyncAhead
    <2>3. CASE DrainStart \/ DrainEnd
      BY <2>3, DrainEffect DEF SyncAhead
    <2>4. CASE MaybeSync \/ FsyncEnd \/ Rotate
      <3>1. pc' \in {"idle", "closed", "drain", "queue"}
        BY <2>4, ReturnFails, ReturnSucceeds DEF MaybeSync, FsyncEnd, Rotate, DrainAndSync
      <3> QED
        BY <3>1 DEF SyncAhead
    <2> QED
      BY <1>4, <2>1, <2>2, <2>3, <2>4
  <1> QED
    BY <1>1, <1>2, <1>3, <1>4 DEF Next, Holder

-----------------------------------------------------------------------------
(***************************************************************************)
(* Acknowledged records.                                                   *)
(***************************************************************************)

\* When SyncViaRing returns Ok, every record of the live log is on the
\* device, has failed or is torn, and the record of the Put has not failed.
LEMMA SyncedLog ==
    ASSUME TypeOK, RingInOrder, partly' = FALSE, Phases, Placed, ErrorAhead, SyncAhead,
           FsyncEnd, ~HasError(cq)
    PROVE  /\ \A i \in 1..Len(slots) : slots[i] \in durable \cup failed \cup torn
           /\ call = "put" => calls \notin failed
  <1>1. pc = "fsyncwait" /\ inflight = {} /\ sq = <<>>
    BY AllArrivedEmpties DEF FsyncEnd, Phases
  <1>2. Open = {}
    BY <1>1, ToSetEmpty DEF Open
  <1>3. \A i \in 1..Len(slots) : slots[i] \in cached \cup failed \cup torn
    BY <1>2 DEF Placed
  <1>4. \A i \in 1..Len(slots) : slots[i] \in cached => slots[i] \in durable
    BY <1>1 DEF SyncAhead
  <1> QED
    BY <1>1, <1>3, <1>4 DEF ErrorAhead

LEMMA AckedPrefixStep ==
    ASSUME TypeOK, RingInOrder, partly' = FALSE, Phases, Numbered, Placed, ErrorAhead, SyncAhead, AckedPrefix,
           [Next]_vars
    PROVE  AckedPrefix'
  <1>1. CASE QueueRecord
    <2>1. calls \notin acked
      BY <1>1, QueueRecordRest DEF Numbered
    <2>2. UNCHANGED <<mode, acked, durable, failed, torn>>
      BY <1>1, QueueRecordRest
    <2>3. CASE slots' = Append(slots, calls)
      <3>1. /\ slots'[Len(slots) + 1] = calls
            /\ \A i \in 1..Len(slots) : slots'[i] = slots[i]
            /\ \A i \in 1..Len(slots') : i \in 1..Len(slots) \/ i = Len(slots) + 1
            /\ \A i \in 1..Len(slots) : \A j \in 1..i : j \in 1..Len(slots)
        BY <2>3 DEF TypeOK
      <3> QED
        BY <2>1, <2>2, <3>1 DEF AckedPrefix
    <2>4. CASE slots' = slots
      BY <2>2, <2>4 DEF AckedPrefix
    <2> QED
      BY <1>1, <2>3, <2>4, QueueRecordRest
  <1>2. CASE MaybeSync
    <2>1. UNCHANGED <<mode, slots, durable, failed, torn>>
      BY <1>2, QuietSteps
    <2>2. mode = "always" => acked' = acked
      BY <1>2, ReturnFails DEF MaybeSync, NeedSync
    <2> QED
      BY <2>1, <2>2 DEF AckedPrefix
  <1>3. CASE FsyncEnd
    <2>1. UNCHANGED <<mode, slots, durable, failed, torn>>
      BY <1>3, QuietSteps
    <2>2. CASE HasError(cq)
      <3>1. acked' = acked
        BY <1>3, <2>2, ReturnFails DEF FsyncEnd
      <3> QED
        BY <2>1, <3>1 DEF AckedPrefix
    <2>3. CASE ~HasError(cq)
      <3>1. acked' = IF call = "put" THEN acked \cup {calls} ELSE acked
        BY <1>3, <2>3, ReturnSucceeds DEF FsyncEnd
      <3>2. /\ \A i \in 1..Len(slots) : slots[i] \in durable \cup failed \cup torn
            /\ call = "put" => calls \notin failed
        BY <1>3, <2>3, SyncedLog
      <3>3. \A i \in 1..Len(slots) : \A j \in 1..i : j \in 1..Len(slots)
        BY DEF TypeOK
      <3> QED
        BY <2>1, <3>1, <3>2, <3>3 DEF AckedPrefix
    <2> QED
      BY <2>2, <2>3
  <1>4. CASE Rotate
    <2>1. /\ slots' = slots \/ slots' = <<>>
          /\ UNCHANGED <<mode, acked, durable, failed, torn>>
      BY <1>4, ReturnFails DEF Rotate, disk
    <2>2. \A i \in 1..Len(<<>>) : FALSE
      OBVIOUS
    <2> QED
      BY <2>1, <2>2 DEF AckedPrefix
  <1>5. CASE Kernel
    <2>1. PICK e \in inflight :
             /\ CompleteWrite(e) \/ CompleteFsync(e)
             /\ UNCHANGED <<mode, slots, acked>>
      BY <1>5, KernelEffect
    <2>2. durable \subseteq durable' /\ failed \subseteq failed' /\ torn \subseteq torn'
      BY <2>1 DEF CompleteWrite, CompleteFsync
    <2> QED
      BY <2>1, <2>2 DEF AckedPrefix
  <1>6. CASE DrainStart \/ DrainEnd
    BY <1>6, DrainEffect DEF AckedPrefix
  <1>7. CASE QueueFsyncs
    BY <1>7, QueueFsyncsRest DEF AckedPrefix
  <1>8. CASE Put \/ ForceDurability \/ Close \/ ReapSome \/ UNCHANGED vars
    <2>1. acked' = acked
      BY <1>8 DEF Put, ForceDurability, Close, ReapSome, Goto, vars
    <2> QED
      BY <1>8, <2>1, QuietSteps DEF AckedPrefix
  <1> QED
    BY <1>1, <1>2, <1>3, <1>4, <1>5, <1>6, <1>7, <1>8 DEF Next, Holder

-----------------------------------------------------------------------------
(***************************************************************************)
(* The invariant.                                                          *)
(***************************************************************************)

LEMMA InitInv ==
    ASSUME Init
    PROVE  Inv
  <1>1. \A i \in 1..Len(<<>>) : FALSE
    OBVIOUS
  <1>2. RingInOrder
    <2>1. IsFiniteSet({}) /\ Cardinality({}) = 0
      BY FS_EmptySet
    <2>2. <<>> \in Seq(Sqe) /\ <<>> \in Seq(Cqe) /\ Len(<<>>) = 0 /\ 0 <= Entries
      BY RingAssumption
    <2>3. Distinct(<<>>, {}, <<>>, 0)
      BY <1>1 DEF Distinct
    <2>4. 0 = Cardinality({}) + Len(<<>>)
      BY <2>1, <2>2
    <2> QED
      BY <2>1, <2>2, <2>3, <2>4 DEF Init, RingInit, RingInOrder, RingAt
  <1>3. TypeOK
    <2>1. calls \in 0..MaxCalls /\ faults \in 0..MaxFaults /\ log \in Nat
          /\ mem \in Nat /\ unsynced \in Nat /\ token \in Nat
      BY AsyncWalAssumption, SMT DEF Init
    <2>2. ringError \in BOOLEAN /\ reported \in BOOLEAN
      BY Zenon DEF Init
    <2>3. slots \in Seq(0..MaxCalls)
      BY EmptySeq DEF Init
    <2>4. /\ sq \in Seq(Sqe) /\ Len(sq) <= Entries /\ inflight \subseteq Sqe
          /\ cq \in Seq([tok : Nat, res : {"ok", "error", "short"}])
          /\ queued \in Nat /\ outstanding \in Nat
      BY <1>2, RingTypes DEF RingInOrder
    <2> QED
      BY <2>1, <2>2, <2>3, <2>4 DEF Init, TypeOK
  <1>4. Open = {} /\ log > 0
    BY ToSetEmpty DEF Init, RingInit, Open
  <1>5. Phases /\ DescriptorsOpen /\ BuffersOutliveWrites
    BY <1>4 DEF Init, Phases, BeforeQueue, Draining, DescriptorsOpen, BuffersOutliveWrites
  <1>6. Numbered /\ Placed /\ ErrorAhead /\ SyncAhead
    BY <1>1, <1>4 DEF Init, Numbered, Placed, ErrorAhead, SyncAhead, BeforeQueue, Draining
  <1>7. AckedPrefix
    BY <1>1 DEF Init, AckedPrefix
  <1> QED
    BY <1>2, <1>3, <1>4, <1>5, <1>6, <1>7 DEF Inv

\* Inv is inductive as long as no batch is taken in part.
LEMMA InvStep == Inv /\ partly' = FALSE /\ [Next]_vars => Inv'
  BY TypeStep, RingStep, PhaseStep, DescriptorStep, NumberedStep, PlacedStep,
     ErrorAheadStep, SyncAheadStep, AckedPrefixStep DEF Inv

\* What was taken in part stays so.
LEMMA PartlyStays ==
    ASSUME partly \in BOOLEAN, [Next]_vars
    PROVE  partly' \in BOOLEAN /\ (partly => partly')
  <1>1. ASSUME NEW q, NEW n, Submits(q, n) \/ SubmitsLess(q, n) \/ SubmitFails(q, n)
        PROVE  partly' \in BOOLEAN /\ (partly => partly')
    BY <1>1, Zenon DEF Submits, SubmitsLess, SubmitFails
  <1>2. CASE QueueRecord
    <2>1. \/ \E q, n : Submits(q, n) \/ SubmitsLess(q, n) \/ SubmitFails(q, n)
          \/ partly' = partly
      BY <1>2, Zenon DEF QueueRecord
    <2> QED
      BY <1>1, <2>1, Zenon
  <1>3. CASE DrainStart
    <2>1. \/ \E q, n : Submits(q, n) \/ SubmitsLess(q, n) \/ SubmitFails(q, n)
          \/ partly' = partly
      BY <1>3 DEF DrainStart
    <2> QED
      BY <1>1, <2>1, Zenon
  <1>4. CASE QueueFsyncs
    <2>1. \/ \E q, n : Submits(q, n) \/ SubmitsLess(q, n) \/ SubmitFails(q, n)
          \/ partly' = partly
      BY <1>4, Zenon DEF QueueFsyncs
    <2> QED
      BY <1>1, <2>1, Zenon
  <1>5. CASE \/ Put \/ ForceDurability \/ Close \/ ReapSome \/ MaybeSync \/ DrainEnd \/ FsyncEnd
             \/ Rotate \/ Kernel \/ UNCHANGED vars
    <2>1. partly' = partly
      BY <1>5 DEF Put, ForceDurability, Close, ReapSome, MaybeSync, DrainEnd, FsyncEnd, Rotate,
                  Kernel, vars
    <2> QED
      BY <2>1
  <1> QED
    BY <1>2, <1>3, <1>4, <1>5 DEF Next, Holder

\* Inv holds until a batch is taken in part.
WholeInv == partly \in BOOLEAN /\ (~partly => Inv)

LEMMA WholeAlways == Spec => []WholeInv
  <1>1. Init => WholeInv
    BY InitInv DEF WholeInv, Init
  <1>2. WholeInv /\ [Next]_vars => WholeInv'
    <2> SUFFICES ASSUME WholeInv, [Next]_vars PROVE WholeInv'
      OBVIOUS
    <2>1. partly' \in BOOLEAN /\ (partly => partly')
      BY PartlyStays DEF WholeInv
    <2>2. CASE partly' = FALSE
      BY <2>1, <2>2, InvStep DEF WholeInv
    <2>3. CASE partly' = TRUE
      BY <2>3 DEF WholeInv
    <2> QED
      BY <2>1, <2>2, <2>3, Zenon
  <1> QED
    BY <1>1, <1>2, PTL DEF Spec

-----------------------------------------------------------------------------
(***************************************************************************)
(* What holds of the ring whatever the kernel takes of a batch.            *)
(***************************************************************************)

\* A ring whose counters, taken together, lose nothing.
LooseAt(q, n, I, c, o, t) ==
    /\ q \in Seq(Sqe) /\ I \in SUBSET Sqe /\ IsFiniteSet(I) /\ c \in Seq(Cqe)
    /\ n \in Nat /\ o \in Nat /\ t \in Nat
    /\ n + o = Len(q) + Cardinality(I) + Len(c)
    /\ Distinct(q, I, c, t)

\* Completions are reaped only after a flush that succeeded.
Flushed == pc \in {"reap", "drainwait", "drainreap", "fsyncwait", "fsyncreap"} => queued = 0

LooseInv ==
    /\ log \in Nat /\ calls \in 0..MaxCalls /\ after \in {"rotate", "fsync", "close"}
    /\ LooseAt(sq, queued, inflight, cq, outstanding, token)
    /\ Flushed /\ BuffersOutliveWrites

\* Sums of the counters.
LEMMA Handover ==
    ASSUME NEW a \in Nat, NEW b \in Nat, NEW m \in 0..a, NEW c, NEW d, c = a - m, d = b + m
    PROVE  c + d = a + b
  OBVIOUS

LEMMA OneMore ==
    ASSUME NEW n \in Nat, NEW o \in Nat, NEW a \in Nat, NEW b \in Nat, NEW c \in Nat,
           n + o = a + b + c
    PROVE  (n + 1) + o = (a + 1) + b + c
  OBVIOUS

LEMMA OneOver ==
    ASSUME NEW n \in Nat, NEW o \in Nat, NEW a \in Nat, NEW b \in Nat, NEW c \in Nat, NEW d,
           n + o = a + b + c, d = b - 1
    PROVE  n + o = a + d + (c + 1)
  OBVIOUS

\* A part of a queue with distinct tokens has distinct tokens.
LEMMA DistinctPart ==
    ASSUME NEW q \in Seq(Sqe), NEW I \in SUBSET Sqe, NEW c \in Seq(Cqe), NEW t \in Nat,
           Distinct(q, I, c, t), NEW m \in 0..Len(q)
    PROVE  LET p == SubSeq(q, 1, m)
               r == SubSeq(q, m + 1, Len(q))
           IN  /\ p \in Seq(Sqe) /\ r \in Seq(Sqe) /\ Len(p) = m /\ Len(r) = Len(q) - m
               /\ \A i \in 1..m : p[i] = q[i]
               /\ \A i \in 1..Len(q) - m : r[i] = q[m + i]
               /\ Distinct(p, I, c, t)
               /\ Distinct(r, I \cup ToSet(p), c, t)
  <1> DEFINE p == SubSeq(q, 1, m)
             r == SubSeq(q, m + 1, Len(q))
             J == I \cup ToSet(p)
  <1>1. /\ p \in Seq(Sqe) /\ r \in Seq(Sqe) /\ Len(p) = m /\ Len(r) = Len(q) - m
        /\ \A i \in 1..m : p[i] = q[i]
        /\ \A i \in 1..Len(q) - m : r[i] = q[m + i]
    OBVIOUS
  <1>2. /\ \A i \in 1..m : i \in 1..Len(q)
        /\ \A i \in 1..Len(q) - m : m + i \in 1..Len(q) /\ m + i \notin 1..m
        /\ \A i, j \in 1..Len(q) - m : m + i = m + j => i = j
    OBVIOUS
  <1>p. \A i \in 1..Len(p) : i \in 1..Len(q) /\ p[i] = q[i]
    BY <1>1, <1>2
  <1>r. \A i \in 1..Len(r) : m + i \in 1..Len(q) /\ r[i] = q[m + i]
    BY <1>1, <1>2
  <1>s. \A i, j \in 1..Len(r) : m + i = m + j => i = j
    BY <1>1, <1>2
  <1> HIDE DEF p, r
  <1>3. Distinct(p, I, c, t)
    <2>1. /\ \A i \in 1..Len(q) : q[i].tok <= t
          /\ \A i, j \in 1..Len(q) : q[i].tok = q[j].tok => i = j
          /\ \A i \in 1..Len(q), e \in I : q[i].tok # e.tok
          /\ \A k \in 1..Len(c), i \in 1..Len(q) : c[k].tok # q[i].tok
      BY DEF Distinct
    <2>2. \A i \in 1..Len(p) : p[i].tok <= t
      BY <1>p, <2>1
    <2>3. \A i, j \in 1..Len(p) : p[i].tok = p[j].tok => i = j
      BY <1>p, <2>1, Zenon
    <2>4. \A i \in 1..Len(p), e \in I : p[i].tok # e.tok
      BY <1>p, <2>1
    <2>5. \A k \in 1..Len(c), i \in 1..Len(p) : c[k].tok # p[i].tok
      BY <1>p, <2>1, Zenon
    <2> QED
      BY <2>2, <2>3, <2>4, <2>5 DEF Distinct
  <1>4. Distinct(<<>>, J, c, t)
    BY <1>1, <1>3, DistinctFlush
  <1>5. \A e \in J : e \in I \/ \E j \in 1..m : e = q[j]
    <2>1. \A e \in ToSet(p) : \E j \in 1..Len(p) : e = p[j]
      BY <1>1, ToSetIndex
    <2> QED
      BY <1>1, <2>1
  <1> HIDE DEF J
  <1>6. /\ \A i \in 1..Len(r) : r[i].tok <= t
        /\ \A i, j \in 1..Len(r) : r[i].tok = r[j].tok => i = j
        /\ \A k \in 1..Len(c), i \in 1..Len(r) : c[k].tok # r[i].tok
    <2>1. /\ \A i \in 1..Len(q) : q[i].tok <= t
          /\ \A i, j \in 1..Len(q) : q[i].tok = q[j].tok => i = j
          /\ \A k \in 1..Len(c), i \in 1..Len(q) : c[k].tok # q[i].tok
      BY DEF Distinct
    <2>2. \A i \in 1..Len(r) : r[i].tok <= t
      BY <1>r, <2>1
    <2>3. \A i, j \in 1..Len(r) : r[i].tok = r[j].tok => i = j
      BY <1>r, <1>s, <2>1, Zenon
    <2>4. \A k \in 1..Len(c), i \in 1..Len(r) : c[k].tok # r[i].tok
      BY <1>r, <2>1, Zenon
    <2> QED
      BY <2>2, <2>3, <2>4
  <1>7. \A i \in 1..Len(r), e \in J : r[i].tok # e.tok
    <2> SUFFICES ASSUME NEW i \in 1..Len(q) - m, NEW e \in J
                 PROVE  q[m + i].tok # e.tok
      BY <1>1
    <2>1. CASE e \in I
      BY <1>2, <2>1, Zenon DEF Distinct
    <2>2. CASE \E j \in 1..m : e = q[j]
      <3>1. PICK j \in 1..m : e = q[j]
        BY <2>2
      <3>2. j \in 1..Len(q) /\ m + i \in 1..Len(q) /\ j # m + i
        BY <1>2
      <3> QED
        BY <3>1, <3>2, Zenon DEF Distinct
    <2> QED
      BY <1>5, <2>1, <2>2
  <1>8. Distinct(r, J, c, t)
    BY <1>4, <1>6, <1>7, Zenon DEF Distinct
  <1> QED
    BY <1>1, <1>3, <1>8 DEF p, r, J

\* The kernel takes a part of the queue.
LEMMA TakeLoose ==
    ASSUME NEW q, NEW n, NEW t, NEW m \in 0..Len(q),
           LooseAt(q, n, inflight, cq, outstanding, t), Take(q, m)
    PROVE  /\ sq' \in Seq(Sqe) /\ inflight' \in SUBSET Sqe /\ IsFiniteSet(inflight')
           /\ cq' = cq /\ Distinct(sq', inflight', cq, t)
           /\ Len(sq') + Cardinality(inflight') = Len(q) + Cardinality(inflight)
           /\ Open' = ToSet(q) \cup inflight
  <1> DEFINE p == SubSeq(q, 1, m)
             r == SubSeq(q, m + 1, Len(q))
  <1>1. /\ q \in Seq(Sqe) /\ inflight \in SUBSET Sqe /\ IsFiniteSet(inflight)
        /\ cq \in Seq(Cqe) /\ t \in Nat /\ Distinct(q, inflight, cq, t)
    BY DEF LooseAt
  <1>2. /\ p \in Seq(Sqe) /\ r \in Seq(Sqe) /\ Len(p) = m /\ Len(r) = Len(q) - m
        /\ \A i \in 1..m : p[i] = q[i]
        /\ \A i \in 1..Len(q) - m : r[i] = q[m + i]
        /\ Distinct(p, inflight, cq, t)
        /\ Distinct(r, inflight \cup ToSet(p), cq, t)
    BY <1>1, DistinctPart
  <1>3. sq' = r /\ inflight' = inflight \cup ToSet(p) /\ cq' = cq
    BY DEF Take
  <1> HIDE DEF p, r
  <1>4. IsFiniteSet(inflight') /\ Cardinality(inflight') = Cardinality(inflight) + m
    BY <1>1, <1>2, <1>3, FlushCounts
  <1>5. Cardinality(inflight) \in Nat /\ Len(q) \in Nat
    BY <1>1, FS_CardinalityType
  <1>6. Len(sq') + Cardinality(inflight') = Len(q) + Cardinality(inflight)
    <2>1. Len(sq') = Len(q) - m
      BY <1>2, <1>3
    <2> QED
      BY <1>4, <1>5, <2>1, Handover
  <1>7. ToSet(p) \cup ToSet(r) = ToSet(q)
    <2>1. /\ \A x : x \in ToSet(p) <=> \E i \in 1..m : x = q[i]
          /\ \A x : x \in ToSet(r) <=> \E i \in 1..Len(q) - m : x = q[m + i]
          /\ \A x : x \in ToSet(q) <=> \E i \in 1..Len(q) : x = q[i]
      <3>1. \A x : x \in ToSet(p) <=> \E i \in 1..Len(p) : x = p[i]
        BY <1>2, ToSetIndex
      <3>2. \A x : x \in ToSet(r) <=> \E i \in 1..Len(r) : x = r[i]
        BY <1>2, ToSetIndex
      <3>3. \A x : x \in ToSet(q) <=> \E i \in 1..Len(q) : x = q[i]
        BY <1>1, ToSetIndex
      <3>4. \A x : x \in ToSet(p) <=> \E i \in 1..m : x = q[i]
        BY <1>2, <3>1
      <3>5. \A x : x \in ToSet(r) <=> \E i \in 1..Len(q) - m : x = q[m + i]
        BY <1>2, <3>2
      <3> QED
        BY <3>3, <3>4, <3>5
    <2>2. \A i \in 1..Len(q) : i \in 1..m \/ \E j \in 1..Len(q) - m : i = m + j
      <3> SUFFICES ASSUME NEW i \in 1..Len(q), i \notin 1..m
                   PROVE  \E j \in 1..Len(q) - m : i = m + j
        OBVIOUS
      <3>1. i - m \in 1..Len(q) - m /\ i = m + (i - m)
        BY <1>5
      <3> QED
        BY <3>1
    <2>3. /\ \A i \in 1..m : i \in 1..Len(q)
          /\ \A i \in 1..Len(q) - m : m + i \in 1..Len(q)
      BY <1>5
    <2>4. \A x : x \in ToSet(p) \cup ToSet(r) <=> x \in ToSet(q)
      BY <2>1, <2>2, <2>3
    <2> QED
      BY <2>4
  <1>8. inflight' \in SUBSET Sqe
    BY <1>1, <1>2, <1>3, ToSetIndex
  <1>9. Open' = ToSet(q) \cup inflight
    BY <1>3, <1>7 DEF Open
  <1> QED
    BY <1>2, <1>3, <1>4, <1>6, <1>8, <1>9

\* An SQE with a new token is queued.
LEMMA QueueLoose ==
    ASSUME NEW q, NEW n, NEW I, NEW c, NEW o, NEW t, NEW u \in Nat, NEW e \in Sqe,
           LooseAt(q, n, I, c, o, t), t < e.tok, e.tok <= u
    PROVE  LooseAt(Append(q, e), n + 1, I, c, o, u)
  <1>1. /\ q \in Seq(Sqe) /\ I \in SUBSET Sqe /\ c \in Seq(Cqe) /\ t \in Nat
        /\ Distinct(q, I, c, t) /\ IsFiniteSet(I) /\ n \in Nat /\ o \in Nat
        /\ n + o = Len(q) + Cardinality(I) + Len(c)
    BY DEF LooseAt
  <1>2. Distinct(Append(q, e), I, c, u)
    BY <1>1, DistinctAppend
  <1>3. Append(q, e) \in Seq(Sqe) /\ Len(Append(q, e)) = Len(q) + 1 /\ Len(q) \in Nat /\ Len(c) \in Nat
    BY <1>1
  <1>4. Cardinality(I) \in Nat
    BY <1>1, FS_CardinalityType
  <1>5. (n + 1) + o = (Len(q) + 1) + Cardinality(I) + Len(c)
    <2> DEFINE a == Len(q)
               b == Cardinality(I)
               d == Len(c)
    <2>1. n \in Nat /\ o \in Nat /\ a \in Nat /\ b \in Nat /\ d \in Nat /\ n + o = a + b + d
      BY <1>1, <1>3, <1>4
    <2> HIDE DEF a, b, d
    <2>2. (n + 1) + o = (a + 1) + b + d
      BY <2>1, OneMore
    <2> QED
      BY <2>2 DEF a, b, d
  <1> QED
    BY <1>1, <1>2, <1>3, <1>5 DEF LooseAt

\* A flush, whatever comes of it.
LEMMA SubmitLoose ==
    ASSUME NEW q, NEW n, NEW t, LooseAt(q, n, inflight, cq, outstanding, t),
           Submits(q, n) \/ SubmitsLess(q, n) \/ SubmitFails(q, n)
    PROVE  /\ LooseAt(sq', queued', inflight', cq', outstanding', t)
           /\ Open' = ToSet(q) \cup inflight
           /\ Submits(q, n) \/ SubmitsLess(q, n) => queued' = 0
  <1>1. /\ q \in Seq(Sqe) /\ Len(q) \in Nat /\ n \in Nat /\ outstanding \in Nat /\ t \in Nat
        /\ cq \in Seq(Cqe) /\ Len(cq) \in Nat /\ Cardinality(inflight) \in Nat
        /\ n + outstanding = Len(q) + Cardinality(inflight) + Len(cq)
    BY FS_CardinalityType DEF LooseAt
  <1>2. \E m \in 0..Len(q) :
          /\ Take(q, m)
          /\ \/ queued' = 0 /\ outstanding' = outstanding + n
             \/ queued' = n /\ outstanding' = outstanding
    <2>1. CASE Submits(q, n)
      <3>1. n \in 0..Len(q)
        BY <1>1, <2>1 DEF Submits, FlushOk
      <3> QED
        BY <2>1, <3>1 DEF Submits, FlushOk
    <2>2. CASE SubmitsLess(q, n)
      <3>1. CASE FlushShort(q, n, Len(q))
        <4>1. Len(q) \in 0..Len(q)
          BY <1>1
        <4> QED
          BY <3>1, <4>1 DEF FlushShort
      <3>2. CASE \E m \in 1..n - 1 : m <= Len(q) /\ FlushShort(q, n, m)
        <4>1. PICK m \in 1..n - 1 : m <= Len(q) /\ FlushShort(q, n, m)
          BY <3>2
        <4>2. m \in 0..Len(q)
          BY <1>1, <4>1
        <4> QED
          BY <4>1, <4>2 DEF FlushShort
      <3> QED
        BY <2>2, <3>1, <3>2 DEF SubmitsLess
    <2>3. CASE SubmitFails(q, n)
      BY <2>3 DEF SubmitFails, FlushFails
    <2> QED
      BY <2>1, <2>2, <2>3
  <1>3. PICK m \in 0..Len(q) :
          /\ Take(q, m)
          /\ \/ queued' = 0 /\ outstanding' = outstanding + n
             \/ queued' = n /\ outstanding' = outstanding
    BY <1>2
  <1>4. /\ sq' \in Seq(Sqe) /\ inflight' \in SUBSET Sqe /\ IsFiniteSet(inflight')
        /\ cq' = cq /\ Distinct(sq', inflight', cq, t)
        /\ Len(sq') + Cardinality(inflight') = Len(q) + Cardinality(inflight)
        /\ Open' = ToSet(q) \cup inflight
    BY <1>3, TakeLoose
  <1>5. /\ queued' \in Nat /\ outstanding' \in Nat
        /\ queued' + outstanding' = Len(sq') + Cardinality(inflight') + Len(cq)
    <2>1. queued' + outstanding' = n + outstanding /\ queued' \in Nat /\ outstanding' \in Nat
      BY <1>1, <1>3
    <2> QED
      BY <1>1, <1>4, <2>1
  <1>6. Submits(q, n) \/ SubmitsLess(q, n) => queued' = 0
    BY DEF Submits, SubmitsLess, FlushOk, FlushShort
  <1> QED
    BY <1>1, <1>4, <1>5, <1>6 DEF LooseAt

\* A flush leaves the completions alone.
LEMMA FlushKeepsCq ==
    ASSUME NEW q, NEW n, Submits(q, n) \/ SubmitsLess(q, n) \/ SubmitFails(q, n)
    PROVE  cq' = cq
  BY DEF Submits, SubmitsLess, SubmitFails, FlushOk, FlushShort, FlushFails, Take

LEMMA ReapLoose ==
    ASSUME LooseAt(sq, queued, inflight, cq, outstanding, token), queued = 0,
           ReapAll, UNCHANGED token
    PROVE  /\ LooseAt(sq', queued', inflight', cq', outstanding', token')
           /\ Open' = Open /\ queued' = 0
  <1>1. /\ cq \in Seq(Cqe) /\ Len(cq) \in Nat /\ Cardinality(inflight) \in Nat
        /\ sq \in Seq(Sqe) /\ Len(sq) \in Nat /\ outstanding \in Nat
        /\ outstanding = Len(sq) + Cardinality(inflight) + Len(cq)
        /\ Distinct(sq, inflight, <<>>, token)
    BY FS_CardinalityType, DistinctReap DEF LooseAt
  <1>2. outstanding' = Len(sq) + Cardinality(inflight)
    BY <1>1 DEF ReapAll
  <1>3. <<>> \in Seq(Cqe) /\ Len(<<>>) = 0
    OBVIOUS
  <1>4. outstanding' \in Nat /\ 0 + outstanding' = Len(sq) + Cardinality(inflight) + Len(<<>>)
    BY <1>1, <1>2, <1>3
  <1> QED
    BY <1>1, <1>3, <1>4 DEF LooseAt, ReapAll, Open

LEMMA CompleteLoose ==
    ASSUME LooseAt(sq, queued, inflight, cq, outstanding, token),
           NEW e \in inflight, NEW res \in {"ok", "error", "short"},
           Complete(e, res), UNCHANGED token
    PROVE  /\ LooseAt(sq', queued', inflight', cq', outstanding', token')
           /\ Open' \subseteq Open /\ queued' = queued
  <1> DEFINE x == [tok |-> e.tok, res |-> res]
  <1>1. /\ sq \in Seq(Sqe) /\ inflight \in SUBSET Sqe /\ cq \in Seq(Cqe) /\ token \in Nat
        /\ Distinct(sq, inflight, cq, token) /\ IsFiniteSet(inflight)
        /\ queued \in Nat /\ outstanding \in Nat
        /\ queued + outstanding = Len(sq) + Cardinality(inflight) + Len(cq)
    BY DEF LooseAt
  <1>2. Distinct(sq, inflight \ {e}, Append(cq, x), token)
    BY <1>1, DistinctComplete
  <1>3. IsFiniteSet(inflight \ {e}) /\ Cardinality(inflight \ {e}) = Cardinality(inflight) - 1
    BY <1>1, FS_RemoveElement
  <1>4. x \in Cqe
    BY <1>1 DEF Cqe, Sqe
  <1>5. Append(cq, x) \in Seq(Cqe) /\ Len(Append(cq, x)) = Len(cq) + 1 /\ Len(cq) \in Nat /\ Len(sq) \in Nat
    BY <1>1, <1>4
  <1>6. queued + outstanding = Len(sq) + Cardinality(inflight \ {e}) + (Len(cq) + 1)
    <2>1. Cardinality(inflight) \in Nat
      BY <1>1, FS_CardinalityType
    <2> QED
      <3> DEFINE a == Len(sq)
                 b == Cardinality(inflight)
                 c == Len(cq)
                 d == Cardinality(inflight \ {e})
      <3>1. /\ queued \in Nat /\ outstanding \in Nat /\ a \in Nat /\ b \in Nat /\ c \in Nat
            /\ queued + outstanding = a + b + c /\ d = b - 1
        BY <1>1, <1>3, <1>5, <2>1
      <3> HIDE DEF a, b, c, d
      <3>2. queued + outstanding = a + d + (c + 1)
        BY <3>1, OneOver
      <3> QED
        BY <3>2 DEF a, b, c, d
  <1>7. /\ sq' = sq /\ inflight' = inflight \ {e} /\ cq' = Append(cq, x)
        /\ queued' = queued /\ outstanding' = outstanding
    BY DEF Complete
  <1>8. Open' \subseteq Open
    BY <1>7 DEF Open
  <1> QED
    BY <1>1, <1>2, <1>3, <1>5, <1>6, <1>7, <1>8 DEF LooseAt

LEMMA ReapKeepsBuffersLoose ==
    ASSUME LooseAt(sq, queued, inflight, cq, outstanding, token), BuffersOutliveWrites,
           pending' = pending \ Tokens(cq), Open' = Open
    PROVE  BuffersOutliveWrites'
  <1>1. \A e \in Open : e \in inflight \/ \E i \in 1..Len(sq) : e = sq[i]
    BY ToSetIndex DEF Open, LooseAt
  <1>2. Distinct(sq, inflight, cq, token)
    BY DEF LooseAt
  <1>3. \A e \in Open, k \in 1..Len(cq) : cq[k].tok # e.tok
    BY <1>1, <1>2 DEF Distinct
  <1>4. \A e \in Open : e.tok \notin Tokens(cq)
    BY <1>3 DEF Tokens
  <1> QED
    BY <1>4 DEF BuffersOutliveWrites

\* Where a call goes next.
LEMMA GoesOn ==
    ASSUME NEW ok \in BOOLEAN
    PROVE  /\ Return(ok) => pc' \in {"idle", "closed"} /\ after' = after
           /\ Drained /\ after \in {"rotate", "fsync", "close"} =>
                pc' \in {"idle", "closed", "rotate", "fsync"} /\ after' = after
           /\ Undrained => pc' \in {"idle", "closed", "undrained"} /\ after' = after
  BY DEF Return, Drained, Undrained, Goto

LEMMA LooseStep ==
    ASSUME LooseInv, [Next]_vars
    PROVE  LooseInv'
  <1> DEFINE Here == LooseAt(sq, queued, inflight, cq, outstanding, token)
  <1>0. /\ Here /\ BuffersOutliveWrites /\ Flushed
        /\ log \in Nat /\ calls \in 0..MaxCalls /\ token \in Nat /\ MaxCalls \in Nat
        /\ after \in {"rotate", "fsync", "close"}
        /\ sq \in Seq(Sqe) /\ inflight \in SUBSET Sqe
    BY AsyncWalAssumption DEF LooseInv, LooseAt
  <1>a. /\ NewWrite \in Sqe /\ NewWrite.tok = token + 1 /\ NewWrite.op = "write"
        /\ WalSync \in Sqe /\ WalSync.tok = token + 1 /\ WalSync.op = "fsync"
        /\ VlogSync \in Sqe /\ VlogSync.tok = token + 2 /\ VlogSync.op = "fsync"
        /\ token + 1 \in Nat /\ token + 2 \in Nat /\ token < token + 1 /\ token + 1 < token + 2
        /\ token + 1 <= token + 2 /\ token <= token + 1
    BY <1>0 DEF NewWrite, WalSync, VlogSync, Sqe
  <1>b. TRUE \in BOOLEAN /\ FALSE \in BOOLEAN
    OBVIOUS
  <1>c. \A u \in Nat : token <= u => LooseAt(sq, queued, inflight, cq, outstanding, u)
    BY <1>0, DistinctLater DEF LooseAt
  <1>1. CASE QueueRecord
    <2> DEFINE q == Append(sq, NewWrite)
    <2>1. token' = token + 1 /\ UNCHANGED <<log, calls>>
      BY <1>1 DEF QueueRecord
    <2>2. CASE HasRoom(sq)
      <3>1. LooseAt(q, queued + 1, inflight, cq, outstanding, token + 1)
        BY <1>0, <1>a, QueueLoose
      <3>2. ToSet(q) \cup inflight = Open \cup {NewWrite}
        BY <1>0, <1>a, ToSetAppend DEF Open
      <3> HIDE DEF q
      <3>3. /\ \/ (Submits(q, queued + 1) \/ SubmitsLess(q, queued + 1)) /\ Goto("reap")
               \/ SubmitFails(q, queued + 1) /\ Return(FALSE)
            /\ pending' = pending \cup {token + 1}
        BY <1>1, <2>2 DEF QueueRecord, NewWrite, q
      <3>4. /\ LooseAt(sq', queued', inflight', cq', outstanding', token + 1)
            /\ Open' = ToSet(q) \cup inflight
            /\ Submits(q, queued + 1) \/ SubmitsLess(q, queued + 1) => queued' = 0
        BY <3>1, <3>3, SubmitLoose
      <3>5. Flushed' /\ after' = after
        BY <1>b, <3>3, <3>4, GoesOn DEF Flushed, Goto
      <3>6. BuffersOutliveWrites'
        BY <1>0, <1>a, <3>2, <3>3, <3>4 DEF BuffersOutliveWrites
      <3> QED
        BY <1>0, <2>1, <3>4, <3>5, <3>6 DEF LooseInv
    <2>3. CASE ~HasRoom(sq)
      <3>1. Return(FALSE) /\ UNCHANGED <<sq, queued, inflight, cq, outstanding, pending>>
        BY <1>1, <2>3 DEF QueueRecord, ring
      <3>2. LooseAt(sq, queued, inflight, cq, outstanding, token + 1)
        BY <1>a, <1>c
      <3>3. Flushed' /\ after' = after
        BY <1>b, <3>1, GoesOn DEF Flushed
      <3>4. BuffersOutliveWrites'
        BY <1>0, <3>1 DEF BuffersOutliveWrites, Open
      <3> QED
        BY <1>0, <2>1, <3>1, <3>2, <3>3, <3>4 DEF LooseInv
    <2> QED
      BY <2>2, <2>3
  <1>2. CASE ReapSome \/ DrainEnd \/ FsyncEnd
    <2>1. /\ ReapAll /\ UNCHANGED <<token, log, calls>> /\ queued = 0
          /\ pending' = pending \ Tokens(cq) \/ pending' = pending
      BY <1>0, <1>2 DEF ReapSome, DrainEnd, FsyncEnd, Flushed
    <2>2. /\ LooseAt(sq', queued', inflight', cq', outstanding', token')
          /\ Open' = Open /\ queued' = 0
      BY <1>0, <2>1, ReapLoose
    <2>3. after' = after
      BY <1>0, <1>2, <1>b, GoesOn DEF ReapSome, DrainEnd, FsyncEnd, Goto
    <2>4. BuffersOutliveWrites'
      <3>1. CASE pending' = pending \ Tokens(cq)
        BY <1>0, <2>2, <3>1, ReapKeepsBuffersLoose
      <3>2. CASE pending' = pending
        BY <1>0, <2>2, <3>2 DEF BuffersOutliveWrites
      <3> QED
        BY <2>1, <3>1, <3>2
    <2>5. Flushed'
      BY <2>2 DEF Flushed
    <2> QED
      BY <1>0, <2>1, <2>2, <2>3, <2>4, <2>5 DEF LooseInv
  <1>3. CASE DrainStart
    <2>1. UNCHANGED <<token, log, calls, pending>>
      BY <1>3 DEF DrainStart
    <2>2. CASE queued = 0 /\ Drained /\ UNCHANGED ring
      <3>1. UNCHANGED <<sq, queued, inflight, cq, outstanding>> /\ after' = after
        BY <1>0, <1>b, <2>2, GoesOn DEF ring
      <3>2. BuffersOutliveWrites' /\ Flushed'
        BY <1>0, <2>1, <2>2, <3>1 DEF BuffersOutliveWrites, Open, Flushed
      <3> QED
        BY <1>0, <2>1, <3>1, <3>2 DEF LooseInv
    <2>3. CASE \/ Submits(sq, queued) /\ Goto("drainwait")
               \/ SubmitsLess(sq, queued) /\ Goto("drainreap")
               \/ SubmitFails(sq, queued) /\ Undrained
      <3>1. /\ LooseAt(sq', queued', inflight', cq', outstanding', token)
            /\ Open' = ToSet(sq) \cup inflight
            /\ Submits(sq, queued) \/ SubmitsLess(sq, queued) => queued' = 0
        BY <1>0, <2>3, SubmitLoose
      <3>2. Flushed' /\ after' = after
        BY <1>b, <2>3, <3>1, GoesOn DEF Flushed, Goto
      <3>3. BuffersOutliveWrites'
        BY <1>0, <2>1, <3>1 DEF BuffersOutliveWrites, Open
      <3> QED
        BY <1>0, <2>1, <3>1, <3>2, <3>3 DEF LooseInv
    <2> QED
      BY <1>3, <2>2, <2>3 DEF DrainStart
  <1>4. CASE QueueFsyncs
    <2> DEFINE one  == Append(sq, WalSync)
               both == Append(one, VlogSync)
    <2>1. UNCHANGED <<log, calls, pending>> /\ token' = IF HasRoom(sq) THEN token + 2 ELSE token + 1
      BY <1>4 DEF QueueFsyncs
    <2>2. /\ LooseAt(one, queued + 1, inflight, cq, outstanding, token + 1)
          /\ LooseAt(one, queued + 1, inflight, cq, outstanding, token + 2)
          /\ ToSet(one) = ToSet(sq) \cup {WalSync}
      BY <1>0, <1>a, QueueLoose, ToSetAppend
    <2>3. CASE HasRoom(sq) /\ HasRoom(one)
      <3> HIDE DEF one
      <3>1. LooseAt(both, (queued + 1) + 1, inflight, cq, outstanding, token + 2)
        BY <1>a, <2>2, QueueLoose
      <3>2. (queued + 1) + 1 = queued + 2
        BY <1>0 DEF LooseAt
      <3>3. ToSet(both) = ToSet(one) \cup {VlogSync}
        <4>1. one \in Seq(Sqe)
          BY <2>2 DEF LooseAt
        <4> QED
          BY <1>a, <4>1, ToSetAppend
      <3> HIDE DEF both
      <3>4. \/ Submits(both, queued + 2) /\ Goto("fsyncwait")
            \/ SubmitsLess(both, queued + 2) /\ Goto("fsyncreap")
            \/ SubmitFails(both, queued + 2) /\ Return(FALSE)
        BY <1>4, <2>3 DEF QueueFsyncs, WalSync, VlogSync, one, both
      <3>5. /\ LooseAt(sq', queued', inflight', cq', outstanding', token + 2)
            /\ Open' = ToSet(both) \cup inflight
            /\ Submits(both, queued + 2) \/ SubmitsLess(both, queued + 2) => queued' = 0
        BY <3>1, <3>2, <3>4, SubmitLoose
      <3>6. Flushed' /\ after' = after
        BY <1>b, <3>4, <3>5, GoesOn DEF Flushed, Goto
      <3>7. BuffersOutliveWrites'
        <4>1. Open' = Open \cup {WalSync, VlogSync}
          BY <2>2, <3>3, <3>5 DEF Open
        <4> QED
          BY <1>0, <1>a, <2>1, <4>1 DEF BuffersOutliveWrites
      <3> QED
        BY <1>0, <2>1, <2>3, <3>5, <3>6, <3>7 DEF LooseInv
    <2>4. CASE HasRoom(sq) /\ ~HasRoom(one)
      <3>1. /\ sq' = one /\ queued' = queued + 1 /\ Return(FALSE)
            /\ UNCHANGED <<inflight, cq, outstanding>>
        BY <1>4, <2>4 DEF QueueFsyncs, WalSync
      <3> HIDE DEF one
      <3>2. Flushed' /\ after' = after
        BY <1>b, <3>1, GoesOn DEF Flushed
      <3>3. BuffersOutliveWrites'
        <4>1. Open' = Open \cup {WalSync}
          BY <2>2, <3>1 DEF Open
        <4> QED
          BY <1>0, <1>a, <2>1, <4>1 DEF BuffersOutliveWrites
      <3> QED
        BY <1>0, <2>1, <2>2, <2>4, <3>1, <3>2, <3>3 DEF LooseInv
    <2>5. CASE ~HasRoom(sq)
      <3>1. Return(FALSE) /\ UNCHANGED <<sq, queued, inflight, cq, outstanding>>
        BY <1>4, <2>5 DEF QueueFsyncs
      <3>2. LooseAt(sq, queued, inflight, cq, outstanding, token + 1)
        BY <1>a, <1>c
      <3>3. Flushed' /\ after' = after
        BY <1>b, <3>1, GoesOn DEF Flushed
      <3>4. BuffersOutliveWrites'
        BY <1>0, <2>1, <3>1 DEF BuffersOutliveWrites, Open
      <3> QED
        BY <1>0, <2>1, <2>5, <3>1, <3>2, <3>3, <3>4 DEF LooseInv
    <2> QED
      BY <2>3, <2>4, <2>5
  <1>5. CASE Kernel
    <2>1. PICK e \in inflight : CompleteWrite(e) \/ CompleteFsync(e)
      BY <1>5 DEF Kernel
    <2>2. UNCHANGED <<token, log, calls, pending, pc, after>>
      BY <1>5 DEF Kernel, wal, control
    <2>3. \E res \in {"ok", "error", "short"} : Complete(e, res)
      BY <2>1 DEF CompleteWrite, CompleteFsync
    <2>4. /\ LooseAt(sq', queued', inflight', cq', outstanding', token')
          /\ Open' \subseteq Open /\ queued' = queued
      BY <1>0, <2>2, <2>3, CompleteLoose
    <2>5. BuffersOutliveWrites' /\ Flushed'
      BY <1>0, <2>2, <2>4 DEF BuffersOutliveWrites, Flushed
    <2> QED
      BY <1>0, <2>2, <2>4, <2>5 DEF LooseInv
  <1>6. CASE Put \/ ForceDurability \/ Close \/ MaybeSync \/ Rotate \/ UNCHANGED vars
    <2>1. UNCHANGED <<sq, queued, inflight, cq, outstanding, token, pending>>
      BY <1>6 DEF Put, ForceDurability, Close, MaybeSync, Rotate, vars, ring, wal
    <2>2. log' \in Nat /\ calls' \in 0..MaxCalls
      <3>1. CASE Put \/ ForceDurability
        BY <1>0, <3>1 DEF Put, ForceDurability, wal
      <3>2. CASE Close \/ MaybeSync \/ UNCHANGED vars
        BY <1>0, <3>2 DEF Close, MaybeSync, vars, wal
      <3>3. CASE Rotate
        <4>1. log' \in {log, log + 1} /\ calls' = calls
          BY <3>3 DEF Rotate
        <4> QED
          BY <1>0, <4>1
      <3> QED
        BY <1>6, <3>1, <3>2, <3>3
    <2>3. /\ pc' \in {"idle", "closed", "queue", "drain"} \/ pc' = pc
          /\ after' \in {"rotate", "fsync", "close"}
      <3>1. CASE Put \/ ForceDurability \/ Close
        BY <1>0, <3>1 DEF Put, ForceDurability, Close, RotateForFlush
      <3>2. CASE MaybeSync
        BY <1>0, <1>b, <3>2, GoesOn DEF MaybeSync, DrainAndSync
      <3>3. CASE Rotate
        BY <1>0, <1>b, <3>3, GoesOn DEF Rotate
      <3>4. CASE UNCHANGED vars
        BY <1>0, <3>4 DEF vars, control
      <3> QED
        BY <1>6, <3>1, <3>2, <3>3, <3>4
    <2>4. BuffersOutliveWrites' /\ Flushed'
      BY <1>0, <2>1, <2>3 DEF BuffersOutliveWrites, Flushed, Open
    <2> QED
      BY <1>0, <2>1, <2>2, <2>3, <2>4 DEF LooseInv
  <1> QED
    BY <1>1, <1>2, <1>3, <1>4, <1>5, <1>6 DEF Next, Holder

LEMMA LooseAlways == Spec => []LooseInv
  <1>1. Init => LooseInv
    <2> SUFFICES ASSUME Init PROVE LooseInv
      OBVIOUS
    <2>1. \A i \in 1..Len(<<>>) : FALSE
      OBVIOUS
    <2>2. IsFiniteSet({}) /\ Cardinality({}) = 0
      BY FS_EmptySet
    <2>3. <<>> \in Seq(Sqe) /\ <<>> \in Seq(Cqe) /\ Len(<<>>) = 0
      OBVIOUS
    <2>4. Distinct(<<>>, {}, <<>>, 0)
      BY <2>1 DEF Distinct
    <2>5. 0 + 0 = Len(<<>>) + Cardinality({}) + Len(<<>>)
      BY <2>2, <2>3
    <2>6. LooseAt(sq, queued, inflight, cq, outstanding, token)
      BY <2>2, <2>3, <2>4, <2>5 DEF Init, RingInit, LooseAt
    <2>7. Open = {}
      BY ToSetEmpty DEF Init, RingInit, Open
    <2>8. log \in Nat /\ calls \in 0..MaxCalls
      BY AsyncWalAssumption DEF Init
    <2> QED
      BY <2>6, <2>7, <2>8 DEF Init, LooseInv, Flushed, BuffersOutliveWrites
  <1> QED
    BY <1>1, LooseStep, PTL DEF Spec

-----------------------------------------------------------------------------
(***************************************************************************)
(* The theorems.                                                           *)
(***************************************************************************)

\* The kernel never reads a buffer that wal_pending_ has let go of, whatever
\* it takes or refuses of a batch.
THEOREM BuffersAlwaysOutliveWrites == Spec => []BuffersOutliveWrites
  <1>1. LooseInv => BuffersOutliveWrites
    BY DEF LooseInv
  <1> QED
    BY <1>1, LooseAlways, PTL

\* queued_ and outstanding_ together count every submission that is published,
\* in flight or waiting to be reaped, through failed and short submissions.
THEOREM NothingEverUncounted == Spec => []NothingUncounted
  <1>1. LooseInv => NothingUncounted
    BY DEF LooseInv, LooseAt, NothingUncounted
  <1> QED
    BY <1>1, LooseAlways, PTL

\* Until a batch is taken in part, RotateForFlush closes a log only when no
\* submission names it any more, and a ~DB whose drain got through closes the
\* live log with nothing queued or in flight.
THEOREM NothingEverOnClosedLog == Spec => []NothingOnClosedLog
  <1>1. WholeInv => NothingOnClosedLog
    BY DEF WholeInv, Inv, DescriptorsOpen, NothingOnClosedLog
  <1> QED
    BY <1>1, WholeAlways, PTL

\* Until a batch is taken in part, queued_ and outstanding_ stay exact through
\* failed submissions, full queues and completions that arrive late.
THEOREM CountsStayExact == Spec => [](~partly => CountsExact)
  <1>1. WholeInv => (~partly => CountsExact)
    BY DEF WholeInv, Inv, RingInOrder, RingAt, CountsExact
  <1> QED
    BY <1>1, WholeAlways, PTL

\* With kSyncAlways, and until a batch is taken in part, the reader of the log
\* gets every acknowledged record, whatever was in flight when the machine
\* stopped.
THEOREM AckedAlwaysReplayed == Spec => []AckedReplayed
  <1>1. WholeInv => AckedReplayed
    <2> SUFFICES ASSUME Inv, mode = "always", NEW i \in 1..Len(slots), slots[i] \in acked
                 PROVE  /\ slots[i] \in durable \cup torn
                        /\ slots[i] \in Replayed(durable \cup failed \cup torn)
      BY DEF AckedReplayed, WholeInv
    <2>1. /\ slots[i] \in durable \cup torn
          /\ \A j \in 1..i : slots[j] \in durable \cup failed \cup torn
      BY DEF Inv, AckedPrefix
    <2> QED
      BY <2>1 DEF Replayed
  <1> QED
    BY <1>1, WholeAlways, PTL

\* An error is in a completion, kept in wal_ring_error_, or has been returned.
ErrorKept ==
    /\ cq \in Seq(Cqe)
    /\ pc \notin {"closed", "undrained"} /\ failed # {} => ringError \/ reported \/ HasError(cq)

LEMMA ErrorKeptStep ==
    ASSUME LooseInv, ErrorKept, [Next]_vars
    PROVE  ErrorKept'
  <1>1. cq' \in Seq(Cqe)
    BY LooseStep DEF LooseInv, LooseAt
  <1>2. CASE ReapSome
    <2>1. /\ pc = "reap" /\ UNCHANGED <<failed, reported>>
          /\ ringError' = (ringError \/ HasError(cq))
      BY <1>2 DEF ReapSome, disk
    <2> QED
      BY <1>1, <2>1 DEF ErrorKept
  <1>3. CASE MaybeSync
    BY <1>1, <1>3 DEF MaybeSync, ErrorKept, ring, disk
  <1>4. CASE DrainEnd \/ FsyncEnd
    <2>1. /\ pc \notin {"closed", "undrained"} /\ UNCHANGED <<ringError, failed>>
          /\ HasError(cq) => reported' = (reported \/ call # "close") /\ Return(FALSE)
          /\ ~HasError(cq) => reported' = reported
      BY <1>4 DEF DrainEnd, FsyncEnd, Report, disk
    <2>2. HasError(cq) => reported' \/ pc' = "closed"
      BY <2>1, Zenon DEF Return
    <2>3. pc \notin {"closed", "undrained"} /\ failed' # {} => ringError \/ reported \/ HasError(cq)
      BY <2>1 DEF ErrorKept
    <2>4. reported => reported'
      BY <2>1, Zenon
    <2> QED
      BY <1>1, <2>1, <2>2, <2>3, <2>4 DEF ErrorKept
  <1>5. CASE QueueRecord \/ DrainStart \/ QueueFsyncs
    <2>1. pc \notin {"closed", "undrained"} /\ UNCHANGED <<ringError, reported, failed>>
      BY <1>5 DEF QueueRecord, DrainStart, QueueFsyncs, disk
    <2>2. cq' = cq
      BY <1>5, FlushKeepsCq DEF QueueRecord, DrainStart, QueueFsyncs, ring
    <2> QED
      BY <1>1, <2>1, <2>2 DEF ErrorKept
  <1>6. CASE Kernel
    <2>1. PICK e \in inflight : CompleteWrite(e) \/ CompleteFsync(e)
      BY <1>6 DEF Kernel
    <2>2. UNCHANGED <<pc, ringError, reported>>
      BY <1>6 DEF Kernel, wal, control
    <2>3. PICK res \in {"ok", "error", "short"} :
            Complete(e, res) /\ (failed' = failed \/ res = "error")
      BY <2>1 DEF CompleteWrite, CompleteFsync
    <2>4. Len(cq) \in Nat /\ Len(cq') = Len(cq) + 1 /\ cq'[Len(cq) + 1].res = res
          /\ \A i \in 1..Len(cq) : cq'[i] = cq[i]
      BY <2>3 DEF Complete, ErrorKept
    <2>5. HasError(cq') <=> HasError(cq) \/ res = "error"
      BY <2>4 DEF HasError
    <2> QED
      BY <1>1, <2>2, <2>3, <2>5 DEF ErrorKept
  <1>7. CASE Put \/ ForceDurability \/ Close \/ Rotate \/ UNCHANGED vars
    <2>1. /\ pc \notin {"closed", "undrained"} \/ pc' = pc
          /\ UNCHANGED <<cq, ringError, reported, failed>>
      BY <1>7 DEF Put, ForceDurability, Close, Rotate, vars, ring, wal, disk, control
    <2> QED
      BY <1>1, <2>1 DEF ErrorKept
  <1> QED
    BY <1>2, <1>3, <1>4, <1>5, <1>6, <1>7 DEF Next, Holder

\* The error of a write that was acknowledged before it completed is never
\* dropped, whatever the kernel takes or refuses of a batch: MaybeSync, a drain
\* or a sync hands it to a caller.
THEOREM ErrorsNeverSwallowed == Spec => []ErrorsNotSwallowed
  <1>1. Init => ErrorKept
    BY EmptySeq DEF Init, RingInit, ErrorKept
  <1>2. ErrorKept => ErrorsNotSwallowed
    BY NoErrorInEmpty DEF ErrorKept, ErrorsNotSwallowed
  <1> QED
    BY <1>1, <1>2, ErrorKeptStep, LooseAlways, PTL DEF Spec
=============================================================================
