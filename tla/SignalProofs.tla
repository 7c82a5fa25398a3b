---------------------------- MODULE SignalProofs ----------------------------
(***************************************************************************)
(* No wakeup of signal_ is lost, for any number of threads, any triggers   *)
(* and any failures, as long as nobody takes a snapshot while a thread is  *)
(* in wait_for_background_work.                                            *)
(*                                                                         *)
(* The two invariants need each other: a notify_one reaches the background *)
(* thread because nobody else can be in the wait set while it has nothing  *)
(* to do (NobodyForgotten), and waiters may rely on it because it is not   *)
(* asleep while there is work (BackgroundAwake).  Places adds where each   *)
(* thread must be to be in the wait set, and when the process is ending.   *)
(***************************************************************************)
EXTENDS Signal, TLAPS

\* The points inside RunVlogGC.
InPass == {"gc", "scan", "gcflush", "gcflushed", "gcdone", "gcfailed"}

Places ==
    /\ bg \in waiting => bgpc = "loop"
    /\ gcActive <=> bgpc \in InPass
    /\ \A w \in Writer : w \in waiting => pc[w] = "put"
    /\ \A t \in Waiter : t \in waiting => pc[t] = "drain"
    /\ exit => \A t \in Client : pc[t] = "idle"
    /\ exit <=> pc[Owner] # "idle"
    /\ pc[Owner] \in {"idle", "notify", "done"}

Inv == TypeOK /\ Places /\ BackgroundAwake /\ NobodyForgotten

\* notify_one takes a thread out of the wait set when there is one, and puts
\* none in.
LEMMA NotifyOneTakesOne ==
    ASSUME NEW W, NEW V \in NotifyOne(W)
    PROVE  /\ V \subseteq W
           /\ \A t : W \subseteq {t} => V = {}
  BY DEF NotifyOne

\* Put and Delete only take threads out of the wait set.  If the background
\* thread is the only one there and the call leaves work behind that was not
\* there before, it is out.
LEMMA WriteNotifies ==
    ASSUME NEW w \in Writer, Write(w)
    PROVE  /\ waiting' \subseteq waiting
           /\ (waiting \subseteq {bg} /\ (imm' \/ (vlog' # vlog /\ vlog' >= Trigger)))
                => waiting' = {}
  <1>1. CASE UNCHANGED <<imm, vlog, waiting>>
    BY <1>1 DEF Write
  <1>2. CASE ~UNCHANGED <<imm, vlog, waiting>>
    <2> DEFINE full == mem >= write_buffer_size
    <2>1. PICK W \in AfterRotation(full) :
            /\ imm' = full
            /\ \/ vlog' = Count(vlog, MaxVlog) /\ waiting' \in AfterAppend(W, vlog')
               \/ UNCHANGED vlog /\ waiting' = W
      BY <1>2 DEF Write
    <2>2. W \subseteq waiting /\ (full => \A t : waiting \subseteq {t} => W = {})
      BY <2>1, NotifyOneTakesOne DEF AfterRotation
    <2>3. waiting' \subseteq W
      BY <2>1, NotifyOneTakesOne DEF AfterAppend
    <2>4. (vlog' # vlog /\ vlog' >= Trigger) => \A t : W \subseteq {t} => waiting' = {}
      BY <2>1, NotifyOneTakesOne DEF AfterAppend
    <2> QED
      BY <2>1, <2>2, <2>3, <2>4
  <1> QED
    BY <1>1, <1>2

\* So does an append to the value log.
LEMMA AppendNotifies ==
    ASSUME NEW W, NEW n, NEW V \in AfterAppend(W, n)
    PROVE  V \subseteq W
  BY NotifyOneTakesOne DEF AfterAppend

\* Every step keeps the types.
LEMMA TypeStep == Inv /\ [Next]_vars => TypeOK'
  <1> SUFFICES ASSUME Inv, [Next]_vars PROVE TypeOK'
    OBVIOUS
  <1> USE SignalAssumption DEF Inv, work, pass
  <1>1. ASSUME NEW w \in Writer, WriterWaits(w) PROVE TypeOK'
    BY <1>1 DEF WriterWaits, TypeOK, Client, Runs
  <1>2. ASSUME NEW w \in Writer, Write(w) PROVE TypeOK'
    <2>1. waiting' \subseteq waiting
      BY <1>2, WriteNotifies
    <2>2. mem' \in 0 .. write_buffer_size
      BY <1>2 DEF Write, TypeOK, Kept
    <2>3. imm' \in BOOLEAN
      <3>1. (mem >= write_buffer_size) \in BOOLEAN
        OBVIOUS
      <3> QED
        BY <1>2, <3>1, Zenon DEF Write, TypeOK
    <2>4. vlog' \in 0 .. MaxVlog
      BY <1>2 DEF Write, TypeOK, Count
    <2>5. pc' \in [Client \cup {Owner} -> {"idle", "put", "drain", "notify", "done"}]
      BY <1>2 DEF Write, TypeOK
    <2> QED
      BY <1>2, <2>1, <2>2, <2>3, <2>4, <2>5 DEF Write, TypeOK
  <1>3. ASSUME NEW t \in Waiter, CallWait(t) PROVE TypeOK'
    BY <1>3 DEF CallWait, TypeOK, Client
  <1>4. ASSUME NEW t \in Waiter, WakeWaiter(t) PROVE TypeOK'
    BY <1>4 DEF WakeWaiter, TypeOK, Client
  <1>5. ASSUME NEW s \in Snapper, GetSnapshot(s) PROVE TypeOK'
    BY <1>5 DEF GetSnapshot, TypeOK, Client
  <1>6. ASSUME NEW s \in Snapper, ReleaseSnapshot(s) PROVE TypeOK'
    BY <1>6 DEF ReleaseSnapshot, TypeOK, Client
  <1>7. ASSUME NEW t \in Snapper \cup {Owner}, NotifyAfterUnlock(t) PROVE TypeOK'
    BY <1>7 DEF NotifyAfterUnlock, TypeOK, Client
  <1>8. CASE Destroy
    BY <1>8 DEF Destroy, TypeOK, Client
  <1>9. CASE BgLoop
    BY <1>9 DEF BgLoop, TypeOK, Client
  <1>10. CASE FlushInstall
    BY <1>10 DEF FlushInstall, TypeOK, Client, Count
  <1>11. CASE FlushEnd
    BY <1>11 DEF FlushEnd, TypeOK, Client
  <1>12. CASE FlushFails
    BY <1>12 DEF FlushFails, TypeOK, Client
  <1>13. CASE Backoff
    BY <1>13 DEF Backoff, TypeOK, Client
  <1>14. CASE CompactEnd
    <2>1. l0' \in 0 .. l0_compaction_trigger
      BY <1>14 DEF CompactEnd, TypeOK
    <2>2. deep' \in BOOLEAN
      BY <1>14, Zenon DEF CompactEnd, TypeOK
    <2> QED
      BY <1>14, <2>1, <2>2 DEF CompactEnd, TypeOK
  <1>15. CASE CompactFails
    BY <1>15 DEF CompactFails, TypeOK, Client
  <1>16. CASE GcStart
    <2>1. left' \in 0 .. MaxScan /\ rewritten' \in Nat /\ vlog' \in 0 .. MaxVlog
      BY <1>16 DEF GcStart, TypeOK
    <2>2. leftover' \in BOOLEAN
      BY <1>16, Zenon DEF GcStart, TypeOK
    <2> QED
      BY <1>16, <2>1, <2>2 DEF GcStart, TypeOK
  <1>17. CASE GcEntry
    BY <1>17 DEF GcEntry, TypeOK, Client, AfterRotation, AfterAppend, NotifyOne, Kept, Count, Trigger
  <1>18. CASE GcRetire
    <2>1. leftover' \in BOOLEAN
      BY <1>18, Zenon DEF GcRetire, TypeOK
    <2>2. floor' \in Nat
      BY <1>18 DEF GcRetire, TypeOK
    <2> QED
      BY <1>18, <2>1, <2>2 DEF GcRetire, TypeOK
  <1>19. CASE GcFails
    BY <1>19 DEF GcFails, TypeOK, Client, AfterRotation, AfterAppend, NotifyOne, Kept, Count, Trigger
  <1>20. CASE GcEnd
    <2>1. left' \in 0 .. MaxScan /\ rewritten' \in Nat
      BY <1>20 DEF GcEnd
    <2>2. waiting' \subseteq Writer \cup Waiter \cup {bg}
      BY <1>20 DEF GcEnd, TypeOK
    <2> QED
      BY <1>20, <2>1, <2>2 DEF GcEnd, TypeOK
  <1>21. CASE UNCHANGED vars
    BY <1>21 DEF vars, TypeOK, Client
  <1> QED
    BY <1>1, <1>2, <1>3, <1>4, <1>5, <1>6, <1>7, <1>8, <1>9, <1>10, <1>11, <1>12, <1>13, <1>14, <1>15, <1>16, <1>17, <1>18, <1>19, <1>20, <1>21 DEF Next, Background

\* Every step keeps the threads in their places.
LEMMA PlacesStep == Inv /\ [Next]_vars => Places'
  <1> SUFFICES ASSUME Inv, [Next]_vars PROVE Places'
    OBVIOUS
  <1> USE SignalAssumption DEF Inv, work, pass
  <1>1. ASSUME NEW w \in Writer, WriterWaits(w) PROVE Places'
    BY <1>1 DEF WriterWaits, TypeOK, Places, InPass, Client, Runs
  <1>2. ASSUME NEW w \in Writer, Write(w) PROVE Places'
    BY <1>2 DEF Write, TypeOK, Places, InPass, Client, AfterRotation, AfterAppend, NotifyOne, Kept, Count, Trigger, Runs
  <1>3. ASSUME NEW t \in Waiter, CallWait(t) PROVE Places'
    BY <1>3 DEF CallWait, TypeOK, Places, InPass, Client, Drained
  <1>4. ASSUME NEW t \in Waiter, WakeWaiter(t) PROVE Places'
    BY <1>4 DEF WakeWaiter, TypeOK, Places, InPass, Client
  <1>5. ASSUME NEW s \in Snapper, GetSnapshot(s) PROVE Places'
    BY <1>5 DEF GetSnapshot, TypeOK, Places, InPass, Client
  <1>6. ASSUME NEW s \in Snapper, ReleaseSnapshot(s) PROVE Places'
    BY <1>6 DEF ReleaseSnapshot, TypeOK, Places, InPass, Client
  <1>7. ASSUME NEW t \in Snapper \cup {Owner}, NotifyAfterUnlock(t) PROVE Places'
    BY <1>7 DEF NotifyAfterUnlock, TypeOK, Places, InPass, Client
  <1>8. CASE Destroy
    BY <1>8 DEF Destroy, TypeOK, Places, InPass, Client
  <1>9. CASE BgLoop
    BY <1>9 DEF BgLoop, TypeOK, Places, InPass, Client
  <1>10. CASE FlushInstall
    BY <1>10 DEF FlushInstall, TypeOK, Places, InPass, Client
  <1>11. CASE FlushEnd
    BY <1>11 DEF FlushEnd, TypeOK, Places, InPass, Client
  <1>12. CASE FlushFails
    BY <1>12 DEF FlushFails, TypeOK, Places, InPass, Client
  <1>13. CASE Backoff
    BY <1>13 DEF Backoff, TypeOK, Places, InPass, Client
  <1>14. CASE CompactEnd
    BY <1>14 DEF CompactEnd, TypeOK, Places, InPass, Client
  <1>15. CASE CompactFails
    BY <1>15 DEF CompactFails, TypeOK, Places, InPass, Client
  <1>16. CASE GcStart
    BY <1>16 DEF GcStart, TypeOK, Places, InPass, Client
  <1>17. CASE GcEntry
    BY <1>17 DEF GcEntry, TypeOK, Places, InPass, Client, AfterRotation, AfterAppend, NotifyOne, Kept, Count, Trigger
  <1>18. CASE GcRetire
    BY <1>18 DEF GcRetire, TypeOK, Places, InPass, Client
  <1>19. CASE GcFails
    BY <1>19 DEF GcFails, TypeOK, Places, InPass, Client, AfterRotation, AfterAppend, NotifyOne, Kept, Count, Trigger
  <1>20. CASE GcEnd
    BY <1>20 DEF GcEnd, TypeOK, Places, InPass, Client
  <1>21. CASE UNCHANGED vars
    BY <1>21 DEF vars, TypeOK, Places, InPass, Client
  <1> QED
    BY <1>1, <1>2, <1>3, <1>4, <1>5, <1>6, <1>7, <1>8, <1>9, <1>10, <1>11, <1>12, <1>13, <1>14, <1>15, <1>16, <1>17, <1>18, <1>19, <1>20, <1>21 DEF Next, Background

\* Every step leaves the background thread awake when there is work.
LEMMA AwakeStep == Inv /\ [Next]_vars => BackgroundAwake'
  <1> SUFFICES ASSUME Inv, [Next]_vars PROVE BackgroundAwake'
    OBVIOUS
  <1> USE SignalAssumption DEF Inv, work, pass
  <1>1. ASSUME NEW w \in Writer, WriterWaits(w) PROVE BackgroundAwake'
    BY <1>1 DEF WriterWaits, TypeOK, Places, BackgroundAwake, NobodyForgotten, Drained, InPass, Client, Work, CompactionNeeded, VlogGcNeeded, VlogGcDue, Trigger, Runs
  <1>2. ASSUME NEW w \in Writer, Write(w) PROVE BackgroundAwake'
    <2>1. waiting' \subseteq waiting /\ ~imm /\ ~exit /\ ~exit'
      BY <1>2, WriteNotifies DEF Write
    <2>2. \A t \in Snapper \cup {Owner} : pc'[t] = pc[t]
      BY <1>2 DEF Write, TypeOK, Client
    <2>3. CASE bg \notin waiting \/ Work
      BY <2>1, <2>2, <2>3 DEF BackgroundAwake
    <2>4. CASE bg \in waiting /\ ~Work
      <3>1. waiting \subseteq {bg}
        BY <2>1, <2>4 DEF TypeOK, Places, NobodyForgotten, Drained, InPass
      <3>2. CASE imm' \/ (vlog' # vlog /\ vlog' >= Trigger)
        BY <1>2, <3>1, <3>2, WriteNotifies DEF BackgroundAwake
      <3>3. CASE ~imm' /\ ~(vlog' # vlog /\ vlog' >= Trigger)
        BY <1>2, <2>1, <2>4, <3>3
           DEF Write, BackgroundAwake, Work, CompactionNeeded, VlogGcNeeded, VlogGcDue, Trigger
      <3> QED
        BY <3>2, <3>3
    <2> QED
      BY <2>3, <2>4
  <1>3. ASSUME NEW t \in Waiter, CallWait(t) PROVE BackgroundAwake'
    BY <1>3 DEF CallWait, TypeOK, Places, BackgroundAwake, NobodyForgotten, Drained, InPass, Client, Work, CompactionNeeded, VlogGcNeeded, VlogGcDue, Trigger
  <1>4. ASSUME NEW t \in Waiter, WakeWaiter(t) PROVE BackgroundAwake'
    BY <1>4 DEF WakeWaiter, TypeOK, Places, BackgroundAwake, NobodyForgotten, Drained, InPass, Client, Work, CompactionNeeded, VlogGcNeeded, VlogGcDue, Trigger
  <1>5. ASSUME NEW s \in Snapper, GetSnapshot(s) PROVE BackgroundAwake'
    BY <1>5 DEF GetSnapshot, TypeOK, Places, BackgroundAwake, NobodyForgotten, Drained, InPass, Client, Work, CompactionNeeded, VlogGcNeeded, VlogGcDue, Trigger
  <1>6. ASSUME NEW s \in Snapper, ReleaseSnapshot(s) PROVE BackgroundAwake'
    BY <1>6 DEF ReleaseSnapshot, TypeOK, Places, BackgroundAwake, NobodyForgotten, Drained, InPass, Client, Work, CompactionNeeded, VlogGcNeeded, VlogGcDue, Trigger
  <1>7. ASSUME NEW t \in Snapper \cup {Owner}, NotifyAfterUnlock(t) PROVE BackgroundAwake'
    BY <1>7 DEF NotifyAfterUnlock, TypeOK, Places, BackgroundAwake, NobodyForgotten, Drained, InPass, Client, Work, CompactionNeeded, VlogGcNeeded, VlogGcDue, Trigger
  <1>8. CASE Destroy
    BY <1>8 DEF Destroy, TypeOK, Places, BackgroundAwake, NobodyForgotten, Drained, InPass, Client, Work, CompactionNeeded, VlogGcNeeded, VlogGcDue, Trigger
  <1>9. CASE BgLoop
    BY <1>9 DEF BgLoop, TypeOK, Places, BackgroundAwake, NobodyForgotten, Drained, InPass, Client, Work, CompactionNeeded, VlogGcNeeded, VlogGcDue, Trigger
  <1>10. CASE FlushInstall
    BY <1>10 DEF FlushInstall, TypeOK, Places, BackgroundAwake, NobodyForgotten, Drained, InPass, Client, Work, CompactionNeeded, VlogGcNeeded, VlogGcDue, Trigger
  <1>11. CASE FlushEnd
    BY <1>11 DEF FlushEnd, TypeOK, Places, BackgroundAwake, NobodyForgotten, Drained, InPass, Client, Work, CompactionNeeded, VlogGcNeeded, VlogGcDue, Trigger
  <1>12. CASE FlushFails
    BY <1>12 DEF FlushFails, TypeOK, Places, BackgroundAwake, NobodyForgotten, Drained, InPass, Client, Work, CompactionNeeded, VlogGcNeeded, VlogGcDue, Trigger
  <1>13. CASE Backoff
    BY <1>13 DEF Backoff, TypeOK, Places, BackgroundAwake, NobodyForgotten, Drained, InPass, Client, Work, CompactionNeeded, VlogGcNeeded, VlogGcDue, Trigger
  <1>14. CASE CompactEnd
    BY <1>14 DEF CompactEnd, TypeOK, Places, BackgroundAwake, NobodyForgotten, Drained, InPass, Client, Work, CompactionNeeded, VlogGcNeeded, VlogGcDue, Trigger
  <1>15. CASE CompactFails
    BY <1>15 DEF CompactFails, TypeOK, Places, BackgroundAwake, NobodyForgotten, Drained, InPass, Client, Work, CompactionNeeded, VlogGcNeeded, VlogGcDue, Trigger
  <1>16. CASE GcStart
    BY <1>16 DEF GcStart, TypeOK, Places, BackgroundAwake, NobodyForgotten, Drained, InPass, Client, Work, CompactionNeeded, VlogGcNeeded, VlogGcDue, Trigger
  <1>17. CASE GcEntry
    BY <1>17, AppendNotifies DEF GcEntry, Places, BackgroundAwake
  <1>18. CASE GcRetire
    BY <1>18 DEF GcRetire, TypeOK, Places, BackgroundAwake, NobodyForgotten, Drained, InPass, Client, Work, CompactionNeeded, VlogGcNeeded, VlogGcDue, Trigger
  <1>19. CASE GcFails
    BY <1>19, AppendNotifies DEF GcFails, Places, BackgroundAwake
  <1>20. CASE GcEnd
    BY <1>20 DEF GcEnd, TypeOK, Places, BackgroundAwake, NobodyForgotten, Drained, InPass, Client, Work, CompactionNeeded, VlogGcNeeded, VlogGcDue, Trigger
  <1>21. CASE UNCHANGED vars
    BY <1>21 DEF vars, TypeOK, Places, BackgroundAwake, NobodyForgotten, Drained, InPass, Client, Work, CompactionNeeded, VlogGcNeeded, VlogGcDue, Trigger
  <1> QED
    BY <1>1, <1>2, <1>3, <1>4, <1>5, <1>6, <1>7, <1>8, <1>9, <1>10, <1>11, <1>12, <1>13, <1>14, <1>15, <1>16, <1>17, <1>18, <1>19, <1>20, <1>21 DEF Next, Background

\* Every step that makes a waiter's predicate true takes it out of the wait set.
LEMMA ForgottenStep ==
    ASSUME ~SnapshotWhileWaiting, Inv, [Next]_vars
    PROVE  NobodyForgotten'
  <1> USE SignalAssumption DEF Inv, work, pass
  <1>1. ASSUME NEW w \in Writer, WriterWaits(w) PROVE NobodyForgotten'
    BY <1>1 DEF WriterWaits, TypeOK, Places, NobodyForgotten, Drained, InPass, Client, Work, CompactionNeeded, VlogGcNeeded, VlogGcDue, Trigger, Runs
  <1>2. ASSUME NEW w \in Writer, Write(w) PROVE NobodyForgotten'
    <2>1. waiting' \subseteq waiting /\ ~imm /\ ~exit
      BY <1>2, WriteNotifies DEF Write
    <2>2. vlog' >= vlog /\ vlog' \in Nat /\ vlog \in Nat /\ Trigger \in Nat /\ Trigger' = Trigger
      BY <1>2 DEF Write, TypeOK, Count, Trigger
    <2>3. VlogGcNeeded => VlogGcNeeded'
      BY <1>2, <2>2 DEF Write, VlogGcNeeded, VlogGcDue
    <2>4. CompactionNeeded' = CompactionNeeded
      BY <1>2 DEF Write, CompactionNeeded
    <2>5. ASSUME NEW t \in Waiter, t \in waiting' PROVE ~Drained' \/ bgpc' = "backoff"
      BY <1>2, <2>1, <2>3, <2>4, <2>5 DEF Write, NobodyForgotten, Drained, Work
    <2> QED
      BY <2>1, <2>5 DEF NobodyForgotten
  <1>3. ASSUME NEW t \in Waiter, CallWait(t) PROVE NobodyForgotten'
    BY <1>3 DEF CallWait, TypeOK, Places, NobodyForgotten, Drained, InPass, Client, Work, CompactionNeeded, VlogGcNeeded, VlogGcDue, Trigger
  <1>4. ASSUME NEW t \in Waiter, WakeWaiter(t) PROVE NobodyForgotten'
    BY <1>4 DEF WakeWaiter, TypeOK, Places, NobodyForgotten, Drained, InPass, Client, Work, CompactionNeeded, VlogGcNeeded, VlogGcDue, Trigger
  <1>5. ASSUME NEW s \in Snapper, GetSnapshot(s) PROVE NobodyForgotten'
    BY <1>5 DEF GetSnapshot, TypeOK, Places, NobodyForgotten, Drained, InPass, Client, Work, CompactionNeeded, VlogGcNeeded, VlogGcDue, Trigger
  <1>6. ASSUME NEW s \in Snapper, ReleaseSnapshot(s) PROVE NobodyForgotten'
    BY <1>6 DEF ReleaseSnapshot, TypeOK, Places, NobodyForgotten, Drained, InPass, Client, Work, CompactionNeeded, VlogGcNeeded, VlogGcDue, Trigger
  <1>7. ASSUME NEW t \in Snapper \cup {Owner}, NotifyAfterUnlock(t) PROVE NobodyForgotten'
    BY <1>7 DEF NotifyAfterUnlock, TypeOK, Places, NobodyForgotten, Drained, InPass, Client, Work, CompactionNeeded, VlogGcNeeded, VlogGcDue, Trigger
  <1>8. CASE Destroy
    BY <1>8 DEF Destroy, TypeOK, Places, NobodyForgotten, Drained, InPass, Client, Work, CompactionNeeded, VlogGcNeeded, VlogGcDue, Trigger
  <1>9. CASE BgLoop
    BY <1>9 DEF BgLoop, TypeOK, Places, NobodyForgotten, Drained, InPass, Client, Work, CompactionNeeded, VlogGcNeeded, VlogGcDue, Trigger
  <1>10. CASE FlushInstall
    BY <1>10 DEF FlushInstall, Count, TypeOK, Places, NobodyForgotten, Drained, InPass, Client, Work, CompactionNeeded, VlogGcNeeded, VlogGcDue, Trigger
  <1>11. CASE FlushEnd
    BY <1>11 DEF FlushEnd, TypeOK, Places, NobodyForgotten, Drained, InPass, Client, Work, CompactionNeeded, VlogGcNeeded, VlogGcDue, Trigger
  <1>12. CASE FlushFails
    BY <1>12 DEF FlushFails, TypeOK, Places, NobodyForgotten, Drained, InPass, Client, Work, CompactionNeeded, VlogGcNeeded, VlogGcDue, Trigger
  <1>13. CASE Backoff
    BY <1>13 DEF Backoff, TypeOK, Places, NobodyForgotten, Drained, InPass, Client, Work, CompactionNeeded, VlogGcNeeded, VlogGcDue, Trigger
  <1>14. CASE CompactEnd
    BY <1>14 DEF CompactEnd, TypeOK, Places, NobodyForgotten, Drained, InPass, Client, Work, CompactionNeeded, VlogGcNeeded, VlogGcDue, Trigger
  <1>15. CASE CompactFails
    BY <1>15 DEF CompactFails, TypeOK, Places, NobodyForgotten, Drained, InPass, Client, Work, CompactionNeeded, VlogGcNeeded, VlogGcDue, Trigger
  <1>16. CASE GcStart
    BY <1>16 DEF GcStart, TypeOK, Places, NobodyForgotten, Drained, InPass, Client, Work, CompactionNeeded, VlogGcNeeded, VlogGcDue, Trigger
  <1>17. CASE GcEntry
    <2>1. waiting' \subseteq waiting /\ gcActive' /\ UNCHANGED <<imm, exit>>
      BY <1>17, AppendNotifies DEF GcEntry, Places, InPass
    <2> QED
      BY <1>17, <2>1 DEF GcEntry, Places, NobodyForgotten, Drained, Client
  <1>18. CASE GcRetire
    BY <1>18 DEF GcRetire, TypeOK, Places, NobodyForgotten, Drained, InPass, Client, Work, CompactionNeeded, VlogGcNeeded, VlogGcDue, Trigger
  <1>19. CASE GcFails
    <2>1. waiting' \subseteq waiting /\ gcActive' /\ UNCHANGED <<imm, exit>>
      BY <1>19, AppendNotifies DEF GcFails, Places, InPass
    <2> QED
      BY <1>19, <2>1 DEF GcFails, Places, NobodyForgotten, Drained, Client
  <1>20. CASE GcEnd
    BY <1>20 DEF GcEnd, TypeOK, Places, NobodyForgotten, Drained, InPass, Client, Work, CompactionNeeded, VlogGcNeeded, VlogGcDue, Trigger
  <1>21. CASE UNCHANGED vars
    BY <1>21 DEF vars, TypeOK, Places, NobodyForgotten, Drained, InPass, Client, Work, CompactionNeeded, VlogGcNeeded, VlogGcDue, Trigger
  <1> QED
    BY <1>1, <1>2, <1>3, <1>4, <1>5, <1>6, <1>7, <1>8, <1>9, <1>10, <1>11, <1>12, <1>13, <1>14, <1>15, <1>16, <1>17, <1>18, <1>19, <1>20, <1>21 DEF Next, Background

\* The constructor leaves nobody waiting and nothing to do.
LEMMA InitInv == Init => Inv
  <1> SUFFICES ASSUME Init PROVE Inv
    OBVIOUS
  <1>1. /\ mem \in 0..write_buffer_size /\ l0 \in 0..l0_compaction_trigger
        /\ vlog \in 0..MaxVlog /\ floor \in Nat
        /\ left \in 0..MaxScan /\ rewritten \in Nat /\ faults \in 0..MaxFaults
    BY SignalAssumption, SMT DEF Init
  <1>2. /\ imm \in BOOLEAN /\ deep \in BOOLEAN /\ disabled \in BOOLEAN /\ leftover \in BOOLEAN
        /\ gcActive \in BOOLEAN /\ exit \in BOOLEAN
    BY Zenon DEF Init
  <1>3. pc \in [Client \cup {Owner} -> {"idle", "put", "drain", "notify", "done"}]
    BY DEF Init
  <1>4. TypeOK
    BY <1>1, <1>2, <1>3, Zenon DEF Init, TypeOK
  <1>5. Places
    BY DEF Init, Places, InPass, Client
  <1>6. BackgroundAwake /\ NobodyForgotten
    BY DEF Init, BackgroundAwake, NobodyForgotten
  <1> QED
    BY <1>4, <1>5, <1>6 DEF Inv

\* Inv is inductive.
LEMMA InvStep ==
    ASSUME ~SnapshotWhileWaiting
    PROVE  Inv /\ [Next]_vars => Inv'
  BY TypeStep, PlacesStep, AwakeStep, ForgottenStep DEF Inv

-----------------------------------------------------------------------------
\* The background thread never sleeps while imm_, a compaction or a collection
\* is pending: a notify_one of Put, Delete or WriteEntry reaches it, however
\* many threads wait on signal_.
THEOREM BackgroundAlwaysAwake ==
    ASSUME ~SnapshotWhileWaiting
    PROVE  Spec => []BackgroundAwake
  <1>1. Inv => BackgroundAwake
    BY DEF Inv
  <1> QED
    BY <1>1, InitInv, InvStep, PTL DEF Spec

\* No writer sleeps after its memtable was flushed, and no caller of
\* wait_for_background_work after the work was done.
THEOREM NobodyEverForgotten ==
    ASSUME ~SnapshotWhileWaiting
    PROVE  Spec => []NobodyForgotten
  <1>1. Inv => NobodyForgotten
    BY DEF Inv
  <1> QED
    BY <1>1, InitInv, InvStep, PTL DEF Spec
=============================================================================
