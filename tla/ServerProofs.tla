---------------------------- MODULE ServerProofs ----------------------------
(***************************************************************************)
(* The event loop asks epoll for EPOLLOUT exactly while a connection has   *)
(* replies left, for any clients, scripts, limits, buffer sizes and        *)
(* faults.  Between two events it holds of every open connection; while    *)
(* the loop has a connection in hand, of all the others.                   *)
(*                                                                         *)
(* Then: every client reads the answers to its own requests, in order, a   *)
(* prefix of them if its connection is cut.  What a client has read, what  *)
(* is on the wire and what is left of out make up its answers (Fine).      *)
(***************************************************************************)
EXTENDS Server, TLAPS, WellFoundedInduction, SequenceTheorems

\* The loop is handling an event of c.
InHand(c) == pc \in {"read", "execute", "write", "flush"} /\ cur.c = c

\* The fields of struct Conn.
IsConn(k) == \E p, o, f, b, a :
    k = [parser |-> p, out |-> o, out_off |-> f, closing |-> b, armed |-> a]

\* Connections are kept by client.
Shapes ==
    /\ conn = [c \in Client |-> conn[c]] /\ conns = [c \in Client |-> conns[c]]
    /\ \A c \in Client : IsConn(conns[c])

\* A connection that is not accepted yet has nothing in its buffers, and no
\* event in hand or in events[] is about one.
Unaccepted == {"new", "queued"}
EventsAccepted ==
    /\ \A c \in Client : conn[c] \in Unaccepted => conns[c] = NewConn
    /\ \A e \in batch \ {Listen} : e.c \in Client /\ conn[e.c] \notin Unaccepted
    /\ \A c : InHand(c) => c \in Client /\ conn[c] \notin Unaccepted

\* EPOLLOUT is armed where it should be, but for the connection in hand.
Interest ==
    \A c \in Client : (conn[c] = "open" /\ ~InHand(c)) =>
        conns[c].armed = (Backlog(conns[c]) > 0)

ServerInv == Shapes /\ EventsAccepted /\ Interest

\* A new connection has no backlog and EPOLLOUT is not armed for it.
LEMMA NewConnIdle == IsConn(NewConn) /\ NewConn.armed = (Backlog(NewConn) > 0)
<1>1. NewConn.out = <<>> /\ NewConn.out_off = 0 /\ NewConn.armed = FALSE
  BY DEF NewConn
<1>2. Backlog(NewConn) = 0
  BY <1>1 DEF Backlog
<1>3. (0 > 0) = FALSE
  OBVIOUS
<1>4. IsConn(NewConn)
  BY DEF IsConn, NewConn
<1> QED
  BY <1>1, <1>2, <1>3, <1>4

\* A struct Conn stays one when a field is assigned.
LEMMA Assigned ==
    ASSUME NEW k, IsConn(k), NEW x
    PROVE  /\ IsConn([k EXCEPT !.parser = x]) /\ IsConn([k EXCEPT !.out = x])
           /\ IsConn([k EXCEPT !.out_off = x]) /\ IsConn([k EXCEPT !.closing = x])
           /\ IsConn([k EXCEPT !.armed = x])
<1>1. PICK p, o, f, b, a :
         k = [parser |-> p, out |-> o, out_off |-> f, closing |-> b, armed |-> a]
  BY DEF IsConn
<1> DEFINE Rec(q, u, g, c, z) ==
             [parser |-> q, out |-> u, out_off |-> g, closing |-> c, armed |-> z]
<1>2. \A q, u, g, c, z : IsConn(Rec(q, u, g, c, z))
  BY DEF IsConn
<1>3. [k EXCEPT !.parser = x] = Rec(x, o, f, b, a) /\ [k EXCEPT !.out = x] = Rec(p, x, f, b, a)
  BY <1>1
<1>4. [k EXCEPT !.out_off = x] = Rec(p, o, x, b, a) /\ [k EXCEPT !.closing = x] = Rec(p, o, f, x, a)
  BY <1>1
<1>5. [k EXCEPT !.armed = x] = Rec(p, o, f, b, x)
  BY <1>1
<1> HIDE DEF Rec
<1> QED
  BY <1>2, <1>3, <1>4, <1>5

\* Or two.
LEMMA AssignedTwice ==
    ASSUME NEW k, IsConn(k), NEW x, NEW y
    PROVE  /\ IsConn([k EXCEPT !.parser = x, !.closing = y])
           /\ IsConn([k EXCEPT !.parser = x, !.out = y])
           /\ IsConn([k EXCEPT !.out = x, !.out_off = y])
<1>1. PICK u : u = [k EXCEPT !.parser = x]
  OBVIOUS
<1>2. PICK v : v = [k EXCEPT !.out = x]
  OBVIOUS
<1>3. IsConn(u) /\ IsConn(v)
  BY <1>1, <1>2, Assigned
<1>4. /\ IsConn([u EXCEPT !.closing = y]) /\ IsConn([u EXCEPT !.out = y])
      /\ IsConn([v EXCEPT !.out_off = y])
  BY <1>3, Assigned
<1>5. [k EXCEPT !.parser = x, !.closing = y] = [u EXCEPT !.closing = y]
  <2>1. [[k EXCEPT !.parser = x] EXCEPT !.closing = y] = [u EXCEPT !.closing = y]
    BY <1>1, Zenon
  <2> QED
    BY <2>1, Zenon
<1>6. [k EXCEPT !.parser = x, !.out = y] = [u EXCEPT !.out = y]
  <2>1. [[k EXCEPT !.parser = x] EXCEPT !.out = y] = [u EXCEPT !.out = y]
    BY <1>1, Zenon
  <2> QED
    BY <2>1, Zenon
<1>7. [k EXCEPT !.out = x, !.out_off = y] = [v EXCEPT !.out_off = y]
  <2>1. [[k EXCEPT !.out = x] EXCEPT !.out_off = y] = [v EXCEPT !.out_off = y]
    BY <1>2, Zenon
  <2> QED
    BY <2>1, Zenon
<1> QED
  BY <1>4, <1>5, <1>6, <1>7, Zenon

LEMMA InvInit == Init => ServerInv
<1> SUFFICES ASSUME Init PROVE ServerInv
  OBVIOUS
<1>1. /\ conn = [c \in Client |-> "new"] /\ conns = [c \in Client |-> NewConn]
      /\ pc = "loop" /\ batch = {}
  BY DEF Init
<1>2. Shapes
  BY <1>1, NewConnIdle DEF Shapes
<1>3. EventsAccepted /\ Interest
  BY <1>1 DEF EventsAccepted, Interest, InHand, Unaccepted
<1> QED
  BY <1>2, <1>3 DEF ServerInv

\* Steps that leave the connections alone and take no event in hand.
LEMMA FrameStep ==
    ASSUME ServerInv, UNCHANGED <<conn, conns>>,
           \A c : InHand(c)' <=> InHand(c),
           \A e \in batch' \ {Listen} : e \in batch \/ (e.c \in Client /\ conn[e.c] = "open")
    PROVE  ServerInv'
<1>1. Shapes'
  BY DEF ServerInv, Shapes
<1>2. EventsAccepted'
  BY DEF ServerInv, EventsAccepted, Unaccepted
<1>3. Interest'
  BY DEF ServerInv, Interest
<1> QED
  BY <1>1, <1>2, <1>3 DEF ServerInv

\* What clients and the caller of Stop do, and epoll_wait.
LEMMA QuietSteps ==
    ASSUME ServerInv,
           \/ UNCHANGED vars \/ Stop \/ Wake \/ Wait \/ WaitFails \/ BatchDone
           \/ \E c \in Client : Send(c) \/ Quit(c) \/ Receive(c)
    PROVE  ServerInv'
<1>1. CASE \/ UNCHANGED vars \/ Stop \/ Wake
           \/ \E c \in Client : Send(c) \/ Quit(c) \/ Receive(c)
  <2>1. UNCHANGED <<conn, conns, pc, batch, cur>>
    BY <1>1 DEF vars, socket, loop, Stop, Wake, Send, Quit, Receive
  <2> QED
    BY <2>1, FrameStep DEF InHand
<1>2. CASE Wait
  <2>1. UNCHANGED <<conn, conns>> /\ pc = "wait" /\ pc' = "loop"
    BY <1>2 DEF Wait, socket
  <2>2. \A e \in batch' \ {Listen} : e \in Events
    BY <1>2 DEF Wait
  <2>3. \A e \in Events : e.c \in Client /\ conn[e.c] = "open"
    BY DEF Events, Open
  <2> QED
    BY <2>1, <2>2, <2>3, FrameStep DEF InHand
<1>3. CASE BatchDone \/ WaitFails
  <2>1. /\ UNCHANGED <<conn, conns, batch>>
        /\ pc \in {"loop", "wait"} /\ pc' \in {"wait", "exit"}
    BY <1>3 DEF BatchDone, WaitFails, socket
  <2> QED
    BY <2>1, FrameStep DEF InHand
<1> QED
  BY <1>1, <1>2, <1>3

\* connect() puts a client in the queue.
LEMMA ConnectStep == ASSUME ServerInv, NEW c \in Client, Connect(c) PROVE ServerInv'
<1>1. /\ UNCHANGED <<conns, pc, batch, cur>> /\ conn' = [conn EXCEPT ![c] = "queued"]
      /\ conn[c] = "new"
  BY DEF Connect, loop
<1>2. \A d \in Client : conn'[d] = IF d = c THEN "queued" ELSE conn[d]
  BY <1>1 DEF ServerInv, Shapes
<1>3. Shapes'
  BY <1>1 DEF ServerInv, Shapes
<1>4. EventsAccepted'
  BY <1>1, <1>2 DEF ServerInv, EventsAccepted, InHand, Unaccepted
<1>5. Interest'
  BY <1>1, <1>2 DEF ServerInv, Interest, InHand
<1> QED
  BY <1>3, <1>4, <1>5 DEF ServerInv

\* AcceptNewClients lets clients in with empty buffers.
LEMMA AcceptStep ==
    ASSUME ServerInv, NEW S \in SUBSET Queued, Accept(S)
    PROVE  ServerInv'
<1>1. /\ UNCHANGED <<conns, pc, cur>> /\ pc = "loop" /\ batch' = batch \ {Listen}
      /\ conn' = [c \in Client |-> conn'[c]]
      /\ \A c \in Client : \/ conn[c] = "queued" /\ conn'[c] \in {"open", "failed", "shed"}
                           \/ conn'[c] = conn[c]
  BY DEF Accept, Queued
<1>2. Shapes'
  BY <1>1 DEF ServerInv, Shapes
<1>3. EventsAccepted'
  BY <1>1 DEF ServerInv, EventsAccepted, InHand, Unaccepted
<1>4. Interest'
  <2> SUFFICES ASSUME NEW c \in Client, conn'[c] = "open"
               PROVE  conns[c].armed = (Backlog(conns[c]) > 0)
    BY <1>1 DEF Interest, InHand
  <2>1. CASE conn[c] = "queued"
    BY <2>1, NewConnIdle DEF ServerInv, EventsAccepted, Unaccepted
  <2>2. CASE conn[c] = "open"
    BY <1>1, <2>2 DEF ServerInv, Interest, InHand
  <2> QED
    BY <1>1, <2>1, <2>2
<1> QED
  BY <1>2, <1>3, <1>4 DEF ServerInv

\* An event is taken in hand.
LEMMA DispatchStep == ASSUME ServerInv, Dispatch PROVE ServerInv'
<1>1. PICK e \in batch \ {Listen} : batch' = batch \ {e} /\ cur' = e
  BY DEF Dispatch
<1>2. UNCHANGED <<conn, conns>> /\ pc = "loop"
  BY DEF Dispatch, socket
<1>3. Shapes'
  BY <1>2 DEF ServerInv, Shapes
<1>4. EventsAccepted'
  BY <1>1, <1>2 DEF ServerInv, EventsAccepted, InHand
<1>5. Interest'
  BY <1>2 DEF ServerInv, Interest, InHand
<1> QED
  BY <1>3, <1>4, <1>5 DEF ServerInv

\* The end of a connection.
LEMMA CloseStep ==
    ASSUME ServerInv, NEW c, NEW why \in Ended, CloseConn(c, why), batch' \subseteq batch,
           pc = "loop" \/ InHand(c)
    PROVE  ServerInv'
<1>1. /\ conn' = [conn EXCEPT ![c] = why] /\ conns' = [conns EXCEPT ![c] = NewConn]
      /\ pc' = "loop"
  BY DEF CloseConn
<1>2. \A d \in Client : /\ conn'[d] = IF d = c THEN why ELSE conn[d]
                        /\ conns'[d] = IF d = c THEN NewConn ELSE conns[d]
  BY <1>1 DEF ServerInv, Shapes
<1>3. why \notin Unaccepted /\ why # "open"
  BY DEF Ended, Unaccepted
<1>4. Shapes'
  BY <1>1, <1>2, NewConnIdle DEF ServerInv, Shapes
<1>5. EventsAccepted'
  BY <1>1, <1>2, <1>3 DEF ServerInv, EventsAccepted, InHand
<1>6. Interest'
  BY <1>1, <1>2, <1>3 DEF ServerInv, Interest, InHand
<1> QED
  BY <1>4, <1>5, <1>6 DEF ServerInv

\* The loop works on the connection in hand and keeps it, or leaves it with
\* EPOLLOUT armed as it should be.
LEMMA HandStep ==
    ASSUME ServerInv, NEW c, InHand(c), NEW k, IsConn(k), UNCHANGED <<conn, batch, cur>>,
           conns' = [conns EXCEPT ![c] = k],
           InHand(c)' \/ (pc' = "loop" /\ k.armed = (Backlog(k) > 0))
    PROVE  ServerInv'
<1>1. c \in Client /\ conn[c] \notin Unaccepted
  BY DEF ServerInv, EventsAccepted
<1>2. \A d \in Client : conns'[d] = IF d = c THEN k ELSE conns[d]
  BY <1>1 DEF ServerInv, Shapes
<1>3. Shapes'
  BY <1>2 DEF ServerInv, Shapes
<1>4. \A d : InHand(d) => d = c
  BY DEF InHand
<1>5. \A d : InHand(d)' => d = c
  BY DEF InHand
<1>6. EventsAccepted'
  BY <1>1, <1>2, <1>5 DEF ServerInv, EventsAccepted
<1>7. Interest'
  <2> SUFFICES ASSUME NEW d \in Client, conn[d] = "open", ~InHand(d)'
               PROVE  conns'[d].armed = (Backlog(conns'[d]) > 0)
    BY DEF Interest
  <2>1. CASE d = c
    BY <1>2, <2>1
  <2>2. CASE d # c
    BY <1>2, <1>4, <2>2 DEF ServerInv, Interest
  <2> QED
    BY <2>1, <2>2
<1> QED
  BY <1>3, <1>6, <1>7 DEF ServerInv

\* HandleReadable: one read().
LEMMA ReadStep == ASSUME ServerInv, Read PROVE ServerInv'
<1>0. PICK c : c = cur.c
  OBVIOUS
<1>1. InHand(c) /\ c \in Client /\ IsConn(conns[c])
  BY <1>0 DEF Read, InHand, ServerInv, EventsAccepted, Shapes
<1> DEFINE n == IF Len(Rest(c)) < kReadChunk THEN Len(Rest(c)) ELSE kReadChunk
           p == Feed(conns[c].parser, SubSeq(Rest(c), 1, n))
           over == Len(p.buf) > kMaxInBytes
           why == IF peer[c] = "reset" THEN "failed" ELSE "closed"
           k == [conns[c] EXCEPT !.parser = p, !.closing = @ \/ over]
<1>2. \/ CloseConn(c, why) /\ UNCHANGED batch
      \/ pc' = "flush" /\ UNCHANGED <<conn, conns, batch, cur>>
      \/ /\ pc' \in {"flush", "execute"} /\ UNCHANGED <<conn, batch, cur>>
         /\ conns' = [conns EXCEPT ![c].parser = p, ![c].closing = @ \/ over]
  <2> HIDE DEF n
  <2>1. \/ CloseConn(c, why) /\ UNCHANGED batch
        \/ pc' = "flush" /\ UNCHANGED <<socket, conns, batch, cur>>
        \/ /\ pc' = IF over THEN "flush" ELSE "execute"
           /\ conns' = [conns EXCEPT ![c].parser = p, ![c].closing = @ \/ over]
           /\ UNCHANGED <<conn, batch, cur>>
    BY <1>0 DEF Read, n
  <2> QED
    BY <2>1 DEF socket
<1>3. CASE CloseConn(c, why) /\ UNCHANGED batch
  <2>1. why \in Ended
    BY DEF Ended
  <2> QED
    BY <1>1, <1>3, <2>1, CloseStep
<1>4. CASE pc' = "flush" /\ UNCHANGED <<conn, conns, batch, cur>>
  BY <1>4, FrameStep DEF Read, InHand
<1>5. CASE /\ pc' \in {"flush", "execute"} /\ UNCHANGED <<conn, batch, cur>>
           /\ conns' = [conns EXCEPT ![c].parser = p, ![c].closing = @ \/ over]
  <2>1. conns' = [conns EXCEPT ![c] = k]
    BY <1>5
  <2>2. IsConn(k)
    <3>1. PICK d : d = (conns[c].closing \/ over)
      BY Zenon
    <3> HIDE DEF p, over
    <3>2. k = [conns[c] EXCEPT !.parser = p, !.closing = d]
      BY <3>1
    <3> QED
      BY <1>1, <3>2, AssignedTwice, Zenon
  <2>3. InHand(c)'
    BY <1>0, <1>5 DEF InHand
  <2> HIDE DEF k
  <2> QED
    BY <1>1, <1>5, <2>1, <2>2, <2>3, HandStep
<1> QED
  BY <1>2, <1>3, <1>4, <1>5

\* One round around Parser::Next.
LEMMA HandleRequestStep == ASSUME ServerInv, HandleRequest PROVE ServerInv'
<1>0. PICK c : c = cur.c
  OBVIOUS
<1>1. InHand(c) /\ c \in Client /\ IsConn(conns[c])
  BY <1>0, Zenon DEF HandleRequest, InHand, ServerInv, EventsAccepted, Shapes
<1>2. UNCHANGED <<conn, batch, cur>> /\ pc' \in {"flush", "execute", "read"}
  <2>1. UNCHANGED <<socket, batch, cur>>
    BY Zenon DEF HandleRequest
  <2>2. pc' \in {"flush", "execute", "read"}
    BY Zenon DEF HandleRequest
  <2> QED
    BY <2>1, <2>2 DEF socket
<1>3. InHand(c)'
  BY <1>0, <1>2 DEF InHand
<1>4. PICK o \in {ParserNext(conns[cur.c].parser)} :
        LET put(r) == [conns[cur.c] EXCEPT !.parser = o.p, !.out = Append(@, r)] IN
        \/ conns' = [conns EXCEPT ![cur.c].parser = o.p]
        \/ conns' = [conns EXCEPT ![cur.c] = [put(Protocol) EXCEPT !.closing = TRUE]]
        \/ \E result \in {Execute(o.args, db, x) : x \in Outcomes(o.args)} :
             LET q == put(result.reply)
                 over == Backlog(q) > kMaxOutBytes
             IN  conns' = [conns EXCEPT ![cur.c] = [q EXCEPT !.closing = @ \/ over]]
  BY Zenon DEF HandleRequest
<1> DEFINE put(r) == [conns[cur.c] EXCEPT !.parser = o.p, !.out = Append(@, r)]
<1>5. \A r : IsConn(put(r))
  BY <1>0, <1>1, AssignedTwice, Zenon
<1>6. CASE conns' = [conns EXCEPT ![cur.c].parser = o.p]
  <2> DEFINE k == [conns[c] EXCEPT !.parser = o.p]
  <2>1. conns' = [conns EXCEPT ![c] = k]
    BY <1>0, <1>6
  <2>2. IsConn(k)
    BY <1>1, Assigned
  <2> HIDE DEF k
  <2> QED
    BY <1>1, <1>2, <1>3, <2>1, <2>2, HandStep
<1>7. ASSUME NEW k, IsConn(k), conns' = [conns EXCEPT ![cur.c] = k] PROVE ServerInv'
  BY <1>0, <1>1, <1>2, <1>3, <1>7, HandStep
<1>8. CASE conns' = [conns EXCEPT ![cur.c] = [put(Protocol) EXCEPT !.closing = TRUE]]
  <2> HIDE DEF put
  <2>1. IsConn([put(Protocol) EXCEPT !.closing = TRUE])
    BY <1>5, Assigned
  <2> QED
    BY <1>7, <1>8, <2>1, Zenon
<1>9. CASE \E result \in {Execute(o.args, db, x) : x \in Outcomes(o.args)} :
             LET q == put(result.reply)
                 over == Backlog(q) > kMaxOutBytes
             IN  conns' = [conns EXCEPT ![cur.c] = [q EXCEPT !.closing = @ \/ over]]
  <2> HIDE DEF put
  <2>1. PICK result : conns' = [conns EXCEPT ![cur.c] = [put(result.reply) EXCEPT !.closing =
                                   @ \/ Backlog(put(result.reply)) > kMaxOutBytes]]
    BY <1>9, Zenon
  <2>2. \A r, x : IsConn([put(r) EXCEPT !.closing = x])
    BY <1>5, Assigned, Zenon
  <2> QED
    BY <1>7, <2>1, <2>2, Zenon
<1> QED
  BY <1>4, <1>6, <1>8, <1>9, Zenon

\* FlushOut: a write(), the end of the connection, or the epoll_ctl.
LEMMA FlushOutStep == ASSUME ServerInv, FlushOut PROVE ServerInv'
<1>0. PICK c : c = cur.c
  OBVIOUS
<1>1. InHand(c) /\ c \in Client /\ IsConn(conns[c])
  BY <1>0, Zenon DEF FlushOut, InHand, ServerInv, EventsAccepted, Shapes
<1> DEFINE k == conns[c]
           room == kSndBuf - Len(wire[c])
           n == IF Backlog(k) < room THEN Backlog(k) ELSE room
           Rearm(j) == /\ conns' = [conns EXCEPT ![c] = [j EXCEPT !.armed = Interested(j)]]
                       /\ pc' \in {"read", "loop"} /\ UNCHANGED <<conn, batch, cur>>
<1>2. \/ \E why \in {"failed", "closed"} : CloseConn(c, why) /\ UNCHANGED batch
      \/ conns' = [conns EXCEPT ![c].out_off = @ + n] /\ UNCHANGED <<conn, batch, cur, pc>>
      \/ Rearm(k) \/ Rearm(Cleared(k))
  BY <1>0, Zenon DEF FlushOut, socket, loop
<1>3. ASSUME NEW why \in {"failed", "closed"}, CloseConn(c, why), UNCHANGED batch PROVE ServerInv'
  <2>1. why \in Ended
    BY DEF Ended
  <2> QED
    BY <1>1, <1>3, <2>1, CloseStep
<1>4. CASE conns' = [conns EXCEPT ![c].out_off = @ + n] /\ UNCHANGED <<conn, batch, cur, pc>>
  <2> DEFINE m == [conns[c] EXCEPT !.out_off = @ + n]
  <2>1. conns' = [conns EXCEPT ![c] = m]
    BY <1>4
  <2>2. IsConn(m)
    <3> HIDE DEF n
    <3> QED
      BY <1>1, Assigned
  <2>3. InHand(c)'
    BY <1>1, <1>4 DEF InHand
  <2> HIDE DEF m
  <2> QED
    BY <1>1, <1>4, <2>1, <2>2, <2>3, HandStep
<1>5. ASSUME NEW j, IsConn(j), Rearm(j) PROVE ServerInv'
  <2> DEFINE m == [j EXCEPT !.armed = Interested(j)]
  <2>1. IsConn(m)
    BY <1>5, Assigned, Zenon
  <2>2. m.armed = (Backlog(m) > 0)
    <3>1. PICK p, o, f, b, a :
             j = [parser |-> p, out |-> o, out_off |-> f, closing |-> b, armed |-> a]
      BY <1>5 DEF IsConn
    <3>2. m.armed = (Backlog(j) > 0) /\ m.out = o /\ m.out_off = f /\ j.out = o /\ j.out_off = f
      BY <3>1 DEF Interested
    <3>3. Backlog(m) = Backlog(j)
      BY <3>2 DEF Backlog
    <3> QED
      BY <3>2, <3>3
  <2>3. conns' = [conns EXCEPT ![c] = m] /\ UNCHANGED <<conn, batch, cur>>
    BY <1>5
  <2>4. InHand(c)' \/ pc' = "loop"
    BY <1>0, <1>5 DEF InHand
  <2> HIDE DEF m
  <2> QED
    BY <1>1, <2>1, <2>2, <2>3, <2>4, HandStep
<1>6. IsConn(Cleared(k))
  BY <1>1, AssignedTwice DEF Cleared
<1> HIDE DEF Rearm, n
<1> QED
  BY <1>1, <1>2, <1>3, <1>4, <1>5, <1>6

\* The loop ends and closes everything.
LEMMA StopEndStep == ASSUME ServerInv, StopEnd PROVE ServerInv'
<1>1. /\ pc' = "off" /\ batch' = batch /\ conns' = [c \in Client |-> NewConn]
      /\ conn' = [c \in Client |-> IF conn[c] \in {"open", "queued"} THEN "stopped" ELSE conn[c]]
  BY DEF StopEnd
<1>2. \A c \in Client : conn'[c] # "open" /\ (conn'[c] = conn[c] \/ conn'[c] = "stopped")
  BY <1>1
<1>3. Shapes'
  BY <1>1, NewConnIdle DEF Shapes
<1>4. EventsAccepted' /\ Interest'
  BY <1>1, <1>2 DEF ServerInv, EventsAccepted, Interest, InHand, Unaccepted
<1> QED
  BY <1>3, <1>4 DEF ServerInv

LEMMA InvStep == ServerInv /\ [Next]_vars => ServerInv'
<1> SUFFICES ASSUME ServerInv, [Next]_vars PROVE ServerInv'
  OBVIOUS
<1>1. CASE HangUp
  <2>1. PICK e \in batch : batch' = batch \ {e} /\ CloseConn(e.c, "failed")
    BY <1>1 DEF HangUp
  <2>2. PICK c : c = e.c
    OBVIOUS
  <2>3. "failed" \in Ended /\ batch' \subseteq batch /\ pc = "loop" /\ CloseConn(c, "failed")
    BY <1>1, <2>1, <2>2 DEF HangUp, Ended
  <2> QED
    BY <2>3, CloseStep
<1>2. CASE AcceptNewClients \/ AcceptFails
  <2>1. PICK S \in SUBSET Queued : Accept(S)
    BY <1>2 DEF AcceptNewClients, AcceptFails
  <2> QED
    BY <2>1, AcceptStep
<1> QED
  BY <1>1, <1>2, QuietSteps, ConnectStep, DispatchStep, ReadStep, HandleRequestStep,
     FlushOutStep, StopEndStep DEF Next, LoopStep

\* FlushOut arms EPOLLOUT for what it leaves behind and disarms it otherwise,
\* and no event, close or accept comes between: while the loop sleeps in
\* epoll_wait no connection waits for an event nobody asked for, and none spins.
THEOREM InterestExactHolds == Spec => []InterestExact
<1>1. ServerInv => InterestExact
  BY DEF ServerInv, Interest, InterestExact, Open, InHand
<1> QED
  BY <1>1, InvInit, InvStep, PTL DEF Spec

-----------------------------------------------------------------------------
(***************************************************************************)
(* Replies.  What AnswersAre says of sequences, whatever they hold.        *)
(***************************************************************************)
IsSeq(s) == \E S : s \in Seq(S)

\* Sequences of one kind.
LEMMA OneKind ==
    ASSUME NEW s, IsSeq(s), NEW t, IsSeq(t), NEW u, IsSeq(u)
    PROVE  \E S : s \in Seq(S) /\ t \in Seq(S) /\ u \in Seq(S)
<1>1. PICK A : s \in Seq(A)
  BY DEF IsSeq
<1>2. PICK B : t \in Seq(B)
  BY DEF IsSeq
<1>3. PICK C : u \in Seq(C)
  BY DEF IsSeq
<1> DEFINE S == A \cup B \cup C
<1>4. A \subseteq S /\ B \subseteq S /\ C \subseteq S
  OBVIOUS
<1> HIDE DEF S
<1>5. s \in Seq(S) /\ t \in Seq(S) /\ u \in Seq(S)
  BY <1>1, <1>2, <1>3, <1>4, SeqMonotonic
<1> QED
  BY <1>5

LEMMA Lengths ==
    ASSUME NEW s, IsSeq(s)
    PROVE  Len(s) \in Nat /\ DOMAIN s = 1..Len(s) /\ s \o <<>> = s
<1>1. PICK S : s \in Seq(S)
  BY DEF IsSeq
<1> QED
  BY <1>1, LenProperties, ConcatEmptySeq

LEMMA Empty == IsSeq(<<>>) /\ Len(<<>>) = 0
<1>1. <<>> \in Seq({}) /\ Len(<<>>) = 0
  BY EmptySeq
<1> QED
  BY <1>1 DEF IsSeq

LEMMA Joined ==
    ASSUME NEW s, IsSeq(s), NEW t, IsSeq(t)
    PROVE  /\ IsSeq(s \o t) /\ Len(s \o t) = Len(s) + Len(t)
           /\ \A i \in 1 .. Len(s) + Len(t) : (s \o t)[i] =
                  IF i <= Len(s) THEN s[i] ELSE t[i - Len(s)]
<1>1. PICK S : s \in Seq(S) /\ t \in Seq(S)
  BY OneKind
<1> QED
  BY <1>1, ConcatProperties DEF IsSeq

LEMMA JoinedThrice ==
    ASSUME NEW s, IsSeq(s), NEW t, IsSeq(t), NEW u, IsSeq(u)
    PROVE  (s \o t) \o u = s \o (t \o u)
<1>1. PICK S : s \in Seq(S) /\ t \in Seq(S) /\ u \in Seq(S)
  BY OneKind
<1> QED
  BY <1>1, ConcatAssociative

\* The same with names for the inner sequences.
LEMMA Regrouped ==
    ASSUME NEW s, IsSeq(s), NEW t, IsSeq(t), NEW u, IsSeq(u), NEW p, p = s \o t, NEW q, q = t \o u
    PROVE  p \o u = s \o q
<1>1. (s \o t) \o u = s \o (t \o u)
  BY JoinedThrice
<1> QED
  BY <1>1, Zenon

LEMMA Added ==
    ASSUME NEW s, IsSeq(s), NEW x
    PROVE  /\ IsSeq(<<x>>) /\ Len(<<x>>) = 1 /\ IsSeq(Append(s, x))
           /\ Append(s, x) = s \o <<x>> /\ Len(Append(s, x)) = Len(s) + 1
           /\ \A i \in 1 .. Len(s) : Append(s, x)[i] = s[i]
           /\ Append(s, x)[Len(s) + 1] = x
<1>1. PICK S : s \in Seq(S)
  BY DEF IsSeq
<1> DEFINE T == S \cup {x}
<1>2. x \in T /\ S \subseteq T
  OBVIOUS
<1>3. <<x>> \in Seq(T) /\ Len(<<x>>) = 1
  BY <1>2
<1> HIDE DEF T
<1>4. s \in Seq(T)
  BY <1>1, <1>2, SeqMonotonic
<1> QED
  BY <1>2, <1>3, <1>4, AppendProperties, AppendIsConcat DEF IsSeq

\* t is s with x at its end.
LongerBy(t, s, x) ==
    /\ IsSeq(t) /\ Len(t) = Len(s) + 1
    /\ \A i \in 1 .. Len(s) : t[i] = s[i]
    /\ t[Len(s) + 1] = x

LEMMA AddedTo == ASSUME NEW s, IsSeq(s), NEW x PROVE LongerBy(Append(s, x), s, x)
BY Added, Zenon DEF LongerBy

LEMMA Sliced ==
    ASSUME NEW s, IsSeq(s), NEW m \in Nat, NEW n \in Nat, 1 <= m, n <= Len(s)
    PROVE  /\ IsSeq(SubSeq(s, m, n))
           /\ Len(SubSeq(s, m, n)) = IF m <= n THEN n - m + 1 ELSE 0
           /\ \A i \in 1 .. n - m + 1 : SubSeq(s, m, n)[i] = s[m + i - 1]
<1>1. PICK S : s \in Seq(S)
  BY DEF IsSeq
<1>2. \A i \in m .. n : i \in 1 .. Len(s)
  BY Lengths
<1>3. \A i \in m .. n : s[i] \in S
  BY <1>1, <1>2, ElementOfSeq
<1>4. m \in Int /\ n \in Int
  OBVIOUS
<1> QED
  BY <1>3, <1>4, SubSeqProperties DEF IsSeq

\* Two sequences with the same elements.
LEMMA Same ==
    ASSUME NEW s, IsSeq(s), NEW t, IsSeq(t), Len(s) = Len(t), \A i \in 1 .. Len(s) : s[i] = t[i]
    PROVE  s = t
<1>1. PICK S : s \in Seq(S) /\ t \in Seq(S)
  BY OneKind
<1> QED
  BY <1>1, SeqEqual

\* The beginning of a sequence is not changed by what is added at its end.
LEMMA SlicedAdded ==
    ASSUME NEW s, IsSeq(s), NEW x, NEW n \in 0 .. Len(s)
    PROVE  SubSeq(Append(s, x), 1, n) = SubSeq(s, 1, n)
<1>1. Len(s) \in Nat /\ n \in Nat /\ n <= Len(s) /\ n <= Len(s) + 1
  BY Lengths
<1>2. /\ IsSeq(Append(s, x)) /\ Len(Append(s, x)) = Len(s) + 1
      /\ \A i \in 1 .. Len(s) : Append(s, x)[i] = s[i]
  BY Added
<1>3. PICK t : t = Append(s, x)
  OBVIOUS
<1>4. /\ IsSeq(SubSeq(t, 1, n)) /\ Len(SubSeq(t, 1, n)) = n
      /\ \A i \in 1 .. n : SubSeq(t, 1, n)[i] = t[i]
  <2>1. IsSeq(t) /\ n <= Len(t)
    BY <1>1, <1>2, <1>3
  <2>2. /\ IsSeq(SubSeq(t, 1, n)) /\ Len(SubSeq(t, 1, n)) = IF 1 <= n THEN n - 1 + 1 ELSE 0
        /\ \A i \in 1 .. n - 1 + 1 : SubSeq(t, 1, n)[i] = t[1 + i - 1]
    BY <1>1, <2>1, Sliced
  <2> QED
    BY <1>1, <2>2
<1>5. /\ IsSeq(SubSeq(s, 1, n)) /\ Len(SubSeq(s, 1, n)) = n
      /\ \A i \in 1 .. n : SubSeq(s, 1, n)[i] = s[i]
  <2>1. /\ IsSeq(SubSeq(s, 1, n)) /\ Len(SubSeq(s, 1, n)) = IF 1 <= n THEN n - 1 + 1 ELSE 0
        /\ \A i \in 1 .. n - 1 + 1 : SubSeq(s, 1, n)[i] = s[1 + i - 1]
    BY <1>1, Sliced
  <2> QED
    BY <1>1, <2>1
<1>6. \A i \in 1 .. n : t[i] = s[i]
  BY <1>1, <1>2, <1>3
<1>7. SubSeq(t, 1, n) = SubSeq(s, 1, n)
  BY <1>4, <1>5, <1>6, Same
<1> QED
  BY <1>3, <1>7

\* AnswersAre by length, with the places of the answers named.
PlacedAt(s, t, at) ==
    /\ at \in [1 .. Len(t) -> 1 .. Len(s)]
    /\ \A i, j \in 1 .. Len(t) : i < j => at[i] < at[j]
    /\ \A i \in 1 .. Len(t) : s[at[i]] = t[i]
    /\ \A j \in 1 .. Len(s) : s[j] # Protocol <=> \E i \in 1 .. Len(t) : at[i] = j

LEMMA Placed ==
    ASSUME NEW s, IsSeq(s), NEW t, IsSeq(t)
    PROVE  AnswersAre(s, t) <=> \E at : PlacedAt(s, t, at)
<1>1. DOMAIN s = 1 .. Len(s) /\ DOMAIN t = 1 .. Len(t)
  BY Lengths
<1> DEFINE At(at) ==
             /\ \A i, j \in DOMAIN t : i < j => at[i] < at[j]
             /\ \A i \in DOMAIN t : s[at[i]] = t[i]
             /\ \A j \in DOMAIN s : s[j] # Protocol <=> \E i \in DOMAIN t : at[i] = j
<1>2. AnswersAre(s, t) <=> \E at \in [DOMAIN t -> DOMAIN s] : At(at)
  BY Zenon DEF AnswersAre
<1>3. \A at : (at \in [DOMAIN t -> DOMAIN s] /\ At(at)) <=> PlacedAt(s, t, at)
  BY <1>1 DEF PlacedAt
<1> HIDE DEF At
<1> QED
  BY <1>2, <1>3, Zenon

\* No replies hold no answers.
LEMMA NoAnswers == AnswersAre(<<>>, <<>>)
<1>1. IsSeq(<<>>) /\ Len(<<>>) = 0
  BY Empty
<1>2. PlacedAt(<<>>, <<>>, [i \in 1 .. 0 |-> 1])
  BY <1>1 DEF PlacedAt
<1> QED
  BY <1>1, <1>2, Placed

\* A reply that is an answer.
LEMMA OneMoreAnswer ==
    ASSUME NEW s, IsSeq(s), NEW t, IsSeq(t), AnswersAre(s, t), NEW r, r # Protocol
    PROVE  AnswersAre(Append(s, r), Append(t, r))
<1>1. PICK at : PlacedAt(s, t, at)
  BY Placed
<1>2. PICK s2 : s2 = Append(s, r)
  OBVIOUS
<1>3. PICK t2 : t2 = Append(t, r)
  OBVIOUS
<1>4. PICK m : m = Len(s)
  OBVIOUS
<1>5. PICK n : n = Len(t)
  OBVIOUS
<1>6. m \in Nat /\ n \in Nat /\ IsSeq(s2) /\ IsSeq(t2) /\ Len(s2) = m + 1 /\ Len(t2) = n + 1
  BY <1>2, <1>3, <1>4, <1>5, Lengths, Added
<1>7. /\ \A i \in 1 .. m : s2[i] = s[i]
      /\ s2[m + 1] = r
      /\ \A i \in 1 .. n : t2[i] = t[i]
      /\ t2[n + 1] = r
  BY <1>2, <1>3, <1>4, <1>5, Added
<1>8. /\ at \in [1 .. n -> 1 .. m]
      /\ \A i, j \in 1 .. n : i < j => at[i] < at[j]
      /\ \A i \in 1 .. n : s[at[i]] = t[i]
      /\ \A j \in 1 .. m : s[j] # Protocol <=> \E i \in 1 .. n : at[i] = j
  BY <1>1, <1>4, <1>5 DEF PlacedAt
<1>9. PICK to : to = [i \in 1 .. n + 1 |-> IF i <= n THEN at[i] ELSE m + 1]
  OBVIOUS
<1>10. /\ to \in [1 .. n + 1 -> 1 .. m + 1]
       /\ \A i \in 1 .. n : to[i] = at[i]
       /\ to[n + 1] = m + 1
  BY <1>6, <1>8, <1>9
<1>11. \A i \in 1 .. n + 1 : i \in 1 .. n \/ i = n + 1
  BY <1>6
<1>12. \A j \in 1 .. m + 1 : j \in 1 .. m \/ j = m + 1
  BY <1>6
<1>13. \A i \in 1 .. n : at[i] \in 1 .. m
  BY <1>8
<1>14. \A i, j \in 1 .. n + 1 : i < j => to[i] < to[j]
  <2> SUFFICES ASSUME NEW i \in 1 .. n + 1, NEW j \in 1 .. n + 1, i < j PROVE to[i] < to[j]
    OBVIOUS
  <2>1. i \in 1 .. n
    BY <1>6
  <2>2. CASE j \in 1 .. n
    BY <1>8, <1>10, <2>1, <2>2
  <2>3. CASE j = n + 1
    BY <1>6, <1>10, <1>13, <2>1, <2>3
  <2> QED
    BY <1>11, <2>2, <2>3
<1>15. \A i \in 1 .. n + 1 : s2[to[i]] = t2[i]
  BY <1>7, <1>8, <1>10, <1>11, <1>13
<1>16. ASSUME NEW j \in 1 .. m + 1
       PROVE  s2[j] # Protocol <=> \E i \in 1 .. n + 1 : to[i] = j
  <2>1. CASE j \in 1 .. m
    <3>1. j # m + 1
      BY <1>6, <2>1
    <3>2. (\E i \in 1 .. n : at[i] = j) <=> (\E i \in 1 .. n + 1 : to[i] = j)
      <4>1. 1 .. n \subseteq 1 .. n + 1
        BY <1>6
      <4> QED
        BY <1>10, <1>11, <3>1, <4>1
    <3> QED
      BY <1>7, <1>8, <2>1, <3>2
  <2>2. CASE j = m + 1
    <3>1. n + 1 \in 1 .. n + 1
      BY <1>6
    <3> QED
      BY <1>7, <1>10, <2>2, <3>1
  <2> QED
    BY <1>12, <2>1, <2>2
<1>17. PlacedAt(s2, t2, to)
  BY <1>6, <1>10, <1>14, <1>15, <1>16 DEF PlacedAt
<1> QED
  BY <1>2, <1>3, <1>6, <1>17, Placed

\* A protocol error is not one.
LEMMA OneMoreError ==
    ASSUME NEW s, IsSeq(s), NEW t, IsSeq(t), AnswersAre(s, t)
    PROVE  AnswersAre(Append(s, Protocol), t)
<1>1. PICK at : PlacedAt(s, t, at)
  BY Placed
<1>2. PICK s2 : s2 = Append(s, Protocol)
  OBVIOUS
<1>3. PICK m : m = Len(s)
  OBVIOUS
<1>4. m \in Nat /\ IsSeq(s2) /\ Len(s2) = m + 1
  BY <1>2, <1>3, Lengths, Added
<1>5. /\ \A i \in 1 .. m : s2[i] = s[i]
      /\ s2[m + 1] = Protocol
  BY <1>2, <1>3, Added
<1>6. /\ at \in [1 .. Len(t) -> 1 .. m]
      /\ \A i, j \in 1 .. Len(t) : i < j => at[i] < at[j]
      /\ \A i \in 1 .. Len(t) : s[at[i]] = t[i]
      /\ \A j \in 1 .. m : s[j] # Protocol <=> \E i \in 1 .. Len(t) : at[i] = j
  BY <1>1, <1>3 DEF PlacedAt
<1>7. /\ 1 .. m \subseteq 1 .. m + 1 /\ m + 1 \notin 1 .. m
      /\ \A j \in 1 .. m + 1 : j \in 1 .. m \/ j = m + 1
  BY <1>4
<1>8. \A i \in 1 .. Len(t) : at[i] \in 1 .. m
  BY <1>6
<1>9. at \in [1 .. Len(t) -> 1 .. m + 1]
  BY <1>6, <1>7
<1>10. \A i \in 1 .. Len(t) : s2[at[i]] = t[i]
  BY <1>5, <1>6, <1>8
<1>11. \A j \in 1 .. m + 1 : s2[j] # Protocol <=> \E i \in 1 .. Len(t) : at[i] = j
  BY <1>5, <1>6, <1>7, <1>8
<1>12. PlacedAt(s2, t, at)
  BY <1>4, <1>6, <1>9, <1>10, <1>11 DEF PlacedAt
<1> QED
  BY <1>2, <1>4, <1>12, Placed

\* A non-empty set of naturals has a least element.
LEMMA LeastExists ==
    ASSUME NEW S \in SUBSET Nat, S # {}
    PROVE  \E m \in S : \A n \in S : m <= n
<1> DEFINE R == OpToRel(<, Nat)
<1>1. IsWellFoundedOn(R, Nat)
  BY NatLessThanWellFounded
<1>2. \A m, n \in Nat : n < m => <<n, m>> \in R
  BY DEF OpToRel
<1> HIDE DEF R
<1>3. PICK m \in S : \A n \in S : ~(<<n, m>> \in R)
  BY <1>1, WFMin
<1>4. \A n \in S : ~(n < m)
  BY <1>2, <1>3
<1> QED
  BY <1>4

\* The answers among the first replies are the first answers.
LEMMA FirstAnswers ==
    ASSUME NEW s, IsSeq(s), NEW w, IsSeq(w), NEW t, IsSeq(t), AnswersAre(s \o w, t)
    PROVE  \E n \in 0 .. Len(t) : AnswersAre(s, SubSeq(t, 1, n))
<1>1. PICK f : f = s \o w
  OBVIOUS
<1>2. PICK m : m = Len(s)
  OBVIOUS
<1>3. PICK l : l = Len(t)
  OBVIOUS
<1>4. /\ m \in Nat /\ l \in Nat /\ Len(w) \in Nat
      /\ IsSeq(f) /\ Len(f) = m + Len(w)
      /\ \A i \in 1 .. m : f[i] = s[i]
  BY <1>1, <1>2, <1>3, Lengths, Joined
<1>5. PICK at : PlacedAt(f, t, at)
  BY <1>1, <1>4, Placed
<1>6. /\ at \in [1 .. l -> 1 .. m + Len(w)]
      /\ \A i, j \in 1 .. l : i < j => at[i] < at[j]
      /\ \A i \in 1 .. l : f[at[i]] = t[i]
      /\ \A j \in 1 .. m + Len(w) : f[j] # Protocol <=> \E i \in 1 .. l : at[i] = j
  BY <1>3, <1>4, <1>5 DEF PlacedAt
<1> DEFINE Beyond(n) == \A i \in 1 .. l : n < i => m < at[i]
           S == {n \in 0 .. l : Beyond(n)}
<1>7. S \in SUBSET Nat /\ l \in S
  BY <1>4
<1>8. PICK n \in S : \A k \in S : n <= k
  <2> HIDE DEF S
  <2> QED
    BY <1>7, LeastExists
<1>9. n \in 0 .. l /\ \A i \in 1 .. l : n < i => m < at[i]
  BY <1>8
<1>10. ASSUME NEW i \in 1 .. n PROVE i \in 1 .. l /\ at[i] \in 1 .. m
  <2>1. n - 1 \in 0 .. l /\ n - 1 \notin S
    BY <1>4, <1>8, <1>9
  <2>2. PICK j \in 1 .. l : n - 1 < j /\ ~(m < at[j])
    BY <2>1
  <2>3. at[j] \in 1 .. m + Len(w) /\ at[i] \in 1 .. m + Len(w) /\ i \in 1 .. l
    BY <1>4, <1>6, <1>9
  <2>4. ~(n < j)
    BY <1>9, <2>2
  <2>5. j = n
    BY <1>4, <1>9, <2>2, <2>4
  <2>6. at[j] <= m
    BY <1>4, <2>2, <2>3
  <2>7. at[i] <= at[j]
    <3>1. CASE i = j
      BY <2>3, <3>1, <1>4
    <3>2. CASE i # j
      <4>1. i < j
        BY <1>9, <2>5, <3>2
      <4> QED
        BY <1>4, <1>6, <2>3, <4>1
    <3> QED
      BY <3>1, <3>2
  <2> QED
    BY <1>4, <2>3, <2>6, <2>7
<1>11. PICK b : b = SubSeq(t, 1, n)
  OBVIOUS
<1>12. /\ IsSeq(b) /\ Len(b) = n
       /\ \A i \in 1 .. n : b[i] = t[i]
  <2>1. n \in Nat /\ n <= Len(t)
    BY <1>3, <1>4, <1>9
  <2>2. /\ IsSeq(b) /\ Len(b) = IF 1 <= n THEN n - 1 + 1 ELSE 0
        /\ \A i \in 1 .. n - 1 + 1 : b[i] = t[1 + i - 1]
    BY <1>11, <2>1, Sliced
  <2> QED
    BY <2>1, <2>2
<1>13. PICK to : to = [i \in 1 .. n |-> at[i]]
  OBVIOUS
<1>14. to \in [1 .. n -> 1 .. m] /\ \A i \in 1 .. n : to[i] = at[i]
  BY <1>10, <1>13
<1>15. \A i, j \in 1 .. n : i < j => to[i] < to[j]
  BY <1>6, <1>10, <1>14
<1>16. \A i \in 1 .. n : s[to[i]] = b[i]
  <2> SUFFICES ASSUME NEW i \in 1 .. n PROVE s[to[i]] = b[i]
    OBVIOUS
  <2>1. to[i] = at[i] /\ at[i] \in 1 .. m /\ i \in 1 .. l /\ b[i] = t[i]
    BY <1>10, <1>12, <1>14
  <2>2. f[at[i]] = t[i] /\ f[at[i]] = s[at[i]]
    BY <1>4, <1>6, <2>1
  <2> QED
    BY <2>1, <2>2
<1>17. ASSUME NEW j \in 1 .. m PROVE s[j] # Protocol <=> \E i \in 1 .. n : to[i] = j
  <2>1. j \in 1 .. m + Len(w) /\ f[j] = s[j]
    BY <1>4
  <2>2. s[j] # Protocol <=> \E i \in 1 .. l : at[i] = j
    BY <1>6, <2>1
  <2>3. ASSUME NEW i \in 1 .. l, at[i] = j PROVE i \in 1 .. n
    <3>1. ~(m < at[i])
      BY <1>4, <2>3
    <3>2. ~(n < i)
      BY <1>9, <3>1
    <3> QED
      BY <1>4, <1>9, <3>2
  <2> QED
    BY <1>10, <1>14, <2>2, <2>3
<1>18. PlacedAt(s, b, to)
  BY <1>2, <1>12, <1>14, <1>15, <1>16, <1>17 DEF PlacedAt
<1>19. AnswersAre(s, b)
  BY <1>12, <1>18, Placed
<1> QED
  BY <1>3, <1>9, <1>11, <1>19

\* One connection: g the client has read, w is in the socket, out from off on
\* is still to be written, and the requests were answered a; whole while
\* nothing can have been dropped.
Fine(g, w, out, off, a, whole) ==
    /\ IsSeq(g) /\ IsSeq(w) /\ IsSeq(out) /\ IsSeq(a)
    /\ off \in 0 .. Len(out)
    /\ \E n \in 0 .. Len(a) : AnswersAre(g \o w, SubSeq(a, 1, n))
    /\ whole => AnswersAre((g \o w) \o SubSeq(out, off + 1, Len(out)), a)

\* The part of out that is left.
LEMMA Left ==
    ASSUME NEW out, IsSeq(out), NEW off \in 0 .. Len(out)
    PROVE  /\ IsSeq(SubSeq(out, off + 1, Len(out)))
           /\ Len(SubSeq(out, off + 1, Len(out))) = Len(out) - off
           /\ \A i \in 1 .. Len(out) - off : SubSeq(out, off + 1, Len(out))[i] = out[off + i]
<1>1. PICK l : l = Len(out)
  OBVIOUS
<1>2. PICK m : m = off + 1
  OBVIOUS
<1>3. l \in Nat /\ off \in Nat /\ off <= l /\ m \in Nat /\ 1 <= m /\ m = off + 1
  BY <1>1, <1>2, Lengths
<1>4. /\ IsSeq(SubSeq(out, m, l)) /\ Len(SubSeq(out, m, l)) = IF m <= l THEN l - m + 1 ELSE 0
      /\ \A i \in 1 .. l - m + 1 : SubSeq(out, m, l)[i] = out[m + i - 1]
  BY <1>1, <1>3, Sliced
<1>5. Len(SubSeq(out, m, l)) = l - off
  BY <1>3, <1>4
<1>6. \A i \in 1 .. l - off : SubSeq(out, m, l)[i] = out[off + i]
  BY <1>3, <1>4
<1> QED
  BY <1>1, <1>2, <1>4, <1>5, <1>6

\* Nothing sent, nothing asked.
LEMMA FineNew == ASSUME NEW whole PROVE Fine(<<>>, <<>>, <<>>, 0, <<>>, whole)
<1>1. IsSeq(<<>>) /\ Len(<<>>) = 0
  BY Empty
<1>2. <<>> \o <<>> = <<>>
  BY <1>1, Lengths
<1>3. SubSeq(<<>>, 1, 0) = <<>>
  BY SubSeqEmpty
<1>4. AnswersAre(<<>> \o <<>>, SubSeq(<<>>, 1, 0))
  BY <1>2, <1>3, NoAnswers
<1>5. SubSeq(<<>>, 0 + 1, Len(<<>>)) = <<>>
  BY <1>1, <1>3
<1>6. 0 \in 0 .. Len(<<>>) /\ \E n \in 0 .. Len(<<>>) : AnswersAre(<<>> \o <<>>, SubSeq(<<>>, 1, n))
  BY <1>1, <1>4
<1>7. AnswersAre((<<>> \o <<>>) \o SubSeq(<<>>, 0 + 1, Len(<<>>)), <<>>)
  BY <1>2, <1>5, NoAnswers
<1> QED
  BY <1>1, <1>6, <1>7, Zenon DEF Fine

\* The connection ends, or the peer resets it, and what is in the socket stays.
LEMMA FineClosed ==
    ASSUME NEW g, NEW w, NEW out, NEW off, NEW a, NEW whole, Fine(g, w, out, off, a, whole)
    PROVE  /\ Fine(g, w, <<>>, 0, a, FALSE)
           /\ Fine(g, w, out, off, a, FALSE)
BY Empty DEF Fine

\* Or is lost.
LEMMA FineLost ==
    ASSUME NEW g, NEW w, NEW out, NEW off, NEW a, NEW whole, Fine(g, w, out, off, a, whole)
    PROVE  /\ Fine(g, <<>>, <<>>, 0, a, FALSE)
           /\ Fine(g, <<>>, out, off, a, FALSE)
<1>1. PICK n \in 0 .. Len(a) : AnswersAre(g \o w, SubSeq(a, 1, n))
  BY DEF Fine
<1>2. IsSeq(g) /\ IsSeq(w) /\ IsSeq(a) /\ IsSeq(out) /\ off \in 0 .. Len(out)
  BY DEF Fine
<1>3. Len(a) \in Nat /\ n \in Nat /\ n <= Len(a)
  BY <1>2, Lengths
<1>4. PICK b : b = SubSeq(a, 1, n)
  OBVIOUS
<1>5. IsSeq(b) /\ Len(b) = n /\ \A i \in 1 .. n : b[i] = a[i]
  <2>1. /\ IsSeq(b) /\ Len(b) = IF 1 <= n THEN n - 1 + 1 ELSE 0
        /\ \A i \in 1 .. n - 1 + 1 : b[i] = a[1 + i - 1]
    BY <1>2, <1>3, <1>4, Sliced
  <2> QED
    BY <1>3, <2>1
<1>6. PICK m \in 0 .. Len(b) : AnswersAre(g, SubSeq(b, 1, m))
  BY <1>1, <1>2, <1>4, <1>5, FirstAnswers
<1>7. m \in Nat /\ m <= n /\ m <= Len(a) /\ m <= Len(b)
  BY <1>3, <1>5
<1>8. SubSeq(b, 1, m) = SubSeq(a, 1, m)
  <2>1. /\ IsSeq(SubSeq(b, 1, m)) /\ Len(SubSeq(b, 1, m)) = IF 1 <= m THEN m - 1 + 1 ELSE 0
        /\ \A i \in 1 .. m - 1 + 1 : SubSeq(b, 1, m)[i] = b[1 + i - 1]
    BY <1>5, <1>7, Sliced
  <2>2. /\ IsSeq(SubSeq(a, 1, m)) /\ Len(SubSeq(a, 1, m)) = IF 1 <= m THEN m - 1 + 1 ELSE 0
        /\ \A i \in 1 .. m - 1 + 1 : SubSeq(a, 1, m)[i] = a[1 + i - 1]
    BY <1>2, <1>7, Sliced
  <2>3. Len(SubSeq(b, 1, m)) = m /\ Len(SubSeq(a, 1, m)) = m
    BY <1>7, <2>1, <2>2
  <2>4. \A i \in 1 .. m : SubSeq(b, 1, m)[i] = SubSeq(a, 1, m)[i]
    <3> SUFFICES ASSUME NEW i \in 1 .. m PROVE SubSeq(b, 1, m)[i] = SubSeq(a, 1, m)[i]
      OBVIOUS
    <3>1. i \in 1 .. m - 1 + 1 /\ 1 + i - 1 = i /\ i \in 1 .. n
      BY <1>3, <1>7
    <3>2. SubSeq(b, 1, m)[i] = b[i] /\ SubSeq(a, 1, m)[i] = a[i]
      BY <2>1, <2>2, <3>1
    <3> QED
      BY <1>5, <3>1, <3>2
  <2> QED
    BY <2>1, <2>2, <2>3, <2>4, Same
<1>9. g \o <<>> = g /\ m \in 0 .. Len(a)
  BY <1>2, <1>3, <1>7, Lengths
<1>10. AnswersAre(g \o <<>>, SubSeq(a, 1, m))
  BY <1>6, <1>8, <1>9
<1> QED
  BY <1>2, <1>9, <1>10, Empty DEF Fine

\* The client reads a reply.
LEMMA FineReceived ==
    ASSUME NEW g, NEW w, NEW out, NEW off, NEW a, NEW whole, Fine(g, w, out, off, a, whole),
           w # <<>>
    PROVE  Fine(Append(g, Head(w)), Tail(w), out, off, a, whole)
<1>1. IsSeq(g) /\ IsSeq(w)
  BY DEF Fine
<1>2. PICK S : w \in Seq(S)
  BY <1>1 DEF IsSeq
<1>3. PICK h : h = Head(w)
  OBVIOUS
<1>4. PICK t : t = Tail(w)
  OBVIOUS
<1>5. h \in S /\ t \in Seq(S) /\ w = <<h>> \o t
  BY <1>2, <1>3, <1>4
<1>6. IsSeq(<<h>>) /\ IsSeq(t) /\ IsSeq(Append(g, h)) /\ Append(g, h) = g \o <<h>>
  BY <1>1, <1>5, Added DEF IsSeq
<1>7. Append(g, h) \o t = g \o w
  <2>1. (g \o <<h>>) \o t = g \o (<<h>> \o t)
    BY <1>1, <1>6, JoinedThrice
  <2> QED
    BY <1>5, <1>6, <2>1, Zenon
<1> QED
  BY <1>3, <1>4, <1>6, <1>7 DEF Fine

\* write() takes the next n replies.
LEMMA FineSent ==
    ASSUME NEW g, NEW w, NEW out, NEW off, NEW a, Fine(g, w, out, off, a, TRUE),
           NEW n \in Nat, off + n <= Len(out)
    PROVE  Fine(g, w \o SubSeq(out, off + 1, off + n), out, off + n, a, TRUE)
<1>1. IsSeq(g) /\ IsSeq(w) /\ IsSeq(out) /\ IsSeq(a) /\ off \in 0 .. Len(out)
  BY DEF Fine
<1>2. Len(out) \in Nat /\ off \in Nat /\ off + n \in Nat /\ off + n \in 0 .. Len(out)
  BY <1>1, Lengths
<1>3. PICK x : x = SubSeq(out, off + 1, off + n)
  OBVIOUS
<1>4. PICK y : y = SubSeq(out, (off + n) + 1, Len(out))
  OBVIOUS
<1>5. x \o y = SubSeq(out, off + 1, Len(out))
  <2>1. PICK S : out \in Seq(S)
    BY <1>1 DEF IsSeq
  <2>2. off + 1 \in 1 .. Len(out) + 1 /\ off + n \in (off + 1) - 1 .. Len(out)
        /\ Len(out) \in off + n .. Len(out)
    BY <1>2
  <2> QED
    BY <1>3, <1>4, <2>1, <2>2, ConcatAdjacentSubSeq
<1>6. IsSeq(x) /\ IsSeq(y)
  <2>1. off + 1 \in Nat /\ 1 <= off + 1 /\ off + n <= Len(out)
    BY <1>2
  <2>2. IsSeq(x)
    BY <1>1, <1>2, <1>3, <2>1, Sliced
  <2>3. IsSeq(y)
    BY <1>1, <1>2, <1>4, Left
  <2> QED
    BY <2>2, <2>3
<1>7. PICK v : v = w \o x
  OBVIOUS
<1>8. IsSeq(v) /\ IsSeq(g \o w) /\ IsSeq(g \o v)
  BY <1>1, <1>6, <1>7, Joined
<1>9. (g \o v) \o y = (g \o w) \o SubSeq(out, off + 1, Len(out))
  <2>1. PICK p : p = g \o w
    OBVIOUS
  <2>2. PICK z : z = SubSeq(out, off + 1, Len(out))
    OBVIOUS
  <2>3. PICK q : q = g \o v
    OBVIOUS
  <2>4. p \o x = q
    <3>1. p \o x = g \o v
      BY <1>1, <1>6, <1>7, <2>1, Regrouped
    <3> QED
      BY <2>3, <3>1, Zenon
  <2>5. q = p \o x /\ z = x \o y /\ IsSeq(p)
    BY <1>5, <1>8, <2>1, <2>2, <2>4, Zenon
  <2>6. (p \o x) \o y = p \o (x \o y)
    BY <1>6, <2>5, JoinedThrice
  <2>7. q \o y = p \o z
    BY <2>5, <2>6, Zenon
  <2> QED
    BY <2>1, <2>2, <2>3, <2>7
<1>10. AnswersAre((g \o v) \o y, a)
  BY <1>9 DEF Fine
<1>11. \E m \in 0 .. Len(a) : AnswersAre(g \o v, SubSeq(a, 1, m))
  BY <1>1, <1>6, <1>8, <1>10, FirstAnswers
<1>12. Fine(g, v, out, off + n, a, TRUE)
  BY <1>1, <1>2, <1>4, <1>8, <1>10, <1>11 DEF Fine
<1> QED
  BY <1>3, <1>7, <1>12

\* All is written and the buffer starts over.
LEMMA FineCleared ==
    ASSUME NEW g, NEW w, NEW out, NEW off, NEW a, NEW whole, Fine(g, w, out, off, a, whole),
           off = Len(out)
    PROVE  Fine(g, w, <<>>, 0, a, whole)
<1>1. IsSeq(<<>>) /\ Len(<<>>) = 0 /\ IsSeq(out) /\ Len(out) \in Nat
  BY Empty, Lengths DEF Fine
<1>2. SubSeq(out, off + 1, Len(out)) = <<>>
  BY <1>1, SubSeqEmpty
<1>3. SubSeq(<<>>, 0 + 1, Len(<<>>)) = <<>>
  BY <1>1, SubSeqEmpty
<1>4. whole => AnswersAre((g \o w) \o SubSeq(<<>>, 0 + 1, Len(<<>>)), a)
  BY <1>2, <1>3 DEF Fine
<1>5. IsSeq(g) /\ IsSeq(w) /\ IsSeq(a) /\ 0 \in 0 .. Len(<<>>)
      /\ \E n \in 0 .. Len(a) : AnswersAre(g \o w, SubSeq(a, 1, n))
  BY <1>1 DEF Fine
<1> QED
  BY <1>1, <1>4, <1>5, Zenon DEF Fine

\* A reply at the end of out is one at the end of what is left.
GrownAtTheEnd(g, out, off, r) ==
    /\ off \in 0 .. Len(Append(out, r)) /\ IsSeq(Append(out, r))
    /\ g \o SubSeq(Append(out, r), off + 1, Len(Append(out, r)))
         = Append(g \o SubSeq(out, off + 1, Len(out)), r)

LEMMA OutGrows ==
    ASSUME NEW g, IsSeq(g), NEW out, IsSeq(out), NEW off \in 0 .. Len(out), NEW r
    PROVE  GrownAtTheEnd(g, out, off, r)
<1>1. PICK o : o = Append(out, r)
  OBVIOUS
<1>2. PICK u : u = SubSeq(out, off + 1, Len(out))
  OBVIOUS
<1>3. PICK v : v = SubSeq(o, off + 1, Len(o))
  OBVIOUS
<1>4. /\ IsSeq(o) /\ Len(o) = Len(out) + 1 /\ o[Len(out) + 1] = r
      /\ \A i \in 1 .. Len(out) : o[i] = out[i]
  <2>1. LongerBy(Append(out, r), out, r)
    BY AddedTo
  <2>2. LongerBy(o, out, r)
    BY <1>1, <2>1, Zenon
  <2> QED
    BY <2>2, Zenon DEF LongerBy
<1>5. Len(out) \in Nat /\ off \in Nat /\ off <= Len(out) /\ off \in 0 .. Len(o)
  BY <1>4, Lengths
<1>6. /\ IsSeq(u) /\ Len(u) = Len(out) - off
      /\ \A i \in 1 .. Len(out) - off : u[i] = out[off + i]
  BY <1>2, Left
<1>7. /\ IsSeq(v) /\ Len(v) = Len(o) - off
      /\ \A i \in 1 .. Len(o) - off : v[i] = o[off + i]
  BY <1>3, <1>4, <1>5, Left
<1>8. /\ IsSeq(Append(u, r)) /\ Len(Append(u, r)) = Len(u) + 1 /\ Append(u, r) = u \o <<r>>
      /\ \A i \in 1 .. Len(u) : Append(u, r)[i] = u[i]
      /\ Append(u, r)[Len(u) + 1] = r
  BY <1>6, Added
<1>9. PICK y : y = Append(u, r)
  OBVIOUS
<1>10. /\ IsSeq(y) /\ Len(y) = Len(u) + 1 /\ y[Len(u) + 1] = r
       /\ \A i \in 1 .. Len(u) : y[i] = u[i]
  BY <1>8, <1>9
<1>11. v = y
  <2>1. Len(v) = Len(y)
    BY <1>4, <1>5, <1>6, <1>7, <1>10
  <2>2. ASSUME NEW i \in 1 .. Len(v) PROVE v[i] = y[i]
    <3>1. i \in 1 .. Len(o) - off /\ v[i] = o[off + i]
      BY <1>7
    <3>2. CASE i \in 1 .. Len(u)
      <4>1. i \in 1 .. Len(out) - off /\ off + i \in 1 .. Len(out)
        BY <1>5, <1>6, <3>2
      <4> QED
        BY <1>4, <1>6, <1>10, <3>1, <3>2, <4>1
    <3>3. CASE i = Len(u) + 1
      <4>1. off + i = Len(out) + 1
        BY <1>5, <1>6, <3>3
      <4> QED
        BY <1>4, <1>10, <3>1, <3>3, <4>1
    <3>4. i \in 1 .. Len(u) \/ i = Len(u) + 1
      <4>1. /\ Len(out) \in Nat /\ off \in Nat /\ off <= Len(out)
            /\ Len(o) = Len(out) + 1 /\ Len(u) = Len(out) - off /\ i \in 1 .. Len(o) - off
        BY <1>4, <1>5, <1>6, <3>1, Zenon
      <4> QED
        BY <4>1
    <3> QED
      BY <3>2, <3>3, <3>4
  <2> QED
    BY <1>7, <1>10, <2>1, <2>2, Same
<1>12. PICK p : p = g \o u
  OBVIOUS
<1>13. PICK x : x = <<r>>
  OBVIOUS
<1>14. IsSeq(p) /\ y = u \o x
  BY <1>6, <1>8, <1>9, <1>12, <1>13, Joined
<1>15. Append(p, r) = p \o x /\ IsSeq(x)
  BY <1>13, <1>14, Added
<1>16. p \o x = g \o y
  <2>1. IsSeq(u) /\ IsSeq(x)
    BY <1>6, <1>15
  <2>2. (g \o u) \o x = g \o (u \o x)
    BY <2>1, JoinedThrice
  <2> QED
    BY <1>12, <1>14, <2>2
<1>17. g \o v = Append(p, r)
  BY <1>11, <1>15, <1>16, Zenon
<1>18. off \in 0 .. Len(o) /\ IsSeq(o) /\ g \o SubSeq(o, off + 1, Len(o)) = Append(g \o u, r)
  BY <1>3, <1>4, <1>5, <1>12, <1>17, Zenon
<1> QED
  BY <1>1, <1>2, <1>18, Zenon DEF GrownAtTheEnd

\* A request is answered.
LEMMA FineReply ==
    ASSUME NEW g, NEW w, NEW out, NEW off, NEW a, NEW whole, Fine(g, w, out, off, a, whole),
           NEW r, r # Protocol
    PROVE  Fine(g, w, Append(out, r), off, Append(a, r), whole)
<1>1. IsSeq(g) /\ IsSeq(w) /\ IsSeq(out) /\ IsSeq(a) /\ off \in 0 .. Len(out)
  BY DEF Fine
<1>2. PICK f : f = g \o w
  OBVIOUS
<1>3. PICK u : u = SubSeq(out, off + 1, Len(out))
  OBVIOUS
<1>4. PICK o : o = Append(out, r)
  OBVIOUS
<1>5. IsSeq(f) /\ IsSeq(u) /\ IsSeq(f \o u) /\ IsSeq(Append(a, r)) /\ Len(Append(a, r)) = Len(a) + 1
      /\ Len(a) \in Nat
  <2>1. IsSeq(f) /\ IsSeq(u)
    BY <1>1, <1>2, <1>3, Joined, Left
  <2> QED
    BY <1>1, <2>1, Joined, Added, Lengths
<1>6. /\ off \in 0 .. Len(o) /\ IsSeq(o)
      /\ f \o SubSeq(o, off + 1, Len(o)) = Append(f \o u, r)
  <2>1. IsSeq(f) /\ IsSeq(out) /\ off \in 0 .. Len(out)
    BY <1>1, <1>5
  <2>2. GrownAtTheEnd(f, out, off, r)
    BY <2>1, OutGrows
  <2> QED
    BY <1>3, <1>4, <2>2, Zenon DEF GrownAtTheEnd
<1>7. whole => AnswersAre(f \o SubSeq(o, off + 1, Len(o)), Append(a, r))
  <2> HAVE whole
  <2>1. AnswersAre(f \o u, a)
    BY <1>2, <1>3 DEF Fine
  <2>2. AnswersAre(Append(f \o u, r), Append(a, r))
    BY <1>1, <1>5, <2>1, OneMoreAnswer
  <2> QED
    BY <1>6, <2>2
<1>8. PICK n \in 0 .. Len(a) : AnswersAre(f, SubSeq(a, 1, n))
  BY <1>2 DEF Fine
<1>9. n \in 0 .. Len(Append(a, r)) /\ AnswersAre(f, SubSeq(Append(a, r), 1, n))
  <2>1. SubSeq(Append(a, r), 1, n) = SubSeq(a, 1, n)
    BY <1>1, SlicedAdded, Zenon
  <2>2. n \in 0 .. Len(Append(a, r))
    BY <1>5
  <2> QED
    BY <1>8, <2>1, <2>2
<1>10. Fine(g, w, o, off, Append(a, r), whole)
  BY <1>1, <1>2, <1>5, <1>6, <1>7, <1>9 DEF Fine
<1> QED
  BY <1>4, <1>10

\* The parser fails.
LEMMA FineError ==
    ASSUME NEW g, NEW w, NEW out, NEW off, NEW a, NEW whole, Fine(g, w, out, off, a, whole)
    PROVE  Fine(g, w, Append(out, Protocol), off, a, whole)
<1>1. IsSeq(g) /\ IsSeq(w) /\ IsSeq(out) /\ IsSeq(a) /\ off \in 0 .. Len(out)
  BY DEF Fine
<1>2. PICK f : f = g \o w
  OBVIOUS
<1>3. PICK u : u = SubSeq(out, off + 1, Len(out))
  OBVIOUS
<1>4. PICK o : o = Append(out, Protocol)
  OBVIOUS
<1>5. IsSeq(f) /\ IsSeq(u) /\ IsSeq(f \o u)
  <2>1. IsSeq(f) /\ IsSeq(u)
    BY <1>1, <1>2, <1>3, Joined, Left
  <2> QED
    BY <2>1, Joined
<1>6. /\ off \in 0 .. Len(o) /\ IsSeq(o)
      /\ f \o SubSeq(o, off + 1, Len(o)) = Append(f \o u, Protocol)
  <2>1. IsSeq(f) /\ IsSeq(out) /\ off \in 0 .. Len(out)
    BY <1>1, <1>5
  <2>2. GrownAtTheEnd(f, out, off, Protocol)
    BY <2>1, OutGrows
  <2> QED
    BY <1>3, <1>4, <2>2, Zenon DEF GrownAtTheEnd
<1>7. whole => AnswersAre(f \o SubSeq(o, off + 1, Len(o)), a)
  <2> HAVE whole
  <2>1. AnswersAre(f \o u, a)
    BY <1>2, <1>3 DEF Fine
  <2>2. AnswersAre(Append(f \o u, Protocol), a)
    BY <1>1, <1>5, <2>1, OneMoreError
  <2> QED
    BY <1>6, <2>2
<1>8. Fine(g, w, o, off, a, whole)
  BY <1>1, <1>2, <1>6, <1>7 DEF Fine
<1> QED
  BY <1>4, <1>8

\* Less is asked of a connection that may have dropped something.
LEMMA FineWeaker ==
    ASSUME NEW g, NEW w, NEW out, NEW off, NEW a, NEW whole, Fine(g, w, out, off, a, whole),
           NEW less, less => whole
    PROVE  Fine(g, w, out, off, a, less)
BY DEF Fine

\* The replies of a history.
RepliesOf(h) == [i \in DOMAIN h |-> h[i].reply]

LEMMA NoReplies == RepliesOf(<<>>) = <<>>
BY DEF RepliesOf

LEMMA OneMoreReply ==
    ASSUME NEW h, IsSeq(h), NEW x
    PROVE  RepliesOf(Append(h, x)) = Append(RepliesOf(h), x.reply)
<1>1. PICK n : n = Len(h)
  OBVIOUS
<1>2. PICK g : g = Append(h, x)
  OBVIOUS
<1>3. /\ n \in Nat /\ DOMAIN h = 1 .. n
      /\ IsSeq(g) /\ Len(g) = n + 1 /\ (\A i \in 1 .. n : g[i] = h[i]) /\ g[n + 1] = x
  <2>1. Len(h) \in Nat /\ DOMAIN h = 1 .. Len(h)
    BY Lengths, Zenon
  <2>2. /\ IsSeq(g) /\ Len(g) = Len(h) + 1
        /\ (\A i \in 1 .. Len(h) : g[i] = h[i]) /\ g[Len(h) + 1] = x
    <3>1. LongerBy(Append(h, x), h, x)
      BY AddedTo
    <3>2. LongerBy(g, h, x)
      BY <1>2, <3>1, Zenon
    <3> QED
      BY <3>2, Zenon DEF LongerBy
  <2> QED
    BY <1>1, <2>1, <2>2, Zenon
<1>4. DOMAIN g = 1 .. n + 1
  BY <1>3, Lengths
<1>5. PICK p : p = RepliesOf(h)
  OBVIOUS
<1>6. PICK q : q = RepliesOf(g)
  OBVIOUS
<1>7. p = [i \in 1 .. n |-> h[i].reply] /\ q = [i \in 1 .. n + 1 |-> g[i].reply]
  BY <1>3, <1>4, <1>5, <1>6 DEF RepliesOf
<1> DEFINE S == {p[i] : i \in 1 .. n} \cup {q[i] : i \in 1 .. n + 1}
<1>8. p \in Seq(S) /\ q \in Seq(S) /\ Len(p) = n /\ Len(q) = n + 1
  <2>1. p \in [1 .. n -> S] /\ q \in [1 .. n + 1 -> S]
    BY <1>7
  <2> HIDE DEF S
  <2> QED
    BY <1>3, <2>1
<1>9. IsSeq(p) /\ IsSeq(q)
  BY <1>8 DEF IsSeq
<1>10. PICK r : r = Append(p, x.reply)
  OBVIOUS
<1>11. IsSeq(r) /\ Len(r) = n + 1 /\ (\A i \in 1 .. n : r[i] = p[i]) /\ r[n + 1] = x.reply
  <2>1. /\ IsSeq(r) /\ Len(r) = Len(p) + 1
        /\ (\A i \in 1 .. Len(p) : r[i] = p[i]) /\ r[Len(p) + 1] = x.reply
    <3>1. LongerBy(Append(p, x.reply), p, x.reply)
      BY <1>9, AddedTo
    <3>2. LongerBy(r, p, x.reply)
      BY <1>10, <3>1, Zenon
    <3> QED
      BY <3>2, Zenon DEF LongerBy
  <2> QED
    BY <1>8, <2>1, Zenon
<1>12. \A i \in 1 .. n + 1 : q[i] = r[i]
  <2>1. \A i \in 1 .. n : i \in 1 .. n + 1 /\ q[i] = h[i].reply /\ p[i] = h[i].reply
    BY <1>3, <1>7
  <2>2. q[n + 1] = x.reply
    BY <1>3, <1>7
  <2>3. \A i \in 1 .. n + 1 : i \in 1 .. n \/ i = n + 1
    BY <1>3
  <2> QED
    BY <1>11, <2>1, <2>2, <2>3
<1>13. q = r
  BY <1>8, <1>9, <1>11, <1>12, Same
<1> QED
  BY <1>2, <1>5, <1>6, <1>10, <1>13

\* No command answers with the parser's error.
LEMMA CommandsAnswer ==
    ASSUME NEW args, NEW d, NEW o PROVE Execute(args, d, o).reply # Protocol
<1>1. \A n, s : /\ Error # Protocol /\ NullBulk # Protocol /\ Integer(n) # Protocol
                /\ BulkString(s) # Protocol /\ SimpleString(s) # Protocol
  BY DEF Error, NullBulk, Integer, BulkString, SimpleString, Protocol, Reply
<1> QED
  BY <1>1, Zenon DEF Execute

-----------------------------------------------------------------------------
(***************************************************************************)
(* The invariant.  An event in events[] or in hand is about a connection   *)
(* that is still open, or whose peer has reset it: epoll reports a         *)
(* descriptor once, and only a reset can be reported in two ways.          *)
(***************************************************************************)
Live(c) == conn[c] = "open" \/ peer[c] = "reset"

EventsLive ==
    /\ \A e \in batch \ {Listen} : Live(e.c)
    /\ \A e, f \in batch \ {Listen} : e.c = f.c => e = f \/ peer[e.c] = "reset"
    /\ \A c : InHand(c) => Live(c)
    /\ \A e \in batch \ {Listen} : InHand(e.c) => peer[e.c] = "reset"
    /\ pc \in {"wait", "exit"} => batch = {}

\* What is kept by client besides the connections.
ReplyShapes ==
    /\ got = [c \in Client |-> got[c]] /\ wire = [c \in Client |-> wire[c]]
    /\ ran = [c \in Client |-> ran[c]] /\ peer = [c \in Client |-> peer[c]]
    /\ \A c \in Client : IsSeq(ran[c])

\* Nothing of the connection can have been dropped.
Whole(c) == conn[c] \in {"new", "queued", "open"} /\ peer[c] # "reset"

ClientFine(c) == Fine(got[c], wire[c], conns[c].out, conns[c].out_off, RepliesOf(ran[c]), Whole(c))

ReplyInv == ServerInv /\ ReplyShapes /\ EventsLive /\ \A c \in Client : ClientFine(c)

LEMMA ReplyInvInit == Init => ReplyInv
<1> SUFFICES ASSUME Init PROVE ReplyInv
  OBVIOUS
<1>1. ServerInv
  BY InvInit
<1>2. /\ got = [c \in Client |-> <<>>] /\ wire = [c \in Client |-> <<>>]
      /\ ran = [c \in Client |-> <<>>] /\ peer = [c \in Client |-> "open"]
      /\ conns = [c \in Client |-> NewConn] /\ pc = "loop" /\ batch = {}
  BY DEF Init
<1>3. ReplyShapes
  BY <1>2, Empty DEF ReplyShapes
<1>4. EventsLive
  BY <1>2 DEF EventsLive, InHand
<1>5. ASSUME NEW c \in Client PROVE ClientFine(c)
  <2>1. NewConn.out = <<>> /\ NewConn.out_off = 0
    BY DEF NewConn
  <2>2. /\ got[c] = <<>> /\ wire[c] = <<>> /\ RepliesOf(ran[c]) = <<>>
        /\ conns[c].out = <<>> /\ conns[c].out_off = 0
    BY <1>2, <2>1, NoReplies
  <2>3. Fine(<<>>, <<>>, <<>>, 0, <<>>, Whole(c))
    BY FineNew, Zenon
  <2> QED
    BY <2>2, <2>3, Zenon DEF ClientFine
<1> QED
  BY <1>1, <1>3, <1>4, <1>5 DEF ReplyInv

\* A client whose replies are where they were.
LEMMA StillFine ==
    ASSUME NEW c \in Client, ClientFine(c), got'[c] = got[c], wire'[c] = wire[c],
           ran'[c] = ran[c], conns'[c].out = conns[c].out, conns'[c].out_off = conns[c].out_off,
           Whole(c)' => Whole(c)
    PROVE  ClientFine(c)'
<1>1. Fine(got[c], wire[c], conns[c].out, conns[c].out_off, RepliesOf(ran[c]), Whole(c)')
  <2>1. PICK less : less = Whole(c)'
    OBVIOUS
  <2>2. less => Whole(c)
    BY <2>1, Zenon
  <2>3. Fine(got[c], wire[c], conns[c].out, conns[c].out_off, RepliesOf(ran[c]), less)
    BY <2>2, FineWeaker, Zenon DEF ClientFine
  <2> QED
    BY <2>1, <2>3, Zenon
<1> QED
  BY <1>1, Zenon DEF ClientFine

\* A connection that ends.
LEMMA EndedFine ==
    ASSUME NEW c \in Client, ClientFine(c), got'[c] = got[c],
           wire'[c] = wire[c] \/ wire'[c] = <<>>,
           ran'[c] = ran[c], conns'[c] = NewConn, ~Whole(c)'
    PROVE  ClientFine(c)'
<1>1. NewConn.out = <<>> /\ NewConn.out_off = 0
  BY DEF NewConn
<1>2. PICK w : w = wire'[c]
  OBVIOUS
<1>3. Fine(got[c], w, <<>>, 0, RepliesOf(ran[c]), FALSE)
  <2>1. CASE w = wire[c]
    BY <2>1, FineClosed, Zenon DEF ClientFine
  <2>2. CASE w = <<>>
    BY <2>2, FineLost, Zenon DEF ClientFine
  <2> QED
    BY <1>2, <2>1, <2>2
<1>4. PICK less : less = Whole(c)'
  OBVIOUS
<1>5. Fine(got[c], w, <<>>, 0, RepliesOf(ran[c]), less)
  BY <1>3, <1>4, FineWeaker, Zenon
<1> QED
  BY <1>1, <1>2, <1>4, <1>5, Zenon DEF ClientFine

\* Steps that take no event in hand and read none.
LEMMA EventsFrame ==
    ASSUME ReplyInv, batch' \subseteq batch, \A c : InHand(c)' => InHand(c),
           \A c \in Client : Live(c) => Live(c)',
           \A c \in Client : peer[c] = "reset" => peer'[c] = "reset",
           pc' \in {"wait", "exit"} => batch' = {}
    PROVE  EventsLive'
<1>1. \A e \in batch' \ {Listen} : e \in batch \ {Listen} /\ e.c \in Client
  BY DEF ReplyInv, ServerInv, EventsAccepted
<1>2. \A c : InHand(c)' => c \in Client /\ InHand(c)
  BY DEF ReplyInv, ServerInv, EventsAccepted
<1>3. \A e \in batch' \ {Listen} : Live(e.c)'
  BY <1>1 DEF ReplyInv, EventsLive
<1>4. \A e, f \in batch' \ {Listen} : e.c = f.c => e = f \/ peer'[e.c] = "reset"
  BY <1>1 DEF ReplyInv, EventsLive
<1>5. \A c : InHand(c)' => Live(c)'
  BY <1>2 DEF ReplyInv, EventsLive
<1>6. \A e \in batch' \ {Listen} : InHand(e.c)' => peer'[e.c] = "reset"
  BY <1>1, <1>2 DEF ReplyInv, EventsLive
<1> QED
  BY <1>3, <1>4, <1>5, <1>6 DEF EventsLive

\* What clients do, but for reading; and the caller of Stop.
LEMMA ClientSteps ==
    ASSUME ReplyInv,
           UNCHANGED vars \/ Stop \/ Wake \/ (\E c \in Client : Connect(c) \/ Send(c) \/ Quit(c))
    PROVE  ReplyShapes' /\ EventsLive' /\ \A c \in Client : ClientFine(c)'
<1>1. UNCHANGED <<got, ran, conns, pc, batch, cur>>
  BY DEF vars, socket, loop, Stop, Wake, Connect, Send, Quit
<1>2. \/ UNCHANGED <<conn, peer, wire>>
      \/ \E c \in Client : /\ conn[c] = "new" /\ conn' = [conn EXCEPT ![c] = "queued"]
                           /\ UNCHANGED <<peer, wire>>
      \/ \E c \in Client : \E how \in {"shut", "reset"} :
           /\ peer[c] # "reset" /\ peer' = [peer EXCEPT ![c] = how] /\ UNCHANGED conn
           /\ wire' = IF how = "reset" THEN [wire EXCEPT ![c] = <<>>] ELSE wire
  BY DEF vars, socket, Stop, Wake, Connect, Send, Quit
<1>3. /\ wire' = [c \in Client |-> wire'[c]] /\ peer' = [c \in Client |-> peer'[c]]
      /\ \A c \in Client : Live(c) => Live(c)'
      /\ \A c \in Client : peer[c] = "reset" => peer'[c] = "reset"
      /\ \A c \in Client : Whole(c)' => Whole(c)
      /\ \A c \in Client : wire'[c] = wire[c] \/ (wire'[c] = <<>> /\ ~Whole(c)')
  <2>1. /\ wire = [c \in Client |-> wire[c]] /\ peer = [c \in Client |-> peer[c]]
        /\ conn = [c \in Client |-> conn[c]]
    BY DEF ReplyInv, ReplyShapes, ServerInv, Shapes
  <2>2. CASE UNCHANGED <<conn, peer, wire>>
    BY <2>1, <2>2 DEF Live, Whole
  <2>3. CASE \E c \in Client : /\ conn[c] = "new" /\ conn' = [conn EXCEPT ![c] = "queued"]
                               /\ UNCHANGED <<peer, wire>>
    <3>1. PICK c \in Client : /\ conn[c] = "new" /\ conn' = [conn EXCEPT ![c] = "queued"]
                              /\ UNCHANGED <<peer, wire>>
      BY <2>3
    <3>2. \A d \in Client : conn'[d] = IF d = c THEN "queued" ELSE conn[d]
      BY <2>1, <3>1
    <3> QED
      BY <2>1, <3>1, <3>2 DEF Live, Whole
  <2>4. CASE \E c \in Client : \E how \in {"shut", "reset"} :
           /\ peer[c] # "reset" /\ peer' = [peer EXCEPT ![c] = how] /\ UNCHANGED conn
           /\ wire' = IF how = "reset" THEN [wire EXCEPT ![c] = <<>>] ELSE wire
    <3>1. PICK c \in Client, how \in {"shut", "reset"} :
             /\ peer[c] # "reset" /\ peer' = [peer EXCEPT ![c] = how] /\ UNCHANGED conn
             /\ wire' = IF how = "reset" THEN [wire EXCEPT ![c] = <<>>] ELSE wire
      BY <2>4
    <3>2. \A d \in Client : /\ peer'[d] = IF d = c THEN how ELSE peer[d]
                            /\ wire'[d] = IF d = c /\ how = "reset" THEN <<>> ELSE wire[d]
      BY <2>1, <3>1
    <3>3. wire' = [d \in Client |-> wire'[d]] /\ peer' = [d \in Client |-> peer'[d]]
      BY <2>1, <3>1
    <3> QED
      BY <3>1, <3>2, <3>3 DEF Live, Whole
  <2> QED
    BY <1>2, <2>2, <2>3, <2>4
<1>4. ReplyShapes'
  BY <1>1, <1>3 DEF ReplyInv, ReplyShapes
<1>5. EventsLive'
  <2>1. \A c : InHand(c)' => InHand(c)
    BY <1>1 DEF InHand
  <2>2. pc' \in {"wait", "exit"} => batch' = {}
    BY <1>1 DEF ReplyInv, EventsLive
  <2> QED
    BY <1>1, <1>3, <2>1, <2>2, EventsFrame
<1>6. ASSUME NEW c \in Client PROVE ClientFine(c)'
  <2>1. ClientFine(c)
    BY DEF ReplyInv
  <2>2. CASE wire'[c] = wire[c]
    BY <1>1, <1>3, <2>1, <2>2, StillFine
  <2>3. CASE wire'[c] = <<>> /\ ~Whole(c)'
    <3>1. PICK less : less = Whole(c)'
      OBVIOUS
    <3>2. Fine(got[c], <<>>, conns[c].out, conns[c].out_off, RepliesOf(ran[c]), FALSE)
      BY <2>1, FineLost, Zenon DEF ClientFine
    <3>3. Fine(got[c], <<>>, conns[c].out, conns[c].out_off, RepliesOf(ran[c]), less)
      BY <2>3, <3>1, <3>2, FineWeaker, Zenon
    <3> QED
      BY <1>1, <2>3, <3>1, <3>3, Zenon DEF ClientFine
  <2> QED
    BY <1>3, <2>2, <2>3
<1> QED
  BY <1>4, <1>5, <1>6

\* A client reads a reply.
LEMMA ReceiveStep ==
    ASSUME ReplyInv, NEW d \in Client, Receive(d)
    PROVE  ReplyShapes' /\ EventsLive' /\ \A c \in Client : ClientFine(c)'
<1>1. /\ UNCHANGED <<ran, peer, conn, conns, pc, batch, cur>> /\ wire[d] # <<>>
      /\ wire' = [wire EXCEPT ![d] = Tail(@)] /\ got' = [got EXCEPT ![d] = Append(@, Head(wire[d]))]
  BY DEF Receive, loop
<1>2. wire = [c \in Client |-> wire[c]] /\ got = [c \in Client |-> got[c]]
  BY DEF ReplyInv, ReplyShapes
<1>3. /\ wire' = [c \in Client |-> wire'[c]] /\ got' = [c \in Client |-> got'[c]]
      /\ wire'[d] = Tail(wire[d]) /\ got'[d] = Append(got[d], Head(wire[d]))
      /\ \A c \in Client \ {d} : wire'[c] = wire[c] /\ got'[c] = got[c]
  BY <1>1, <1>2, Zenon
<1>4. ReplyShapes'
  BY <1>1, <1>3 DEF ReplyInv, ReplyShapes
<1>5. EventsLive'
  BY <1>1 DEF ReplyInv, EventsLive, InHand, Live
<1>6. ASSUME NEW c \in Client PROVE ClientFine(c)'
  <2>1. ClientFine(c) /\ (Whole(c)' <=> Whole(c))
    BY <1>1 DEF ReplyInv, Whole
  <2>2. CASE c # d
    BY <1>1, <1>3, <2>1, <2>2, StillFine
  <2>3. CASE c = d
    <3>1. Fine(Append(got[c], Head(wire[c])), Tail(wire[c]), conns[c].out, conns[c].out_off,
               RepliesOf(ran[c]), Whole(c))
      BY <1>1, <2>1, <2>3, FineReceived, Zenon DEF ClientFine
    <3>2. Fine(got'[c], wire'[c], conns'[c].out, conns'[c].out_off, RepliesOf(ran'[c]), Whole(c))
      BY <1>1, <1>3, <2>3, <3>1, Zenon
    <3>3. PICK less : less = Whole(c)'
      OBVIOUS
    <3>4. less => Whole(c)
      BY <2>1, <3>3, Zenon
    <3>5. Fine(got'[c], wire'[c], conns'[c].out, conns'[c].out_off, RepliesOf(ran'[c]), less)
      BY <3>2, <3>4, FineWeaker, Zenon
    <3> QED
      BY <3>3, <3>5, Zenon DEF ClientFine
  <2> QED
    BY <2>2, <2>3
<1> QED
  BY <1>4, <1>5, <1>6

\* Steps of the loop that touch no connection's replies.
LEMMA LoopFrame ==
    ASSUME ReplyInv,
           Wait \/ WaitFails \/ BatchDone \/ AcceptNewClients \/ AcceptFails \/ Dispatch
    PROVE  ReplyShapes' /\ EventsLive' /\ \A c \in Client : ClientFine(c)'
<1>0. (AcceptNewClients \/ AcceptFails) => \E S \in SUBSET Queued : Accept(S)
  BY DEF AcceptNewClients, AcceptFails
<1>1. UNCHANGED <<got, ran, conns, peer, wire>>
  BY <1>0 DEF socket, Wait, WaitFails, BatchDone, Accept, Dispatch
<1>2. ReplyShapes'
  BY <1>1 DEF ReplyInv, ReplyShapes
<1>3. \A c \in Client : conn'[c] = conn[c] \/ conn[c] = "queued"
  BY <1>0 DEF socket, Wait, WaitFails, BatchDone, Accept, Dispatch, Queued
<1>4. ASSUME NEW c \in Client PROVE ClientFine(c)'
  <2>1. Whole(c)' => Whole(c)
    BY <1>1, <1>3 DEF Whole
  <2>2. ClientFine(c)
    BY DEF ReplyInv
  <2> QED
    BY <1>1, <2>1, <2>2, StillFine
<1>5. CASE BatchDone \/ WaitFails \/ AcceptNewClients \/ AcceptFails
  <2>1. /\ batch' \subseteq batch /\ pc' \in {"wait", "loop", "exit"}
        /\ pc' \in {"wait", "exit"} => batch' = {}
    BY <1>0, <1>5 DEF BatchDone, WaitFails, Accept, ReplyInv, EventsLive
  <2>2. \A c : InHand(c)' => InHand(c)
    BY <2>1 DEF InHand
  <2>3. \A c \in Client : Live(c) => Live(c)'
    BY <1>1, <1>3 DEF Live
  <2>4. \A c \in Client : peer[c] = "reset" => peer'[c] = "reset"
    BY <1>1
  <2>5. EventsLive'
    BY <2>1, <2>2, <2>3, <2>4, EventsFrame
  <2> QED
    BY <1>2, <1>4, <2>5
<1>6. CASE Wait
  <2>1. UNCHANGED conn /\ pc' = "loop"
    BY <1>6 DEF Wait, socket
  <2>2. \A e \in batch' \ {Listen} : e \in Events
    BY <1>6 DEF Wait
  <2>3. \A e \in Events : conn[e.c] = "open"
    BY DEF Events, Open
  <2>4. ASSUME NEW e \in Events, NEW f \in Events, e.c = f.c, peer[e.c] # "reset" PROVE e = f
    <3>1. e \in [c : Open, in : BOOLEAN, out : BOOLEAN, err : BOOLEAN]
          /\ f \in [c : Open, in : BOOLEAN, out : BOOLEAN, err : BOOLEAN]
      BY DEF Events
    <3>2. e.err = FALSE /\ f.err = FALSE
      BY <2>4 DEF Events
    <3>3. e.in = (Rest(e.c) # <<>> \/ peer[e.c] = "shut") /\ f.in = (Rest(e.c) # <<>> \/ peer[e.c] = "shut")
      BY <2>4, <3>2, Zenon DEF Events
    <3>4. /\ e.out = (conns[e.c].armed /\ (FALSE \/ Len(wire[e.c]) < kSndBuf))
          /\ f.out = (conns[e.c].armed /\ (FALSE \/ Len(wire[e.c]) < kSndBuf))
      BY <2>4, <3>2, Zenon DEF Events
    <3>5. e.in = f.in /\ e.out = f.out
      BY <3>3, <3>4, Zenon
    <3> QED
      BY <2>4, <3>1, <3>2, <3>5
  <2>5. EventsLive'
    BY <1>1, <2>1, <2>2, <2>3, <2>4 DEF EventsLive, InHand, Live
  <2> QED
    BY <1>2, <1>4, <2>5
<1>7. CASE Dispatch
  <2>1. PICK e \in batch \ {Listen} : batch' = batch \ {e} /\ cur' = e
    BY <1>7 DEF Dispatch
  <2>2. UNCHANGED conn /\ pc' \in {"write", "read"}
    BY <1>7 DEF Dispatch, socket
  <2>3. \A c : InHand(c)' => c = e.c
    BY <2>1 DEF InHand
  <2>4. EventsLive'
    BY <1>1, <2>1, <2>2, <2>3 DEF ReplyInv, EventsLive, Live
  <2> QED
    BY <1>2, <1>4, <2>4
<1> QED
  BY <1>5, <1>6, <1>7

\* The end of a connection that no other event is about, unless it was reset.
LEMMA CloseFine ==
    ASSUME ReplyInv, NEW d \in Client, NEW why \in Ended, CloseConn(d, why), batch' \subseteq batch,
           \A e \in batch' \ {Listen} : e.c = d => peer[d] = "reset"
    PROVE  ReplyShapes' /\ EventsLive' /\ \A c \in Client : ClientFine(c)'
<1>1. /\ UNCHANGED <<got, ran, peer>> /\ pc' = "loop"
      /\ conn' = [conn EXCEPT ![d] = why] /\ conns' = [conns EXCEPT ![d] = NewConn]
      /\ wire' = [wire EXCEPT ![d] = <<>>] \/ wire' = wire
  BY DEF CloseConn
<1>2. /\ wire = [c \in Client |-> wire[c]] /\ conn = [c \in Client |-> conn[c]]
      /\ conns = [c \in Client |-> conns[c]]
  BY DEF ReplyInv, ReplyShapes, ServerInv, Shapes
<1>3. /\ wire' = [c \in Client |-> wire'[c]]
      /\ conn'[d] = why /\ conns'[d] = NewConn /\ (wire'[d] = wire[d] \/ wire'[d] = <<>>)
  BY <1>1, <1>2
<1>4. \A c \in Client \ {d} : conn'[c] = conn[c] /\ conns'[c] = conns[c] /\ wire'[c] = wire[c]
  BY <1>1, <1>2
<1>5. ReplyShapes'
  BY <1>1, <1>3 DEF ReplyInv, ReplyShapes
<1>6. EventsLive'
  <2>1. \A e \in batch' \ {Listen} : e \in batch \ {Listen} /\ e.c \in Client
    BY DEF ReplyInv, ServerInv, EventsAccepted
  <2>2. \A e \in batch' \ {Listen} : Live(e.c)'
    BY <1>1, <1>4, <2>1 DEF ReplyInv, EventsLive, Live
  <2> QED
    BY <1>1, <2>1, <2>2 DEF ReplyInv, EventsLive, InHand
<1>7. ASSUME NEW c \in Client PROVE ClientFine(c)'
  <2>1. ClientFine(c)
    BY DEF ReplyInv
  <2>2. CASE c # d
    <3>1. Whole(c)' => Whole(c)
      BY <1>1, <1>4, <2>2 DEF Whole
    <3> QED
      BY <1>1, <1>4, <2>1, <2>2, <3>1, StillFine
  <2>3. CASE c = d
    <3>1. ~Whole(c)'
      BY <1>3, <2>3 DEF Whole, Ended
    <3> QED
      BY <1>1, <1>3, <2>1, <2>3, <3>1, EndedFine
  <2> QED
    BY <2>2, <2>3
<1> QED
  BY <1>5, <1>6, <1>7

\* The loop works on the connection in hand.
LEMMA HandFine ==
    ASSUME ReplyInv, NEW d, InHand(d), UNCHANGED <<got, conn, peer, batch, cur>>, pc' \notin {"wait", "exit"},
           NEW k, conns' = [conns EXCEPT ![d] = k],
           NEW w, wire' = [wire EXCEPT ![d] = w], NEW h, IsSeq(h), ran' = [ran EXCEPT ![d] = h],
           Fine(got[d], w, k.out, k.out_off, RepliesOf(h), Whole(d))
    PROVE  ReplyShapes' /\ EventsLive' /\ \A c \in Client : ClientFine(c)'
<1>1. d \in Client
  BY DEF ReplyInv, ServerInv, EventsAccepted
<1>2. /\ wire = [c \in Client |-> wire[c]] /\ ran = [c \in Client |-> ran[c]]
      /\ conns = [c \in Client |-> conns[c]]
  BY DEF ReplyInv, ReplyShapes, ServerInv, Shapes
<1>3. /\ wire' = [c \in Client |-> wire'[c]] /\ ran' = [c \in Client |-> ran'[c]]
      /\ conns'[d] = k /\ wire'[d] = w /\ ran'[d] = h
  BY <1>1, <1>2, Zenon
<1>4. \A c \in Client \ {d} : conns'[c] = conns[c] /\ wire'[c] = wire[c] /\ ran'[c] = ran[c]
  BY <1>1, <1>2, Zenon
<1>5. ReplyShapes'
  <2>1. \A c \in Client : IsSeq(ran'[c])
    BY <1>3, <1>4 DEF ReplyInv, ReplyShapes
  <2> QED
    BY <1>3, <2>1 DEF ReplyInv, ReplyShapes
<1>6. EventsLive'
  <2>1. \A c : InHand(c)' => InHand(c)
    BY DEF InHand
  <2>2. /\ \A c \in Client : Live(c) => Live(c)'
        /\ \A c \in Client : peer[c] = "reset" => peer'[c] = "reset"
    BY DEF Live
  <2> QED
    BY <2>1, <2>2, EventsFrame
<1>7. ASSUME NEW c \in Client PROVE ClientFine(c)'
  <2>1. ClientFine(c) /\ Whole(c)' = Whole(c)
    BY DEF ReplyInv, Whole
  <2>2. CASE c # d
    BY <1>4, <2>1, <2>2, StillFine
  <2>3. CASE c = d
    <3>1. Fine(got'[c], wire'[c], conns'[c].out, conns'[c].out_off, RepliesOf(ran'[c]), Whole(c)')
      BY <1>3, <2>1, <2>3, Zenon
    <3> QED
      BY <3>1, Zenon DEF ClientFine
  <2> QED
    BY <2>2, <2>3
<1> QED
  BY <1>5, <1>6, <1>7

\* It keeps the replies of that connection where they are.
LEMMA HandKeeps ==
    ASSUME ReplyInv, NEW d, InHand(d), UNCHANGED <<got, wire, ran, conn, peer, batch, cur>>,
           pc' \notin {"wait", "exit"}, NEW k, conns' = [conns EXCEPT ![d] = k],
           k.out = conns[d].out, k.out_off = conns[d].out_off
    PROVE  ReplyShapes' /\ EventsLive' /\ \A c \in Client : ClientFine(c)'
<1>1. d \in Client
  BY DEF ReplyInv, ServerInv, EventsAccepted
<1>2. wire = [c \in Client |-> wire[c]] /\ ran = [c \in Client |-> ran[c]] /\ IsSeq(ran[d])
  BY <1>1 DEF ReplyInv, ReplyShapes
<1>3. wire' = [wire EXCEPT ![d] = wire[d]] /\ ran' = [ran EXCEPT ![d] = ran[d]]
  BY <1>1, <1>2, Zenon
<1>4. Fine(got[d], wire[d], k.out, k.out_off, RepliesOf(ran[d]), Whole(d))
  BY <1>1, Zenon DEF ReplyInv, ClientFine
<1>5. PICK w, h : w = wire[d] /\ h = ran[d]
  OBVIOUS
<1>6. /\ wire' = [wire EXCEPT ![d] = w] /\ ran' = [ran EXCEPT ![d] = h] /\ IsSeq(h)
      /\ Fine(got[d], w, k.out, k.out_off, RepliesOf(h), Whole(d))
  BY <1>2, <1>3, <1>4, <1>5, Zenon
<1> QED
  BY <1>6, HandFine

\* The loop ends and closes everything.
LEMMA StopEndFine ==
    ASSUME ReplyInv, StopEnd
    PROVE  ReplyShapes' /\ EventsLive' /\ \A c \in Client : ClientFine(c)'
<1>1. /\ UNCHANGED <<got, ran, peer, wire, batch>> /\ pc = "exit" /\ pc' = "off"
      /\ conns' = [c \in Client |-> NewConn]
      /\ conn' = [c \in Client |-> IF conn[c] \in {"open", "queued"} THEN "stopped" ELSE conn[c]]
  BY DEF StopEnd
<1>2. ReplyShapes'
  BY <1>1 DEF ReplyInv, ReplyShapes
<1>3. EventsLive'
  BY <1>1 DEF ReplyInv, EventsLive, InHand
<1>4. ASSUME NEW c \in Client PROVE ClientFine(c)'
  <2>1. ClientFine(c)
    BY DEF ReplyInv
  <2>2. CASE conn[c] = "new"
    <3>1. conns[c] = NewConn
      BY <2>2 DEF ReplyInv, ServerInv, EventsAccepted, Unaccepted
    <3>2. Whole(c)' => Whole(c)
      BY <1>1, <2>2 DEF Whole
    <3> QED
      BY <1>1, <2>1, <3>1, <3>2, StillFine
  <2>3. CASE conn[c] # "new"
    <3>1. ~Whole(c)'
      BY <1>1, <2>3 DEF Whole
    <3> QED
      BY <1>1, <2>1, <3>1, EndedFine
  <2> QED
    BY <2>2, <2>3
<1> QED
  BY <1>2, <1>3, <1>4

\* Assignments that leave the output buffer alone.
LEMMA SameOutput ==
    ASSUME NEW k, IsConn(k), NEW x, NEW y
    PROVE  /\ [k EXCEPT !.parser = x].out = k.out /\ [k EXCEPT !.parser = x].out_off = k.out_off
           /\ [k EXCEPT !.closing = x].out = k.out /\ [k EXCEPT !.closing = x].out_off = k.out_off
           /\ [k EXCEPT !.armed = x].out = k.out /\ [k EXCEPT !.armed = x].out_off = k.out_off
           /\ [k EXCEPT !.parser = x, !.closing = y].out = k.out
           /\ [k EXCEPT !.parser = x, !.closing = y].out_off = k.out_off
<1>1. PICK p, o, f, b, a :
         k = [parser |-> p, out |-> o, out_off |-> f, closing |-> b, armed |-> a]
  BY DEF IsConn
<1>2. /\ [k EXCEPT !.parser = x].out = k.out /\ [k EXCEPT !.parser = x].out_off = k.out_off
      /\ [k EXCEPT !.closing = x].out = k.out /\ [k EXCEPT !.closing = x].out_off = k.out_off
      /\ [k EXCEPT !.armed = x].out = k.out /\ [k EXCEPT !.armed = x].out_off = k.out_off
  BY <1>1
<1>3. /\ [k EXCEPT !.parser = x, !.closing = y].out = k.out
      /\ [k EXCEPT !.parser = x, !.closing = y].out_off = k.out_off
  BY <1>1
<1> QED
  BY <1>2, <1>3

\* And the ones that do not.
LEMMA NewOutput ==
    ASSUME NEW k, IsConn(k), NEW x, NEW y
    PROVE  /\ [k EXCEPT !.out_off = x].out = k.out /\ [k EXCEPT !.out_off = x].out_off = x
           /\ [k EXCEPT !.parser = x, !.out = y].out = y
           /\ [k EXCEPT !.parser = x, !.out = y].out_off = k.out_off
           /\ Cleared(k).out = <<>> /\ Cleared(k).out_off = 0
<1>1. PICK p, o, f, b, a :
         k = [parser |-> p, out |-> o, out_off |-> f, closing |-> b, armed |-> a]
  BY DEF IsConn
<1>2. /\ [k EXCEPT !.out_off = x].out = k.out /\ [k EXCEPT !.out_off = x].out_off = x
  BY <1>1
<1>3. /\ [k EXCEPT !.parser = x, !.out = y].out = y
      /\ [k EXCEPT !.parser = x, !.out = y].out_off = k.out_off
  BY <1>1
<1>4. Cleared(k).out = <<>> /\ Cleared(k).out_off = 0
  BY <1>1 DEF Cleared
<1> QED
  BY <1>2, <1>3, <1>4

\* HandleReadable: one read().
LEMMA ReadFine ==
    ASSUME ReplyInv, Read
    PROVE  ReplyShapes' /\ EventsLive' /\ \A c \in Client : ClientFine(c)'
<1>0. PICK c : c = cur.c
  OBVIOUS
<1>1. InHand(c) /\ c \in Client /\ IsConn(conns[c])
  BY <1>0 DEF Read, InHand, ReplyInv, ServerInv, EventsAccepted, Shapes
<1> DEFINE n == IF Len(Rest(c)) < kReadChunk THEN Len(Rest(c)) ELSE kReadChunk
           p == Feed(conns[c].parser, SubSeq(Rest(c), 1, n))
           over == Len(p.buf) > kMaxInBytes
           why == IF peer[c] = "reset" THEN "failed" ELSE "closed"
           k == [conns[c] EXCEPT !.parser = p, !.closing = @ \/ over]
<1>2. \/ CloseConn(c, why) /\ UNCHANGED batch
      \/ /\ pc' = "flush" /\ UNCHANGED <<got, wire, ran, peer, conn, conns, batch, cur>>
      \/ /\ pc' \in {"flush", "execute"} /\ UNCHANGED <<got, wire, ran, peer, conn, batch, cur>>
         /\ conns' = [conns EXCEPT ![c].parser = p, ![c].closing = @ \/ over]
  <2> HIDE DEF n
  <2>1. \/ CloseConn(c, why) /\ UNCHANGED batch
        \/ pc' = "flush" /\ UNCHANGED <<socket, ran, conns, batch, cur>>
        \/ /\ pc' = IF over THEN "flush" ELSE "execute"
           /\ conns' = [conns EXCEPT ![c].parser = p, ![c].closing = @ \/ over]
           /\ UNCHANGED <<got, wire, ran, peer, conn, batch, cur>>
    BY <1>0 DEF Read, n
  <2> QED
    BY <2>1 DEF socket
<1>3. CASE CloseConn(c, why) /\ UNCHANGED batch
  <2>1. why \in Ended
    BY DEF Ended
  <2>2. \A e \in batch' \ {Listen} : e.c = c => peer[c] = "reset"
    BY <1>1, <1>3 DEF ReplyInv, EventsLive
  <2> HIDE DEF why
  <2> QED
    BY <1>1, <1>3, <2>1, <2>2, CloseFine
<1>4. CASE pc' = "flush" /\ UNCHANGED <<got, wire, ran, peer, conn, conns, batch, cur>>
  <2>1. conns = [x \in Client |-> conns[x]]
    BY DEF ReplyInv, ServerInv, Shapes
  <2>2. PICK j : j = conns[c]
    OBVIOUS
  <2>3. conns' = [conns EXCEPT ![c] = j] /\ j.out = conns[c].out /\ j.out_off = conns[c].out_off
    BY <1>1, <1>4, <2>1, <2>2
  <2> QED
    BY <1>1, <1>4, <2>3, HandKeeps
<1>5. CASE /\ pc' \in {"flush", "execute"} /\ UNCHANGED <<got, wire, ran, peer, conn, batch, cur>>
           /\ conns' = [conns EXCEPT ![c].parser = p, ![c].closing = @ \/ over]
  <2>1. conns' = [conns EXCEPT ![c] = k]
    BY <1>5
  <2>2. k.out = conns[c].out /\ k.out_off = conns[c].out_off
    <3>1. PICK d : d = (conns[c].closing \/ over)
      BY Zenon
    <3> HIDE DEF p, over
    <3>2. k = [conns[c] EXCEPT !.parser = p, !.closing = d]
      BY <3>1
    <3> QED
      BY <1>1, <3>2, SameOutput
  <2> HIDE DEF k
  <2> QED
    BY <1>1, <1>5, <2>1, <2>2, HandKeeps
<1> QED
  BY <1>2, <1>3, <1>4, <1>5

\* One round around Parser::Next.
LEMMA HandleRequestFine ==
    ASSUME ReplyInv, HandleRequest
    PROVE  ReplyShapes' /\ EventsLive' /\ \A c \in Client : ClientFine(c)'
<1>0. PICK c : c = cur.c
  OBVIOUS
<1>1. InHand(c) /\ c \in Client /\ IsConn(conns[c])
  BY <1>0, Zenon DEF HandleRequest, InHand, ReplyInv, ServerInv, EventsAccepted, Shapes
<1>2. UNCHANGED <<got, wire, peer, conn, batch, cur>> /\ pc' \notin {"wait", "exit"}
  <2>1. UNCHANGED <<socket, batch, cur>>
    BY Zenon DEF HandleRequest
  <2>2. pc' \in {"flush", "execute", "read"}
    BY Zenon DEF HandleRequest
  <2> QED
    BY <2>1, <2>2 DEF socket
<1>3. PICK o \in {ParserNext(conns[cur.c].parser)} :
        LET put(r) == [conns[cur.c] EXCEPT !.parser = o.p, !.out = Append(@, r)] IN
        \/ conns' = [conns EXCEPT ![cur.c].parser = o.p] /\ UNCHANGED ran
        \/ /\ conns' = [conns EXCEPT ![cur.c] = [put(Protocol) EXCEPT !.closing = TRUE]]
           /\ UNCHANGED ran
        \/ \E result \in {Execute(o.args, db, x) : x \in Outcomes(o.args)} :
             LET q == put(result.reply)
                 over == Backlog(q) > kMaxOutBytes
             IN  /\ conns' = [conns EXCEPT ![cur.c] = [q EXCEPT !.closing = @ \/ over]]
                 /\ ran' = [ran EXCEPT ![cur.c] =
                               Append(@, [args |-> o.args, reply |-> result.reply])]
  BY Zenon DEF HandleRequest
<1> DEFINE put(r) == [conns[cur.c] EXCEPT !.parser = o.p, !.out = Append(@, r)]
<1>4. \A r, x : LET k == [put(r) EXCEPT !.closing = x] IN
         k.out = Append(conns[c].out, r) /\ k.out_off = conns[c].out_off
  <2> SUFFICES ASSUME NEW r, NEW x
               PROVE  LET k == [put(r) EXCEPT !.closing = x] IN
                      k.out = Append(conns[c].out, r) /\ k.out_off = conns[c].out_off
    OBVIOUS
  <2>1. PICK j, p, y : j = conns[c] /\ p = o.p /\ y = Append(j.out, r)
    OBVIOUS
  <2>2. put(r) = [j EXCEPT !.parser = p, !.out = y]
    BY <1>0, <2>1
  <2>3. IsConn(j) /\ IsConn([j EXCEPT !.parser = p, !.out = y])
    BY <1>1, <2>1, AssignedTwice, Zenon
  <2>4. PICK q : q = [j EXCEPT !.parser = p, !.out = y]
    OBVIOUS
  <2>5. q.out = y /\ q.out_off = j.out_off /\ IsConn(q)
    BY <2>3, <2>4, NewOutput
  <2>6. [q EXCEPT !.closing = x].out = q.out /\ [q EXCEPT !.closing = x].out_off = q.out_off
    BY <2>5, SameOutput
  <2> HIDE DEF put
  <2> QED
    BY <2>1, <2>2, <2>4, <2>5, <2>6, Zenon
<1>5. /\ Fine(got[c], wire[c], conns[c].out, conns[c].out_off, RepliesOf(ran[c]), Whole(c))
      /\ IsSeq(ran[c]) /\ ran = [x \in Client |-> ran[x]] /\ wire = [x \in Client |-> wire[x]]
  BY <1>1 DEF ReplyInv, ReplyShapes, ClientFine
<1>6. wire' = [wire EXCEPT ![c] = wire[c]]
  BY <1>1, <1>2, <1>5, Zenon
<1>7. CASE conns' = [conns EXCEPT ![cur.c].parser = o.p] /\ UNCHANGED ran
  <2>1. PICK p : p = o.p
    OBVIOUS
  <2>2. PICK k : k = [conns[c] EXCEPT !.parser = p]
    OBVIOUS
  <2>3. conns' = [conns EXCEPT ![c] = k]
    BY <1>0, <1>7, <2>1, <2>2
  <2>4. k.out = conns[c].out /\ k.out_off = conns[c].out_off
    BY <1>1, <2>2, SameOutput
  <2> QED
    BY <1>1, <1>2, <1>7, <2>3, <2>4, HandKeeps
<1> HIDE DEF put
<1>8. ASSUME NEW r, NEW x, NEW h, IsSeq(h), ran' = [ran EXCEPT ![c] = h],
             conns' = [conns EXCEPT ![c] = [put(r) EXCEPT !.closing = x]],
             Fine(got[c], wire[c], Append(conns[c].out, r), conns[c].out_off, RepliesOf(h), Whole(c))
      PROVE  ReplyShapes' /\ EventsLive' /\ \A d \in Client : ClientFine(d)'
  <2>1. PICK k, w : k = [put(r) EXCEPT !.closing = x] /\ w = wire[c]
    OBVIOUS
  <2>2. conns' = [conns EXCEPT ![c] = k] /\ wire' = [wire EXCEPT ![c] = w]
    BY <1>6, <1>8, <2>1, Zenon
  <2>3. k.out = Append(conns[c].out, r) /\ k.out_off = conns[c].out_off
    BY <1>4, <2>1, Zenon
  <2>4. Fine(got[c], w, k.out, k.out_off, RepliesOf(h), Whole(c))
    BY <1>8, <2>1, <2>3, Zenon
  <2> QED
    BY <1>1, <1>2, <1>8, <2>2, <2>4, HandFine
<1>9. CASE /\ conns' = [conns EXCEPT ![cur.c] = [put(Protocol) EXCEPT !.closing = TRUE]]
           /\ UNCHANGED ran
  <2>1. ran' = [ran EXCEPT ![c] = ran[c]]
    BY <1>1, <1>5, <1>9, Zenon
  <2>2. Fine(got[c], wire[c], Append(conns[c].out, Protocol), conns[c].out_off,
             RepliesOf(ran[c]), Whole(c))
    BY <1>5, FineError, Zenon
  <2>3. conns' = [conns EXCEPT ![c] = [put(Protocol) EXCEPT !.closing = TRUE]]
    BY <1>0, <1>9, Zenon
  <2> QED
    BY <1>5, <1>8, <2>1, <2>2, <2>3, Zenon
<1>10. CASE \E result \in {Execute(o.args, db, x) : x \in Outcomes(o.args)} :
             LET q == put(result.reply)
                 over == Backlog(q) > kMaxOutBytes
             IN  /\ conns' = [conns EXCEPT ![cur.c] = [q EXCEPT !.closing = @ \/ over]]
                 /\ ran' = [ran EXCEPT ![cur.c] =
                               Append(@, [args |-> o.args, reply |-> result.reply])]
  <2>1. PICK result \in {Execute(o.args, db, x) : x \in Outcomes(o.args)} :
             /\ conns' = [conns EXCEPT ![cur.c] = [put(result.reply) EXCEPT !.closing =
                             @ \/ Backlog(put(result.reply)) > kMaxOutBytes]]
             /\ ran' = [ran EXCEPT ![cur.c] =
                               Append(@, [args |-> o.args, reply |-> result.reply])]
    BY <1>10, Zenon
  <2>2. PICK r : r = result.reply
    OBVIOUS
  <2>3. r # Protocol
    BY <2>2, CommandsAnswer, Zenon
  <2>4. PICK x : x = (put(r).closing \/ Backlog(put(r)) > kMaxOutBytes)
    BY Zenon
  <2>5. conns' = [conns EXCEPT ![c] = [put(r) EXCEPT !.closing = x]]
    BY <1>0, <2>1, <2>2, <2>4, Zenon
  <2>6. PICK y : y = [args |-> o.args, reply |-> result.reply]
    OBVIOUS
  <2>7. PICK h : h = Append(ran[c], y)
    OBVIOUS
  <2>8. ran' = [ran EXCEPT ![c] = h]
    BY <1>0, <2>1, <2>6, <2>7, Zenon
  <2>9. y.reply = r
    BY <2>2, <2>6
  <2>10. IsSeq(h) /\ RepliesOf(h) = Append(RepliesOf(ran[c]), r)
    BY <1>5, <2>7, <2>9, Added, OneMoreReply
  <2>11. Fine(got[c], wire[c], Append(conns[c].out, r), conns[c].out_off, RepliesOf(h), Whole(c))
    <3>1. PICK out, off, a : out = conns[c].out /\ off = conns[c].out_off /\ a = RepliesOf(ran[c])
      OBVIOUS
    <3>2. Fine(got[c], wire[c], out, off, a, Whole(c))
      BY <1>5, <3>1, Zenon
    <3>3. Fine(got[c], wire[c], Append(out, r), off, Append(a, r), Whole(c))
      BY <2>3, <3>2, FineReply, Zenon
    <3> QED
      BY <2>10, <3>1, <3>3, Zenon
  <2> QED
    BY <1>8, <2>5, <2>8, <2>10, <2>11, Zenon
<1> QED
  BY <1>3, <1>7, <1>9, <1>10, Zenon DEF put

\* FlushOut: a write(), the end of the connection, or the epoll_ctl.
LEMMA FlushOutFine ==
    ASSUME ReplyInv, FlushOut
    PROVE  ReplyShapes' /\ EventsLive' /\ \A c \in Client : ClientFine(c)'
<1>0. PICK c : c = cur.c
  OBVIOUS
<1>1. InHand(c) /\ c \in Client /\ IsConn(conns[c])
  BY <1>0, Zenon DEF FlushOut, InHand, ReplyInv, ServerInv, EventsAccepted, Shapes
<1> DEFINE k == conns[c]
           room == kSndBuf - Len(wire[c])
           n == IF Backlog(k) < room THEN Backlog(k) ELSE room
           Rearm(j) == /\ conns' = [conns EXCEPT ![c] = [j EXCEPT !.armed = Interested(j)]]
                       /\ pc' \in {"read", "loop"}
                       /\ UNCHANGED <<got, wire, ran, peer, conn, batch, cur>>
           Written == /\ Backlog(k) # 0 /\ peer[c] # "reset" /\ room > 0
                      /\ wire' = [wire EXCEPT ![c] =
                             @ \o SubSeq(k.out, k.out_off + 1, k.out_off + n)]
                      /\ conns' = [conns EXCEPT ![c].out_off = @ + n]
                      /\ pc' = pc /\ UNCHANGED <<got, ran, peer, conn, batch, cur>>
<1>2. \/ \E why \in {"failed", "closed"} : CloseConn(c, why) /\ UNCHANGED batch
      \/ Written \/ Rearm(k) \/ (Backlog(k) = 0 /\ Rearm(Cleared(k)))
  BY <1>0, Zenon DEF FlushOut, socket, loop
<1>3. /\ Fine(got[c], wire[c], k.out, k.out_off, RepliesOf(ran[c]), Whole(c))
      /\ IsSeq(ran[c]) /\ ran = [x \in Client |-> ran[x]] /\ wire = [x \in Client |-> wire[x]]
      /\ conns = [x \in Client |-> conns[x]]
  BY <1>1 DEF ReplyInv, ReplyShapes, ClientFine, ServerInv, Shapes
<1>4. /\ IsSeq(k.out) /\ IsSeq(wire[c]) /\ k.out_off \in 0 .. Len(k.out)
      /\ Len(k.out) \in Nat /\ Len(wire[c]) \in Nat
  <2>1. IsSeq(k.out) /\ IsSeq(wire[c]) /\ k.out_off \in 0 .. Len(k.out)
    BY <1>3, Zenon DEF Fine
  <2> QED
    BY <2>1, Lengths
<1>5. ASSUME NEW why \in {"failed", "closed"}, CloseConn(c, why), UNCHANGED batch
      PROVE  ReplyShapes' /\ EventsLive' /\ \A d \in Client : ClientFine(d)'
  <2>1. why \in Ended
    BY DEF Ended
  <2>2. \A e \in batch' \ {Listen} : e.c = c => peer[c] = "reset"
    BY <1>1, <1>5 DEF ReplyInv, EventsLive
  <2> QED
    BY <1>1, <1>5, <2>1, <2>2, CloseFine
<1>6. CASE Written
  <2>1. PICK l, off, b : l = Len(k.out) /\ off = k.out_off /\ b = Backlog(k)
    OBVIOUS
  <2>2. l \in Nat /\ off \in 0 .. l /\ b = l - off /\ b # 0
    BY <1>4, <1>6, <2>1 DEF Backlog
  <2>3. PICK r : r = room
    OBVIOUS
  <2>4. r \in Int /\ r > 0
    BY <1>4, <1>6, <2>3, ServerAssumption
  <2>5. n = IF b < r THEN b ELSE r
    BY <2>1, <2>3
  <2>6. PICK m : m = n
    OBVIOUS
  <2>7. m \in Nat /\ off + m <= l
    BY <2>2, <2>4, <2>5, <2>6
  <2>8. Whole(c) = TRUE
    BY <1>1, <1>6 DEF ReplyInv, EventsLive, Live, Whole
  <2>9. Fine(got[c], wire[c], k.out, off, RepliesOf(ran[c]), TRUE)
    BY <1>3, <2>1, <2>8, Zenon
  <2> HIDE DEF n
  <2>10. PICK w : w = wire[c] \o SubSeq(k.out, off + 1, off + m)
    OBVIOUS
  <2>11. Fine(got[c], w, k.out, off + m, RepliesOf(ran[c]), TRUE)
    <3>1. PICK out, a : out = k.out /\ a = RepliesOf(ran[c])
      OBVIOUS
    <3>2. Fine(got[c], wire[c], out, off, a, TRUE) /\ off + m <= Len(out)
      BY <2>1, <2>7, <2>9, <3>1, Zenon
    <3>3. Fine(got[c], wire[c] \o SubSeq(out, off + 1, off + m), out, off + m, a, TRUE)
      BY <2>7, <3>2, FineSent, Zenon
    <3> QED
      BY <2>10, <3>1, <3>3, Zenon
  <2>12. PICK x : x = off + m
    OBVIOUS
  <2>13. PICK j : j = [k EXCEPT !.out_off = x]
    OBVIOUS
  <2>14. j.out = k.out /\ j.out_off = x
    BY <1>1, <2>13, NewOutput
  <2>15. conns' = [conns EXCEPT ![c] = j]
    BY <1>6, <2>1, <2>6, <2>12, <2>13
  <2>16. wire' = [wire EXCEPT ![c] = w]
    BY <1>6, <2>1, <2>6, <2>10, Zenon
  <2>17. PICK h : h = ran[c]
    OBVIOUS
  <2>18. ran' = [ran EXCEPT ![c] = h] /\ IsSeq(h)
    BY <1>1, <1>3, <1>6, <2>17, Zenon
  <2>19. Fine(got[c], w, j.out, j.out_off, RepliesOf(h), Whole(c))
    BY <2>8, <2>11, <2>12, <2>14, <2>17, Zenon
  <2>20. UNCHANGED <<got, conn, peer, batch, cur>> /\ pc' \notin {"wait", "exit"}
    BY <1>1, <1>6 DEF InHand
  <2> QED
    BY <1>1, <2>15, <2>16, <2>18, <2>19, <2>20, HandFine
<1>7. CASE Rearm(k)
  <2>1. PICK x : x = Interested(k)
    OBVIOUS
  <2>2. PICK j : j = [k EXCEPT !.armed = x]
    OBVIOUS
  <2>3. j.out = k.out /\ j.out_off = k.out_off
    BY <1>1, <2>2, SameOutput
  <2>4. conns' = [conns EXCEPT ![c] = j]
    BY <1>7, <2>1, <2>2, Zenon
  <2>5. UNCHANGED <<got, wire, ran, conn, peer, batch, cur>> /\ pc' \notin {"wait", "exit"}
    BY <1>7
  <2> QED
    BY <1>1, <2>3, <2>4, <2>5, HandKeeps
<1>8. CASE Backlog(k) = 0 /\ Rearm(Cleared(k))
  <2>1. PICK x, z : x = Interested(Cleared(k)) /\ z = Cleared(k)
    OBVIOUS
  <2>2. PICK j : j = [z EXCEPT !.armed = x]
    OBVIOUS
  <2>3. z.out = <<>> /\ z.out_off = 0 /\ IsConn(z)
    BY <1>1, <2>1, NewOutput, AssignedTwice DEF Cleared
  <2>4. j.out = <<>> /\ j.out_off = 0
    BY <2>2, <2>3, SameOutput
  <2>5. conns' = [conns EXCEPT ![c] = j]
    BY <1>8, <2>1, <2>2, Zenon
  <2>6. k.out_off = Len(k.out)
    BY <1>4, <1>8 DEF Backlog
  <2>7. Fine(got[c], wire[c], <<>>, 0, RepliesOf(ran[c]), Whole(c))
    BY <1>3, <2>6, FineCleared, Zenon
  <2>8. PICK h, w : h = ran[c] /\ w = wire[c]
    OBVIOUS
  <2>9. ran' = [ran EXCEPT ![c] = h] /\ IsSeq(h) /\ wire' = [wire EXCEPT ![c] = w]
    BY <1>1, <1>3, <1>8, <2>8, Zenon
  <2>10. Fine(got[c], w, j.out, j.out_off, RepliesOf(h), Whole(c))
    BY <2>4, <2>7, <2>8, Zenon
  <2>11. UNCHANGED <<got, conn, peer, batch, cur>> /\ pc' \notin {"wait", "exit"}
    BY <1>8
  <2> QED
    BY <1>1, <2>5, <2>9, <2>10, <2>11, HandFine
<1> HIDE DEF Rearm, Written, k
<1> QED
  BY <1>2, <1>5, <1>6, <1>7, <1>8

\* Every executed request has its reply, once and in order, with the client, in
\* the socket or in out, whatever the fragments, the sizes of the buffers and
\* the faults: FlushOut's cursor and the buffer it clears lose none and repeat
\* none, and a connection that ended lost at most a tail.
THEOREM RepliesInOrderHolds == Spec => []RepliesInOrder
<1>1. Init => ReplyInv
  BY ReplyInvInit
<1>2. ReplyInv /\ [Next]_vars => ReplyInv'
  <2> SUFFICES ASSUME ReplyInv, [Next]_vars PROVE ReplyInv'
    OBVIOUS
  <2>1. ServerInv'
    BY InvStep DEF ReplyInv
  <2>2. CASE HangUp
    <3>1. PICK e \in batch : batch' = batch \ {e} /\ CloseConn(e.c, "failed") /\ e.err
      BY <2>2 DEF HangUp
    <3>2. e # Listen
      BY <3>1 DEF Listen, NoEvent
    <3>3. PICK c : c = e.c
      OBVIOUS
    <3>4. "failed" \in Ended /\ batch' \subseteq batch /\ CloseConn(c, "failed") /\ c \in Client
      BY <3>1, <3>2, <3>3 DEF Ended, ReplyInv, ServerInv, EventsAccepted
    <3>5. \A f \in batch' \ {Listen} : f.c = c => peer[c] = "reset"
      BY <3>1, <3>2, <3>3 DEF ReplyInv, EventsLive
    <3>6. ReplyShapes' /\ EventsLive' /\ \A d \in Client : ClientFine(d)'
      BY <3>4, <3>5, CloseFine
    <3> QED
      BY <2>1, <3>6 DEF ReplyInv
  <2>3. CASE ~HangUp
    <3>1. ReplyShapes' /\ EventsLive' /\ \A d \in Client : ClientFine(d)'
      BY <2>3, ClientSteps, ReceiveStep, LoopFrame, ReadFine, HandleRequestFine, FlushOutFine,
         StopEndFine, Zenon DEF Next, LoopStep
    <3> QED
      BY <2>1, <3>1 DEF ReplyInv
  <2> QED
    BY <2>2, <2>3
<1>3. ReplyInv => RepliesInOrder
  <2> SUFFICES ASSUME ReplyInv, NEW c \in Client
               PROVE  LET answers == [i \in DOMAIN ran[c] |-> ran[c][i].reply]
                      IN  /\ \E n \in 0 .. Len(answers) :
                               AnswersAre(got[c] \o wire[c], SubSeq(answers, 1, n))
                          /\ (conn[c] = "open" /\ peer[c] # "reset")
                               => AnswersAre((got[c] \o wire[c]) \o Unsent(c), answers)
    BY Zenon DEF RepliesInOrder
  <2>1. Fine(got[c], wire[c], conns[c].out, conns[c].out_off, RepliesOf(ran[c]), Whole(c))
    BY DEF ReplyInv, ClientFine
  <2>2. (conn[c] = "open" /\ peer[c] # "reset") => Whole(c)
    BY DEF Whole
  <2> QED
    BY <2>1, <2>2, Zenon DEF Fine, RepliesOf, Unsent
<1> QED
  BY <1>1, <1>2, <1>3, PTL DEF Spec

=============================================================================
