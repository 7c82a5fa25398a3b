------------------------------- MODULE Server -------------------------------
(***************************************************************************)
(* The Redis-compatible server (server.h, server.cpp): one thread waits    *)
(* for epoll events, accepts, reads, parses, executes and writes.  Clients *)
(* and the kernel's socket buffers are the environment: a client sends its *)
(* script in any fragments, reads replies when it likes, half-closes or    *)
(* resets the connection.                                                  *)
(*                                                                         *)
(* A step of the loop is one system call with what follows it up to the    *)
(* next one, and one command; clients move between them.  A reply is one   *)
(* unit of the output buffers.  A connection is known by its client.       *)
(***************************************************************************)
EXTENDS Resp, FiniteSets

CONSTANTS
    Client,
    Scripts,      \* what clients may send: functions from Client to items
    Quitter,      \* clients that may half-close or reset
    kMaxConns,
    kMaxInBytes,
    kMaxOutBytes, \* in replies
    kReadChunk,   \* sizeof(buf) in HandleReadable
    kSndBuf,      \* replies the socket's send buffer holds
    Faults        \* what fails: "store" the engine, "ctl" epoll_ctl,
                  \* "accept" accept4, "wait" epoll_wait

ASSUME ServerAssumption ==
    /\ Quitter \subseteq Client /\ Faults \subseteq {"store", "ctl", "accept", "wait"}
    /\ {kMaxConns, kMaxInBytes, kMaxOutBytes, kReadChunk, kSndBuf} \subseteq Nat \ {0}

VARIABLES
    script,     \* what each client sends: a sequence of items
    stream,     \* its bytes
    sent,       \* how many the client has sent
    peer,       \* the client's end: "open", "shut" (write side) or "reset"
    got,        \* the replies the client has read
    conn,       \* the connection: "new", "queued", "open" or how it ended
    taken,      \* bytes the server has read from it
    wire,       \* replies in the socket's send buffer
    conns,      \* conns_: struct Conn, and whether EPOLLOUT is armed
    pc, batch, cur,   \* the loop: where, events[] left, the event in hand
    stop, wake, \* stop_; Stop has written to wake_fd_, which stays readable
    db,         \* the engine's contents
    ran         \* history: requests executed, with their replies

socket == <<sent, peer, got, conn, taken, wire>>
loop   == <<pc, batch, cur>>
halt   == <<stop, wake>>
vars   == <<script, stream, socket, conns, loop, halt, db, ran>>

NewConn == [parser |-> NewParser, out |-> <<>>, out_off |-> 0,
            closing |-> FALSE, armed |-> FALSE]

NoEvent == [c |-> 0, in |-> FALSE, out |-> FALSE, err |-> FALSE]
Listen  == [NoEvent EXCEPT !.c = 1]
Ended   == {"shed", "failed", "closed", "stopped"}

Init ==
    /\ script \in Scripts
    /\ stream = [c \in Client |->
                   FlattenSeq([i \in DOMAIN script[c] |-> script[c][i].bytes])]
    /\ sent = [c \in Client |-> 0] /\ peer = [c \in Client |-> "open"]
    /\ got = [c \in Client |-> <<>>] /\ conn = [c \in Client |-> "new"]
    /\ taken = [c \in Client |-> 0] /\ wire = [c \in Client |-> <<>>]
    /\ conns = [c \in Client |-> NewConn]
    /\ pc = "loop" /\ batch = {} /\ cur = NoEvent
    /\ stop = FALSE /\ wake = FALSE /\ db = <<>> /\ ran = [c \in Client |-> <<>>]

-----------------------------------------------------------------------------
(***************************************************************************)
(* RedisServer::Execute: the reply to a request and the contents after it, *)
(* when the engine's calls for the arguments in failing fail.              *)
(***************************************************************************)
Reply(t, n, s) == [t |-> t, n |-> n, s |-> s]
Error       == Reply("error", 0, <<>>)
Protocol    == Reply("protocol", 0, <<>>)
Integer(n)  == Reply("integer", n, <<>>)
BulkString(s) == Reply("bulk", 0, s)
NullBulk    == Reply("null", 0, <<>>)
SimpleString(s) == Reply("simple", 0, <<s>>)

Lower(s) == [i \in DOMAIN s |-> IF s[i] = "P" THEN "p" ELSE s[i]]

With(d, k, v)  == [x \in DOMAIN d \cup {k} |-> IF x = k THEN v ELSE d[x]]
Without(d, k)  == [x \in DOMAIN d \ {k} |-> d[x]]

Execute(args, d, failing) ==
    LET cmd  == Lower(args[1])
        argc == Len(args)
        keys == [i \in 1 .. argc - 1 |-> i + 1]      \* where the keys are
        fine == failing = {}
        found(i, e) == i \notin failing /\ args[i] \in DOMAIN e
        same(r) == [reply |-> r, db |-> d]
        \* The loop of DEL: Get, then Delete, key by key; a key whose Get or
        \* Delete fails is passed over.
        del == FoldLeft(LAMBDA a, i :
                          IF found(i, a.db)
                          THEN [n |-> a.n + 1, db |-> Without(a.db, args[i])] ELSE a,
                        [n |-> 0, db |-> d], keys)
    IN  CASE cmd = <<"p">> -> same(IF argc = 1 THEN SimpleString("PONG") ELSE BulkString(args[2]))
          [] cmd = <<"o">> -> same(IF argc # 2 THEN Error ELSE BulkString(args[2]))
          [] cmd = <<"s">> ->
               IF argc # 3 \/ ~fine THEN same(Error)
               ELSE [reply |-> SimpleString("OK"), db |-> With(d, args[2], args[3])]
          [] cmd = <<"g">> ->
               same(IF argc # 2 \/ ~fine THEN Error
                    ELSE IF args[2] \in DOMAIN d THEN BulkString(d[args[2]]) ELSE NullBulk)
          [] cmd = <<"d">> ->
               IF argc < 2 THEN same(Error)
               ELSE [reply |-> Integer(del.n), db |-> del.db]
          [] cmd = <<"e">> ->
               same(IF argc < 2 THEN Error
                    ELSE Integer(Len(SelectSeq(keys, LAMBDA i : found(i, d)))))
          [] OTHER -> same(Error)

\* The arguments whose engine call may fail.
Outcomes(args) == IF "store" \in Faults THEN SUBSET (2 .. Len(args)) ELSE {{}}

-----------------------------------------------------------------------------
\* The environment: clients, and the thread that calls Stop.

Rest(c) == SubSeq(stream[c], taken[c] + 1, sent[c])   \* the receive buffer

Connect(c) ==
    /\ conn[c] = "new" /\ stream[c] # <<>> /\ pc # "off"
    /\ conn' = [conn EXCEPT ![c] = "queued"]
    /\ UNCHANGED <<script, stream, sent, peer, got, taken, wire, conns, loop, halt, db, ran>>

Send(c) ==
    /\ conn[c] \in {"queued", "open"} /\ peer[c] = "open"
    /\ \E n \in 1 .. Len(stream[c]) - sent[c] : sent' = [sent EXCEPT ![c] = @ + n]
    /\ UNCHANGED <<script, stream, peer, got, conn, taken, wire, conns, loop, halt, db, ran>>

Quit(c) ==
    /\ c \in Quitter /\ conn[c] \in {"queued", "open"} /\ peer[c] # "reset"
    /\ \E how \in {"shut", "reset"} \ {peer[c]} :
         /\ peer' = [peer EXCEPT ![c] = how]
         /\ wire' = IF how = "reset" THEN [wire EXCEPT ![c] = <<>>] ELSE wire
    /\ UNCHANGED <<script, stream, sent, got, conn, taken, conns, loop, halt, db, ran>>

Receive(c) ==
    /\ wire[c] # <<>>
    /\ wire' = [wire EXCEPT ![c] = Tail(@)]
    /\ got' = [got EXCEPT ![c] = Append(@, Head(wire[c]))]
    /\ UNCHANGED <<script, stream, sent, peer, conn, taken, conns, loop, halt, db, ran>>

\* Stop: the flag, then the write that wakes the loop; StopEnd is the rest.
Stop ==
    /\ ~stop /\ stop' = TRUE
    /\ UNCHANGED <<script, stream, socket, conns, loop, wake, db, ran>>

Wake ==
    /\ stop /\ ~wake /\ wake' = TRUE
    /\ UNCHANGED <<script, stream, socket, conns, loop, stop, db, ran>>

-----------------------------------------------------------------------------
\* The event loop.

Open   == {c \in Client : conn[c] = "open"}
Queued == {c \in Client : conn[c] = "queued"}

\* What level-triggered epoll reports.  A reset is reported as readable or
\* not: both ways reach the program.
Events ==
    {e \in [c : Open, in : BOOLEAN, out : BOOLEAN, err : BOOLEAN] :
        /\ e.err = (peer[e.c] = "reset")
        /\ ~e.err => e.in = (Rest(e.c) # <<>> \/ peer[e.c] = "shut")
        /\ e.out = (conns[e.c].armed /\ (e.err \/ Len(wire[e.c]) < kSndBuf))
        /\ e.in \/ e.out \/ e.err}

\* Mutant: wake_fd_ is not in the epoll set.
ReadyUnwatched == Events # {} \/ Queued # {}

\* A descriptor of the epoll set is ready: a connection, the listener or
\* wake_fd_.
Ready == Events # {} \/ Queued # {} \/ wake

\* epoll_wait sleeps until a descriptor is ready and returns every ready one,
\* once each.  The event of wake_fd_ is passed over.
Wait ==
    /\ pc = "wait" /\ Ready
    /\ \E ready \in SUBSET Events :
         /\ \A c \in {e.c : e \in Events} : Cardinality({e \in ready : e.c = c}) = 1
         /\ batch' = ready \cup (IF Queued # {} THEN {Listen} ELSE {})
    /\ pc' = "loop" /\ cur' = NoEvent
    /\ UNCHANGED <<script, stream, socket, conns, halt, db, ran>>

\* epoll_wait fails: the loop returns, and with it the thread.
WaitFails ==
    /\ pc = "wait" /\ "wait" \in Faults
    /\ pc' = "exit"
    /\ UNCHANGED <<script, stream, socket, conns, batch, cur, halt, db, ran>>

\* close(fd) and conns_.erase(fd).  A socket closed with unread input is
\* reset, and what the client has not read yet may be lost.
CloseConn(c, why) ==
    /\ conn' = [conn EXCEPT ![c] = why]
    /\ conns' = [conns EXCEPT ![c] = NewConn]
    /\ \E lost \in {FALSE, Rest(c) # <<>>} :
         wire' = IF lost THEN [wire EXCEPT ![c] = <<>>] ELSE wire
    /\ pc' = "loop" /\ cur' = NoEvent
    /\ UNCHANGED <<script, stream, sent, peer, got, taken, halt, db, ran>>

\* Of the clients accepted, new are let in while there are fewer than
\* kMaxConns, epoll_ctl fails for broken, and the others are shed.
Admits(accepted, new, broken) ==
    /\ Cardinality(Open \cup new) <= kMaxConns
    /\ new \cup broken # accepted => Cardinality(Open \cup new) = kMaxConns

\* AcceptNewClients takes these clients from the queue.
Accept(accepted) ==
    /\ pc = "loop" /\ Listen \in batch
    /\ \E new \in SUBSET accepted, broken \in SUBSET accepted :
         /\ new \cap broken = {} /\ ("ctl" \notin Faults => broken = {})
         /\ Admits(accepted, new, broken)
         /\ conn' = [c \in Client |-> IF c \in new THEN "open"
                                      ELSE IF c \in broken THEN "failed"
                                      ELSE IF c \in accepted THEN "shed" ELSE conn[c]]
    /\ batch' = batch \ {Listen}
    /\ UNCHANGED <<script, stream, sent, peer, got, taken, wire, conns, pc, cur, halt, db, ran>>

\* The queue is drained, or accept4 fails on the way and the rest stay queued.
AcceptNewClients == Accept(Queued)
AcceptFails == "accept" \in Faults /\ \E some \in SUBSET Queued \ {Queued} : Accept(some)

\* The next event: an error that is not readable closes the connection.
HangUp ==
    /\ pc = "loop"
    /\ \E e \in batch : /\ e.err /\ ~e.in
                        /\ batch' = batch \ {e}
                        /\ CloseConn(e.c, "failed")

\* Otherwise writable comes before readable.
Dispatch ==
    /\ pc = "loop"
    /\ \E e \in batch \ {Listen} :
         /\ ~e.err \/ e.in
         /\ batch' = batch \ {e} /\ cur' = e
         /\ pc' = IF e.out THEN "write" ELSE "read"
    /\ UNCHANGED <<script, stream, socket, conns, halt, db, ran>>

\* The events are handled: while (!stop_).
BatchDone ==
    /\ pc = "loop" /\ batch = {}
    /\ pc' = IF stop THEN "exit" ELSE "wait"
    /\ UNCHANGED <<script, stream, socket, conns, batch, cur, halt, db, ran>>

\* HandleReadable: one read(), fed to the parser and held against
\* kMaxInBytes.  A closed peer ends the connection here, with whatever is
\* in out; EAGAIN goes on to FlushOut.
Read ==
    /\ pc = "read"
    /\ LET c == cur.c
           n == IF Len(Rest(c)) < kReadChunk THEN Len(Rest(c)) ELSE kReadChunk
           p == Feed(conns[c].parser, SubSeq(Rest(c), 1, n))
           over == Len(p.buf) > kMaxInBytes
       IN  \/ /\ peer[c] = "reset" \/ (n = 0 /\ peer[c] = "shut")
              /\ CloseConn(c, IF peer[c] = "reset" THEN "failed" ELSE "closed")
              /\ UNCHANGED batch
           \/ /\ peer[c] = "open" /\ n = 0
              /\ pc' = "flush"
              /\ UNCHANGED <<script, stream, socket, conns, batch, cur, halt, db, ran>>
           \/ /\ peer[c] # "reset" /\ n > 0
              /\ taken' = [taken EXCEPT ![c] = @ + n]
              /\ conns' = [conns EXCEPT ![c].parser = p, ![c].closing = @ \/ over]
              /\ pc' = IF over THEN "flush" ELSE "execute"
              /\ UNCHANGED <<script, stream, sent, peer, got, conn, wire, batch, cur,
                             halt, db, ran>>

Backlog(k) == Len(k.out) - k.out_off

\* One round of the loop around Parser::Next.
HandleRequest ==
    /\ pc = "execute"
    /\ LET c == cur.c
           k == conns[c]
       IN  \E o \in {ParserNext(k.parser)} :
           LET put(r) == [k EXCEPT !.parser = o.p, !.out = Append(@, r)] IN
           \/ /\ o.st = "more"
              /\ conns' = [conns EXCEPT ![c].parser = o.p]
              /\ pc' = IF k.closing \/ Backlog(k) > kMaxOutBytes \div 2
                       THEN "flush" ELSE "read"
              /\ UNCHANGED <<db, ran>>
           \/ /\ o.st = "error"
              /\ conns' = [conns EXCEPT ![c] = [put(Protocol) EXCEPT !.closing = TRUE]]
              /\ pc' = "flush"
              /\ UNCHANGED <<db, ran>>
           \/ /\ o.st = "request"
              /\ \E result \in {Execute(o.args, db, x) : x \in Outcomes(o.args)} :
                   LET q == put(result.reply)
                       over == Backlog(q) > kMaxOutBytes
                   IN  /\ db' = result.db
                       /\ ran' = [ran EXCEPT ![c] =
                                     Append(@, [args |-> o.args, reply |-> result.reply])]
                       /\ conns' = [conns EXCEPT ![c] = [q EXCEPT !.closing = @ \/ over]]
                       /\ pc' = IF over THEN "flush" ELSE "execute"
    /\ UNCHANGED <<script, stream, socket, batch, cur, halt>>

\* Mutant: the cursor stays behind in an empty buffer.
ClearedWithoutCursor(k) == [k EXCEPT !.out = <<>>]

\* What is left of the output buffer once all of it is written.
Cleared(k) == [k EXCEPT !.out = <<>>, !.out_off = 0]

\* Mutant: EPOLLOUT stays armed.
AlwaysInterested(k) == TRUE

\* Mutant: EPOLLOUT is never armed.
NeverInterested(k) == FALSE

\* EPOLLOUT is asked for while replies are left.
Interested(k) == Backlog(k) > 0

\* FlushOut, called by HandleWritable ("write") or at the end of
\* HandleReadable ("flush"): one write(), or what follows the last one.
FlushOut ==
    /\ pc \in {"write", "flush"}
    /\ LET c == cur.c
           k == conns[c]
           room == kSndBuf - Len(wire[c])
           n == IF Backlog(k) < room THEN Backlog(k) ELSE room
           drained == Backlog(k) = 0
           \* the epoll_ctl at the end, and the return to the loop
           rearm(j) ==
             /\ conns' = [conns EXCEPT ![c] = [j EXCEPT !.armed = Interested(j)]]
             /\ pc' = IF pc = "write" /\ cur.in THEN "read" ELSE "loop"
             /\ UNCHANGED <<script, stream, socket, batch, cur, halt, db, ran>>
       IN  \/ /\ ~drained /\ peer[c] = "reset"
              /\ CloseConn(c, "failed") /\ UNCHANGED batch
           \/ /\ ~drained /\ peer[c] # "reset" /\ room > 0
              /\ wire' = [wire EXCEPT ![c] =
                             @ \o SubSeq(k.out, k.out_off + 1, k.out_off + n)]
              /\ conns' = [conns EXCEPT ![c].out_off = @ + n]
              /\ UNCHANGED <<script, stream, sent, peer, got, conn, taken, loop, halt, db, ran>>
           \/ /\ ~drained /\ peer[c] # "reset" /\ room = 0
              /\ rearm(k)
           \/ /\ drained /\ k.closing
              /\ CloseConn(c, "closed") /\ UNCHANGED batch
           \/ /\ drained /\ ~k.closing
              /\ rearm(Cleared(k))
           \/ /\ "ctl" \in Faults /\ ((drained /\ ~k.closing) \/ (~drained /\ room = 0))
              /\ CloseConn(c, "failed") /\ UNCHANGED batch

\* Stop has joined the loop and closes everything.
StopEnd ==
    /\ pc = "exit" /\ wake
    /\ pc' = "off"
    /\ conn' = [c \in Client |-> IF conn[c] \in {"open", "queued"} THEN "stopped" ELSE conn[c]]
    /\ conns' = [c \in Client |-> NewConn]
    /\ UNCHANGED <<script, stream, sent, peer, got, taken, wire, batch, cur, halt, db, ran>>

LoopStep ==
    \/ Wait \/ AcceptNewClients \/ AcceptFails \/ HangUp \/ Dispatch \/ BatchDone
    \/ Read \/ HandleRequest \/ FlushOut

Next ==
    \/ LoopStep \/ WaitFails \/ Stop \/ Wake \/ StopEnd
    \/ \E c \in Client : Connect(c) \/ Send(c) \/ Quit(c) \/ Receive(c)

Spec == Init /\ [][Next]_vars

\* The loop's thread and the one in Stop run, accept4 does not fail for ever,
\* and clients read their replies.  That epoll_wait fails is not assumed: a
\* loop asleep there stays asleep until a descriptor is ready.
FairSpec ==
    /\ Spec
    /\ WF_vars(LoopStep) /\ WF_vars(Wake \/ StopEnd)
    /\ SF_vars(AcceptNewClients)
    /\ \A c \in Client : WF_vars(Receive(c))

-----------------------------------------------------------------------------
\* What a script asks: its requests up to the first item that breaks the
\* protocol.  A line longer than the limits may be taken or refused.
Asked(items) ==
    LET bad  == {i \in DOMAIN items : items[i].kind = "bad"}
        upto == IF bad = {} THEN Len(items) ELSE (CHOOSE i \in bad : \A j \in bad : i <= j) - 1
    IN  [i \in DOMAIN SelectSeq(SubSeq(items, 1, upto), LAMBDA x : x.kind # "skip") |->
            SelectSeq(SubSeq(items, 1, upto), LAMBDA x : x.kind # "skip")[i].args]

Answers(replies) == SelectSeq(replies, LAMBDA r : r # Protocol)

\* The same as a relation: the answers among the replies are exactly these, in
\* this order (at says where each of them is).
AnswersAre(replies, answers) ==
    \E at \in [DOMAIN answers -> DOMAIN replies] :
        /\ \A i, j \in DOMAIN answers : i < j => at[i] < at[j]
        /\ \A i \in DOMAIN answers : replies[at[i]] = answers[i]
        /\ \A j \in DOMAIN replies : replies[j] # Protocol <=> \E i \in DOMAIN answers : at[i] = j

Unsent(c) == SubSeq(conns[c].out, conns[c].out_off + 1, Len(conns[c].out))

\* The variables keep their types, and at most kMaxConns are served.
TypeOK ==
    /\ script \in Scripts
    /\ \A c \in Client :
         /\ taken[c] <= sent[c] /\ sent[c] <= Len(stream[c])
         /\ peer[c] \in {"open", "shut", "reset"}
         /\ conn[c] \in {"new", "queued", "open"} \cup Ended
         /\ conns[c].parser \in Parser
         /\ conns[c].out_off <= Len(conns[c].out)
         /\ Len(wire[c]) <= kSndBuf
         /\ conn[c] # "open" => conns[c] = NewConn
    /\ pc \in {"wait", "loop", "read", "execute", "write", "flush", "exit", "off"}
    /\ wake => stop
    /\ pc \in {"read", "execute", "write", "flush"} => conn[cur.c] = "open"
    /\ Cardinality(Open) <= kMaxConns

\* However the stream is cut into reads, the parser finds the requests the
\* client wrote: what has been executed is a prefix of them, and all of them
\* once the loop sleeps on a connection it has read to the end.
RequestsExact ==
    \A c \in Client :
        LET asked == Asked(script[c])
            did   == [i \in DOMAIN ran[c] |-> ran[c][i].args]
        IN  /\ IsPrefix(did, asked)
            /\ (/\ pc = "wait" /\ conn[c] = "open" /\ ~conns[c].closing
                /\ taken[c] = Len(stream[c]) /\ ~conns[c].armed) => did = asked

\* Every executed request has its reply, once and in order: with the client,
\* in the socket or in out (FlushOut's cursor and compaction lose none).  A
\* connection that ended may have dropped a tail of them.
RepliesInOrder ==
    \A c \in Client :
        LET answers == [i \in DOMAIN ran[c] |-> ran[c][i].reply]
        IN  /\ \E n \in 0 .. Len(answers) :
                 AnswersAre(got[c] \o wire[c], SubSeq(answers, 1, n))
            /\ (conn[c] = "open" /\ peer[c] # "reset")
                 => AnswersAre((got[c] \o wire[c]) \o Unsent(c), answers)

\* While the loop sleeps, EPOLLOUT is armed exactly for the connections with
\* a backlog: none waits for an event nobody asked for, and none spins.
InterestExact ==
    pc = "wait" => \A c \in Open : conns[c].armed = (Backlog(conns[c]) > 0)

\* The documented limit: a client that does not read is evicted once its
\* backlog crosses kMaxOutBytes.
BacklogBounded == \A c \in Client : Backlog(conns[c]) <= kMaxOutBytes + 1

Service == INSTANCE KvService WITH
    store    <- db,
    requests <- [c \in Client |-> Asked(script[c])],
    replies  <- [c \in Client |-> [i \in DOMAIN ran[c] |-> ran[c][i].reply]],
    seen     <- [c \in Client |-> Answers(got[c])],
    live     <- Open

\* Refinement: fragments, events, buffers and teardown apart, the server is a
\* sequential store that executes each client's requests in order, once.
ImplementsService == Service!Spec

\* A script within the protocol and the limits, of a client that stays.
Polite(c) ==
    /\ \A i \in DOMAIN script[c] : script[c][i].kind \in {"request", "skip"}
    /\ Len(stream[c]) <= kMaxInBytes /\ Len(Asked(script[c])) <= kMaxOutBytes

\* A client that has sent whole requests within the limits and reads gets
\* every reply, unless it is shed or the loop fails or stops: no request is
\* left in a parser, no reply in a buffer.  A client that breaks the protocol
\* or a limit gets as much, or the end of its connection.
AllAnswered ==
    \A c \in Client :
        (conn[c] \in {"queued", "open"} /\ sent[c] = Len(stream[c]))
            ~> \/ Len(Answers(got[c])) = Len(Asked(script[c])) /\ conn[c] = "open"
               \/ conn[c] \in {"shed", "failed", "stopped"} \/ peer[c] # "open"
               \/ pc = "exit"
               \/ ~Polite(c) /\ conn[c] = "closed"

\* Stop ends the loop, whatever it was doing: also when stop_ is set after the
\* loop has tested it and goes to sleep with nothing to wake it but the
\* eventfd.  The clients send only finitely much.
StopEnds == stop ~> pc = "off"
=============================================================================
