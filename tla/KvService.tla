----------------------------- MODULE KvService ------------------------------
(***************************************************************************)
(* What the server promises: a sequential key-value store.  Each client    *)
(* has a list of requests; a step executes the next request of one client  *)
(* on the store and appends its reply to that client's replies; a client   *)
(* sees its replies in that order, each once.  Sessions may end at any     *)
(* time, and then no more of their requests execute.                       *)
(***************************************************************************)
EXTENDS Naturals, Sequences

CONSTANTS
    Client,
    Outcomes(_),           \* request -> how the engine may answer it
    Execute(_, _, _)       \* request, store, outcome -> reply and store

VARIABLES
    store,     \* the contents
    requests,  \* per client: what it will ask, in order
    replies,   \* per client: the replies to what has been executed
    seen,      \* per client: the replies it has read
    live       \* the clients that are served

vars == <<store, requests, replies, seen, live>>

Init ==
    /\ store = <<>>
    /\ requests \in [Client -> Seq(Seq(Seq(STRING)))]
    /\ replies = [c \in Client |-> <<>>]
    /\ seen = [c \in Client |-> <<>>]
    /\ live = {}

Join ==
    /\ \E more \in SUBSET {c \in Client \ live : replies[c] = <<>>} :
         live' = live \cup more
    /\ UNCHANGED <<store, requests, replies, seen>>

Do(c) ==
    /\ c \in live
    /\ Len(replies[c]) < Len(requests[c])
    /\ LET request == requests[c][Len(replies[c]) + 1] IN
       \E o \in Outcomes(request) :
         LET r == Execute(request, store, o)
         IN  /\ store' = r.db
             /\ replies' = [replies EXCEPT ![c] = Append(@, r.reply)]
    /\ UNCHANGED <<requests, seen, live>>

See(c) ==
    /\ Len(seen[c]) < Len(replies[c])
    /\ seen' = [seen EXCEPT ![c] = Append(@, replies[c][Len(@) + 1])]
    /\ UNCHANGED <<store, requests, replies, live>>

Leave ==
    /\ \E gone \in SUBSET live : live' = live \ gone
    /\ UNCHANGED <<store, requests, replies, seen>>

Next == Join \/ Leave \/ \E c \in Client : Do(c) \/ See(c)

Spec == Init /\ [][Next]_vars
=============================================================================
