------------------------------ MODULE MCServer ------------------------------
(***************************************************************************)
(* The server with one client that sends any of a list of scripts in any   *)
(* fragments, or with two clients that share a key and a third that only   *)
(* connects, so that one of the three is shed.                             *)
(***************************************************************************)
EXTENDS Server

CONSTANTS c1, c2, c3

Item(kind, args, bytes) == [kind |-> kind, args |-> args, bytes |-> bytes]
End == <<CR, LF>>
Num == [n \in {0, 1, 2, 3} |-> CASE n = 0 -> "0" [] n = 1 -> "1" [] n = 2 -> "2" [] n = 3 -> "3"]

\* A request as an array of bulk strings, and as a line.
Multi(args) ==
    Item("request", args,
         <<"*", Num[Len(args)]>> \o End \o
         FlattenSeq([i \in DOMAIN args |->
                       <<"$", Num[Len(args[i])]>> \o End \o args[i] \o End]))
Inline(args) ==
    Item("request", args,
         FlattenSeq([i \in DOMAIN args |-> (IF i = 1 THEN <<>> ELSE <<" ">>) \o args[i]]) \o <<LF>>)

Ping  == Inline(<<<<"P">>>>)
Get   == Inline(<<<<"g">>, <<"k">>>>)
Set   == Inline(<<<<"s">>, <<"k">>, <<"v">>>>)
Del   == Inline(<<<<"d">>, <<"k">>, <<"k">>>>)
Exist == Inline(<<<<"e">>, <<"k">>, <<"v">>>>)

Skip(bytes)  == Item("skip", <<>>, bytes)
Bad(bytes)   == Item("bad", <<>>, bytes)
Limit(args, bytes) == Item("limit", args, bytes)

\* The scripts one client sends alone.
Solo == {
    \* an argument that holds a CRLF; a bulk of length zero
    <<Multi(<<<<"o">>, <<CR, LF>>>>), Ping>>,
    <<Multi(<<<<"p">>, <<>>>>), Get>>,
    \* empty lines, an empty array, a line of spaces at the end
    <<Skip(End), Set, Skip(<<"*", "0">> \o End), Get, Skip(<<" ", LF>>)>>,
    \* one more pipelined reply than kMaxOutBytes
    <<Ping, Ping, Ping, Ping>>,
    \* more input than kMaxInBytes
    <<Ping, Multi(<<<<"s">>, <<"k">>, <<"v">>>>)>>,
    \* commands with the wrong number of arguments, an unknown one
    <<Inline(<<<<"s">>, <<"k">>>>), Inline(<<<<"g">>>>), Inline(<<<<"k">>>>)>>,
    <<Inline(<<<<"d">>>>), Inline(<<<<"e">>>>), Inline(<<<<"o">>>>)>>,
    \* what breaks the protocol, after a request that does not
    <<Ping, Bad(<<"*", "9">> \o End), Ping>>,
    <<Ping, Bad(<<"*", "-", "1">> \o End)>>,
    <<Ping, Bad(<<"*", "1">> \o End \o <<"p">>)>>,
    <<Bad(<<"*", "1">> \o End \o <<"$", "9">> \o End)>>,
    <<Bad(<<"*", "1">> \o End \o <<"$", "1">> \o End \o <<"p", "p", "p">>)>>,
    \* lines longer than the limits: taken whole, refused in pieces
    <<Limit(<<<<"p">>>>, <<"p", " ", " ", " ", " ", " ", " ", LF>>), Ping>>,
    <<Limit(<<<<"p">>>>, <<"*", "0", "0", "0", "0", "1">> \o End \o <<"$", "1">> \o End \o
                         <<"p">> \o End)>> }

\* The scripts of two clients on one key, and of three that want two places.
Pairs == {<<<<Set, Get>>, <<Del>>, <<>>>>, <<<<Del>>, <<Exist, Set>>, <<>>>>,
          <<<<Ping>>, <<Ping>>, <<Ping>>>>}

MCScripts ==
    {[c \in Client |-> IF c = c1 THEN s ELSE <<>>] : s \in Solo}
    \cup {[c \in Client |-> CASE c = c1 -> p[1] [] c = c2 -> p[2] [] c = c3 -> p[3]] :
             p \in Pairs}

\* More requests than kMaxOutBytes lets wait; a request behind a line of
\* spaces.
ManyScripts  == {[c \in Client |-> <<Ping, Ping, Ping, Ping, Ping, Ping>>]}
BlankScripts == {[c \in Client |-> <<Skip(<<" ", LF>>), Ping>>]}

\* Bound: fragments are any when one client is alone, and whole scripts when
\* there are more; c3 sends nothing.
SendBound ==
    \A c \in Client : (sent'[c] # sent[c] /\ stream[c2] # <<>>)
                         => c # c3 /\ sent'[c] = Len(stream[c])
=============================================================================
