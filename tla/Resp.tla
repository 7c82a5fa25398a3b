-------------------------------- MODULE Resp --------------------------------
(***************************************************************************)
(* The incremental RESP2 request parser (resp.h, resp.cpp).  A byte is     *)
(* kept only as far as the parser tells bytes apart: the marks "*" and     *)
(* "$", the digits, carriage return, line feed, space, and letters.  A     *)
(* parser is a value; Feed appends to it and ParserNext maps it to an      *)
(* outcome and the parser that is left.                                    *)
(***************************************************************************)
EXTENDS Integers, Sequences, SequencesExt

CONSTANTS
    kMaxMultibulk,   \* arguments per command
    kMaxBulkLen,     \* bytes per argument
    kMaxInlineLine,  \* bytes of an unfinished inline command
    kMaxNumberLine   \* bytes of an unfinished length line (32 in the code)

ASSUME RespAssumption ==
    {kMaxMultibulk, kMaxBulkLen, kMaxInlineLine, kMaxNumberLine} \subseteq Nat \ {0}

CR == "CR"
LF == "LF"
Digit == [d \in {"0", "1", "2", "3", "9"} |->
            CASE d = "0" -> 0 [] d = "1" -> 1 [] d = "2" -> 2 [] d = "3" -> 3 [] d = "9" -> 9]
Letter == {"p", "P", "s", "g", "d", "e", "o", "k", "v"}
Byte   == {CR, LF, "*", "$", "-", " "} \cup DOMAIN Digit \cup Letter

Parser == [buf : Seq(Byte), multibulk : Int, parse_pos : Nat, arg_spans : Seq(Nat \X Nat)]

NewParser == [buf |-> <<>>, multibulk |-> -1, parse_pos |-> 0, arg_spans |-> <<>>]

Feed(p, bytes) == [p EXCEPT !.buf = @ \o bytes]

\* Mutant: one byte too many is erased.
DropOneMore(s, n) == SubSeq(s, n + 2, Len(s))

\* What is left of a buffer when its first n bytes are erased.
Drop(s, n) == SubSeq(s, n + 1, Len(s))

\* The offset of the first CRLF at or after pos, or -1 (npos).
IsCRLF(s, i) == s[i + 1] = CR /\ s[i + 2] = LF
FindCRLF(s, pos) ==
    IF \E i \in pos .. Len(s) - 2 : IsCRLF(s, i)
    THEN CHOOSE i \in pos .. Len(s) - 2 : IsCRLF(s, i) /\ \A j \in pos .. i - 1 : ~IsCRLF(s, j)
    ELSE -1

\* ParseDigits, with -1 for the failure.
Value[s \in Seq(Byte)] == IF s = <<>> THEN 0 ELSE 10 * Value[Front(s)] + Digit[Last(s)]
ParseDigits[s \in Seq(Byte)] ==
    IF s = <<>> \/ \E i \in DOMAIN s : s[i] \notin DOMAIN Digit THEN -1 ELSE Value[s]

(***************************************************************************)
(* One round of the loop of Next ends in a status; "again" is the code's   *)
(* continue.                                                               *)
(***************************************************************************)
Round == [st : {"again", "more", "error", "request"}, p : Parser, args : Seq(Seq(Byte))]
Outcome(st, p, args) == [st |-> st, p |-> p, args |-> args]
NeedMore(p) == Outcome("more", p, <<>>)
Failed(p)   == Outcome("error", p, <<>>)
Again(p)    == Outcome("again", p, <<>>)

\* The words of a line: what lies between its spaces.
Words[line \in Seq(Byte)] ==
    LET sp == SelectInSeq(line, LAMBDA b : b = " ")
    IN  CASE line = <<>> -> <<>>
          [] line # <<>> /\ sp = 0 -> <<line>>
          [] OTHER -> (IF sp = 1 THEN <<>> ELSE <<SubSeq(line, 1, sp - 1)>>)
                        \o Words[Drop(line, sp)]

\* An inline command ends at the line feed.  A line with no words is
\* consumed, and the answer is kNeedMore.
NextInline(p) ==
    LET at == SelectInSeq(p.buf, LAMBDA b : b = LF)
        end == IF at > 1 /\ p.buf[at - 1] = CR THEN at - 2 ELSE at - 1
        args == Words[SubSeq(p.buf, 1, end)]
        rest == [p EXCEPT !.buf = Drop(@, at), !.parse_pos = 0]
    IN  IF at = 0
        THEN IF Len(p.buf) > kMaxInlineLine THEN Failed(p) ELSE NeedMore(p)
        ELSE IF args = <<>> THEN NeedMore(rest) ELSE Outcome("request", rest, args)

\* *<n>CRLF: an empty command is skipped, any other opens a multibulk.
Header(p) ==
    LET nl == FindCRLF(p.buf, 1)
        n  == ParseDigits[SubSeq(p.buf, 2, nl)]
    IN  CASE nl < 0 -> IF Len(p.buf) > kMaxNumberLine THEN Failed(p) ELSE NeedMore(p)
          [] nl >= 0 /\ (n < 0 \/ n > kMaxMultibulk) -> Failed(p)
          [] nl >= 0 /\ n = 0 -> Again([p EXCEPT !.buf = Drop(@, nl + 2), !.parse_pos = 0])
          [] OTHER -> Again([p EXCEPT !.multibulk = n, !.arg_spans = <<>>,
                                      !.parse_pos = nl + 2])

\* Between requests: skip empty lines, then look at the first byte.
Idle(p) ==
    CASE p.buf = <<>> -> NeedMore(p)
      [] p.buf # <<>> /\ p.buf[1] \in {CR, LF} -> Again([p EXCEPT !.buf = Tail(@)])
      [] p.buf # <<>> /\ p.buf[1] = "*" -> Header(p)
      [] OTHER -> NextInline(p)

\* Mutant: the spans are taken to include the CRLF.
ArgsWithCRLF(buf, spans) ==
    [i \in DOMAIN spans |-> SubSeq(buf, spans[i][1] + 1, spans[i][1] + spans[i][2] + 2)]

\* The arguments the spans name in the buffer.
Args(buf, spans) ==
    [i \in DOMAIN spans |-> SubSeq(buf, spans[i][1] + 1, spans[i][1] + spans[i][2])]

\* Inside a multibulk: $<len>CRLF<data>CRLF.
NextBulk(p) ==
    LET nl    == FindCRLF(p.buf, p.parse_pos + 1)
        len   == ParseDigits[SubSeq(p.buf, p.parse_pos + 2, nl)]
        data  == nl + 2
        end   == data + len + 2
        spans == Append(p.arg_spans, <<data, len>>)
    IN  CASE p.parse_pos >= Len(p.buf) -> NeedMore(p)
          [] p.parse_pos < Len(p.buf) /\ p.buf[p.parse_pos + 1] # "$" -> Failed(p)
          [] p.parse_pos < Len(p.buf) /\ p.buf[p.parse_pos + 1] = "$" ->
               IF nl < 0 THEN IF Len(p.buf) - p.parse_pos > kMaxNumberLine
                              THEN Failed(p) ELSE NeedMore(p)
               ELSE IF len < 0 \/ len > kMaxBulkLen THEN Failed(p)
               ELSE IF Len(p.buf) < end THEN NeedMore(p)
               ELSE IF p.buf[end - 1] # CR \/ p.buf[end] # LF THEN Failed(p)
               ELSE IF p.multibulk > 1
                    THEN Again([p EXCEPT !.arg_spans = spans, !.parse_pos = end,
                                         !.multibulk = @ - 1])
                    ELSE Outcome("request", [NewParser EXCEPT !.buf = Drop(p.buf, end)],
                                 Args(p.buf, spans))

\* Parser::Next: rounds until one does not continue.
Rounds[o \in Round] ==
    IF o.st # "again" THEN o
    ELSE Rounds[IF o.p.multibulk < 0 THEN Idle(o.p) ELSE NextBulk(o.p)]

ParserNext(p) == Rounds[Again(p)]
=============================================================================
