------------------------------ MODULE HttpHost ------------------------------
(***************************************************************************)
(* extractHTTPHost and parseHostHeader of the test proxy                   *)
(* (testing/proxy/main.go) on the data of a request: the loop reads until  *)
(* the empty line is in the buffer, in whatever pieces the connection      *)
(* delivers, and the host is searched for in what was read by then.        *)
(*                                                                         *)
(* A character is a model value: CR, LF, SP, Key for the field name        *)
(* "host:" in any mixture of cases, which ToLower makes one, and four      *)
(* bytes whose lower-case form is of another length: Raw, a byte of a      *)
(* header in another encoding than UTF-8; Short and Long, each the first   *)
(* byte of a letter of two bytes that ends with Cont.  Short Cont is a     *)
(* letter with a lower-case form of one byte, as U+0130, Long Cont one     *)
(* with a lower-case form of three, as U+023A.                             *)
(***************************************************************************)
EXTENDS Naturals, Sequences, SequencesExt

CONSTANTS
    CR, LF, SP, Key, Raw, Short, Long, Cont,
    Lines,              \* lines a head may have, without CR LF
    Bodies,             \* what may follow the head
    MaxLines,           \* bound: lines of a head
    httpReadBufSize,    \* constants.go, scaled down with the requests
    httpMaxHeaderBuf

Wide == {Raw, Short, Long, Cont}
Char == {CR, LF, SP, Key} \cup Wide \cup UNION {Range(l) : l \in Lines \cup Bodies}

ASSUME HttpAssumption ==
    /\ Lines \cup Bodies \subseteq Seq(Char)
    /\ \A l \in Lines : \A i \in 1..Len(l) : l[i] \notin {CR, LF}
    /\ <<>> \notin Lines
    /\ CR \notin {LF, SP, Key} \cup Wide /\ LF \notin {SP, Key} \cup Wide
    /\ SP \notin {Key} \cup Wide /\ Key \notin Wide
    /\ Cont \notin {Raw, Short, Long} /\ Raw \notin {Short, Long} /\ Short # Long
    /\ MaxLines \in Nat
    /\ httpReadBufSize \in Nat \ {0}
    /\ httpMaxHeaderBuf \in Nat

VARIABLES
    head,       \* the lines of the request's head
    body,
    n,          \* length of the buffer
    st,         \* "reading", "done", or "panic"
    host        \* the result

httpVars == <<head, body, n, st, host>>

Line(l)   == l \o <<CR, LF>>
HeadLines == [i \in 1..Len(head) |-> Line(head[i])]
HeadData  == FlattenSeq(HeadLines) \o <<CR, LF>>
data      == HeadData \o body
Buf(k)    == SubSeq(data, 1, k)

-----------------------------------------------------------------------------
(* bytes.Index: where t begins in s, and 0 for -1. *)
Index(s, t) ==
    SelectInSubSeq([i \in 1..Len(s) |-> i], 1, Len(s) - Len(t) + 1,
                   LAMBDA i : SubSeq(s, i, i + Len(t) - 1) = t)

(* bytes.ToLower puts the lower-case form for a letter, which for two bytes  *)
(* may be one or three, and U+FFFD, three bytes, for a byte that is not      *)
(* UTF-8, such as one half of a letter that was cut in two.  All bytes it    *)
(* puts in are those of other characters than the needle's: Raw stands for   *)
(* them.                                                                     *)
LetterAt(s, i) == i \in 1..(Len(s) - 1) /\ s[i] \in {Short, Long} /\ s[i + 1] = Cont

Lowered(s) ==
    [i \in 1..Len(s) |->
       CASE s[i] \notin Wide                     -> <<s[i]>>
         [] LetterAt(s, i) /\ s[i] = Short       -> <<Raw>>
         [] s[i] = Cont /\ LetterAt(s, i - 1)    -> <<>>
         [] OTHER                                -> <<Raw, Raw, Raw>>]
ToLower(s) == FlattenSeq(Lowered(s))

IndexByte(s, c) == SelectInSeq(s, LAMBDA x : x = c)

TrimSpace(s) ==
    LET in == {i \in 1..Len(s) : s[i] \notin {SP, CR, LF}}
    IN  IF in = {} THEN <<>> ELSE SubSeq(s, Min(in), Max(in))

\* A plausible slip: the needle does not insist on the beginning of a line.
needleAnywhere == <<Key, SP>>

needle == <<CR, LF, Key, SP>>

(* The offset is found in the lower-case copy and applied to data itself. *)
parseHostHeader(d) ==
    LET idx  == Index(ToLower(d), needle)
        rest == SubSeq(d, idx + Len(needle), Len(d))
        stop == IF IndexByte(rest, CR) # 0 THEN IndexByte(rest, CR) ELSE IndexByte(rest, LF)
    IN  IF idx = 0 THEN <<>>
        ELSE TrimSpace(IF stop = 0 THEN rest ELSE SubSeq(rest, 1, stop - 1))

\* A plausible slip: a blank too many is skipped.
PanicsLater(d) ==
    LET idx == Index(ToLower(d), needle) IN idx # 0 /\ idx + Len(needle) + 1 > Len(d) + 1

(* data[start:] with start beyond the end of data. *)
Panics(d) ==
    LET idx == Index(ToLower(d), needle) IN idx # 0 /\ idx + Len(needle) > Len(d) + 1

-----------------------------------------------------------------------------
httpInit ==
    /\ head \in UNION {[1..k -> Lines] : k \in 1..MaxLines}
    /\ body \in Bodies
    /\ n = 1
    /\ st = "reading"
    /\ host = <<>>

httpReturn(k) ==
    IF Panics(Buf(k)) THEN st' = "panic" /\ UNCHANGED host
                      ELSE st' = "done" /\ host' = parseHostHeader(Buf(k))

(* conn.Read returns some of what is there, up to the size of tmp. *)
Read ==
    /\ st = "reading"
    /\ n < httpMaxHeaderBuf
    /\ \E k \in 1..httpReadBufSize :
          /\ n + k <= Len(data)
          /\ n' = n + k
          /\ IF Index(Buf(n + k), <<CR, LF, CR, LF>>) # 0
             THEN httpReturn(n + k)
             ELSE UNCHANGED <<st, host>>
    /\ UNCHANGED <<head, body>>

(* The client stops here, or the deadline passes. *)
ReadFails ==
    /\ st = "reading"
    /\ n < httpMaxHeaderBuf
    /\ httpReturn(n)
    /\ UNCHANGED <<head, body, n>>

BufferFull ==
    /\ st = "reading"
    /\ n >= httpMaxHeaderBuf
    /\ httpReturn(n)
    /\ UNCHANGED <<head, body, n>>

httpNext == Read \/ ReadFails \/ BufferFull

-----------------------------------------------------------------------------
(* Properties *)

(* The Host header of a request, line by line: the value of the first line   *)
(* after the request line that is one.  "host:" without a blank, which the   *)
(* code does not know, is none.                                              *)
HostLines == {i \in 2..Len(head) : IsPrefix(<<Key, SP>>, head[i])}
HostValue == TrimSpace(SubSeq(head[Min(HostLines)], 3, Len(head[Min(HostLines)])))

(* Every byte before line k keeps its length in lower case. *)
PlainBefore(k) == \A i \in 1..(k - 1) : \A j \in 1..Len(head[i]) : head[i][j] \notin Wide

(* With the whole head in the buffer the result is the value of the Host     *)
(* header, however the request was cut into pieces, whatever other headers   *)
(* contain and whatever of the body came with the head, and whatever bytes   *)
(* come after the Host header, as long as bytes.ToLower changes the length   *)
(* of nothing before it.                                                     *)
HostOfHead ==
    st # "reading" /\ n >= Len(HeadData) /\ HostLines # {} /\ PlainBefore(Min(HostLines))
        => st = "done" /\ host = HostValue

(* If a head of plain bytes is cut off, by the client, the deadline or the   *)
(* size of the buffer, the result is a part of the Host header that came in  *)
(* time, and never of anything else.                                         *)
CutHostIsPrefix ==
    st # "reading" /\ n < Len(HeadData) /\ PlainBefore(Len(head) + 1) =>
        st = "done" /\ (host = <<>> \/ (HostLines # {} /\ IsPrefix(host, HostValue)))

(* The slice data[start:] panics, which ends the whole process, only if some *)
(* byte before the last one becomes longer in lower case: letters that       *)
(* become shorter, and a letter of which the read ends in the middle, do no  *)
(* harm of this kind.                                                        *)
PanicNeedsGrowth ==
    st = "panic" => \E i \in 1..(n - 1) : Len(Lowered(Buf(n))[i]) > 1
=============================================================================
