------------------------------- MODULE MCPeek -------------------------------
(***************************************************************************)
(* TLS: hellos with and without a server name, before and after other      *)
(* extensions and followed by further bytes; each also with any one byte   *)
(* replaced, and with every other length of the handshake message.         *)
(*                                                                         *)
(* HTTP: heads of up to three lines, the first being the request line: a   *)
(* Host header, one with blanks around its value, one without the blank,   *)
(* an empty one, a line that contains one further on, and lines with a     *)
(* byte that is not UTF-8, with a letter that gets shorter and one that    *)
(* gets longer in lower case; a body that looks like a header.             *)
(***************************************************************************)
EXTENDS Peek

CONSTANTS ch1, ch2

Hello(s, c, m, exts) == [session |-> s, ciphers |-> c, compression |-> m, exts |-> exts]

MCHellos ==
    {Hello(0, 2, 1, <<SNI(<<97, 98>>, 0)>>),
     Hello(3, 4, 1, <<Ext(11, 2), SNI(<<98>>, 0), Ext(10, 0)>>),
     Hello(1, 0, 0, <<Ext(0, 0), Ext(23, 0), SNI(<<99, 97>>, 3)>>),
     Hello(0, 2, 1, <<Ext(16, 3), Ext(0, 4)>>),
     Hello(0, 2, 1, <<>>)}

Replaced(t) == {[t EXCEPT ![i] = v] : i \in 1..Len(t), v \in {0, 1, 2, 4, 7, 255}}

MCRecords ==
    UNION {LET t == EncodeTail(h) size == 34 + Len(t)
           IN  {Record(k, t) : k \in 0..(size + 4)}
               \cup {Record(k, u) : k \in {size - 2, size}, u \in Replaced(t)}
               \cup {[Encode(h) EXCEPT !.type = 2]}
           : h \in MCHellos}
    \cup {[len |-> k, type |-> 1, hsLen |-> l, tail |-> <<>>] : k \in 0..38, l \in {0, 34, 35}}

MCLines  == {<<ch1>>, <<Key, SP, ch1, ch2>>, <<Key, SP, SP, ch2, SP>>, <<Key, ch1>>, <<Key, SP>>,
             <<ch1, Key, SP, ch2>>, <<ch1, Raw>>, <<ch2, Short, Cont>>, <<Long, Cont>>}
MCBodies == {<<>>, <<CR, LF, Key, SP, ch1>>}
=============================================================================
