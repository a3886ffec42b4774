------------------------------ MODULE MCProxy ------------------------------
(***************************************************************************)
(* Five clients: TLS with a server name and without; HTTP with a body      *)
(* after the head, with a Host header that names a port and lies across    *)
(* the end of the buffer, and without a Host header.                       *)
(***************************************************************************)
EXTENDS Proxy

Req(kind, size, head, from, host, named) ==
    [kind |-> kind, size |-> size, head |-> head, from |-> from, host |-> host, named |-> named]

MCRequests ==
    {Req("tls", 3, 2, 0, 2, 0),
     Req("tls", 2, 2, 0, 0, 0),
     Req("http", 4, 3, 1, 2, 0),
     Req("http", 5, 5, 2, 5, 8080),
     Req("http", 3, 3, 0, 0, 0)}
=============================================================================
