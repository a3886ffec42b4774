------------------------------- MODULE Proxy -------------------------------
(***************************************************************************)
(* The pass-through proxy (testing/proxy/main.go): handle, which runs in a *)
(* goroutine of its own for every accepted connection, peeks at what the   *)
(* client sends to find the target, dials it, forwards what it has peeked, *)
(* and leaves the rest to two copying goroutines.  One connection is       *)
(* modelled; handlers share nothing but the process, which a panic in any  *)
(* of them ends.                                                           *)
(*                                                                         *)
(* A direction is named by where its bytes go: "up" from the client to the *)
(* target, "down" from the target to the client.  The bytes of a direction *)
(* are numbered from 1.                                                    *)
(***************************************************************************)
EXTENDS Naturals, Sequences

CONSTANTS
    Requests,           \* what a client may send, see Request
    MaxAnswer,          \* bound: bytes the target sends
    httpReadBufSize,    \* constants.go, scaled down with the requests
    httpMaxHeaderBuf

(* size bytes in all.  head: the first TLS record, or the HTTP head up to    *)
(* its empty line.  The host is named by the bytes from+1 .. host; host = 0  *)
(* says it is not named at all.  named is the port its Host header names, 0    *)
(* for none.                                                                 *)
Request == [kind : {"tls", "http"}, size : Nat, head : Nat, from : Nat, host : Nat, named : Nat]

ASSUME ProxyAssumption ==
    /\ Requests \subseteq Request
    /\ \A r \in Requests : r.head > 0 /\ r.from <= r.host /\ r.host <= r.head
    /\ MaxAnswer \in Nat
    /\ httpReadBufSize \in Nat \ {0}
    /\ httpMaxHeaderBuf \in Nat \ {0, 1}

VARIABLES
    req,        \* the request of this client
    sent,       \* per direction: bytes its source has sent
    end,        \* per direction: what its source did in the end
    pc,         \* where handle is
    deadline,   \* the deadline of conn
    sock,       \* per direction: the socket it is read from, conn or upstream
    taken,      \* per direction: bytes read from its socket
    peeked,     \* the bytes peeked at
    target,     \* the address dialled
    copier,     \* per direction: its copying goroutine
    buf,        \* per direction: bytes the goroutine has read and not written
    delivered,  \* per direction: bytes written to the other socket
    errc        \* number of values in the channel errc

vars == <<req, sent, end, pc, deadline, sock, taken, peeked, target, copier, buf, delivered, errc>>

Directions == {"up", "down"}
Other(d)   == IF d = "up" THEN "down" ELSE "up"
NoTarget   == [host |-> "none", port |-> 0]

Stream(a, b) == [i \in 1..(b - a) |-> a + i]    \* the bytes a+1 .. b

-----------------------------------------------------------------------------
(* net.Conn *)

Expired(d)  == d = "up" /\ deadline = "expired"
Broken(d)   == sock[d] = "closed" \/ end[d] = "reset" \/ Expired(d)
CanRead(d)  == sock[d] = "open" /\ ~ Expired(d) /\ taken[d] < sent[d]
AtEOF(d)    == ~ Broken(d) /\ end[d] = "fin" /\ taken[d] = sent[d]
CanWrite(d) == sock[Other(d)] = "open" /\ ~ Broken(Other(d))

-----------------------------------------------------------------------------
Init ==
    /\ req \in Requests
    /\ sent = [d \in Directions |-> 0]
    /\ end = [d \in Directions |-> "open"]
    /\ pc = "accepted"
    /\ deadline = "none"
    /\ sock = [d \in Directions |-> IF d = "up" THEN "open" ELSE "none"]
    /\ taken = [d \in Directions |-> 0]
    /\ peeked = <<>>
    /\ target = NoTarget
    /\ copier = [d \in Directions |-> "none"]
    /\ buf = [d \in Directions |-> <<>>]
    /\ delivered = [d \in Directions |-> <<>>]
    /\ errc = 0

(* The client and the target: they send, and in the end they close their     *)
(* side or reset the connection, at any time.                                *)
Total(d) == IF d = "up" THEN req.size ELSE MaxAnswer

Send(d) ==
    /\ sock[d] = "open" /\ end[d] = "open" /\ sent[d] < Total(d)
    /\ sent' = [sent EXCEPT ![d] = @ + 1]
    /\ UNCHANGED <<req, end, pc, deadline, sock, taken, peeked, target, copier, buf, delivered, errc>>

Finish(d) ==
    /\ sock[d] = "open"
    /\ \/ end[d] = "open" /\ end' = [end EXCEPT ![d] = "fin"]
       \/ end[d] # "reset" /\ end' = [end EXCEPT ![d] = "reset"]
    /\ UNCHANGED <<req, sent, pc, deadline, sock, taken, peeked, target, copier, buf, delivered, errc>>

(* The timer of the deadline. *)
Expire ==
    /\ deadline = "armed"
    /\ deadline' = "expired"
    /\ UNCHANGED <<req, sent, end, pc, sock, taken, peeked, target, copier, buf, delivered, errc>>

-----------------------------------------------------------------------------
(* handle *)

\* A plausible slip: no deadline for the peek.
SetDeadlineForgotten ==
    /\ pc = "accepted"
    /\ pc' = "first"
    /\ UNCHANGED <<req, sent, end, deadline, sock, taken, peeked, target, copier, buf, delivered, errc>>

SetDeadline ==
    /\ pc = "accepted"
    /\ pc' = "first"
    /\ deadline' = "armed"
    /\ UNCHANGED <<req, sent, end, sock, taken, peeked, target, copier, buf, delivered, errc>>

Peek(n, to) ==
    /\ pc' = to
    /\ taken' = [taken EXCEPT !["up"] = @ + n]
    /\ peeked' = peeked \o Stream(taken["up"], taken["up"] + n)
    /\ UNCHANGED <<req, sent, end, deadline, sock, copier, buf, delivered, errc>>

\* A plausible slip: the result of the first read is not looked at.
ReadFirstUnchecked ==
    /\ pc = "first"
    /\ Peek(1, req.kind)
    /\ UNCHANGED target

ReadFirst ==
    /\ pc = "first"
    /\ CanRead("up")
    /\ Peek(1, req.kind)
    /\ UNCHANGED target

(* The host that the first n bytes name; a Host header that is cut off is    *)
(* taken for the whole of it.                                                *)
HostIn(r, n) ==
    CASE r.host > 0 /\ n >= r.host                     -> "whole"
      [] r.kind = "http" /\ r.from < n /\ n < r.host   -> "cut"
      [] OTHER                                         -> "none"

(* SplitHostPort and JoinHostPort; the port of a host that is cut off is not *)
(* followed up.                                                              *)
Target(r, h) ==
    [host |-> h,
     port |-> CASE h = "cut"       -> 0
                [] r.named # 0     -> r.named
                [] r.kind = "tls"  -> 443
                [] OTHER           -> 80]

\* A plausible slip: the record is forwarded without its first byte.
extractSNIDropsFirst ==
    /\ pc = "tls"
    /\ taken["up"] + (req.head - 1) <= sent["up"] /\ ~ Expired("up")
    /\ IF HostIn(req, req.head) = "none"
       THEN Peek(req.head - 1, "close") /\ UNCHANGED target
       ELSE /\ pc' = "dial"
            /\ taken' = [taken EXCEPT !["up"] = req.head]
            /\ peeked' = Stream(1, req.head)
            /\ target' = Target(req, "whole")
            /\ UNCHANGED <<req, sent, end, deadline, sock, copier, buf, delivered, errc>>

(* io.ReadFull of the rest of the record header and of the record, and what  *)
(* handle makes of the result.                                               *)
extractSNI ==
    /\ pc = "tls"
    /\ taken["up"] + (req.head - 1) <= sent["up"] /\ ~ Expired("up")
    /\ IF HostIn(req, req.head) = "none"
       THEN Peek(req.head - 1, "close") /\ UNCHANGED target
       ELSE Peek(req.head - 1, "dial") /\ target' = Target(req, "whole")

(* ReadFull gets no further: the client has ended, or the deadline. *)
ReadFullFails ==
    /\ \/ pc = "first" /\ taken["up"] = sent["up"] /\ end["up"] # "open"
       \/ pc = "tls" /\ sent["up"] < req.head /\ end["up"] # "open"
       \/ pc \in {"first", "tls"} /\ Broken("up")
    /\ pc' = "close"
    /\ UNCHANGED <<req, sent, end, deadline, sock, taken, peeked, target, copier, buf, delivered, errc>>

(* parseHostHeader of what was read, once the loop of extractHTTPHost ends.  *)
HttpTarget(n) ==
    /\ target' = IF HostIn(req, n) = "none" THEN NoTarget ELSE Target(req, HostIn(req, n))
    /\ pc' = IF HostIn(req, n) = "none" THEN "close" ELSE "dial"

\* A plausible slip: the request is expected to come in one piece.
HttpEndsAtOnce(n) == TRUE

(* The loop ends when the buffer holds the empty line or is large enough. *)
HttpEnds(n) == n >= req.head \/ n >= httpMaxHeaderBuf

(* One turn of the loop of extractHTTPHost. *)
HttpRead ==
    /\ pc = "http"
    /\ CanRead("up")
    /\ \E n \in 1..httpReadBufSize :
          /\ taken["up"] + n <= sent["up"]
          /\ taken' = [taken EXCEPT !["up"] = @ + n]
          /\ peeked' = peeked \o Stream(taken["up"], taken["up"] + n)
          /\ IF HttpEnds(taken["up"] + n) THEN HttpTarget(taken["up"] + n)
                                          ELSE UNCHANGED <<pc, target>>
    /\ UNCHANGED <<req, sent, end, deadline, sock, copier, buf, delivered, errc>>

(* conn.Read returns an error, which counts only if there is no host yet. *)
HttpReadFails ==
    /\ pc = "http"
    /\ AtEOF("up") \/ Broken("up")
    /\ HttpTarget(taken["up"])
    /\ UNCHANGED <<req, sent, end, deadline, sock, taken, peeked, copier, buf, delivered, errc>>

Dial ==
    /\ pc = "dial"
    /\ pc' = "forward"
    /\ sock' = [sock EXCEPT !["down"] = "open"]
    /\ UNCHANGED <<req, sent, end, deadline, taken, peeked, target, copier, buf, delivered, errc>>

(* The name does not resolve, the target refuses, or 15 seconds are over. *)
DialFails ==
    /\ pc = "dial"
    /\ pc' = "close"
    /\ UNCHANGED <<req, sent, end, deadline, sock, taken, peeked, target, copier, buf, delivered, errc>>

(* upstream.Write(peeked): upstream has no deadline. *)
Forward ==
    /\ pc = "forward"
    /\ CanWrite("up")
    /\ pc' = "copy"
    /\ delivered' = [delivered EXCEPT !["up"] = peeked]
    /\ UNCHANGED <<req, sent, end, deadline, sock, taken, peeked, target, copier, buf, errc>>

ForwardFails ==
    /\ pc = "forward"
    /\ Broken("down")
    /\ pc' = "close"
    /\ UNCHANGED <<req, sent, end, deadline, sock, taken, peeked, target, copier, buf, delivered, errc>>

\* A plausible slip: the deadline of the peek stays on the connection.
StartCopyWithDeadline ==
    /\ pc = "copy"
    /\ pc' = "started"
    /\ copier' = [d \in Directions |-> "read"]
    /\ UNCHANGED <<req, sent, end, deadline, sock, taken, peeked, target, buf, delivered, errc>>

(* Both deadlines are lifted, the channel is made, the goroutines start. *)
StartCopy ==
    /\ pc = "copy"
    /\ pc' = "started"
    /\ deadline' = "none"
    /\ copier' = [d \in Directions |-> "read"]
    /\ UNCHANGED <<req, sent, end, sock, taken, peeked, target, buf, delivered, errc>>

\* A plausible slip: handle does not wait for its goroutines.
ReceiveNot ==
    /\ pc = "started"
    /\ pc' = "close"
    /\ UNCHANGED <<req, sent, end, deadline, sock, taken, peeked, target, copier, buf, delivered, errc>>

(* <-errc, once for two goroutines: handle takes a value, or waits for one. *)
Receive ==
    /\ pc = "started"
    /\ IF errc > 0 THEN pc' = "close" /\ errc' = errc - 1
                   ELSE pc' = "wait" /\ UNCHANGED errc
    /\ UNCHANGED <<req, sent, end, deadline, sock, taken, peeked, target, copier, buf, delivered>>

(* The deferred calls: upstream.Close, if it was dialled, then conn.Close. *)
CloseUpstream ==
    /\ pc = "close"
    /\ sock["down"] = "open"
    /\ sock' = [sock EXCEPT !["down"] = "closed"]
    /\ UNCHANGED <<req, sent, end, pc, deadline, taken, peeked, target, copier, buf, delivered, errc>>

CloseConn ==
    /\ pc = "close"
    /\ sock["down"] # "open"
    /\ pc' = "returned"
    /\ sock' = [sock EXCEPT !["up"] = "closed"]
    /\ UNCHANGED <<req, sent, end, deadline, taken, peeked, target, copier, buf, delivered, errc>>

(* data[start:] of parseHostHeader, here or in the handler of another        *)
(* connection, is out of range (HttpHost says when) and nothing recovers:    *)
(* the process ends, with all its goroutines and sockets.                    *)
Panic ==
    /\ pc # "dead"
    /\ pc' = "dead"
    /\ deadline' = "none"
    /\ sock' = [d \in Directions |-> IF sock[d] = "none" THEN "none" ELSE "closed"]
    /\ copier' = [d \in Directions |-> "none"]
    /\ errc' = 0
    /\ UNCHANGED <<req, sent, end, taken, peeked, target, buf, delivered>>

-----------------------------------------------------------------------------
(* The goroutine of one direction: io.Copy, then errc <- err. *)

Copying == <<req, sent, end, deadline, sock, peeked, target>>

CopyRead(d) ==
    /\ copier[d] = "read"
    /\ CanRead(d)
    /\ \E n \in 1..(sent[d] - taken[d]) :
          /\ buf' = [buf EXCEPT ![d] = Stream(taken[d], taken[d] + n)]
          /\ taken' = [taken EXCEPT ![d] = @ + n]
    /\ copier' = [copier EXCEPT ![d] = "write"]
    /\ UNCHANGED <<Copying, pc, delivered, errc>>

CopyWrite(d) ==
    /\ copier[d] = "write"
    /\ CanWrite(d)
    /\ delivered' = [delivered EXCEPT ![d] = @ \o buf[d]]
    /\ buf' = [buf EXCEPT ![d] = <<>>]
    /\ copier' = [copier EXCEPT ![d] = "read"]
    /\ UNCHANGED <<Copying, pc, taken, errc>>

(* EOF, or an error of either socket. *)
CopyEnds(d) ==
    /\ \/ copier[d] = "read" /\ (AtEOF(d) \/ Broken(d))
       \/ copier[d] = "write" /\ Broken(Other(d))
    /\ copier' = [copier EXCEPT ![d] = "send"]
    /\ UNCHANGED <<Copying, pc, taken, buf, delivered, errc>>

\* A plausible slip: make(chan error).
ErrcCapNone == 0

ErrcCap == 2

(* A send is taken by a waiting receiver, or put into the channel. *)
SendErr(d) ==
    /\ copier[d] = "send"
    /\ \/ pc = "wait" /\ pc' = "close" /\ UNCHANGED errc
       \/ pc # "wait" /\ errc < ErrcCap /\ errc' = errc + 1 /\ UNCHANGED pc
    /\ copier' = [copier EXCEPT ![d] = "done"]
    /\ UNCHANGED <<Copying, taken, buf, delivered>>

-----------------------------------------------------------------------------
(* The steps that need nothing from a peer but what it has done already. *)
Handle ==
    \/ SetDeadline \/ ReadFirst \/ extractSNI \/ ReadFullFails \/ HttpRead \/ HttpReadFails
    \/ Dial \/ DialFails \/ ForwardFails \/ StartCopy \/ Receive
    \/ CloseUpstream \/ CloseConn

Copy(d) == CopyRead(d) \/ CopyEnds(d) \/ SendErr(d)

Next ==
    \/ Handle \/ Forward \/ Expire \/ Panic
    \/ \E d \in Directions : Send(d) \/ Finish(d) \/ Copy(d) \/ CopyWrite(d)

(* Goroutines and timers run, and a dial ends within its timeout.  Nothing   *)
(* makes a peer send, close or read; a write waits until the peer makes room *)
(* for it, so that Forward and CopyWrite are not assumed to happen.          *)
Fairness ==
    /\ WF_vars(Handle)
    /\ WF_vars(Expire)
    /\ \A d \in Directions : WF_vars(Copy(d))

Spec == Init /\ [][Next]_vars /\ Fairness

-----------------------------------------------------------------------------
(* Properties *)

Bytes == Seq(Nat)

(* The variables of handle, its sockets, goroutines and channel; nothing is  *)
(* read from a socket that its peer has not sent.                            *)
TypeOK ==
    /\ req \in Requests
    /\ sent \in [Directions -> Nat]
    /\ end \in [Directions -> {"open", "fin", "reset"}]
    /\ pc \in {"accepted", "first", "tls", "http", "dial", "forward", "copy", "started",
               "wait", "close", "returned", "dead"}
    /\ deadline \in {"none", "armed", "expired"}
    /\ sock \in [Directions -> {"none", "open", "closed"}]
    /\ taken \in [Directions -> Nat] /\ \A d \in Directions : taken[d] <= sent[d]
    /\ peeked \in Bytes
    /\ target \in [host : {"none", "cut", "whole"}, port : Nat]
    /\ copier \in [Directions -> {"none", "read", "write", "send", "done"}]
    /\ buf \in [Directions -> Bytes]
    /\ delivered \in [Directions -> Bytes]
    /\ errc \in 0..2

(* What is delivered in each direction is the beginning of what its source   *)
(* sent: the handover from the peek to the copying goroutine, at whatever    *)
(* place the reads have stopped, loses no byte, doubles none, swaps none.    *)
InOrder ==
    \A d \in Directions : delivered[d] = Stream(0, Len(delivered[d]))

(* The target is taken from a Host header that is cut off only when no more  *)
(* of it can come: the client has ended, its time is up, or the buffer is    *)
(* full.  How the request was cut into segments plays no role.               *)
CutOnlyAtTheEnd ==
    pc = "dial" /\ target.host = "cut" =>
        end["up"] # "open" \/ deadline = "expired" \/ Len(peeked) >= httpMaxHeaderBuf

(* handle gives an established tunnel up only when a peer has ended its      *)
(* side, in particular not by the deadline of the peek, which may have       *)
(* passed during the dial.                                                   *)
EndsByPeer ==
    pc \in {"close", "returned"} /\ copier["up"] # "none" =>
        \E d \in Directions : end[d] # "open"

(* What an ended tunnel may not lose: unless a peer resets its connection,   *)
(* one of them has closed its side, and everything it had sent before has    *)
(* been written to the other.  What the other one has still to say is cut    *)
(* off, because the first copy that ends closes both sockets.                *)
ClosingSideDelivered ==
    pc = "returned" /\ copier["up"] # "none" /\ (\A d \in Directions : end[d] # "reset") =>
        \E d \in Directions : end[d] = "fin" /\ Len(delivered[d]) = sent[d]

(* A client that stops sending does not hold its handler: the peek ends,     *)
(* with a target or without.                                                 *)
PeekEnds ==
    (pc \in {"accepted", "first", "tls", "http"})
        ~> (pc \notin {"accepted", "first", "tls", "http"})

(* No goroutine outlives its connection: once handle has returned both       *)
(* copying goroutines end, although only one of their results is received,   *)
(* and whatever they are waiting for at the time.                            *)
NoGoroutineLeft ==
    (pc = "returned") ~> (\A d \in Directions : copier[d] \in {"none", "done"})
=============================================================================
