---------------------------- MODULE ProxyProofs ----------------------------
(***************************************************************************)
(* For clients and targets that send any number of bytes, in any pieces:   *)
(* the proxy delivers what was sent, in order, and gives a tunnel up only  *)
(* after a peer has ended its side.                                        *)
(***************************************************************************)
EXTENDS Proxy, SequenceTheorems, TLAPS

-----------------------------------------------------------------------------
(* Streams of numbered bytes *)

LEMMA StreamFacts ==
    ASSUME NEW a \in Nat, NEW b \in Nat, a <= b
    PROVE  Stream(a, b) \in Bytes /\ Len(Stream(a, b)) = b - a
<1>1. b - a \in Nat OBVIOUS
<1>2. \A i \in 1..(b - a) : a + i \in Nat OBVIOUS
<1>q. QED BY <1>1, <1>2 DEF Stream, Bytes

(* Two adjacent pieces of a stream make one. *)
LEMMA StreamJoins ==
    ASSUME NEW a \in Nat, NEW b \in Nat, NEW c \in Nat, a <= b, b <= c
    PROVE  Stream(a, b) \o Stream(b, c) = Stream(a, c)
<1> DEFINE s == Stream(a, b)  t == Stream(b, c)  u == Stream(a, c)
<1>1. s \in Bytes /\ Len(s) = b - a BY StreamFacts
<1>2. t \in Bytes /\ Len(t) = c - b BY StreamFacts
<1>3. u \in Bytes /\ Len(u) = c - a BY StreamFacts
<1>4. \A i \in 1..(b - a) : s[i] = a + i BY DEF Stream
<1>5. \A i \in 1..(c - b) : t[i] = b + i BY DEF Stream
<1>6. \A i \in 1..(c - a) : u[i] = a + i BY DEF Stream
<1> HIDE DEF s, t, u
<1>7. s \o t \in Bytes /\ Len(s \o t) = c - a BY <1>1, <1>2 DEF Bytes
<1>8. ASSUME NEW i \in 1..(c - a) PROVE (s \o t)[i] = u[i]
  <2>1. CASE i <= b - a BY <1>1, <1>2, <1>4, <1>6, <2>1 DEF Bytes
  <2>2. CASE ~ (i <= b - a)
    <3>1. i - (b - a) \in 1..(c - b) BY <2>2
    <3>2. (s \o t)[i] = t[i - (b - a)] BY <1>1, <1>2, <2>2, <3>1 DEF Bytes
    <3>3. t[i - (b - a)] = b + (i - (b - a)) BY <1>5, <3>1
    <3>q. QED BY <1>6, <3>2, <3>3
  <2>q. QED BY <2>1, <2>2
<1>q. QED BY <1>3, <1>7, <1>8, SeqEqual DEF Bytes, s, t, u

LEMMA FromStart ==
    ASSUME NEW b \in Nat
    PROVE  /\ Stream(0, b) \in Bytes /\ Len(Stream(0, b)) = b
           /\ \A c \in Nat : b <= c => Stream(0, b) \o Stream(b, c) = Stream(0, c)
<1>1. 0 \in Nat /\ 0 <= b OBVIOUS
<1>2. Stream(0, b) \in Bytes /\ Len(Stream(0, b)) = b - 0 BY <1>1, StreamFacts
<1>3. \A c \in Nat : b <= c => Stream(0, b) \o Stream(b, c) = Stream(0, c)
  BY <1>1, StreamJoins
<1>q. QED BY <1>2, <1>3

LEMMA StreamEmpty == Stream(0, 0) = <<>>
<1>1. Stream(0, 0) \in Bytes /\ Len(Stream(0, 0)) = 0 BY StreamFacts
<1>q. QED BY <1>1 DEF Bytes

-----------------------------------------------------------------------------
(* The inductive invariant *)

Peeking  == {"accepted", "first", "tls", "http", "dial", "forward"}
Upto(d)  == Len(delivered[d])

(* All bytes read so far are in the peek buffer and none is delivered, until *)
(* the buffer is written; from then on all bytes read are delivered or in    *)
(* the buffer of the goroutine.                                              *)
Carried ==
    /\ InOrder
    /\ pc \in Peeking => /\ peeked = Stream(0, taken["up"])
                         /\ taken["down"] = 0
                         /\ Upto("up") = 0 /\ Upto("down") = 0
    /\ pc \in Peeking \cup {"copy"} => \A d \in Directions : copier[d] = "none"
    /\ pc = "copy" => \A d \in Directions : Upto(d) = taken[d]
    /\ \A d \in Directions :
          /\ copier[d] = "read" => Upto(d) = taken[d]
          /\ copier[d] = "write" => Upto(d) <= taken[d] /\ buf[d] = Stream(Upto(d), taken[d])

LEMMA InitTypeOK == Init => TypeOK
BY ProxyAssumption DEF Init, TypeOK, Directions, Bytes, NoTarget

(* Peeking n bytes that the client has sent. *)
LEMMA PeekType ==
    ASSUME TypeOK, NEW n \in Nat, taken["up"] + n <= sent["up"]
    PROVE  /\ [taken EXCEPT !["up"] = @ + n] \in [Directions -> Nat]
           /\ \A d \in Directions : [taken EXCEPT !["up"] = @ + n][d] <= sent[d]
           /\ peeked \o Stream(taken["up"], taken["up"] + n) \in Bytes
<1>1. taken["up"] \in Nat BY DEF TypeOK, Directions
<1>0. taken["up"] + n \in Nat /\ taken["up"] <= taken["up"] + n BY <1>1
<1>2. Stream(taken["up"], taken["up"] + n) \in Bytes BY <1>0, <1>1, StreamFacts
<1>q. QED BY <1>1, <1>2 DEF TypeOK, Directions, Bytes

LEMMA TargetType ==
    ASSUME NEW r \in Request, NEW h \in {"cut", "whole"}
    PROVE  Target(r, h) \in [host : {"none", "cut", "whole"}, port : Nat]
BY DEF Target, Request

LEMMA HostInType == ASSUME NEW r, NEW n PROVE HostIn(r, n) \in {"none", "cut", "whole"}
BY DEF HostIn

LEMMA HttpTargetType ==
    ASSUME TypeOK, NEW n, HttpTarget(n)
    PROVE  /\ target' \in [host : {"none", "cut", "whole"}, port : Nat]
           /\ pc' \in {"close", "dial"}
<1>1. req \in Request BY ProxyAssumption DEF TypeOK
<1>2. HostIn(req, n) # "none" => HostIn(req, n) \in {"cut", "whole"} BY HostInType
<1>q. QED BY <1>1, <1>2, TargetType DEF HttpTarget, NoTarget

LEMMA NextTypeOK == TypeOK /\ [Next]_vars => TypeOK'
<1> SUFFICES ASSUME TypeOK, [Next]_vars PROVE TypeOK' OBVIOUS
<1>0. req \in Request /\ req.head \in Nat /\ req.head > 0 BY ProxyAssumption DEF TypeOK, Request
<1>1. CASE SetDeadline BY <1>1 DEF SetDeadline, TypeOK
<1>2. CASE ReadFirst
  <2>1. taken["up"] + 1 <= sent["up"] BY <1>2 DEF ReadFirst, CanRead, TypeOK, Directions
  <2>2. req.kind \in {"tls", "http"} BY <1>0 DEF Request
  <2>q. QED BY <1>2, <2>1, <2>2, PeekType DEF ReadFirst, Peek, TypeOK
<1>3. CASE extractSNI
  <2>1. req.head - 1 \in Nat /\ taken["up"] + (req.head - 1) <= sent["up"]
    BY <1>0, <1>3 DEF extractSNI
  <2>2. Target(req, "whole") \in [host : {"none", "cut", "whole"}, port : Nat]
    BY <1>0, TargetType
  <2> DEFINE n == req.head - 1
  <2>3. /\ [taken EXCEPT !["up"] = @ + n] \in [Directions -> Nat]
        /\ \A d \in Directions : [taken EXCEPT !["up"] = @ + n][d] <= sent[d]
        /\ peeked \o Stream(taken["up"], taken["up"] + n) \in Bytes
    BY <2>1, PeekType
  <2>4. \/ Peek(n, "close") /\ UNCHANGED target
        \/ Peek(n, "dial") /\ target' = Target(req, "whole")
    BY <1>3 DEF extractSNI
  <2> HIDE DEF n
  <2>q. QED BY <2>2, <2>3, <2>4 DEF Peek, TypeOK
<1>4. CASE ReadFullFails BY <1>4 DEF ReadFullFails, TypeOK
<1>5. CASE HttpRead
  <2>1. PICK n \in 1..httpReadBufSize :
          /\ taken["up"] + n <= sent["up"]
          /\ taken' = [taken EXCEPT !["up"] = @ + n]
          /\ peeked' = peeked \o Stream(taken["up"], taken["up"] + n)
          /\ IF HttpEnds(taken["up"] + n) THEN HttpTarget(taken["up"] + n)
                                          ELSE UNCHANGED <<pc, target>>
    BY <1>5 DEF HttpRead
  <2>2. n \in Nat BY ProxyAssumption
  <2>3. /\ target' \in [host : {"none", "cut", "whole"}, port : Nat]
        /\ pc' \in {"close", "dial", "http"}
    BY <1>5, <2>1, HttpTargetType DEF HttpRead, TypeOK
  <2>q. QED BY <1>5, <2>1, <2>2, <2>3, PeekType DEF HttpRead, TypeOK
<1>6. CASE HttpReadFails
  <2>1. /\ target' \in [host : {"none", "cut", "whole"}, port : Nat]
        /\ pc' \in {"close", "dial"}
    BY <1>6, HttpTargetType DEF HttpReadFails
  <2>q. QED BY <1>6, <2>1 DEF HttpReadFails, TypeOK
<1>7. CASE Dial \/ DialFails \/ ForwardFails
  BY <1>7 DEF Dial, DialFails, ForwardFails, TypeOK
<1>8. CASE Forward BY <1>8 DEF Forward, TypeOK
<1>9. CASE StartCopy \/ Receive \/ CloseUpstream \/ CloseConn BY <1>9 DEF StartCopy, Receive, CloseUpstream, CloseConn, TypeOK
<1>10. CASE Expire BY <1>10 DEF Expire, TypeOK
<1>11. ASSUME NEW d \in Directions, Send(d) \/ Finish(d) PROVE TypeOK'
  BY <1>11 DEF Send, Finish, TypeOK
<1>12. ASSUME NEW d \in Directions, CopyRead(d) PROVE TypeOK'
  <2>1. PICK n \in 1..(sent[d] - taken[d]) :
          /\ buf' = [buf EXCEPT ![d] = Stream(taken[d], taken[d] + n)]
          /\ taken' = [taken EXCEPT ![d] = @ + n]
    BY <1>12 DEF CopyRead
  <2>2. taken[d] \in Nat /\ sent[d] \in Nat /\ n \in Nat BY DEF TypeOK
  <2>3. taken[d] + n <= sent[d] /\ taken[d] + n \in Nat /\ taken[d] <= taken[d] + n BY <2>2
  <2>4. Stream(taken[d], taken[d] + n) \in Bytes BY <2>2, <2>3, StreamFacts
  <2>q. QED BY <1>12, <2>1, <2>2, <2>3, <2>4 DEF CopyRead, Copying, TypeOK
<1>13. ASSUME NEW d \in Directions, CopyWrite(d) PROVE TypeOK'
  <2>1. delivered[d] \o buf[d] \in Bytes /\ <<>> \in Bytes BY DEF TypeOK, Bytes
  <2>q. QED BY <1>13, <2>1 DEF CopyWrite, Copying, TypeOK
<1>14. ASSUME NEW d \in Directions, CopyEnds(d) \/ SendErr(d) PROVE TypeOK'
  BY <1>14 DEF CopyEnds, SendErr, ErrcCap, Copying, TypeOK
<1>15. CASE Panic BY <1>15 DEF Panic, TypeOK
<1>16. CASE UNCHANGED vars BY <1>16 DEF vars, TypeOK
<1>q. QED
  BY <1>1, <1>2, <1>3, <1>4, <1>5, <1>6, <1>7, <1>8, <1>9, <1>10, <1>11, <1>12, <1>13, <1>14,
     <1>15, <1>16 DEF Next, Handle, Copy

-----------------------------------------------------------------------------
LEMMA InitCarried == Init => Carried
<1> SUFFICES ASSUME Init PROVE Carried OBVIOUS
<1>1. \A d \in Directions : delivered[d] = <<>> /\ Upto(d) = 0 /\ taken[d] = 0 /\ copier[d] = "none"
  BY DEF Init, Upto
<1>2. pc = "accepted" /\ peeked = <<>> BY DEF Init
<1>q. QED BY <1>1, <1>2, StreamEmpty DEF Carried, InOrder, Upto, Directions, Peeking

(* Bytes peeked at join those peeked before. *)
LEMMA PeekCarried ==
    ASSUME TypeOK, Carried, pc \in Peeking, NEW n \in Nat,
           taken' = [taken EXCEPT !["up"] = @ + n],
           peeked' = peeked \o Stream(taken["up"], taken["up"] + n),
           pc' \in Peeking \cup {"close"},
           UNCHANGED <<copier, buf, delivered>>
    PROVE  Carried'
<1>1. taken["up"] \in Nat /\ taken["up"] + n \in Nat /\ taken["up"] <= taken["up"] + n
  BY DEF TypeOK, Directions
<1>2. taken'["up"] = taken["up"] + n /\ taken'["down"] = taken["down"]
  BY DEF TypeOK, Directions
<1>3. peeked = Stream(0, taken["up"]) BY DEF Carried
<1>4. peeked' = Stream(0, taken'["up"]) BY <1>1, <1>2, <1>3, FromStart
<1>5. \A d \in Directions : copier[d] = "none" BY DEF Carried
<1>q. QED BY <1>2, <1>4, <1>5 DEF Carried, InOrder, Upto, Peeking

LEMMA NextCarried == TypeOK /\ Carried /\ [Next]_vars => Carried'
<1> SUFFICES ASSUME TypeOK, Carried, [Next]_vars PROVE Carried' OBVIOUS
<1>0. req \in Request /\ req.head \in Nat /\ req.head > 0 BY ProxyAssumption DEF TypeOK, Request
<1>1. CASE SetDeadline BY <1>1 DEF SetDeadline, Carried, InOrder, Upto, Peeking
<1>2. CASE ReadFirst
  <2>1. req.kind \in Peeking BY <1>0 DEF Request, Peeking
  <2>q. QED BY <1>2, <2>1, PeekCarried DEF ReadFirst, Peek, Peeking
<1>3. CASE extractSNI
  <2> DEFINE n == req.head - 1
  <2>1. n \in Nat BY <1>0
  <2>2. /\ Peek(n, "close") \/ Peek(n, "dial")
        /\ pc = "tls"
    BY <1>3 DEF extractSNI
  <2> HIDE DEF n
  <2>q. QED BY <2>1, <2>2, PeekCarried DEF Peek, Peeking
<1>4. CASE ReadFullFails \/ DialFails \/ ForwardFails
  BY <1>4 DEF ReadFullFails, DialFails, ForwardFails, Carried, InOrder, Upto, Peeking
<1>5. CASE HttpRead
  <2>1. PICK n \in 1..httpReadBufSize :
          /\ taken' = [taken EXCEPT !["up"] = @ + n]
          /\ peeked' = peeked \o Stream(taken["up"], taken["up"] + n)
          /\ IF HttpEnds(taken["up"] + n) THEN HttpTarget(taken["up"] + n)
                                          ELSE UNCHANGED <<pc, target>>
    BY <1>5 DEF HttpRead
  <2>2. n \in Nat BY ProxyAssumption
  <2>3. pc = "http" /\ pc' \in Peeking \cup {"close"} BY <1>5, <2>1 DEF HttpRead, HttpTarget, Peeking
  <2>q. QED BY <1>5, <2>1, <2>2, <2>3, PeekCarried DEF HttpRead, Peeking
<1>6. CASE HttpReadFails
  <2>1. pc = "http" /\ pc' \in {"dial", "close"} BY <1>6 DEF HttpReadFails, HttpTarget
  <2>q. QED BY <1>6, <2>1 DEF HttpReadFails, Carried, InOrder, Upto, Peeking
<1>7. CASE Dial BY <1>7 DEF Dial, Carried, InOrder, Upto, Peeking
<1>8. CASE Forward
  <2>1. /\ taken["up"] \in Nat /\ taken["down"] = 0 /\ Upto("down") = 0
        /\ peeked = Stream(0, taken["up"])
        /\ \A d \in Directions : copier[d] = "none"
    BY <1>8 DEF Forward, TypeOK, Carried, Peeking, Directions
  <2>2. Len(peeked) = taken["up"] BY <2>1, FromStart
  <2>3. delivered'["up"] = peeked /\ delivered'["down"] = delivered["down"]
    BY <1>8 DEF Forward, TypeOK, Directions
  <2>q. QED
    BY <1>8, <2>1, <2>2, <2>3 DEF Forward, Carried, InOrder, Upto, Peeking, Directions
<1>9. CASE StartCopy
  <2>1. \A d \in Directions : copier'[d] = "read" /\ Upto(d) = taken[d]
    BY <1>9 DEF StartCopy, Carried
  <2>q. QED BY <1>9, <2>1 DEF StartCopy, Carried, InOrder, Upto, Peeking
<1>10. CASE Receive \/ CloseUpstream \/ CloseConn
  BY <1>10 DEF Receive, CloseUpstream, CloseConn, Carried, InOrder, Upto, Peeking
<1>11. CASE Expire BY <1>11 DEF Expire, Carried, InOrder, Upto
<1>12. ASSUME NEW d \in Directions, Send(d) \/ Finish(d) PROVE Carried'
  BY <1>12 DEF Send, Finish, Carried, InOrder, Upto
<1>13. ASSUME NEW d \in Directions, CopyRead(d) PROVE Carried'
  <2>1. PICK n \in 1..(sent[d] - taken[d]) :
          /\ buf' = [buf EXCEPT ![d] = Stream(taken[d], taken[d] + n)]
          /\ taken' = [taken EXCEPT ![d] = @ + n]
    BY <1>13 DEF CopyRead
  <2>2. taken[d] \in Nat /\ sent[d] \in Nat /\ n \in Nat BY DEF TypeOK
  <2>3. copier[d] = "read" /\ Upto(d) = taken[d] BY <1>13 DEF CopyRead, Carried
  <2>4. pc \notin Peeking \cup {"copy"} BY <2>3 DEF Carried
  <2>5. /\ taken'[d] = taken[d] + n /\ buf'[d] = Stream(taken[d], taken[d] + n)
        /\ copier'[d] = "write"
        /\ \A e \in Directions \ {d} : /\ taken'[e] = taken[e] /\ buf'[e] = buf[e]
                                       /\ copier'[e] = copier[e]
    BY <1>13, <2>1 DEF CopyRead, TypeOK
  <2>6. UNCHANGED <<pc, delivered>> BY <1>13 DEF CopyRead
  <2>q. QED BY <2>2, <2>3, <2>4, <2>5, <2>6 DEF Carried, InOrder, Upto
<1>14. ASSUME NEW d \in Directions, CopyWrite(d) PROVE Carried'
  <2>1. copier[d] = "write" BY <1>14 DEF CopyWrite
  <2>2. /\ Upto(d) \in Nat /\ taken[d] \in Nat /\ Upto(d) <= taken[d]
        /\ delivered[d] = Stream(0, Upto(d)) /\ buf[d] = Stream(Upto(d), taken[d])
    BY <2>1 DEF Carried, InOrder, Upto, TypeOK, Bytes
  <2>3. delivered[d] \o buf[d] = Stream(0, taken[d]) BY <2>2, FromStart
  <2>4. Len(Stream(0, taken[d])) = taken[d] BY <2>2, FromStart
  <2>5. pc \notin Peeking \cup {"copy"} BY <2>1 DEF Carried
  <2>6. /\ delivered'[d] = Stream(0, taken[d]) /\ copier'[d] = "read"
        /\ \A e \in Directions \ {d} : /\ delivered'[e] = delivered[e] /\ buf'[e] = buf[e]
                                       /\ copier'[e] = copier[e]
    BY <1>14, <2>3 DEF CopyWrite, TypeOK
  <2>7. UNCHANGED <<pc, taken>> BY <1>14 DEF CopyWrite
  <2>q. QED BY <2>4, <2>5, <2>6, <2>7 DEF Carried, InOrder, Upto
<1>15. ASSUME NEW d \in Directions, CopyEnds(d) \/ SendErr(d) PROVE Carried'
  <2>1. copier[d] # "none" BY <1>15 DEF CopyEnds, SendErr
  <2>2. pc \notin Peeking \cup {"copy"} BY <2>1 DEF Carried
  <2>3. pc' \notin Peeking \cup {"copy"} BY <1>15, <2>2 DEF CopyEnds, SendErr, Peeking
  <2>4. /\ copier'[d] \in {"send", "done"}
        /\ \A e \in Directions \ {d} : copier'[e] = copier[e]
    BY <1>15 DEF CopyEnds, SendErr, TypeOK
  <2>5. UNCHANGED <<taken, buf, delivered>> BY <1>15 DEF CopyEnds, SendErr
  <2>q. QED BY <2>3, <2>4, <2>5 DEF Carried, InOrder, Upto
<1>16. CASE Panic
  <2>1. \A d \in Directions : copier'[d] = "none" BY <1>16 DEF Panic
  <2>2. pc' = "dead" /\ UNCHANGED delivered BY <1>16 DEF Panic
  <2>q. QED BY <2>1, <2>2 DEF Carried, InOrder, Upto, Peeking
<1>17. CASE UNCHANGED vars BY <1>17 DEF vars, Carried, InOrder, Upto
<1>q. QED
  BY <1>1, <1>2, <1>3, <1>4, <1>5, <1>6, <1>7, <1>8, <1>9, <1>10, <1>11, <1>12, <1>13, <1>14,
     <1>15, <1>16, <1>17 DEF Next, Handle, Copy

-----------------------------------------------------------------------------
(* Why a tunnel ends.  The sockets are open and no deadline is set while     *)
(* handle waits; a goroutine has stopped copying, has sent its error or has  *)
(* made handle return only after a peer has reset its connection, or has     *)
(* closed its side and all it had sent was delivered.                        *)
Ended ==
    \E d \in Directions : end[d] = "reset" \/ (end[d] = "fin" /\ Upto(d) = sent[d])

Waiting == {"started", "wait"}

Tunnel ==
    /\ copier["up"] = "none" <=> copier["down"] = "none"
    /\ pc \in Peeking \cup {"copy"} => copier["up"] = "none"
    /\ copier["up"] # "none" => deadline = "none" /\ pc \in Waiting \cup {"close", "returned"}
    /\ pc \in Peeking \cup {"copy"} \cup Waiting => \A d \in Directions : sock[d] # "closed"
    /\ copier["up"] # "none" /\ pc \notin Waiting => Ended
    /\ \A d \in Directions : copier[d] \in {"send", "done"} => Ended
    /\ errc > 0 => Ended
    /\ copier["up"] = "none" => errc = 0

LEMMA InitTunnel == Init => Tunnel
BY DEF Init, Tunnel, Directions, Peeking, Waiting

(* What handle does before the copying starts. *)
LEMMA PeekTunnel ==
    ASSUME Tunnel, pc \in Peeking \cup {"copy"}, pc' \in Peeking \cup {"copy", "close"},
           \A d \in Directions : sock'[d] # "closed",
           UNCHANGED <<copier, end, errc>>
    PROVE  Tunnel'
BY DEF Tunnel, Peeking, Waiting, Directions

LEMMA NextTunnel == TypeOK /\ Carried /\ Carried' /\ Tunnel /\ [Next]_vars => Tunnel'
<1> SUFFICES ASSUME TypeOK, Carried, Carried', Tunnel, [Next]_vars PROVE Tunnel' OBVIOUS
<1>1. CASE SetDeadline \/ ReadFullFails \/ DialFails \/ ForwardFails \/ Forward
  <2>1. /\ pc \in Peeking \cup {"copy"} /\ pc' \in Peeking \cup {"copy", "close"}
        /\ UNCHANGED <<copier, end, errc, sock>>
    BY <1>1 DEF SetDeadline, ReadFullFails, DialFails, ForwardFails, Forward, Peeking
  <2>q. QED BY <2>1, PeekTunnel DEF Tunnel
<1>2. CASE ReadFirst \/ extractSNI \/ HttpRead \/ HttpReadFails
  <2>1. req.kind \in {"tls", "http"} BY ProxyAssumption DEF TypeOK, Request
  <2>2. /\ pc \in Peeking \cup {"copy"} /\ pc' \in Peeking \cup {"copy", "close"}
        /\ UNCHANGED <<copier, end, errc, sock>>
    BY <1>2, <2>1 DEF ReadFirst, extractSNI, Peek, HttpRead, HttpReadFails, HttpTarget, Peeking
  <2>q. QED BY <2>2, PeekTunnel DEF Tunnel
<1>3. CASE Dial
  <2>1. \A d \in Directions : sock'[d] # "closed" BY <1>3 DEF Dial, Tunnel, TypeOK, Peeking
  <2>q. QED BY <1>3, <2>1, PeekTunnel DEF Dial, Peeking
<1>4. CASE StartCopy
  <2>1. \A d \in Directions : copier'[d] = "read" BY <1>4 DEF StartCopy
  <2>q. QED BY <1>4, <2>1 DEF StartCopy, Tunnel, Peeking, Waiting, Directions
<1>5. CASE Receive
  <2>1. Ended => Ended' BY <1>5 DEF Receive, Ended, Upto
  <2>q. QED BY <1>5, <2>1 DEF Receive, Tunnel, TypeOK, Peeking, Waiting, Directions
<1>6. CASE CloseUpstream \/ CloseConn
  <2>1. Ended => Ended' BY <1>6 DEF CloseUpstream, CloseConn, Ended, Upto
  <2>q. QED BY <1>6, <2>1 DEF CloseUpstream, CloseConn, Tunnel, Peeking, Waiting, Directions
<1>7. CASE Expire
  <2>1. Ended => Ended' BY <1>7 DEF Expire, Ended, Upto
  <2>q. QED BY <1>7, <2>1 DEF Expire, Tunnel
<1>8. ASSUME NEW d \in Directions, Send(d) \/ Finish(d) PROVE Tunnel'
  <2>1. Ended => Ended' BY <1>8 DEF Send, Finish, Ended, Upto, TypeOK
  <2>2. UNCHANGED <<pc, copier, errc, deadline, sock>> BY <1>8 DEF Send, Finish
  <2>q. QED BY <2>1, <2>2 DEF Tunnel
<1>9. ASSUME NEW d \in Directions, CopyRead(d) \/ CopyWrite(d) PROVE Tunnel'
  <2>1. /\ copier[d] # "none" /\ copier'[d] \in {"read", "write"}
        /\ \A e \in Directions \ {d} : copier'[e] = copier[e]
    BY <1>9 DEF CopyRead, CopyWrite, TypeOK
  <2>2. UNCHANGED <<pc, end, errc, deadline, sock, sent>> BY <1>9 DEF CopyRead, CopyWrite, Copying
  <2>3. \A e \in Directions : Upto(e) \in Nat /\ taken[e] <= sent[e] /\ sent[e] \in Nat /\ taken[e] \in Nat
    BY DEF TypeOK, Upto, Bytes
  <2>4. \A e \in Directions : Upto(e) = sent[e] => Upto(e)' = sent[e]
    <3>1. \A e \in Directions \ {d} : Upto(e)' = Upto(e)
      BY <1>9 DEF CopyRead, CopyWrite, Upto, TypeOK
    <3>2. Upto(d) = sent[d] => Upto(d)' = sent[d]
      <4>1. CASE CopyRead(d)
        <5>1. delivered' = delivered BY <4>1 DEF CopyRead
        <5>q. QED BY <5>1 DEF Upto
      <4>2. CASE CopyWrite(d)
        <5>1. copier[d] = "write" /\ copier'[d] = "read" /\ taken' = taken
          BY <4>2 DEF CopyWrite, TypeOK
        <5>2. Upto(d) <= taken[d] BY <5>1 DEF Carried
        <5>3. Upto(d)' = taken[d] BY <5>1 DEF Carried
        <5>q. QED BY <2>3, <5>2, <5>3
      <4>q. QED BY <1>9, <4>1, <4>2
    <3>q. QED BY <3>1, <3>2
  <2>5. Ended => Ended' BY <2>2, <2>4 DEF Ended
  <2>q. QED BY <2>1, <2>2, <2>5 DEF Tunnel, Directions
<1>10. ASSUME NEW d \in Directions, CopyEnds(d) PROVE Tunnel'
  <2>1. /\ copier[d] # "none" /\ copier'[d] = "send"
        /\ \A e \in Directions \ {d} : copier'[e] = copier[e]
    BY <1>10 DEF CopyEnds, TypeOK
  <2>2. UNCHANGED <<pc, errc, deadline, sock>> /\ (Ended => Ended')
    BY <1>10 DEF CopyEnds, Copying, Ended, Upto
  <2>3. copier["up"] # "none" /\ deadline = "none" /\ (pc \notin Waiting => Ended)
    BY <2>1 DEF Tunnel, Directions
  <2>4. pc \in Waiting => \A e \in Directions : sock[e] # "closed" BY DEF Tunnel
  <2>5. CASE pc \notin Waiting BY <2>1, <2>2, <2>3, <2>5 DEF Tunnel, Directions
  <2>6. CASE pc \in Waiting
    <3>1. (copier[d] = "read" /\ AtEOF(d)) \/ \E e \in Directions : Broken(e)
      BY <1>10 DEF CopyEnds, Other, Directions
    <3>2. Ended
      <4>1. CASE copier[d] = "read" /\ AtEOF(d)
        BY <4>1 DEF Carried, AtEOF, Ended
      <4>2. CASE \E e \in Directions : Broken(e)
        BY <2>3, <2>4, <2>6, <4>2 DEF Broken, Expired, Ended
      <4>q. QED BY <3>1, <4>1, <4>2
    <3>q. QED BY <2>1, <2>2, <3>2 DEF Tunnel, Directions
  <2>q. QED BY <2>5, <2>6
<1>11. ASSUME NEW d \in Directions, SendErr(d) PROVE Tunnel'
  <2>1. /\ copier[d] = "send" /\ copier'[d] = "done"
        /\ \A e \in Directions \ {d} : copier'[e] = copier[e]
    BY <1>11 DEF SendErr, TypeOK
  <2>2. Ended BY <2>1 DEF Tunnel
  <2>3. UNCHANGED <<deadline, sock>> /\ pc' \in {pc, "close"} /\ (pc' = pc \/ pc = "wait")
    BY <1>11 DEF SendErr, Copying
  <2>4. Ended' BY <1>11, <2>2 DEF SendErr, Copying, Ended, Upto
  <2>q. QED BY <2>1, <2>3, <2>4 DEF Tunnel, Directions, Peeking, Waiting
<1>12. CASE Panic
  <2>1. copier'["up"] = "none" /\ copier'["down"] = "none" /\ errc' = 0 /\ pc' = "dead"
    BY <1>12 DEF Panic, Directions
  <2>q. QED BY <2>1 DEF Tunnel, Peeking, Waiting, Directions
<1>13. CASE UNCHANGED vars BY <1>13 DEF vars, Tunnel, Ended, Upto
<1>q. QED
  BY <1>1, <1>2, <1>3, <1>4, <1>5, <1>6, <1>7, <1>8, <1>9, <1>10, <1>11, <1>12, <1>13
  DEF Next, Handle, Copy

-----------------------------------------------------------------------------
(* handle, its sockets, goroutines and channel keep their types; nothing is  *)
(* read that was not sent.                                                   *)
THEOREM ProxyTypeCorrect == Spec => []TypeOK
BY InitTypeOK, NextTypeOK, PTL DEF Spec

(* Both directions deliver the beginning of what was sent, byte for byte,    *)
(* for requests and answers of any length.                                   *)
THEOREM ProxyInOrder == Spec => []InOrder
<1>1. Spec => [](TypeOK /\ Carried)
  BY InitTypeOK, NextTypeOK, InitCarried, NextCarried, PTL DEF Spec
<1>2. Carried => InOrder BY DEF Carried
<1>q. QED BY <1>1, <1>2, PTL

LEMMA TunnelAlways == Spec => [](TypeOK /\ Tunnel)
<1>1. Spec => [](TypeOK /\ Carried)
  BY InitTypeOK, NextTypeOK, InitCarried, NextCarried, PTL DEF Spec
<1>q. QED BY <1>1, InitTunnel, NextTunnel, PTL DEF Spec

(* handle gives a tunnel up only after one of the peers has ended its side. *)
THEOREM ProxyEndsByPeer == Spec => []EndsByPeer
<1>1. Tunnel => EndsByPeer BY DEF Tunnel, Ended, EndsByPeer, Waiting
<1>q. QED BY <1>1, TunnelAlways, PTL

(* An ended tunnel has delivered all that one of the peers sent, unless one  *)
(* of them reset its connection.                                             *)
THEOREM ProxyClosingSide == Spec => []ClosingSideDelivered
<1>1. Tunnel => ClosingSideDelivered BY DEF Tunnel, Ended, Upto, ClosingSideDelivered, Waiting
<1>q. QED BY <1>1, TunnelAlways, PTL

-----------------------------------------------------------------------------
(* A Host header that is cut off ends behind the bytes read, so that the     *)
(* buffer does not hold the empty line: the loop has ended for another       *)
(* reason.                                                                   *)
LEMMA CutTarget ==
    ASSUME TypeOK, NEW n \in Nat, HttpTarget(n), target'.host = "cut"
    PROVE  n < req.head
<1>1. /\ req \in Request /\ req.host <= req.head /\ req.host \in Nat /\ req.head \in Nat
  BY ProxyAssumption DEF TypeOK, Request
<1>2. HostIn(req, n) = "cut"
  <2>1. HostIn(req, n) \in {"none", "cut", "whole"} BY HostInType
  <2>q. QED BY <2>1 DEF HttpTarget, Target, NoTarget
<1>3. n < req.host BY <1>2 DEF HostIn
<1>q. QED BY <1>1, <1>3

LEMMA NextCut == TypeOK /\ Carried /\ Carried' /\ Tunnel /\ CutOnlyAtTheEnd /\ [Next]_vars => CutOnlyAtTheEnd'
<1> SUFFICES ASSUME TypeOK, Carried, Carried', Tunnel, CutOnlyAtTheEnd, [Next]_vars,
                    pc' = "dial", target'.host = "cut"
             PROVE  end'["up"] # "open" \/ deadline' = "expired" \/ Len(peeked') >= httpMaxHeaderBuf
  BY DEF CutOnlyAtTheEnd
<1>0. req.kind \in {"tls", "http"} /\ taken["up"] \in Nat
  BY ProxyAssumption DEF TypeOK, Request, Directions
<1>1. CASE SetDeadline \/ ReadFirst \/ ReadFullFails \/ Dial \/ DialFails \/ Forward \/ ForwardFails
           \/ StartCopy \/ Receive \/ CloseUpstream \/ CloseConn
  \* None of these goes on to dial.
  BY <1>0, <1>1 DEF SetDeadline, ReadFirst, Peek, ReadFullFails, Dial, DialFails, Forward,
                   ForwardFails, StartCopy, Receive, CloseUpstream, CloseConn
<1>2. CASE extractSNI
  \* A name that extractSNI finds is whole.
  BY <1>2 DEF extractSNI, Peek, Target
<1>3. CASE HttpRead
  <2>1. PICK n \in 1..httpReadBufSize :
          /\ taken' = [taken EXCEPT !["up"] = @ + n]
          /\ IF HttpEnds(taken["up"] + n) THEN HttpTarget(taken["up"] + n)
                                          ELSE UNCHANGED <<pc, target>>
    BY <1>3 DEF HttpRead
  <2>2. taken["up"] + n \in Nat BY <1>0, ProxyAssumption
  <2>3. pc = "http" BY <1>3 DEF HttpRead
  <2>4. HttpEnds(taken["up"] + n) /\ HttpTarget(taken["up"] + n) BY <2>1, <2>3
  <2>5. taken["up"] + n < req.head BY <2>2, <2>4, CutTarget
  <2>6. req.head \in Nat BY ProxyAssumption DEF TypeOK, Request
  <2>7. taken["up"] + n >= httpMaxHeaderBuf BY <2>2, <2>4, <2>5, <2>6 DEF HttpEnds
  <2>8. taken'["up"] = taken["up"] + n BY <2>1 DEF TypeOK, Directions
  <2>9. peeked' = Stream(0, taken["up"] + n) BY <2>8 DEF Carried, Peeking
  <2>10. Len(peeked') = taken["up"] + n BY <2>2, <2>9, FromStart
  <2>q. QED BY <2>7, <2>10
<1>4. CASE HttpReadFails
  <2>1. pc = "http" /\ (AtEOF("up") \/ Broken("up")) /\ UNCHANGED <<end, deadline>>
    BY <1>4 DEF HttpReadFails
  <2>2. sock["up"] # "closed" BY <2>1 DEF Tunnel, Peeking, Directions
  <2>q. QED BY <2>1, <2>2 DEF AtEOF, Broken, Expired
<1>5. CASE Expire \/ Panic BY <1>5 DEF Expire, Panic
<1>6. ASSUME NEW d \in Directions, Send(d) \/ Finish(d)
      PROVE  end'["up"] # "open" \/ deadline' = "expired" \/ Len(peeked') >= httpMaxHeaderBuf
  <2>1. UNCHANGED <<pc, target, deadline, peeked>> BY <1>6 DEF Send, Finish
  <2>2. end["up"] # "open" => end'["up"] # "open" BY <1>6 DEF Send, Finish, TypeOK, Directions
  <2>q. QED BY <2>1, <2>2 DEF CutOnlyAtTheEnd
<1>7. ASSUME NEW d \in Directions, Copy(d) \/ CopyWrite(d)
      PROVE  end'["up"] # "open" \/ deadline' = "expired" \/ Len(peeked') >= httpMaxHeaderBuf
  <2>1. UNCHANGED <<target, deadline, peeked, end>> /\ (pc' = "dial" => pc = "dial")
    BY <1>7 DEF Copy, CopyRead, CopyWrite, CopyEnds, SendErr, Copying
  <2>q. QED BY <2>1 DEF CutOnlyAtTheEnd
<1>8. CASE UNCHANGED vars BY <1>8 DEF vars, CutOnlyAtTheEnd
<1>q. QED
  BY <1>1, <1>2, <1>3, <1>4, <1>5, <1>6, <1>7, <1>8 DEF Next, Handle

(* A target is taken from a Host header that is cut off only when the client *)
(* has ended, its time is up or the buffer is full, for requests of any      *)
(* length in any segments.                                                   *)
THEOREM ProxyCutAtTheEnd == Spec => []CutOnlyAtTheEnd
<1>1. Spec => [](TypeOK /\ Carried /\ Tunnel)
  BY InitTypeOK, NextTypeOK, InitCarried, NextCarried, InitTunnel, NextTunnel, PTL DEF Spec
<1>2. Init => CutOnlyAtTheEnd BY DEF Init, CutOnlyAtTheEnd
<1>q. QED BY <1>1, <1>2, NextCut, PTL DEF Spec
-----------------------------------------------------------------------------
(* Nobody waits for ever.  errc holds no more values than goroutines have    *)
(* ended, exactly as many until handle takes one, and handle waits only      *)
(* while none has ended.  A socket exists once it is read or written,        *)
(* and handle does not return before both sockets are closed.                *)
Result(d) == IF copier[d] = "done" THEN 1 ELSE 0
Results   == Result("up") + Result("down")

Channel ==
    /\ errc <= Results
    /\ pc = "started" => errc = Results
    /\ pc = "wait" => Results = 0

Sockets ==
    /\ sock["up"] # "none"
    /\ pc \in {"forward", "copy"} => sock["down"] # "none"
    /\ copier["up"] # "none" => sock["down"] # "none"
    /\ pc = "returned" => \A d \in Directions : sock[d] # "open"

(* The goroutines and what they wait for: handle waits for errc only while   *)
(* both of them can still send to it; a send finds handle waiting or room in *)
(* the channel; and when handle has returned, every read and every write of  *)
(* a goroutine fails.                                                        *)
NeverStuck ==
    /\ pc = "wait" => \A d \in Directions : copier[d] # "done"
    /\ \A d \in Directions : copier[d] = "send" => pc = "wait" \/ errc < ErrcCap
    /\ pc = "returned" =>
          \A d \in Directions : /\ copier[d] = "read" => Broken(d)
                                /\ copier[d] = "write" => Broken(Other(d))

(* What a step may do once handle has returned, while the process lives:     *)
(* nothing is delivered any more, and a goroutine goes on only towards its   *)
(* end.                                                                      *)
WindsUp ==
    pc = "returned" /\ pc' # "dead" =>
        /\ UNCHANGED <<pc, delivered, sock>>
        /\ \A d \in Directions :
              copier'[d] # copier[d] => \/ copier[d] \in {"read", "write"} /\ copier'[d] = "send"
                                        \/ copier[d] = "send" /\ copier'[d] = "done"

LEMMA ResultsType == TypeOK => errc \in Nat /\ \A d \in Directions : Result(d) \in {0, 1}
BY DEF TypeOK, Result

LEMMA InitStuck == Init => Channel /\ Sockets
BY DEF Init, Channel, Sockets, Results, Result, Directions

LEMMA NextChannel == TypeOK /\ Tunnel /\ Channel /\ [Next]_vars => Channel'
<1> SUFFICES ASSUME TypeOK, Tunnel, Channel, [Next]_vars PROVE Channel' OBVIOUS
<1>0. errc \in Nat /\ \A d \in Directions : Result(d) \in {0, 1} BY ResultsType
<1>1. CASE StartCopy
  <2>1. errc = 0 BY <1>1 DEF StartCopy, Tunnel, Peeking
  <2>2. errc' = 0 /\ pc' = "started" /\ Results' = 0
    BY <1>1, <2>1 DEF StartCopy, Results, Result, Directions
  <2>q. QED BY <2>2 DEF Channel
<1>2. CASE Receive
  <2>1. Results' = Results /\ pc = "started" BY <1>2 DEF Receive, Results, Result
  <2>2. errc = Results BY <2>1 DEF Channel
  <2>3. \/ pc' = "close" /\ errc' = errc - 1
        \/ pc' = "wait" /\ errc' = errc /\ errc = 0
    BY <1>0, <1>2 DEF Receive
  <2>q. QED BY <1>0, <2>1, <2>2, <2>3 DEF Channel
<1>3. ASSUME NEW d \in Directions, SendErr(d) PROVE Channel'
  <2>1. Results' = Results + 1
    BY <1>3 DEF SendErr, Results, Result, Directions, TypeOK
  <2>2. \/ pc = "wait" /\ pc' = "close" /\ errc' = errc
        \/ pc # "wait" /\ pc' = pc /\ errc' = errc + 1
    BY <1>3 DEF SendErr
  <2>3. Results \in Nat BY <1>0 DEF Results, Directions
  <2>q. QED BY <1>0, <2>1, <2>2, <2>3 DEF Channel
<1>4. ASSUME NEW d \in Directions, CopyRead(d) \/ CopyWrite(d) \/ CopyEnds(d) PROVE Channel'
  <2>1. Results' = Results BY <1>4 DEF CopyRead, CopyWrite, CopyEnds, Results, Result, Directions, TypeOK
  <2>2. UNCHANGED <<pc, errc>> BY <1>4 DEF CopyRead, CopyWrite, CopyEnds
  <2>q. QED BY <2>1, <2>2 DEF Channel
<1>5. CASE SetDeadline \/ ReadFirst \/ extractSNI \/ ReadFullFails \/ HttpRead \/ HttpReadFails
           \/ Dial \/ DialFails \/ Forward \/ ForwardFails \/ CloseUpstream \/ CloseConn
  <2>1. UNCHANGED <<copier, errc>>
    BY <1>5 DEF SetDeadline, ReadFirst, extractSNI, Peek, ReadFullFails, HttpRead, HttpReadFails,
                Dial, DialFails, Forward, ForwardFails, CloseUpstream, CloseConn
  <2>2. pc' \notin {"started", "wait"}
    <3>1. CASE HttpRead
      <4>1. pc = "http" /\ (UNCHANGED pc \/ \E n : HttpTarget(n)) BY <3>1 DEF HttpRead
      <4>q. QED BY <4>1 DEF HttpTarget
    <3>2. CASE ReadFirst BY <3>2, ProxyAssumption DEF ReadFirst, Peek, TypeOK, Request
    <3>q. QED
      BY <1>5, <3>1, <3>2 DEF SetDeadline, extractSNI, Peek, ReadFullFails, HttpReadFails,
           HttpTarget, Dial, DialFails, Forward, ForwardFails, CloseUpstream, CloseConn
  <2>q. QED BY <2>1, <2>2 DEF Channel, Results, Result
<1>6. CASE Expire \/ (\E d \in Directions : Send(d) \/ Finish(d)) \/ UNCHANGED vars
  <2>1. UNCHANGED <<pc, copier, errc>> BY <1>6 DEF Expire, Send, Finish, vars
  <2>q. QED BY <2>1 DEF Channel, Results, Result
<1>7. CASE Panic
  <2>1. errc' = 0 /\ pc' = "dead" /\ Results' = 0 BY <1>7 DEF Panic, Results, Result, Directions
  <2>q. QED BY <2>1 DEF Channel
<1>q. QED BY <1>1, <1>2, <1>3, <1>4, <1>5, <1>6, <1>7 DEF Next, Handle, Copy

LEMMA NextSockets == TypeOK /\ Tunnel /\ Sockets /\ [Next]_vars => Sockets'
<1> SUFFICES ASSUME TypeOK, Tunnel, Sockets, [Next]_vars PROVE Sockets' OBVIOUS
<1>1. CASE SetDeadline \/ ReadFirst \/ extractSNI \/ ReadFullFails \/ HttpRead \/ HttpReadFails
           \/ DialFails \/ ForwardFails \/ Receive
  <2>1. UNCHANGED <<copier, sock>>
    BY <1>1 DEF SetDeadline, ReadFirst, extractSNI, Peek, ReadFullFails, HttpRead, HttpReadFails,
                DialFails, ForwardFails, Receive
  <2>2. pc' \notin {"forward", "copy", "returned"}
    <3>1. CASE HttpRead
      <4>1. pc = "http" /\ (UNCHANGED pc \/ \E n : HttpTarget(n)) BY <3>1 DEF HttpRead
      <4>q. QED BY <4>1 DEF HttpTarget
    <3>2. CASE ReadFirst BY <3>2, ProxyAssumption DEF ReadFirst, Peek, TypeOK, Request
    <3>q. QED
      BY <1>1, <3>1, <3>2 DEF SetDeadline, extractSNI, Peek, ReadFullFails, HttpReadFails,
           HttpTarget, DialFails, ForwardFails, Receive
  <2>q. QED BY <2>1, <2>2 DEF Sockets
<1>2. CASE Dial BY <1>2 DEF Dial, Sockets, TypeOK, Directions
<1>3. CASE Forward BY <1>3 DEF Forward, Sockets
<1>4. CASE StartCopy BY <1>4 DEF StartCopy, Sockets
<1>5. CASE CloseUpstream \/ CloseConn
  <2>1. CASE sock["down"] = "open" BY <1>5, <2>1 DEF CloseUpstream, CloseConn, Sockets, TypeOK, Directions
  <2>2. CASE sock["down"] # "open" BY <1>5, <2>2 DEF CloseUpstream, CloseConn, Sockets, TypeOK, Directions
  <2>q. QED BY <2>1, <2>2
<1>6. ASSUME NEW d \in Directions, Copy(d) \/ CopyWrite(d) PROVE Sockets'
  <2>1. UNCHANGED sock /\ copier["up"] # "none"
    BY <1>6 DEF Copy, CopyRead, CopyWrite, CopyEnds, SendErr, Copying, Tunnel, Directions
  <2>2. pc' = pc \/ pc' = "close"
    BY <1>6 DEF Copy, CopyRead, CopyWrite, CopyEnds, SendErr
  <2>q. QED BY <2>1, <2>2 DEF Sockets
<1>7. CASE Expire \/ (\E d \in Directions : Send(d) \/ Finish(d)) \/ UNCHANGED vars
  <2>1. UNCHANGED <<pc, copier, sock>> BY <1>7 DEF Expire, Send, Finish, vars
  <2>q. QED BY <2>1 DEF Sockets
<1>8. CASE Panic BY <1>8 DEF Panic, Sockets, Directions
<1>q. QED BY <1>1, <1>2, <1>3, <1>4, <1>5, <1>6, <1>7, <1>8 DEF Next, Handle

LEMMA StuckAlways == Spec => [](TypeOK /\ Tunnel /\ Channel /\ Sockets)
BY TunnelAlways, InitStuck, NextChannel, NextSockets, PTL DEF Spec

(* The channel of two values and the closed sockets are enough for requests, *)
(* answers and interleavings of any kind: handle does not wait for a value   *)
(* that nobody will send, no goroutine is held by its send, and none by a    *)
(* socket once handle has returned.                                          *)
THEOREM ProxyNeverStuck == Spec => []NeverStuck
<1>1. TypeOK /\ Tunnel /\ Channel /\ Sockets => NeverStuck
  <2> SUFFICES ASSUME TypeOK, Tunnel, Channel, Sockets PROVE NeverStuck OBVIOUS
  <2>0. errc \in Nat /\ \A d \in Directions : Result(d) \in {0, 1} BY ResultsType
  <2>1. ASSUME pc = "wait", NEW d \in Directions PROVE copier[d] # "done"
    <3>1. Result("up") + Result("down") = 0 BY <2>1 DEF Channel, Results
    <3>2. Result(d) = 0 BY <2>0, <3>1 DEF Directions
    <3>q. QED BY <3>2 DEF Result
  <2>2. ASSUME NEW d \in Directions, copier[d] = "send" PROVE errc < ErrcCap
    <3>1. Result(d) = 0 BY <2>2 DEF Result
    <3>2. errc <= Result("up") + Result("down") BY DEF Channel, Results
    <3>q. QED BY <2>0, <3>1, <3>2 DEF Directions, ErrcCap
  <2>3. ASSUME pc = "returned", NEW d \in Directions, copier[d] # "none"
        PROVE  Broken(d) /\ Broken(Other(d))
    <3>1. sock["down"] # "none" BY <2>3 DEF Tunnel, Sockets, Directions
    <3>2. sock["down"] = "closed" BY <2>3, <3>1 DEF Sockets, TypeOK, Directions
    <3>3. sock["up"] = "closed" BY <2>3 DEF Sockets, TypeOK, Directions
    <3>q. QED BY <3>2, <3>3 DEF Broken, Other, Directions
  <2>q. QED BY <2>1, <2>2, <2>3 DEF NeverStuck
<1>q. QED BY <1>1, StuckAlways, PTL

(* Once handle has returned nothing more is delivered, and every step of a   *)
(* goroutine is one towards its end.  With ProxyNeverStuck and fair          *)
(* scheduling this is why NoGoroutineLeft holds.                             *)
THEOREM ProxyWindsUp == Spec => [][WindsUp]_vars
<1>1. TypeOK /\ Tunnel /\ Channel /\ Sockets /\ [Next]_vars => WindsUp
  <2> SUFFICES ASSUME TypeOK, Tunnel, Sockets, [Next]_vars, pc = "returned", pc' # "dead"
               PROVE  /\ UNCHANGED <<pc, delivered, sock>>
                      /\ \A d \in Directions :
                            copier'[d] # copier[d] =>
                               \/ copier[d] \in {"read", "write"} /\ copier'[d] = "send"
                               \/ copier[d] = "send" /\ copier'[d] = "done"
    BY DEF WindsUp
  <2>1. ~ Handle /\ ~ Forward /\ ~ Panic
    BY ProxyAssumption
    DEF Handle, SetDeadline, ReadFirst, extractSNI, ReadFullFails, HttpRead, HttpReadFails, Dial,
        DialFails, Forward, ForwardFails, StartCopy, Receive, CloseUpstream, CloseConn, Panic
  <2>2. ASSUME NEW d \in Directions PROVE ~ CopyRead(d) /\ ~ CopyWrite(d)
    <3>1. sock[d] # "open" /\ sock[Other(d)] # "open" BY DEF Sockets, Other, Directions
    <3>q. QED BY <3>1 DEF CopyRead, CanRead, CopyWrite, CanWrite
  <2>3. CASE \E d \in Directions : CopyEnds(d) \/ SendErr(d)
    <3>1. PICK e \in Directions : CopyEnds(e) \/ SendErr(e) BY <2>3
    <3>2. UNCHANGED <<pc, delivered, sock>> BY <3>1 DEF CopyEnds, SendErr, Copying
    <3>3. \A d \in Directions \ {e} : copier'[d] = copier[d]
      BY <3>1 DEF CopyEnds, SendErr, TypeOK
    <3>4. \/ copier[e] \in {"read", "write"} /\ copier'[e] = "send"
          \/ copier[e] = "send" /\ copier'[e] = "done"
      BY <3>1 DEF CopyEnds, SendErr, TypeOK
    <3>q. QED BY <3>2, <3>3, <3>4
  <2>4. CASE Expire \/ (\E d \in Directions : Send(d) \/ Finish(d)) \/ UNCHANGED vars
    BY <2>4 DEF Expire, Send, Finish, vars
  <2>q. QED BY <2>1, <2>2, <2>3, <2>4 DEF Next, Copy
<1>q. QED BY <1>1, StuckAlways, PTL DEF Spec
=============================================================================
