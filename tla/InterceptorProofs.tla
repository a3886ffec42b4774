------------------------- MODULE InterceptorProofs -------------------------
(***************************************************************************)
(* What the composed agent never does, for any packets, messages, threads, *)
(* names, addresses and sizes of the map and of the ring buffers: divert a *)
(* connection that is none of its business, or divert one to a wrong       *)
(* place.  The invariants of the components are taken over from their own  *)
(* proofs: a step of the composition is a step of each component or leaves *)
(* it alone.                                                               *)
(***************************************************************************)
EXTENDS Interceptor, TcDnsObserverProofs, DnsServiceProofs

(* The address was resolved through an AI domain by a delivered message. *)
Known(ip4) == \E h \in Names : ResolvedBefore(h, ip4)

(* And it was filed under that domain, with this hostname field. *)
KnownAs(host, ip4) == \E h \in Names : host = Hostname64[h] /\ ResolvedBefore(h, ip4)

(* The answer section at hand is that of a delivered message, or begins it.  *)
Begins(a, full) ==
    /\ Len(a) <= Len(full)
    /\ \A i \in 1..Len(a) : a[i] = full[i]
AnswerDelivered ==
    answer # <<>> => \E m \in delivered : Begins(answer, Contents[m].answer)

(* Every entry of the map belongs to a known address, with a hostname it was *)
(* resolved from.                                                            *)
MapKnown ==
    \A s \in Slots : aiDest[s].st = "linked" =>
        \E ip4 \in IPv4 : aiDest[s].key = NativeUint32(ip4) /\ KnownAs(aiDest[s].host, ip4)

(* So does every run of the connect hook beyond its lookup, with the         *)
(* hostname that stood in the element at the lookup.                         *)
CallType  == call \in [Threads -> Call \cup {NoCall}] /\ connects \in Nat
CallKnown == \A t \in Threads : call[t] # NoCall => KnownAs(call[t].seen, call[t].dst.ip)

DeliveredType == delivered \subseteq Messages

IInv ==
    /\ TcIInv
    /\ svcIInv
    /\ DeliveredType
    /\ AnswerDelivered
    /\ MapKnown
    /\ CallType
    /\ CallKnown
    /\ OnlyAIRedirected
    /\ LandsRight

-----------------------------------------------------------------------------
(* What part of an answer section shows, the whole shows too. *)
LEMMA LeadsMore ==
    ASSUME NEW a \in Seq(RR), NEW full \in Seq(RR), Begins(a, full), NEW h, NEW n,
           Leads(a, h, n)
    PROVE  Leads(full, h, n)
<1> SUFFICES ASSUME NEW S \in SUBSET Names, h \in S,
                    \A i \in 1..Len(full) :
                        IsCNAME(full[i]) /\ full[i].name \in S => full[i].target \in S
             PROVE  n \in S
  BY DEF Leads
<1>1. \A i \in 1..Len(a) : i \in 1..Len(full) /\ a[i] = full[i]
  BY DEF Begins
<1>2. \A i \in 1..Len(a) : IsCNAME(a[i]) /\ a[i].name \in S => a[i].target \in S
  BY <1>1
<1>3. QED
  BY <1>2 DEF Leads

(* So an address resolved by the records that were unpacked is resolved by the message. *)
LEMMA ResolvesMore ==
    ASSUME NEW a \in Seq(RR), NEW full \in Seq(RR), Begins(a, full), NEW h, NEW ip4,
           ResolvesTo(a, h, ip4)
    PROVE  ResolvesTo(full, h, ip4)
<1>1. PICK k \in 1..Len(a) : a[k].type = "A" /\ a[k].ip = ip4 /\ Leads(a, h, a[k].name)
  BY DEF ResolvesTo
<1>2. k \in 1..Len(full) /\ full[k] = a[k]
  BY DEF Begins
<1>3. Leads(full, h, full[k].name)
  BY <1>1, <1>2, LeadsMore
<1>4. QED
  BY <1>1, <1>2, <1>3 DEF ResolvesTo

(* What Unpack returns begins the message it was given. *)
LEMMA UnpackBegins ==
    ASSUME NEW ev, ev.from.dns.msg \in Messages, NEW a \in Unpack(ev)
    PROVE  a \in Seq(RR) /\ Begins(a, Contents[ev.from.dns.msg].answer)
<1> DEFINE full == Contents[ev.from.dns.msg].answer
<1>1. full \in Seq(RR)
  BY ContentsAssumption
<1> HIDE DEF full
<1>2. CASE a = full
  BY <1>1, <1>2 DEF Begins, full
<1>3. ASSUME NEW n \in 0..Len(full), a = SubSeq(full, 1, n)
      PROVE  a \in Seq(RR) /\ Begins(a, full)
  <2>1. a \in Seq(RR) /\ Len(a) = n /\ \A i \in 1..n : a[i] = full[i]
    BY <1>1, <1>3
  <2>2. QED
    BY <1>1, <2>1 DEF Begins
<1>4. QED
  BY <1>2, <1>3 DEF Unpack, full

(* A readable record holds an event of a message. *)
LEMMA ReadableMessage ==
    ASSUME TcIInv, Readable(dnsEvents)
    PROVE  Head(dnsEvents).ev.from.dns.msg \in Messages
<1>1. 1 \in 1..Len(dnsEvents) /\ Head(dnsEvents) = dnsEvents[1] /\ dnsEvents[1].st = "ready"
  BY DEF Readable, TcIInv, TcTypeOK
<1>2. PICK skb \in Skb : dnsEvents[1].ev = DnsEvent(skb)
  BY <1>1 DEF TcIInv, ReadyIsChecked
<1>3. skb.dns \in DnsMsg
  BY DEF Skb
<1>4. QED
  BY <1>1, <1>2, <1>3 DEF DnsEvent, DnsMsg

(* Where the hook sends a connection, and where it would have gone. *)
LEMMA PeerOfProxy == Peer(ProxyConfig.ip, ProxyConfig.port) = [ip |-> ProxyIP, port |-> ProxyPort]
BY Connect4Assumption, AddressRoundTrip, PortRoundTrip DEF Peer, ProxyConfig

(* A connection that the hook passes goes where the application asked. *)
LEMMA PeerOfTarget == ASSUME NEW dst \in Targets PROVE Peer(UserIp4(dst), UserPort(dst)) = dst
<1>1. dst \in [ip : IPv4, port : Port]
  BY Connect4Assumption
<1>2. dst.ip \in IPv4 /\ dst.port \in Port /\ dst = [ip |-> dst.ip, port |-> dst.port]
  BY <1>1
<1>3. QED
  BY <1>2, AddressRoundTrip, PortRoundTrip DEF Peer, UserIp4, UserPort

-----------------------------------------------------------------------------
(* The invariant. *)

(* The agent starts with an empty map, empty ring buffers and no call under way. *)
LEMMA InitInv == Init => IInv
<1> SUFFICES ASSUME Init PROVE IInv
  OBVIOUS
<1>1. TcIInv /\ svcIInv
  BY TcInitInv, svcInitInv DEF Init
<1>2. \A s \in Slots : aiDest[s].st = "free"
  BY DEF Init, svcInit, aiDestInit
<1>3. CallType /\ \A t \in Threads : call[t] = NoCall
  BY DEF Init, c4Init, CallType
<1>4. answer = <<>> /\ outcomes = {} /\ delivered = {}
  BY DEF Init, c4Init, svcInit
<1>5. QED
  BY <1>1, <1>2, <1>3, <1>4 DEF IInv, DeliveredType, AnswerDelivered, MapKnown, CallKnown,
     OnlyAIRedirected, LandsRight

(* Messages are only added to the delivered ones, so what is known stays so. *)
LEMMA KnownStays ==
    ASSUME delivered \subseteq delivered', NEW ip4, Known(ip4)
    PROVE  Known(ip4)'
BY DEF Known, ResolvedBefore

(* And so does the domain it is known by. *)
LEMMA KnownAsStays ==
    ASSUME delivered \subseteq delivered', NEW host, NEW ip4, KnownAs(host, ip4)
    PROVE  KnownAs(host, ip4)'
BY DEF KnownAs, ResolvedBefore

(* The part of the invariant about connections survives every step that      *)
(* leaves the connect hook alone.                                            *)
LEMMA ConnectionsStay ==
    ASSUME IInv, delivered \subseteq delivered', UNCHANGED <<call, connects, outcomes>>
    PROVE  CallType' /\ CallKnown' /\ OnlyAIRedirected' /\ LandsRight'
<1>1. CallType' /\ LandsRight'
  BY DEF IInv, CallType, LandsRight
<1>2. CallKnown'
  BY KnownAsStays DEF IInv, CallKnown
<1>3. OnlyAIRedirected'
  <2> SUFFICES ASSUME NEW o \in outcomes, Redirected(o)
               PROVE  (\E h \in Names : ResolvedBefore(h, o.dst.ip))'
    BY DEF OnlyAIRedirected, Redirected
  <2>1. Known(o.dst.ip)
    BY DEF IInv, OnlyAIRedirected, Known
  <2>2. QED
    BY <2>1, KnownStays DEF Known
<1>4. QED
  BY <1>1, <1>2, <1>3

(* The map invariant survives every step that does not write the map. *)
LEMMA MapStays ==
    ASSUME IInv, delivered \subseteq delivered', UNCHANGED aiDest
    PROVE  MapKnown'
BY KnownAsStays DEF IInv, MapKnown

(* The TC program. *)
LEMMA ObserveInv == ASSUME IInv, NEW c \in CPUs, Observe(c) PROVE IInv'
<1>1. TcProgram(c) /\ UNCHANGED <<svcVars, c4Vars, history>>
  BY DEF Observe
<1>2. /\ UNCHANGED svcVars /\ UNCHANGED <<call, connects, outcomes>>
      /\ UNCHANGED <<answer, aiDest>> /\ UNCHANGED delivered
  BY <1>1 DEF svcVars, svcLocal, c4Vars, history
<1>3. TcIInv'
  BY <1>1, TcNextInv DEF TcNext, IInv
<1>4. svcIInv'
  BY <1>2, svcNextInv DEF IInv
<1>5. DeliveredType' /\ AnswerDelivered'
  BY <1>2 DEF IInv, DeliveredType, AnswerDelivered
<1>6. MapKnown'
  BY <1>2, MapStays
<1>7. CallType' /\ CallKnown' /\ OnlyAIRedirected' /\ LandsRight'
  BY <1>2, ConnectionsStay
<1>8. QED
  BY <1>3, <1>4, <1>5, <1>6, <1>7 DEF IInv

(* The reader hands a message to the DNS service. *)
LEMMA ReadInv == ASSUME IInv, ReadDNSEvents PROVE IInv'
<1> DEFINE ev == Head(dnsEvents).ev
<1>1. /\ Readable(dnsEvents) /\ dnsEvents' = Tail(dnsEvents)
      /\ UNCHANGED <<tcSkb, arrived>>
      /\ delivered' = delivered \cup {ev.from.dns.msg}
      /\ UNCHANGED <<call, connects, outcomes>>
      /\ \/ \E a \in Unpack(ev) : ProcessDNSEvent(a)
         \/ ProcessUnpackError
  BY DEF ReadDNSEvents, c4Vars
<1>2. ev.from.dns.msg \in Messages
  BY <1>1, ReadableMessage DEF IInv
<1> HIDE DEF ev
<1>3. UNCHANGED aiDest
  BY <1>1 DEF ProcessDNSEvent, ProcessUnpackError
<1>4. TcIInv'
  BY <1>1, DrainInv DEF Drain, IInv
<1>5. svcIInv' /\ AnswerDelivered'
  <2>1. ASSUME NEW a \in Unpack(ev), ProcessDNSEvent(a) PROVE svcIInv' /\ AnswerDelivered'
    <3>1. a \in Seq(RR) /\ Begins(a, Contents[ev.from.dns.msg].answer)
      BY <1>2, UnpackBegins
    <3>2. svcIInv'
      BY <2>1, <3>1, ProcessInv DEF IInv
    <3>3. answer' = a /\ ev.from.dns.msg \in delivered'
      BY <1>1, <2>1 DEF ProcessDNSEvent
    <3>4. QED
      BY <3>1, <3>2, <3>3 DEF AnswerDelivered
  <2>2. CASE ProcessUnpackError
    <3>1. svcIInv'
      BY <2>2, svcNextInv DEF svcNext, IInv
    <3>2. answer' = answer /\ delivered \subseteq delivered'
      BY <1>1, <2>2 DEF ProcessUnpackError
    <3>3. QED
      BY <3>1, <3>2 DEF AnswerDelivered, IInv
  <2>3. QED
    BY <1>1, <2>1, <2>2
<1>6. DeliveredType'
  BY <1>1, <1>2 DEF IInv, DeliveredType
<1>7. MapKnown'
  BY <1>1, <1>3, MapStays
<1>8. CallType' /\ CallKnown' /\ OnlyAIRedirected' /\ LandsRight'
  BY <1>1, ConnectionsStay
<1>9. QED
  BY <1>4, <1>5, <1>6, <1>7, <1>8 DEF IInv

(* The reader passes over a record. *)
LEMMA SkipInv == ASSUME IInv, SkipDNSEvent PROVE IInv'
<1>1. /\ UNCHANGED svcVars /\ UNCHANGED <<call, connects, outcomes>>
      /\ UNCHANGED <<answer, aiDest>> /\ UNCHANGED delivered
  BY DEF SkipDNSEvent, svcVars, svcLocal, c4Vars, history
<1>2. TcIInv'
  BY DrainInv DEF Drain, SkipDNSEvent, PassedOver, IInv
<1>3. svcIInv'
  BY <1>1, svcNextInv DEF IInv
<1>4. DeliveredType' /\ AnswerDelivered'
  BY <1>1 DEF IInv, DeliveredType, AnswerDelivered
<1>5. MapKnown' /\ CallType' /\ CallKnown' /\ OnlyAIRedirected' /\ LandsRight'
  BY <1>1, MapStays, ConnectionsStay
<1>6. QED
  BY <1>2, <1>3, <1>4, <1>5 DEF IInv

(* An address the DNS service writes is known: the message at hand resolves  *)
(* it through the domain it is filed under.                                  *)
LEMMA WrittenKnown ==
    ASSUME IInv, svcIInv', UNCHANGED <<answer, delivered>>, NEW w \in writes'
    PROVE  w.ip \in IPv4 /\ KnownAs(Hostname64[w.host], w.ip)
<1>1. ResolvesTo(answer, w.host, w.ip) /\ w.ip \in IPv4
  BY DEF svcIInv, SoundWrites, svcTypeOK
<1>2. answer \in Seq(RR) /\ answer # <<>> /\ w.host \in Names
  BY <1>1 DEF IInv, svcIInv, svcTypeOK, ResolvesTo
<1>3. PICK m \in delivered : Begins(answer, Contents[m].answer)
  BY <1>2 DEF IInv, AnswerDelivered
<1>4. Contents[m].answer \in Seq(RR)
  BY ContentsAssumption DEF IInv, DeliveredType
<1>5. ResolvesTo(Contents[m].answer, w.host, w.ip)
  BY <1>1, <1>2, <1>3, <1>4, ResolvesMore
<1>6. QED
  BY <1>1, <1>2, <1>5 DEF KnownAs, ResolvedBefore

(* What is left in the map when elements were evicted was there before. *)
LEMMA UnlinkKeeps ==
    ASSUME IInv, NEW E, NEW x \in Slots, Unlink(E)[x].st = "linked"
    PROVE  aiDest[x].st = "linked" /\ Unlink(E)[x] = aiDest[x]
<1>1. aiDest[x] \in Element
  BY DEF IInv, svcIInv, svcTypeOK
<1>2. [aiDest[x] EXCEPT !.st = "free"].st = "free"
  BY <1>1 DEF Element
<1>3. QED
  BY <1>2 DEF Unlink

(* A step of the DNS service. *)
LEMMA ServiceInv == ASSUME IInv, Service PROVE IInv'
<1>1. Processing /\ UNCHANGED tcVars /\ UNCHANGED <<call, connects, outcomes>> /\ UNCHANGED delivered
  BY DEF Service, c4Vars
<1>2. TcIInv'
  BY <1>1, TcNextInv DEF IInv
<1>3. svcIInv'
  BY <1>1, svcNextInv DEF svcNext, IInv
<1>4. UNCHANGED answer
  BY <1>1 DEF Processing, CnameStep, CnameDone, AStep, ASkip, ADone
<1>5. DeliveredType' /\ AnswerDelivered'
  BY <1>1, <1>4 DEF IInv, DeliveredType, AnswerDelivered
<1>6. CallType' /\ CallKnown' /\ OnlyAIRedirected' /\ LandsRight'
  BY <1>1, ConnectionsStay
<1>7. MapKnown'
  <2>1. CASE UNCHANGED aiDest
    BY <1>1, <2>1, MapStays
  <2>2. ASSUME NEW ip4, NEW h, NEW s \in Slots, UpdateElem(NativeUint32(ip4), h, s),
               writes' = writes \cup {[ip |-> ip4, host |-> h]}
        PROVE  MapKnown'
    <3>1. ip4 \in IPv4 /\ KnownAs(Hostname64[h], ip4)
      <4>1. [ip |-> ip4, host |-> h] \in writes'
        BY <2>2
      <4>2. QED
        BY <1>1, <1>3, <1>4, <4>1, WrittenKnown
    <3>2. \A x \in Slots : aiDest'[x].st = "linked" =>
              \/ aiDest'[x].key = NativeUint32(ip4) /\ aiDest'[x].host = Hostname64[h]
              \/ aiDest[x].st = "linked" /\ aiDest'[x] = aiDest[x]
      <4> SUFFICES ASSUME NEW x \in Slots, aiDest'[x].st = "linked"
                   PROVE  \/ aiDest'[x].key = NativeUint32(ip4) /\ aiDest'[x].host = Hostname64[h]
                          \/ aiDest[x].st = "linked" /\ aiDest'[x] = aiDest[x]
        OBVIOUS
      <4>1. CASE x = s
        BY <2>2, <4>1 DEF UpdateElem, Unlink
      <4>2. CASE x # s
        <5>1. PICK E : aiDest'[x] = Unlink(E)[x]
          BY <2>2, <4>2 DEF UpdateElem, Unlink
        <5>2. QED
          BY <5>1, UnlinkKeeps
      <4>3. QED
        BY <4>1, <4>2
    <3>3. \A host, ip : KnownAs(host, ip) => KnownAs(host, ip)'
      BY <1>1, KnownAsStays
    <3>4. QED
      BY <3>1, <3>2, <3>3 DEF MapKnown, IInv
  <2>3. ASSUME UpdateFails PROVE MapKnown'
    <3>1. \A x \in Slots : aiDest'[x].st = "linked" => aiDest[x].st = "linked" /\ aiDest'[x] = aiDest[x]
      BY <2>3, UnlinkKeeps DEF UpdateFails
    <3>2. \A host, ip : KnownAs(host, ip) => KnownAs(host, ip)'
      BY <1>1, KnownAsStays
    <3>3. QED
      BY <3>1, <3>2 DEF MapKnown, IInv
  <2>4. QED
    BY <1>1, <2>1, <2>2, <2>3
    DEF Processing, CnameStep, CnameDone, AStep, ASkip, ADone, writeDestination
<1>8. QED
  BY <1>2, <1>3, <1>5, <1>6, <1>7 DEF IInv

-----------------------------------------------------------------------------
(* The connect hook. *)

(* A hit means that the destination is known: the entry's key is the key of  *)
(* a known address, and keys tell addresses apart.                           *)
LEMMA HitKnown ==
    ASSUME IInv, NEW dst \in Targets, NEW s \in Linked(UserIp4(dst))
    PROVE  KnownAs(aiDest[s].host, dst.ip)
<1>1. s \in Slots /\ aiDest[s].st = "linked" /\ aiDest[s].key = NativeUint32(dst.ip)
  BY DEF Linked, UserIp4
<1>2. PICK ip4 \in IPv4 : aiDest[s].key = NativeUint32(ip4) /\ KnownAs(aiDest[s].host, ip4)
  BY <1>1 DEF IInv, MapKnown
<1>3. dst.ip \in IPv4
  BY Connect4Assumption
<1>4. dst.ip = ip4
  BY <1>1, <1>2, <1>3, KeysDistinct
<1>5. QED
  BY <1>2, <1>4

(* A destination that is not in the map passes. *)
LEMMA MissInv ==
    ASSUME IInv, NEW t \in Threads, NEW dst \in Targets, ConnectMiss(t, dst), UNCHANGED delivered
    PROVE  CallType' /\ CallKnown' /\ OnlyAIRedirected' /\ LandsRight'
<1> DEFINE o == Outcome(t, connects + 1, dst, Peer(UserIp4(dst), UserPort(dst)), "passed", FALSE)
<1>1. outcomes' = outcomes \cup {o} /\ call' = call /\ connects' = connects + 1
  BY DEF ConnectMiss, NewCall
<1>2. o.how = "passed" /\ o.dst = dst /\ o.peer = dst
  BY PeerOfTarget DEF Outcome
<1> HIDE DEF o
<1>3. CallType'
  BY <1>1 DEF IInv, CallType
<1>4. CallKnown'
  BY <1>1, KnownAsStays DEF IInv, CallKnown
<1>5. OnlyAIRedirected'
  <2>1. OnlyAIRedirected
    BY DEF IInv
  <2>2. QED
    BY <1>1, <1>2, <2>1 DEF OnlyAIRedirected, Redirected, ResolvedBefore
<1>6. LandsRight'
  BY <1>1, <1>2 DEF IInv, LandsRight, Redirected
<1>7. QED
  BY <1>3, <1>4, <1>5, <1>6

(* A destination that is in the map is remembered with the element found. *)
LEMMA HitInv ==
    ASSUME IInv, NEW t \in Threads, NEW dst \in Targets, ConnectHit(t, dst), UNCHANGED delivered
    PROVE  CallType' /\ CallKnown' /\ OnlyAIRedirected' /\ LandsRight'
<1>1. PICK s \in Linked(UserIp4(dst)) :
          call' = [call EXCEPT ![t] = [n |-> connects + 1, dst |-> dst, slot |-> s,
                                       seen |-> aiDest[s].host, pc |-> "hit"]]
  BY DEF ConnectHit
<1> DEFINE k == [n |-> connects + 1, dst |-> dst, slot |-> s, seen |-> aiDest[s].host, pc |-> "hit"]
<1>2. k \in Call
  <2>1. s \in Slots /\ aiDest[s] \in Element
    BY DEF Linked, IInv, svcIInv, svcTypeOK
  <2>2. aiDest[s].host \in HostFields \cup {NoHost}
    BY <2>1 DEF Element
  <2>3. connects + 1 \in Nat
    BY DEF IInv, CallType
  <2>4. QED
    BY <2>1, <2>2, <2>3 DEF Call
<1>3. k.dst = dst /\ k.seen = aiDest[s].host
  OBVIOUS
<1>4. call' = [call EXCEPT ![t] = k]
  BY <1>1
<1> HIDE DEF k
<1>5. connects' = connects + 1 /\ outcomes' = outcomes
  BY DEF ConnectHit, NewCall
<1>6. CallType'
  BY <1>2, <1>4, <1>5 DEF IInv, CallType
<1>7. CallKnown'
  <2>1. KnownAs(aiDest[s].host, dst.ip)
    BY HitKnown
  <2> SUFFICES ASSUME NEW u \in Threads, (call[u] # NoCall)' PROVE KnownAs(call[u].seen, call[u].dst.ip)'
    BY DEF CallKnown
  <2>2. CASE u = t
    <3>1. call'[u].dst = dst /\ call'[u].seen = aiDest[s].host
      BY <1>3, <1>4, <2>2 DEF IInv, CallType
    <3>2. QED
      BY <2>1, <3>1 DEF KnownAs, ResolvedBefore
  <2>3. CASE u # t
    <3>1. call'[u] = call[u] /\ KnownAs(call[u].seen, call[u].dst.ip)
      BY <1>4, <2>3 DEF IInv, CallType, CallKnown
    <3>2. QED
      BY <3>1 DEF KnownAs, ResolvedBefore
  <2>4. QED
    BY <2>2, <2>3
<1>8. OnlyAIRedirected' /\ LandsRight'
  BY <1>5 DEF IInv, OnlyAIRedirected, LandsRight, Redirected, ResolvedBefore
<1>9. QED
  BY <1>6, <1>7, <1>8

(* The rewrite, with or without an event. *)
LEMMA RewriteInv ==
    ASSUME IInv, NEW t \in Threads, NEW how, how # "passed", call[t] # NoCall, Rewrite(t, how),
           UNCHANGED delivered
    PROVE  CallType' /\ CallKnown' /\ OnlyAIRedirected' /\ LandsRight'
<1> DEFINE o == Outcome(t, call[t].n, call[t].dst, Peer(ProxyConfig.ip, ProxyConfig.port),
                        how, Reused(call[t]))
<1>1. outcomes' = outcomes \cup {o} /\ call' = [call EXCEPT ![t] = NoCall] /\ connects' = connects
  BY DEF Rewrite
<1>2. o.how = how /\ o.dst = call[t].dst /\ o.peer = [ip |-> ProxyIP, port |-> ProxyPort]
  BY PeerOfProxy DEF Outcome
<1> HIDE DEF o
<1>3. CallType'
  BY <1>1 DEF IInv, CallType
<1>4. CallKnown'
  <2> SUFFICES ASSUME NEW u \in Threads, (call[u] # NoCall)' PROVE KnownAs(call[u].seen, call[u].dst.ip)'
    BY DEF CallKnown
  <2>1. u # t /\ call'[u] = call[u]
    BY <1>1 DEF IInv, CallType
  <2>2. KnownAs(call[u].seen, call[u].dst.ip)
    BY <2>1 DEF IInv, CallKnown
  <2>3. QED
    BY <2>1, <2>2 DEF KnownAs, ResolvedBefore
<1>5. OnlyAIRedirected'
  <2>1. OnlyAIRedirected /\ Known(call[t].dst.ip)
    BY DEF IInv, CallKnown, KnownAs, Known
  <2>2. QED
    BY <1>1, <1>2, <2>1 DEF OnlyAIRedirected, Redirected, ResolvedBefore, Known
<1>6. LandsRight'
  BY <1>1, <1>2 DEF IInv, LandsRight, Redirected
<1>7. QED
  BY <1>3, <1>4, <1>5, <1>6

(* The reservation of the event, or its failure, changes neither destination nor outcomes. *)
LEMMA ReserveKeeps ==
    ASSUME IInv, NEW t \in Threads, Reserve(t), UNCHANGED delivered
    PROVE  CallType' /\ CallKnown' /\ OnlyAIRedirected' /\ LandsRight'
<1>1. PICK pc \in {"reserved", "full"} : call' = [call EXCEPT ![t].pc = pc]
  BY DEF Reserve
<1>2. call[t] \in Call /\ UNCHANGED connects /\ UNCHANGED outcomes
  BY DEF Reserve, At, IInv, CallType
<1>3. [call[t] EXCEPT !.pc = pc] \in Call 
      /\ [call[t] EXCEPT !.pc = pc].dst = call[t].dst /\ [call[t] EXCEPT !.pc = pc].seen = call[t].seen
  BY <1>2 DEF Call
<1>4. CallType'
  BY <1>1, <1>2, <1>3 DEF IInv, CallType
<1>5. CallKnown'
  <2> SUFFICES ASSUME NEW u \in Threads, (call[u] # NoCall)' PROVE KnownAs(call[u].seen, call[u].dst.ip)'
    BY DEF CallKnown
  <2>1. call[u] # NoCall /\ call'[u].dst = call[u].dst /\ call'[u].seen = call[u].seen
    BY <1>1, <1>2, <1>3, Connect4Assumption DEF IInv, CallType
  <2>2. KnownAs(call[u].seen, call[u].dst.ip)
    BY <2>1 DEF IInv, CallKnown
  <2>3. QED
    BY <2>1, <2>2 DEF KnownAs, ResolvedBefore
<1>6. OnlyAIRedirected' /\ LandsRight'
  BY <1>2 DEF IInv, OnlyAIRedirected, LandsRight, Redirected, ResolvedBefore
<1>7. QED
  BY <1>4, <1>5, <1>6

(* The rest of the invariant does not look at the connect hook. *)
LEMMA HookLeaves ==
    ASSUME IInv, UNCHANGED <<tcVars, svcVars, delivered>>
    PROVE  TcIInv' /\ svcIInv' /\ DeliveredType' /\ AnswerDelivered' /\ MapKnown'
<1>1. UNCHANGED tcVars /\ UNCHANGED svcVars /\ UNCHANGED delivered
  OBVIOUS
<1>2. UNCHANGED <<answer, aiDest>>
  BY <1>1 DEF svcVars, svcLocal
<1>3. TcIInv'
  BY <1>1, TcNextInv DEF IInv
<1>4. svcIInv'
  BY <1>1, svcNextInv DEF IInv
<1>5. DeliveredType' /\ AnswerDelivered'
  BY <1>1, <1>2 DEF IInv, DeliveredType, AnswerDelivered
<1>6. MapKnown'
  BY <1>1, <1>2, MapStays
<1>7. QED
  BY <1>3, <1>4, <1>5, <1>6

(* One step of the connect hook. *)
LEMMA ConnectInv == ASSUME IInv, NEW t \in Threads, Connect(t) PROVE IInv'
<1>1. UNCHANGED <<tcVars, svcLocal>> /\ UNCHANGED delivered
  BY DEF Connect, history
<1>2. UNCHANGED aiDest
  BY DEF Connect, Program, Reserve, Submit, NoReport, Rewrite, ConnectMiss, ConnectHit
<1>3. UNCHANGED <<tcVars, svcVars, delivered>>
  BY <1>1, <1>2 DEF svcVars, svcLocal
<1>4. CallType' /\ CallKnown' /\ OnlyAIRedirected' /\ LandsRight'
  <2>1. CASE Reserve(t)
    BY <1>1, <2>1, ReserveKeeps
  <2>2. CASE Submit(t)
    <3>1. call[t] # NoCall /\ Rewrite(t, "reported")
      BY <2>2 DEF Submit, At
    <3>2. QED
      BY <1>1, <3>1, RewriteInv
  <2>3. CASE NoReport(t)
    <3>1. call[t] # NoCall /\ Rewrite(t, "unreported")
      BY <2>3 DEF NoReport, At
    <3>2. QED
      BY <1>1, <3>1, RewriteInv
  <2>4. ASSUME NEW dst \in Targets, ConnectMiss(t, dst)
        PROVE  CallType' /\ CallKnown' /\ OnlyAIRedirected' /\ LandsRight'
    BY <1>1, <2>4, MissInv
  <2>5. ASSUME NEW dst \in Targets, ConnectHit(t, dst)
        PROVE  CallType' /\ CallKnown' /\ OnlyAIRedirected' /\ LandsRight'
    BY <1>1, <2>5, HitInv
  <2>6. QED
    BY <2>1, <2>2, <2>3, <2>4, <2>5 DEF Connect, Program
<1>5. QED
  BY <1>3, <1>4, HookLeaves DEF IInv

(* The reader of the redirect events. *)
LEMMA ReadRedirectInv == ASSUME IInv, ReadRedirectEvents PROVE IInv'
<1>1. UNCHANGED <<tcVars, svcVars, delivered>> /\ UNCHANGED <<call, connects, outcomes>>
  BY DEF ReadRedirectEvents, ReadRedirect, svcVars, history
<1>2. QED
  BY <1>1, HookLeaves, ConnectionsStay DEF IInv

(* A step of none of the parts. *)
LEMMA StutterInv == ASSUME IInv, UNCHANGED vars PROVE IInv'
<1>1. UNCHANGED <<tcVars, svcVars, delivered>> /\ UNCHANGED <<call, connects, outcomes>>
  BY DEF vars, c4Vars, history
<1>2. QED
  BY <1>1, HookLeaves, ConnectionsStay DEF IInv

(* Every step of the agent keeps the invariant. *)
LEMMA NextInv == IInv /\ [Next]_vars => IInv'
BY ObserveInv, ReadInv, SkipInv, ServiceInv, ConnectInv, ReadRedirectInv, StutterInv DEF Next

(* So it holds in every behaviour. *)
LEMMA SpecInv == Spec => []IInv
BY InitInv, NextInv, PTL DEF Spec

-----------------------------------------------------------------------------
(* Only AI traffic is diverted: whatever was captured, cut off by the length *)
(* mask, evicted or overwritten, a connection is rewritten only if a DNS     *)
(* response the agent had processed resolves its address through an AI       *)
(* domain.                                                                   *)
THEOREM OnlyAI == Spec => []OnlyAIRedirected
<1>1. IInv => OnlyAIRedirected
  BY DEF IInv
<1>2. QED
  BY SpecInv, <1>1, PTL

(* A rewritten connection goes to the configured proxy and every other one   *)
(* where the application asked, on machines of either byte order.            *)
THEOREM Lands == Spec => []LandsRight
<1>1. IInv => LandsRight
  BY DEF IInv
<1>2. QED
  BY SpecInv, <1>1, PTL
=============================================================================
