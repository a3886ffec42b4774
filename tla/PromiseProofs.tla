--------------------------- MODULE PromiseProofs ---------------------------
(***************************************************************************)
(* The composed agent keeps its promise (module Interception), for any     *)
(* packets, messages, threads, names and sizes of the map and of the ring  *)
(* buffers: what was learned is in the map or known to be lost, every      *)
(* event in redirect_events or in the log stands for one connection, and   *)
(* each step of the agent is a step of Interception or none.               *)
(***************************************************************************)
EXTENDS InterceptorProofs, FiniteSetTheorems

-----------------------------------------------------------------------------
(* What the agent has learned. *)

(* What was written for the message at hand, or failed to be, is accounted   *)
(* for.                                                                      *)
Present == LiveKeys \cup lost
Kept ==
    /\ \A w \in writes : NativeUint32(w.ip) \in Present
    /\ \A ip4 \in failed : NativeUint32(ip4) \in Present

(* A message that was gone through is, or begins, a delivered one. *)
ProcessedDelivered ==
    \A a \in processed :
        a \in Seq(RR) /\ (a # <<>> => \E m \in delivered : Begins(a, Contents[m].answer))

LearnInv == svcCInv /\ Kept /\ MapComplete /\ ProcessedDelivered

(* Nothing was learned when the agent starts. *)
LEMMA InitLearn == Init => LearnInv
BY InitComplete DEF Init, svcInit, LearnInv, Kept, MapComplete, ProcessedDelivered

(* Steps of the hook, of the TC program and of the other reader. *)
LEMMA LearnStays == ASSUME LearnInv, IInv, UNCHANGED <<svcVars, history>> PROVE LearnInv'
<1>1. UNCHANGED <<svcPc, answer, idx, aiCNAMEs, writes, failed, aiDest, processed, lost, delivered>>
  BY DEF svcVars, svcLocal, history
<1>2. svcCInv'
  BY <1>1, EndComplete DEF IInv, LearnInv
<1>3. Present' = Present
  BY <1>1 DEF Present, LiveKeys
<1>4. QED
  BY <1>1, <1>2, <1>3 DEF LearnInv, Kept, MapComplete, ProcessedDelivered, Present

(* A message is handed over. *)
LEMMA ReadLearn == ASSUME LearnInv, IInv, ReadDNSEvents PROVE LearnInv'
<1> DEFINE ev == Head(dnsEvents).ev
<1>1. /\ Readable(dnsEvents) /\ UNCHANGED <<processed, lost>>
      /\ delivered \subseteq delivered'
      /\ \/ \E a \in Unpack(ev) : ProcessDNSEvent(a)
         \/ ProcessUnpackError
  BY DEF ReadDNSEvents
<1>2. ev.from.dns.msg \in Messages
  BY <1>1, ReadableMessage DEF IInv
<1> HIDE DEF ev
<1>3. UNCHANGED aiDest
  BY <1>1 DEF ProcessDNSEvent, ProcessUnpackError
<1>4. Present' = Present
  BY <1>1, <1>3 DEF Present, LiveKeys
<1>5. MapComplete' /\ ProcessedDelivered'
  BY <1>1, <1>4 DEF LearnInv, MapComplete, ProcessedDelivered, Present
<1>6. svcCInv' /\ Kept'
  <2>1. ASSUME NEW a \in Unpack(ev), ProcessDNSEvent(a) PROVE svcCInv' /\ Kept'
    <3>1. a \in Seq(RR)
      BY <1>2, UnpackBegins
    <3>2. writes' = {} /\ failed' = {}
      BY <2>1 DEF ProcessDNSEvent
    <3>3. QED
      BY <2>1, <3>1, <3>2, ProcessComplete DEF Kept
  <2>2. CASE ProcessUnpackError
    <3>1. UNCHANGED <<svcPc, answer, idx, aiCNAMEs, writes, failed>>
      BY <2>2 DEF ProcessUnpackError
    <3>2. QED
      BY <1>4, <3>1, EndComplete DEF IInv, LearnInv, Kept
  <2>3. QED
    BY <1>1, <2>1, <2>2
<1>7. QED
  BY <1>5, <1>6 DEF LearnInv

(* A step of the DNS service: what is evicted or not written is noted as     *)
(* lost, and a message that is done has been written.                        *)
LEMMA ServiceLearn == ASSUME LearnInv, IInv, Service PROVE LearnInv'
<1>1. /\ Processing /\ UNCHANGED delivered
      /\ processed' = IF svcPc = "a" /\ svcPc' = "idle" THEN processed \cup {answer} ELSE processed
      /\ lost' = (lost \cup LiveKeys \cup {NativeUint32(ip) : ip \in failed'}) \ LiveKeys'
  BY DEF Service
<1>2. svcCInv'
  BY <1>1, ProcessingComplete DEF IInv, LearnInv
<1>3. /\ Present \subseteq Present'
      /\ \A ip4 \in failed' : NativeUint32(ip4) \in Present'
  BY <1>1 DEF Present
<1>4. \A w \in writes' : NativeUint32(w.ip) \in Present'
  <2>1. CASE UNCHANGED writes
    BY <1>3, <2>1 DEF LearnInv, Kept
  <2>2. ASSUME NEW ip4, NEW h, NEW s \in Slots, UpdateElem(NativeUint32(ip4), h, s),
               writes' = writes \cup {[ip |-> ip4, host |-> h]}
        PROVE  \A w \in writes' : NativeUint32(w.ip) \in Present'
    <3>1. aiDest'[s].st = "linked" /\ aiDest'[s].key = NativeUint32(ip4)
      BY <2>2 DEF UpdateElem, Unlink
    <3>2. NativeUint32(ip4) \in Present'
      BY <3>1 DEF Present, LiveKeys
    <3>3. QED
      BY <1>3, <2>2, <3>2 DEF LearnInv, Kept
  <2>3. QED
    BY <1>1, <2>1, <2>2
    DEF Processing, CnameStep, CnameDone, AStep, ASkip, ADone, writeDestination
<1>5. CASE processed' = processed
  BY <1>1, <1>2, <1>3, <1>4, <1>5 DEF LearnInv, Kept, MapComplete, ProcessedDelivered, Present
<1>6. CASE svcPc = "a" /\ svcPc' = "idle"
  <2>1. processed' = processed \cup {answer} /\ ADone
    BY <1>1, <1>6 DEF Processing, CnameStep, CnameDone, AStep, ASkip, ADone
  <2>2. answer \in Seq(RR) /\ (answer # <<>> => \E m \in delivered : Begins(answer, Contents[m].answer))
    BY DEF IInv, AnswerDelivered, svcIInv, svcTypeOK
  <2>3. ProcessedDelivered'
    BY <1>1, <2>1, <2>2 DEF LearnInv, ProcessedDelivered
  <2>4. Followable(answer) => Missed = {}
    <3>1. \A k \in 1..Len(answer) : Visited(k)
      BY <1>6, <2>1, <2>2 DEF ADone, Visited, IInv, svcIInv, svcTypeOK
    <3>2. QED
      BY <1>6, <3>1, NothingMissed DEF IInv, LearnInv
  <2>5. Followable(answer) => \A ip4 \in Resolved(answer) : NativeUint32(ip4) \in Present
    BY <2>4 DEF Missed, LearnInv, Kept
  <2>6. MapComplete'
    BY <1>3, <2>1, <2>5 DEF LearnInv, MapComplete, Present
  <2>7. QED
    BY <1>2, <1>3, <1>4, <2>3, <2>6 DEF LearnInv, Kept
<1>7. QED
  BY <1>1, <1>5, <1>6

(* Every step of the agent. *)
LEMMA NextLearn == IInv /\ LearnInv /\ [Next]_vars => LearnInv'
<1> SUFFICES ASSUME IInv, LearnInv, [Next]_vars PROVE LearnInv'
  OBVIOUS
<1>1. ASSUME NEW c \in CPUs, Observe(c) PROVE LearnInv'
  BY <1>1, LearnStays DEF Observe
<1>2. CASE SkipDNSEvent
  BY <1>2, LearnStays DEF SkipDNSEvent
<1>3. ASSUME NEW t \in Threads, Connect(t) PROVE LearnInv'
  <2>1. UNCHANGED aiDest
    BY <1>3 DEF Connect, Program, Reserve, Submit, NoReport, Rewrite, ConnectMiss, ConnectHit
  <2>2. QED
    BY <1>3, <2>1, LearnStays DEF Connect, svcVars
<1>4. CASE ReadRedirectEvents
  BY <1>4, LearnStays DEF ReadRedirectEvents, ReadRedirect, svcVars
<1>5. CASE UNCHANGED vars
  BY <1>5, LearnStays DEF vars
<1>6. QED
  BY <1>1, <1>2, <1>3, <1>4, <1>5, ReadLearn, ServiceLearn DEF Next

(* So it holds in every behaviour. *)
LEMMA SpecLearn == Spec => []LearnInv
BY SpecInv, InitLearn, NextLearn, PTL DEF Spec

(* Nothing the agent learned gets lost unnoticed, whatever responses arrive  *)
(* and whatever the map evicts.                                              *)
THEOREM MapIsComplete == Spec => []MapComplete
<1>1. LearnInv => MapComplete
  BY DEF LearnInv
<1>2. QED
  BY SpecLearn, <1>1, PTL

-----------------------------------------------------------------------------
(* What the agent reports. *)

RedirectRing == Seq(RingRecord(Threads, RedirectEvents))
ReportType ==
    /\ redirectEvents \in RedirectRing
    /\ redirectLog \in Seq({LogLine(ev) : ev \in RedirectEvents})
    /\ connects \in 0..MaxConnects

(* A number stands for one call of connect(), under way or over. *)
Numbered ==
    /\ \A t \in Threads : call[t] # NoCall => call[t].n \in 1..connects
    /\ \A o \in outcomes : o.n \in 1..connects
    /\ \A t, u \in Threads :
          call[t] # NoCall /\ call[u] # NoCall /\ call[t].n = call[u].n => t = u
    /\ \A t \in Threads, o \in outcomes : call[t] # NoCall => call[t].n # o.n
    /\ \A o, p \in outcomes : o.n = p.n => o = p

(* A busy record is that of a run between reservation and submission, and    *)
(* each such run has one.                                                    *)
Busy(i) == redirectEvents[i].st = "busy"
OneBusyRecord ==
    /\ \A i \in 1..Len(redirectEvents) : Busy(i) => At(redirectEvents[i].owner, "reserved")
    /\ \A i, j \in 1..Len(redirectEvents) :
          Busy(i) /\ Busy(j) /\ redirectEvents[i].owner = redirectEvents[j].owner => i = j
    /\ \A t \in Threads : At(t, "reserved") =>
          \E i \in 1..Len(redirectEvents) : Busy(i) /\ redirectEvents[i].owner = t

(* Event ev, or log line l, is the report of outcome o. *)
ReportOf(ev, o) ==
    /\ ev \in RedirectEvents
    /\ ev.n = o.n /\ o.how = "reported" /\ o.dst \in Targets
    /\ ev.original_ip = UserIp4(o.dst) /\ ev.original_port = UserPort(o.dst)
    /\ ev.proxy_ip = ProxyConfig.ip /\ ev.proxy_port = ProxyConfig.port
    /\ ~ o.reused => KnownAs(ev.hostname, o.dst.ip)
LineOf(l, o) ==
    /\ l.n = o.n /\ o.how = "reported"
    /\ [ip |-> l.original_ip, port |-> l.original_port] = o.dst
    /\ [ip |-> l.proxy_ip, port |-> l.proxy_port] = o.peer
    /\ ~ o.reused => KnownAs(l.original_host, o.dst.ip)

Ready == {i \in 1..Len(redirectEvents) : redirectEvents[i].st = "ready"}
EventN(i) == redirectEvents[i].ev.n
LineN(i)  == redirectLog[i].n

Truthful ==
    /\ \A i \in Ready : \E o \in outcomes : ReportOf(redirectEvents[i].ev, o)
    /\ \A i \in 1..Len(redirectLog) : \E o \in outcomes : LineOf(redirectLog[i], o)

(* No connection is reported twice, and none that got a record is left out. *)
Once ==
    /\ \A i, j \in Ready : EventN(i) = EventN(j) => i = j
    /\ \A i, j \in 1..Len(redirectLog) : LineN(i) = LineN(j) => i = j
    /\ \A i \in Ready, j \in 1..Len(redirectLog) : EventN(i) # LineN(j)
Complete ==
    \A o \in outcomes : o.how = "reported" =>
        \/ \E i \in Ready : EventN(i) = o.n
        \/ \E i \in 1..Len(redirectLog) : LineN(i) = o.n

ReportInv == ReportType /\ Numbered /\ OneBusyRecord /\ Truthful /\ Once /\ Complete

(* No call, no report. *)
LEMMA InitReport == Init => ReportInv
BY Connect4Assumption
   DEF Init, c4Init, ReportInv, ReportType, Numbered, OneBusyRecord, Truthful, Once, Complete,
       RedirectRing, At, Ready

(* What was a report of an outcome still is one. *)
LEMMA ReportsStay ==
    ASSUME delivered \subseteq delivered'
    PROVE  /\ \A ev, o : ReportOf(ev, o) => ReportOf(ev, o)'
           /\ \A l, o : LineOf(l, o) => LineOf(l, o)'
BY KnownAsStays DEF ReportOf, LineOf

(* The steps of the others. *)
LEMMA OthersReport ==
    ASSUME ReportInv, delivered \subseteq delivered', UNCHANGED c4Vars
    PROVE  ReportInv'
<1>1. UNCHANGED <<call, redirectEvents, redirectLog, connects, outcomes>>
  BY DEF c4Vars
<1>2. ReportType' /\ Numbered' /\ OneBusyRecord' /\ Once' /\ Complete'
  BY <1>1 DEF ReportInv, ReportType, Numbered, OneBusyRecord, Once, Complete, At, Busy, Ready,
              EventN, LineN
<1>3. Truthful'
  BY <1>1, ReportsStay DEF ReportInv, Truthful, Ready
<1>4. QED
  BY <1>2, <1>3 DEF ReportInv

(* A connection that passes, or that finds its entry, takes a new number. *)
LEMMA NewReport ==
    ASSUME IInv, ReportInv, NEW t \in Threads, NEW dst \in Targets,
           ConnectMiss(t, dst) \/ ConnectHit(t, dst), UNCHANGED delivered
    PROVE  ReportInv'
<1>1. /\ connects \in 0..MaxConnects /\ connects < MaxConnects /\ connects' = connects + 1
      /\ call[t] = NoCall /\ UNCHANGED <<redirectEvents, redirectLog>>
      /\ call \in [Threads -> Call \cup {NoCall}]
  BY DEF ConnectMiss, ConnectHit, NewCall, ReportInv, ReportType, IInv, CallType
<1>2. MaxConnects \in Nat
  BY Connect4Assumption
<1>n. /\ \A n \in 1..connects : n \in 1..connects' /\ n # connects + 1
      /\ connects + 1 \in 1..connects'
  BY <1>1
<1>3. ReportType'
  BY <1>1, <1>2 DEF ReportInv, ReportType
<1>4. Once'
  BY <1>1 DEF ReportInv, Once, Ready, EventN, LineN
<1>5. CASE ConnectMiss(t, dst)
  <2> DEFINE o == Outcome(t, connects + 1, dst, Peer(UserIp4(dst), UserPort(dst)), "passed", FALSE)
  <2>1. call' = call /\ outcomes' = outcomes \cup {o}
    BY <1>5 DEF ConnectMiss
  <2>2. o.n = connects + 1 /\ o.how = "passed"
    BY DEF Outcome
  <2> HIDE DEF o
  <2>3. Numbered'
    BY <1>n, <2>1, <2>2 DEF ReportInv, Numbered
  <2>4. OneBusyRecord'
    BY <1>1, <2>1 DEF ReportInv, OneBusyRecord, At, Busy
  <2>5. Truthful'
    BY <1>1, <2>1, ReportsStay DEF ReportInv, Truthful, Ready
  <2>6. Complete'
    BY <1>1, <2>1, <2>2 DEF ReportInv, Complete, Ready, EventN, LineN
  <2>7. QED
    BY <1>3, <1>4, <2>3, <2>4, <2>5, <2>6 DEF ReportInv
<1>6. CASE ConnectHit(t, dst)
  <2>0. PICK s \in Linked(UserIp4(dst)) :
            call' = [call EXCEPT ![t] = [n |-> connects + 1, dst |-> dst, slot |-> s,
                                         seen |-> aiDest[s].host, pc |-> "hit"]]
    BY <1>6 DEF ConnectHit
  <2> DEFINE k == [n |-> connects + 1, dst |-> dst, slot |-> s, seen |-> aiDest[s].host, pc |-> "hit"]
  <2>1. call' = [call EXCEPT ![t] = k] /\ k.n = connects + 1 /\ k.pc = "hit"
    BY <2>0
  <2> HIDE DEF k
  <2>2. outcomes' = outcomes
    BY <1>6 DEF ConnectHit
  <2>3. call'[t] = k /\ \A u \in Threads : u # t => call'[u] = call[u]
    BY <1>1, <2>1
  <2>4. Numbered'
    BY <1>n, <2>1, <2>2, <2>3 DEF ReportInv, Numbered
  <2>5. OneBusyRecord'
    <3>1. \A u \in Threads : At(u, "reserved")' <=> At(u, "reserved")
      BY <1>1, <2>1, <2>3 DEF At
    <3>2. \A i \in 1..Len(redirectEvents) : redirectEvents[i].owner \in Threads
      BY RingOwner DEF ReportInv, ReportType, RedirectRing
    <3>3. QED
      BY <1>1, <3>1, <3>2 DEF ReportInv, OneBusyRecord, Busy
  <2>6. Truthful'
    BY <1>1, <2>2, ReportsStay DEF ReportInv, Truthful, Ready
  <2>7. Complete'
    BY <1>1, <2>2 DEF ReportInv, Complete, Ready, EventN, LineN
  <2>8. QED
    BY <1>3, <1>4, <2>4, <2>5, <2>6, <2>7 DEF ReportInv
<1>7. QED
  BY <1>5, <1>6

(* The call of a run beyond its lookup moves on. *)
LEMMA PcMoves ==
    ASSUME IInv, NEW t \in Threads, call[t] # NoCall, NEW pc, call' = [call EXCEPT ![t].pc = pc]
    PROVE  /\ call'[t] # NoCall => call'[t].n = call[t].n /\ call'[t].pc = pc
           /\ \A u \in Threads : u # t => call'[u] = call[u]
<1>1. call \in [Threads -> Call \cup {NoCall}] /\ call[t] \in Call
  BY DEF IInv, CallType
<1>2. call'[t] = [call[t] EXCEPT !.pc = pc]
  BY <1>1
<1>3. call'[t].n = call[t].n /\ call'[t].pc = pc
  BY <1>1, <1>2 DEF Call
<1>4. QED
  BY <1>1, <1>3

(* A reservation: the run gets its busy record, or none if there is no room. *)
LEMMA ReserveReport ==
    ASSUME IInv, ReportInv, NEW t \in Threads, Reserve(t), UNCHANGED delivered
    PROVE  ReportInv'
<1>1. /\ call[t] # NoCall /\ call[t].pc = "hit" /\ UNCHANGED <<redirectLog, connects, outcomes>>
      /\ redirectEvents \in RedirectRing /\ Len(redirectEvents) \in Nat
  BY DEF Reserve, At, ReportInv, ReportType, RedirectRing
<1>2. PICK pc \in {"reserved", "full"} :
          /\ call' = [call EXCEPT ![t].pc = pc]
          /\ pc = "reserved" => redirectEvents' = bpf_ringbuf_reserve(redirectEvents, t)
          /\ pc = "full" => redirectEvents' = redirectEvents
  BY DEF Reserve
<1>3. call'[t] # NoCall => call'[t].n = call[t].n /\ call'[t].pc = pc
  BY <1>1, <1>2, PcMoves
<1>4. \A u \in Threads : u # t => call'[u] = call[u]
  BY <1>1, <1>2, PcMoves
<1>5. call'[t] # NoCall
  <2>1. [call[t] EXCEPT !.pc = pc] \in Call /\ call \in [Threads -> Call \cup {NoCall}]
    BY <1>1 DEF IInv, CallType, Call
  <2>2. QED
    BY <1>2, <2>1, Connect4Assumption
<1>6. Numbered'
  BY <1>1, <1>3, <1>4, <1>5 DEF ReportInv, Numbered
<1>7. \A i \in 1..Len(redirectEvents) : redirectEvents[i].owner \in Threads
  BY <1>1, RingOwner DEF RedirectRing
<1>8. ~ At(t, "reserved") /\ (At(t, "reserved")' <=> pc = "reserved")
      /\ \A u \in Threads : u # t => (At(u, "reserved")' <=> At(u, "reserved"))
  BY <1>1, <1>3, <1>4, <1>5 DEF At
<1>9. CASE pc = "full"
  <2>1. UNCHANGED redirectEvents
    BY <1>2, <1>9
  <2>2. ReportType' /\ Once' /\ Complete'
    BY <1>1, <2>1 DEF ReportInv, ReportType, Once, Complete, Ready, EventN, LineN
  <2>3. Truthful'
    BY <1>1, <2>1, ReportsStay DEF ReportInv, Truthful, Ready
  <2>4. OneBusyRecord'
    BY <1>7, <1>8, <1>9, <2>1 DEF ReportInv, OneBusyRecord, Busy
  <2>5. QED
    BY <1>6, <2>2, <2>3, <2>4 DEF ReportInv
<1>10. CASE pc = "reserved"
  <2>1. /\ redirectEvents' \in RedirectRing
        /\ Len(redirectEvents') = Len(redirectEvents) + 1
        /\ \A i \in 1..Len(redirectEvents) : redirectEvents'[i] = redirectEvents[i]
        /\ redirectEvents'[Len(redirectEvents) + 1] = [owner |-> t, st |-> "busy", ev |-> NoEvent]
    BY <1>1, <1>2, <1>10, ReserveRing DEF RedirectRing
  <2>2. Ready' = Ready /\ \A i \in Ready : redirectEvents'[i] = redirectEvents[i]
    BY <1>1, <2>1 DEF Ready
  <2>3. ReportType'
    BY <1>1, <2>1 DEF ReportInv, ReportType
  <2>4. Once' /\ Complete'
    BY <1>1, <2>2 DEF ReportInv, Once, Complete, EventN, LineN
  <2>5. Truthful'
    BY <1>1, <2>2, ReportsStay DEF ReportInv, Truthful
  <2>6. OneBusyRecord'
    <3> DEFINE m == Len(redirectEvents) + 1
    <3>1. /\ \A i \in 1..Len(redirectEvents') : i \in 1..Len(redirectEvents) \/ i = m
          /\ m \in 1..Len(redirectEvents') /\ 1..Len(redirectEvents) \subseteq 1..Len(redirectEvents')
          /\ redirectEvents'[m].st = "busy" /\ redirectEvents'[m].owner = t
      BY <1>1, <2>1
    <3> HIDE DEF m
    <3>2. \A i \in 1..Len(redirectEvents) : Busy(i) => redirectEvents[i].owner # t
      BY <1>8 DEF ReportInv, OneBusyRecord
    <3>3. QED
      BY <1>7, <1>8, <1>10, <2>1, <3>1, <3>2 DEF ReportInv, OneBusyRecord, Busy
  <2>7. QED
    BY <1>6, <2>3, <2>4, <2>5, <2>6 DEF ReportInv
<1>11. QED
  BY <1>2, <1>9, <1>10

(* The end of a run gives its number to the outcome. *)
LEMMA RewriteNumbered ==
    ASSUME IInv, ReportInv, NEW t \in Threads, NEW how, call[t] # NoCall, Rewrite(t, how)
    PROVE  /\ Numbered'
           /\ call' = [call EXCEPT ![t] = NoCall] /\ UNCHANGED <<redirectLog, connects>>
           /\ \E o : /\ outcomes' = outcomes \cup {o}
                     /\ o.n = call[t].n /\ o.how = how /\ o.dst = call[t].dst
                     /\ o.peer = [ip |-> ProxyIP, port |-> ProxyPort]
                     /\ o.reused = Reused(call[t])
<1> DEFINE o == Outcome(t, call[t].n, call[t].dst, Peer(ProxyConfig.ip, ProxyConfig.port),
                        how, Reused(call[t]))
<1>1. outcomes' = outcomes \cup {o} /\ call' = [call EXCEPT ![t] = NoCall] /\ UNCHANGED <<redirectLog, connects>>
  BY DEF Rewrite
<1>2. /\ o.n = call[t].n /\ o.how = how /\ o.dst = call[t].dst
      /\ o.peer = [ip |-> ProxyIP, port |-> ProxyPort] /\ o.reused = Reused(call[t])
  BY PeerOfProxy DEF Outcome
<1> HIDE DEF o
<1>3. \A u \in Threads : call'[u] # NoCall => u # t /\ call'[u] = call[u]
  BY <1>1 DEF IInv, CallType
<1>4. Numbered'
  BY <1>1, <1>2, <1>3 DEF ReportInv, Numbered
<1>5. QED
  BY <1>1, <1>2, <1>4

(* A run without a record. *)
LEMMA NoReportReport ==
    ASSUME IInv, ReportInv, NEW t \in Threads, NoReport(t), UNCHANGED delivered
    PROVE  ReportInv'
<1>1. /\ call[t] # NoCall /\ call[t].pc = "full" /\ Rewrite(t, "unreported")
      /\ UNCHANGED redirectEvents
  BY DEF NoReport, At
<1>2. PICK o : outcomes' = outcomes \cup {o} /\ o.how = "unreported"
  BY <1>1, RewriteNumbered
<1>3. Numbered' /\ call' = [call EXCEPT ![t] = NoCall] /\ UNCHANGED <<redirectLog, connects>>
  BY <1>1, RewriteNumbered
<1>4. \A u \in Threads : At(u, "reserved")' <=> At(u, "reserved")
  BY <1>1, <1>3 DEF At, IInv, CallType
<1>5. \A i \in 1..Len(redirectEvents) : redirectEvents[i].owner \in Threads
  BY RingOwner DEF ReportInv, ReportType, RedirectRing
<1>6. OneBusyRecord'
  BY <1>1, <1>4, <1>5 DEF ReportInv, OneBusyRecord, Busy
<1>7. ReportType' /\ Once' /\ Complete'
  BY <1>1, <1>2, <1>3 DEF ReportInv, ReportType, Once, Complete, Ready, EventN, LineN
<1>8. Truthful'
  BY <1>1, <1>2, <1>3, ReportsStay DEF ReportInv, Truthful, Ready
<1>9. QED
  BY <1>3, <1>6, <1>7, <1>8 DEF ReportInv

(* What the program fills in is a report of the outcome it leaves. *)
LEMMA EventReports ==
    ASSUME IInv, NEW t \in Threads, call[t] # NoCall, NEW host \in ReadHostname(call[t]), NEW o,
           o.n = call[t].n, o.how = "reported", o.dst = call[t].dst, o.reused = Reused(call[t])
    PROVE  ReportOf(RedirectEvent(t, call[t], host), o)
<1> DEFINE k == call[t]
           ev == RedirectEvent(t, k, host)
<1>1. k \in Call
  BY DEF IInv, CallType
<1>2. k.n \in Nat /\ k.dst \in Targets /\ k.slot \in Slots
  BY <1>1 DEF Call
<1>3. k.dst.ip \in IPv4 /\ k.dst.port \in Port
  BY <1>2, Connect4Assumption
<1>4. UserIp4(k.dst) \in Nat /\ UserPort(k.dst) \in Nat /\ ProxyConfig.ip \in Nat /\ ProxyConfig.port \in Nat
  BY <1>3, AddressRoundTrip, PortRoundTrip, Connect4Assumption DEF UserIp4, UserPort, ProxyConfig
<1>5. aiDest[k.slot].host \in HostFields \cup {NoHost}
  BY <1>2 DEF IInv, svcIInv, svcTypeOK, Element
<1>6. host \in HostFields \cup {NoHost, Torn}
  BY <1>5 DEF ReadHostname
<1>7. ~ o.reused => host = k.seen
  BY DEF ReadHostname, Reused
<1>8. KnownAs(k.seen, k.dst.ip)
  BY DEF IInv, CallKnown
<1>9. ev \in RedirectEvents
  BY <1>2, <1>4, <1>6 DEF RedirectEvent, RedirectEvents
<1>10. /\ ev.n = k.n /\ ev.original_ip = UserIp4(k.dst) /\ ev.original_port = UserPort(k.dst)
       /\ ev.proxy_ip = ProxyConfig.ip /\ ev.proxy_port = ProxyConfig.port /\ ev.hostname = host
  BY DEF RedirectEvent
<1> HIDE DEF ev
<1>11. ReportOf(ev, o)
  BY <1>2, <1>7, <1>8, <1>9, <1>10 DEF ReportOf
<1>12. QED
  BY <1>11 DEF ev

(* A submission: the busy record of the run becomes the report of its outcome. *)
LEMMA SubmitReport ==
    ASSUME IInv, ReportInv, NEW t \in Threads, Submit(t), UNCHANGED delivered
    PROVE  ReportInv'
<1>1. /\ At(t, "reserved") /\ call[t] # NoCall /\ Rewrite(t, "reported")
      /\ redirectEvents \in RedirectRing /\ Len(redirectEvents) \in Nat
  BY DEF Submit, At, ReportInv, ReportType, RedirectRing
<1>2. PICK host \in ReadHostname(call[t]) :
          redirectEvents' = bpf_ringbuf_submit(redirectEvents, t, RedirectEvent(t, call[t], host))
  BY DEF Submit
<1> DEFINE ev == RedirectEvent(t, call[t], host)
<1>3. PICK o : /\ outcomes' = outcomes \cup {o}
               /\ o.n = call[t].n /\ o.how = "reported" /\ o.dst = call[t].dst
               /\ o.reused = Reused(call[t])
  BY <1>1, RewriteNumbered
<1>4. Numbered' /\ call' = [call EXCEPT ![t] = NoCall] /\ UNCHANGED <<redirectLog, connects>>
  BY <1>1, RewriteNumbered
<1>5. ReportOf(ev, o)
  BY <1>1, <1>3, EventReports
<1>6. ev \in RedirectEvents /\ ev.n = o.n
  BY <1>5 DEF ReportOf
<1>7. redirectEvents' = Committed(redirectEvents, t, "ready", ev)
  BY <1>2 DEF bpf_ringbuf_submit
<1> HIDE DEF ev
<1>8. /\ redirectEvents' \in RedirectRing
      /\ Len(redirectEvents') = Len(redirectEvents)
      /\ \A i \in 1..Len(redirectEvents) :
            redirectEvents'[i] = IF redirectEvents[i].owner = t /\ redirectEvents[i].st = "busy"
                                 THEN [owner |-> t, st |-> "ready", ev |-> ev] ELSE redirectEvents[i]
  BY <1>1, <1>6, <1>7, CommitRing DEF RedirectRing
<1>9. \A i \in 1..Len(redirectEvents) : redirectEvents[i].owner \in Threads
  BY <1>1, RingOwner DEF RedirectRing
<1>10. PICK b \in 1..Len(redirectEvents) : Busy(b) /\ redirectEvents[b].owner = t
  BY <1>1 DEF ReportInv, OneBusyRecord
<1>11. \A i \in 1..Len(redirectEvents) :
          i # b => redirectEvents'[i] = redirectEvents[i] /\ ~ (Busy(i) /\ redirectEvents[i].owner = t)
  BY <1>8, <1>10 DEF ReportInv, OneBusyRecord, Busy
<1>12. redirectEvents'[b] = [owner |-> t, st |-> "ready", ev |-> ev]
  BY <1>8, <1>10 DEF Busy
<1>13. b \notin Ready /\ Ready' = Ready \cup {b} /\ \A i \in Ready : redirectEvents'[i] = redirectEvents[i]
  BY <1>8, <1>10, <1>11, <1>12 DEF Ready, Busy
<1>14. redirectEvents'[b].ev = ev
  BY <1>12
<1>15. ReportType'
  BY <1>4, <1>8 DEF ReportInv, ReportType
<1>16. OneBusyRecord'
  <2>1. \A u \in Threads : At(u, "reserved")' <=> u # t /\ At(u, "reserved")
    BY <1>4 DEF At, IInv, CallType
  <2>2. ~ Busy(b)' /\ \A i \in 1..Len(redirectEvents) : i # b => (Busy(i)' <=> Busy(i))
    BY <1>11, <1>12 DEF Busy
  <2>3. QED
    BY <1>8, <1>9, <1>10, <1>11, <2>1, <2>2 DEF ReportInv, OneBusyRecord
<1>17. Truthful'
  <2>1. /\ \A e, p : ReportOf(e, p) => ReportOf(e, p)'
        /\ \A l, p : LineOf(l, p) => LineOf(l, p)'
    BY ReportsStay
  <2>2. (\A i \in Ready : \E p \in outcomes : ReportOf(redirectEvents[i].ev, p))'
    BY <1>3, <1>5, <1>13, <1>14, <2>1 DEF ReportInv, Truthful
  <2>3. (\A i \in 1..Len(redirectLog) : \E p \in outcomes : LineOf(redirectLog[i], p))'
    BY <1>3, <1>4, <2>1 DEF ReportInv, Truthful
  <2>4. QED
    BY <2>2, <2>3 DEF Truthful
<1>18. EventN(b)' = o.n /\ \A i \in Ready : EventN(i)' = EventN(i)
  <2>1. redirectEvents'[b].ev.n = o.n
    BY <1>6, <1>14
  <2>2. QED
    BY <1>13, <2>1 DEF EventN
<1>19. \A i \in 1..Len(redirectLog) : LineN(i)' = LineN(i)
  BY <1>4 DEF LineN
<1>20. Once'
  <2>1. \A p \in outcomes : p.n # o.n
    BY <1>1, <1>3 DEF ReportInv, Numbered
  <2>2. \A i \in Ready : \E p \in outcomes : EventN(i) = p.n
    BY DEF ReportInv, Truthful, ReportOf, EventN
  <2>3. \A i \in 1..Len(redirectLog) : \E p \in outcomes : LineN(i) = p.n
    BY DEF ReportInv, Truthful, LineOf, LineN
  <2>4. QED
    BY <1>4, <1>13, <1>18, <1>19, <2>1, <2>2, <2>3 DEF ReportInv, Once
<1>21. Complete'
  BY <1>3, <1>4, <1>13, <1>18, <1>19 DEF ReportInv, Complete
<1>22. QED
  BY <1>4, <1>15, <1>16, <1>17, <1>20, <1>21 DEF ReportInv

(* The reader's conversions give back what the connection was. *)
LEMMA LineReports ==
    ASSUME LandsRight, NEW ev, NEW o \in outcomes, ReportOf(ev, o)
    PROVE  LineOf(LogLine(ev), o)
<1> DEFINE l == LogLine(ev)
<1>1. /\ l.n = ev.n /\ l.original_host = ev.hostname
      /\ l.original_ip = uint32ToIP(ev.original_ip) /\ l.original_port = ntohs(ev.original_port)
      /\ l.proxy_ip = uint32ToIP(ev.proxy_ip) /\ l.proxy_port = ntohs(ev.proxy_port)
  BY DEF LogLine
<1> HIDE DEF l
<1>2. o.dst \in [ip : IPv4, port : Port]
  BY Connect4Assumption DEF ReportOf
<1>3. o.dst.ip \in IPv4 /\ o.dst.port \in Port /\ o.dst = [ip |-> o.dst.ip, port |-> o.dst.port]
  BY <1>2
<1>4. l.original_ip = o.dst.ip /\ l.original_port = o.dst.port
  BY <1>1, <1>3, AddressRoundTrip, PortRoundTrip DEF ReportOf, UserIp4, UserPort, uint32ToIP
<1>5. l.proxy_ip = ProxyIP /\ l.proxy_port = ProxyPort
  <2>1. ntohs(ntohs(ProxyPort)) = ProxyPort
    BY Connect4Assumption, PortRoundTrip DEF ntohs
  <2>2. QED
    BY <1>1, <2>1, Connect4Assumption, AddressRoundTrip DEF ReportOf, ProxyConfig, uint32ToIP
<1>6. o.peer = [ip |-> ProxyIP, port |-> ProxyPort]
  BY DEF LandsRight, Redirected, ReportOf
<1>7. LineOf(l, o)
  BY <1>1, <1>3, <1>4, <1>5, <1>6 DEF LineOf, ReportOf
<1>8. QED
  BY <1>7 DEF l

(* The reader takes the oldest record out and logs it. *)
LEMMA ReadReport ==
    ASSUME IInv, ReportInv, ReadRedirect, UNCHANGED delivered
    PROVE  ReportInv'
<1> DEFINE ev == redirectEvents[1].ev
<1>1. /\ UNCHANGED <<call, connects, outcomes>>
      /\ redirectEvents \in RedirectRing /\ Len(redirectEvents) \in Nat /\ Len(redirectEvents) > 0
      /\ redirectLog \in Seq({LogLine(e) : e \in RedirectEvents}) /\ Len(redirectLog) \in Nat
      /\ redirectEvents' = Tail(redirectEvents) /\ redirectEvents[1].st = "ready"
      /\ redirectLog' = Append(redirectLog, LogLine(ev))
  BY DEF ReadRedirect, Readable, ReportInv, ReportType, RedirectRing
<1>2. /\ redirectEvents' \in RedirectRing
      /\ Len(redirectEvents') = Len(redirectEvents) - 1
      /\ \A i \in 1..Len(redirectEvents') :
            i + 1 \in 1..Len(redirectEvents) /\ redirectEvents'[i] = redirectEvents[i + 1]
      /\ \A i \in 1..Len(redirectEvents) : i # 1 => i - 1 \in 1..Len(redirectEvents')
  BY <1>1, TailRing DEF RedirectRing
<1>3. 1 \in Ready
  BY <1>1 DEF Ready
<1>4. PICK o \in outcomes : ReportOf(ev, o)
  BY <1>3 DEF ReportInv, Truthful
<1>5. LineOf(LogLine(ev), o) /\ LogLine(ev).n = EventN(1)
  BY <1>4, LineReports DEF IInv, LogLine, EventN
<1>6. LogLine(ev) \in {LogLine(e) : e \in RedirectEvents}
  BY <1>4 DEF ReportOf
<1> HIDE DEF ev
<1>m. PICK m \in Nat : m = Len(redirectLog) + 1
  BY <1>1
<1>7. /\ redirectLog' \in Seq({LogLine(e) : e \in RedirectEvents})
      /\ Len(redirectLog') = m /\ m \in 1..m /\ 1..Len(redirectLog) \subseteq 1..m
      /\ \A i \in 1..m : i = m \/ i \in 1..Len(redirectLog)
      /\ \A i \in 1..Len(redirectLog) : redirectLog'[i] = redirectLog[i]
      /\ redirectLog'[m] = LogLine(ev)
  BY <1>1, <1>6, <1>m
<1>8. ReportType'
  BY <1>1, <1>2, <1>7 DEF ReportInv, ReportType
<1>9. Numbered'
  BY <1>1 DEF ReportInv, Numbered
<1>10. OneBusyRecord'
  <2>1. \A i \in 1..Len(redirectEvents') : Busy(i)' <=> Busy(i + 1)
    BY <1>2 DEF Busy
  <2>2. \A u : At(u, "reserved")' <=> At(u, "reserved")
    BY <1>1 DEF At
  <2>3. (\A i \in 1..Len(redirectEvents) : Busy(i) => At(redirectEvents[i].owner, "reserved"))'
    BY <1>2, <2>1, <2>2 DEF ReportInv, OneBusyRecord
  <2>4. (\A i, j \in 1..Len(redirectEvents) :
            Busy(i) /\ Busy(j) /\ redirectEvents[i].owner = redirectEvents[j].owner => i = j)'
    <3> SUFFICES ASSUME NEW i \in 1..Len(redirectEvents'), NEW j \in 1..Len(redirectEvents'),
                        Busy(i)', Busy(j)', redirectEvents'[i].owner = redirectEvents'[j].owner
                 PROVE  i = j
      OBVIOUS
    <3>1. i + 1 = j + 1
      BY <1>2, <2>1 DEF ReportInv, OneBusyRecord
    <3>2. QED
      BY <3>1
  <2>5. (\A t \in Threads : At(t, "reserved") =>
            \E i \in 1..Len(redirectEvents) : Busy(i) /\ redirectEvents[i].owner = t)'
    <3> SUFFICES ASSUME NEW t \in Threads, At(t, "reserved")
                 PROVE  \E i \in 1..Len(redirectEvents') : Busy(i)' /\ redirectEvents'[i].owner = t
      BY <2>2
    <3>1. PICK j \in 1..Len(redirectEvents) : Busy(j) /\ redirectEvents[j].owner = t
      BY DEF ReportInv, OneBusyRecord
    <3>2. j # 1
      BY <1>1, <3>1 DEF Busy
    <3>3. j - 1 \in 1..Len(redirectEvents') /\ j - 1 + 1 = j
      BY <1>2, <3>2
    <3>4. QED
      BY <1>2, <2>1, <3>1, <3>3
  <2>6. QED
    BY <2>3, <2>4, <2>5 DEF OneBusyRecord
<1>11. /\ \A i \in Ready' : i + 1 \in Ready /\ i + 1 # 1 /\ redirectEvents'[i] = redirectEvents[i + 1]
       /\ \A i \in Ready : i # 1 => i - 1 \in Ready' /\ redirectEvents'[i - 1] = redirectEvents[i]
  <2>1. \A i \in 1..Len(redirectEvents) : i # 1 => redirectEvents'[i - 1] = redirectEvents[i]
    <3> SUFFICES ASSUME NEW i \in 1..Len(redirectEvents), i # 1 PROVE redirectEvents'[i - 1] = redirectEvents[i]
      OBVIOUS
    <3>1. i - 1 \in 1..Len(redirectEvents') /\ (i - 1) + 1 = i
      BY <1>2
    <3>2. QED
      BY <1>2, <3>1
  <2>2. QED
    BY <1>2, <2>1 DEF Ready
<1>12. Truthful'
  <2>1. /\ \A e, p : ReportOf(e, p) => ReportOf(e, p)'
        /\ \A l, p : LineOf(l, p) => LineOf(l, p)'
    BY ReportsStay
  <2>2. (\A i \in Ready : \E p \in outcomes : ReportOf(redirectEvents[i].ev, p))'
    BY <1>1, <1>11, <2>1 DEF ReportInv, Truthful
  <2>3. (\A i \in 1..Len(redirectLog) : \E p \in outcomes : LineOf(redirectLog[i], p))'
    BY <1>1, <1>4, <1>5, <1>7, <2>1 DEF ReportInv, Truthful
  <2>4. QED
    BY <2>2, <2>3 DEF Truthful
<1>13. /\ \A i \in Ready' : EventN(i)' = EventN(i + 1)
       /\ \A i \in Ready : i # 1 => EventN(i - 1)' = EventN(i)
       /\ \A i \in 1..Len(redirectLog) : LineN(i)' = LineN(i)
       /\ LineN(m)' = EventN(1)
  BY <1>5, <1>7, <1>11 DEF EventN, LineN
<1>14. Once'
  <2>1. \A i, j \in Ready : EventN(i) = EventN(j) => i = j
    BY DEF ReportInv, Once
  <2>2. (\A i, j \in Ready : EventN(i) = EventN(j) => i = j)'
    <3> SUFFICES ASSUME NEW i \in Ready', NEW j \in Ready', EventN(i)' = EventN(j)' PROVE i = j
      OBVIOUS
    <3>1. i + 1 = j + 1
      BY <1>11, <1>13, <2>1
    <3>2. i \in Nat /\ j \in Nat
      BY DEF Ready
    <3>3. QED
      BY <3>1, <3>2
  <2>3. (\A i, j \in 1..Len(redirectLog) : LineN(i) = LineN(j) => i = j)'
    BY <1>3, <1>7, <1>13 DEF ReportInv, Once
  <2>4. (\A i \in Ready, j \in 1..Len(redirectLog) : EventN(i) # LineN(j))'
    BY <1>3, <1>7, <1>11, <1>13 DEF ReportInv, Once
  <2>5. QED
    BY <2>2, <2>3, <2>4 DEF Once
<1>15. Complete'
  <2> SUFFICES ASSUME NEW p \in outcomes, p.how = "reported"
               PROVE  \/ \E i \in Ready' : EventN(i)' = p.n
                      \/ \E i \in 1..Len(redirectLog') : LineN(i)' = p.n
    BY <1>1 DEF Complete
  <2>1. CASE \E i \in Ready : i # 1 /\ EventN(i) = p.n
    BY <1>11, <1>13, <2>1
  <2>2. CASE EventN(1) = p.n
    BY <1>7, <1>13, <2>2
  <2>3. CASE \E i \in 1..Len(redirectLog) : LineN(i) = p.n
    BY <1>7, <1>13, <2>3
  <2>4. QED
    BY <2>1, <2>2, <2>3 DEF ReportInv, Complete
<1>16. QED
  BY <1>8, <1>9, <1>10, <1>12, <1>14, <1>15 DEF ReportInv

(* Every step of the agent. *)
LEMMA NextReport == IInv /\ ReportInv /\ [Next]_vars => ReportInv'
<1> SUFFICES ASSUME IInv, ReportInv, [Next]_vars PROVE ReportInv'
  OBVIOUS
<1>1. ASSUME NEW c \in CPUs, Observe(c) PROVE ReportInv'
  BY <1>1, OthersReport DEF Observe, history
<1>2. CASE ReadDNSEvents
  BY <1>2, OthersReport DEF ReadDNSEvents
<1>3. CASE SkipDNSEvent
  BY <1>3, OthersReport DEF SkipDNSEvent, history
<1>4. CASE Service
  BY <1>4, OthersReport DEF Service
<1>5. ASSUME NEW t \in Threads, Connect(t) PROVE ReportInv'
  <2>1. UNCHANGED delivered
    BY <1>5 DEF Connect, history
  <2>2. QED
    BY <1>5, <2>1, ReserveReport, SubmitReport, NoReportReport, NewReport DEF Connect, Program
<1>6. CASE ReadRedirectEvents
  BY <1>6, ReadReport DEF ReadRedirectEvents, history
<1>7. CASE UNCHANGED vars
  BY <1>7, OthersReport DEF vars, history
<1>8. QED
  BY <1>1, <1>2, <1>3, <1>4, <1>5, <1>6, <1>7 DEF Next

(* So it holds in every behaviour. *)
LEMMA SpecReport == Spec => []ReportInv
BY SpecInv, InitReport, NextReport, PTL DEF Spec

(* The types of the composed system: the ring buffers hold records of their  *)
(* own programs, and a run of the hook holds an element of the map.          *)
THEOREM TypeCorrect == Spec => []TypeOK
<1>1. IInv /\ ReportInv => TypeOK
  BY DEF IInv, TcIInv, svcIInv, ReportInv, ReportType, RedirectRing, CallType, DeliveredType, TypeOK
<1>2. QED
  BY SpecInv, SpecReport, <1>1, PTL

(* A log line shows the addresses and ports of the connection it stands for, *)
(* after the conversions of the program and of the reader.                   *)
THEOREM LogIsFaithful == Spec => []LogFaithful
<1>1. ReportInv => LogFaithful
  BY DEF ReportInv, Truthful, LineOf, LogFaithful
<1>2. QED
  BY SpecReport, <1>1, PTL

(* A log line names a domain that its address was resolved through, unless   *)
(* the map element changed hands between the lookup and the copy.            *)
THEOREM LogNamesDomain == Spec => []LoggedHostResolves
<1>1. ReportInv => LoggedHostResolves
  <2> SUFFICES ASSUME ReportInv, NEW i \in 1..Len(redirectLog), NEW o \in outcomes,
                      o.n = redirectLog[i].n, ~ o.reused
               PROVE  HostOf(i, o)
    BY DEF LoggedHostResolves
  <2>1. PICK p \in outcomes : LineOf(redirectLog[i], p)
    BY DEF ReportInv, Truthful
  <2>2. p = o
    BY <2>1 DEF ReportInv, Numbered, LineOf
  <2>3. KnownAs(redirectLog[i].original_host, o.dst.ip)
    BY <2>1, <2>2 DEF LineOf
  <2>4. QED
    BY <2>3 DEF KnownAs, HostOf
<1>2. QED
  BY SpecReport, <1>1, PTL

(* A reported connection is pending or logged, once; the other connections   *)
(* are neither.                                                              *)
LEMMA Accounted ==
    ASSUME ReportInv, NEW o \in outcomes
    PROVE  Cardinality(LinesOf(o.n)) + Cardinality(PendingOf(o.n))
               = IF o.how = "reported" THEN 1 ELSE 0
<1>1. PendingOf(o.n) = {i \in Ready : EventN(i) = o.n}
  BY DEF PendingOf, Ready, EventN
<1>2. LinesOf(o.n) = {i \in 1..Len(redirectLog) : LineN(i) = o.n}
  BY DEF LinesOf, LineN
<1>3. Cardinality({}) = 0 /\ \A i : Cardinality({i}) = 1
  BY FS_EmptySet, FS_Singleton
<1>4. CASE o.how # "reported"
  <2>0. \A p \in outcomes : p.n = o.n => p = o
    BY DEF ReportInv, Numbered
  <2>1. \A i \in Ready : EventN(i) # o.n
    <3> SUFFICES ASSUME NEW i \in Ready PROVE EventN(i) # o.n
      OBVIOUS
    <3>1. PICK p \in outcomes : ReportOf(redirectEvents[i].ev, p)
      BY DEF ReportInv, Truthful
    <3>2. EventN(i) = p.n /\ p.how = "reported"
      BY <3>1 DEF ReportOf, EventN
    <3>3. QED
      BY <1>4, <2>0, <3>2
  <2>2. \A i \in 1..Len(redirectLog) : LineN(i) # o.n
    <3> SUFFICES ASSUME NEW i \in 1..Len(redirectLog) PROVE LineN(i) # o.n
      OBVIOUS
    <3>1. PICK p \in outcomes : LineOf(redirectLog[i], p)
      BY DEF ReportInv, Truthful
    <3>2. LineN(i) = p.n /\ p.how = "reported"
      BY <3>1 DEF LineOf, LineN
    <3>3. QED
      BY <1>4, <2>0, <3>2
  <2>3. PendingOf(o.n) = {} /\ LinesOf(o.n) = {}
    BY <1>1, <1>2, <2>1, <2>2
  <2>4. QED
    BY <1>3, <1>4, <2>3
<1>5. ASSUME NEW i \in Ready, EventN(i) = o.n, o.how = "reported"
      PROVE  Cardinality(LinesOf(o.n)) + Cardinality(PendingOf(o.n)) = 1
  <2>1. PendingOf(o.n) = {i} /\ LinesOf(o.n) = {}
    BY <1>1, <1>2, <1>5 DEF ReportInv, Once
  <2>2. Cardinality(PendingOf(o.n)) = 1 /\ Cardinality(LinesOf(o.n)) = 0
    BY <1>3, <2>1, Zenon
  <2>3. QED
    BY <2>2
<1>6. ASSUME NEW i \in 1..Len(redirectLog), LineN(i) = o.n, o.how = "reported"
      PROVE  Cardinality(LinesOf(o.n)) + Cardinality(PendingOf(o.n)) = 1
  <2>1. LinesOf(o.n) = {i} /\ PendingOf(o.n) = {}
    BY <1>1, <1>2, <1>6 DEF ReportInv, Once
  <2>2. Cardinality(PendingOf(o.n)) = 0 /\ Cardinality(LinesOf(o.n)) = 1
    BY <1>3, <2>1, Zenon
  <2>3. QED
    BY <2>2
<1>7. QED
  BY <1>4, <1>5, <1>6 DEF ReportInv, Complete

(* A connection whose event got a record is reported exactly once, in        *)
(* whatever order programs commit and the reader reads, and no other is.     *)
THEOREM ReportsAccounted == Spec => []Accounting
<1>1. ReportInv => Accounting
  <2> SUFFICES ASSUME ReportInv PROVE Accounting
    OBVIOUS
  <2>1. \A i \in 1..Len(redirectLog) : \E o \in outcomes : o.n = redirectLog[i].n
    BY DEF ReportInv, Truthful, LineOf
  <2>2. QED
    BY <2>1, Accounted DEF Accounting
<1>2. QED
  BY SpecReport, <1>1, PTL

-----------------------------------------------------------------------------
(* The promise. *)

(* Before anything happens, nothing is known and nothing is reported. *)
LEMMA InitPromise == Init => Promise!Init
<1> SUFFICES ASSUME Init PROVE Promise!Init
  OBVIOUS
<1>1. delivered = {} /\ processed = {} /\ outcomes = {} /\ redirectLog = <<>>
  BY DEF Init, c4Init
<1>2. Heard = {} /\ InPlace = {} /\ Made = {}
  BY <1>1 DEF Heard, InPlace, Made, ResolvedBefore
<1>3. Told = <<>>
  BY <1>1 DEF Told
<1>4. QED
  BY <1>2, <1>3 DEF Promise!Init

(* An address whose entry is in place was heard of. *)
LEMMA InPlaceHeard == IInv /\ LearnInv => InPlace \subseteq Heard
<1> SUFFICES ASSUME IInv, LearnInv, NEW d \in Targets, NEW a \in processed, d.ip \in Resolved(a)
             PROVE  d.ip \in Heard
  BY DEF InPlace
<1>1. PICK h \in Names : ResolvesTo(a, h, d.ip)
  BY DEF Resolved
<1>2. a \in Seq(RR) /\ a # <<>>
  BY <1>1 DEF LearnInv, ProcessedDelivered, ResolvesTo
<1>3. PICK m \in delivered : Begins(a, Contents[m].answer)
  BY <1>2 DEF LearnInv, ProcessedDelivered
<1>4. Contents[m].answer \in Seq(RR)
  BY ContentsAssumption DEF IInv, DeliveredType
<1>5. ResolvesTo(Contents[m].answer, h, d.ip)
  BY <1>1, <1>2, <1>3, <1>4, ResolvesMore
<1>6. QED
  BY <1>5 DEF Heard, ResolvedBefore

(* Steps of the DNS service and of its reader: the agent learns. *)
LEMMA LearnPromise ==
    ASSUME (IInv /\ LearnInv)', delivered \subseteq delivered', UNCHANGED <<outcomes, redirectLog>>
    PROVE  Promise!Learn
<1>1. Heard \subseteq Heard'
  BY DEF Heard, ResolvedBefore
<1>2. (InPlace \subseteq Heard)'
  BY InPlaceHeard, PTL
<1>3. Made' = Made /\ Told' = Told
  BY DEF Made, Told
<1>4. QED
  BY <1>1, <1>2, <1>3 DEF Promise!Learn

(* The connect hook and its reader learn nothing. *)
LEMMA NothingLearned == ASSUME UNCHANGED history PROVE Heard' = Heard /\ InPlace' = InPlace
BY DEF history, Heard, InPlace, ResolvedBefore

(* A connection that misses passes, and its address was not in place. *)
LEMMA PassPromise ==
    ASSUME LearnInv, ReportInv, NEW t \in Threads, NEW dst \in Targets, ConnectMiss(t, dst),
           UNCHANGED history
    PROVE  connects + 1 \in 1..MaxConnects /\ Promise!Pass(connects + 1, dst)
<1> DEFINE o == Outcome(t, connects + 1, dst, Peer(UserIp4(dst), UserPort(dst)), "passed", FALSE)
<1>1. /\ outcomes' = outcomes \cup {o} /\ UNCHANGED redirectLog
      /\ connects < MaxConnects /\ connects \in Nat /\ Linked(UserIp4(dst)) = {}
  BY DEF ConnectMiss, NewCall, ReportInv, ReportType
<1>2. connects + 1 \in 1..MaxConnects
  BY <1>1, Connect4Assumption
<1>3. o.n = connects + 1 /\ o.dst = dst /\ o.peer = dst /\ o.how = "passed"
  BY PeerOfTarget DEF Outcome
<1> HIDE DEF o
<1>4. Promise!New(connects + 1)
  <2>1. \A p \in outcomes : p.n # connects + 1
    BY <1>1 DEF ReportInv, Numbered
  <2>2. QED
    BY <2>1 DEF Promise!New, Made
<1>5. dst.ip \notin InPlace
  <2> SUFFICES ASSUME dst.ip \in InPlace PROVE FALSE
    OBVIOUS
  <2>1. PICK a \in processed : NativeUint32(dst.ip) \notin lost /\ Followable(a) /\ dst.ip \in Resolved(a)
    BY DEF InPlace
  <2>2. NativeUint32(dst.ip) \in LiveKeys
    BY <2>1 DEF LearnInv, MapComplete
  <2>3. QED
    BY <1>1, <2>2 DEF LiveKeys, Linked, UserIp4
<1>6. Made' = Made \cup {[n |-> connects + 1, dst |-> dst, peer |-> dst, how |-> "passed"]}
  BY <1>1, <1>3 DEF Made
<1>7. Told' = Told
  BY <1>1 DEF Told
<1>8. QED
  BY <1>2, <1>4, <1>5, <1>6, <1>7, NothingLearned DEF Promise!Pass

(* A run of the hook that hit diverts its connection at its end, and its     *)
(* address was heard of, whatever became of the entry since the lookup.      *)
LEMMA DivertPromise ==
    ASSUME IInv, ReportInv, NEW t \in Threads, NEW how, call[t] # NoCall, Rewrite(t, how), UNCHANGED history
    PROVE  /\ call[t].n \in 1..MaxConnects /\ call[t].dst \in Targets
           /\ Promise!Divert(call[t].n, call[t].dst, how)
<1>1. PICK o : /\ outcomes' = outcomes \cup {o}
               /\ o.n = call[t].n /\ o.how = how /\ o.dst = call[t].dst
               /\ o.peer = [ip |-> ProxyIP, port |-> ProxyPort]
  BY RewriteNumbered
<1>2. call[t].n \in 1..MaxConnects
  BY Connect4Assumption DEF ReportInv, ReportType, Numbered
<1>3. call[t].dst \in Targets
  BY DEF IInv, CallType, Call
<1>4. Promise!New(call[t].n)
  <2>1. \A p \in outcomes : p.n # call[t].n
    BY DEF ReportInv, Numbered
  <2>2. QED
    BY <2>1 DEF Promise!New, Made
<1>5. call[t].dst.ip \in Heard
  BY <1>3 DEF IInv, CallKnown, KnownAs, Heard
<1>6. Made' = Made \cup {[n |-> call[t].n, dst |-> call[t].dst,
                          peer |-> [ip |-> ProxyIP, port |-> ProxyPort], how |-> how]}
  BY <1>1 DEF Made
<1>7. Told' = Told
  BY DEF Rewrite, Told
<1>8. QED
  BY <1>2, <1>3, <1>4, <1>5, <1>6, <1>7, NothingLearned DEF Promise!Divert

(* A new line of the log is a new report. *)
LEMMA ToldMore ==
    ASSUME NEW S, redirectLog \in Seq(S), NEW l, redirectLog' = Append(redirectLog, l)
    PROVE  Told' = Append(Told, [n    |-> l.n,
                                 dst  |-> [ip |-> l.original_ip, port |-> l.original_port],
                                 peer |-> [ip |-> l.proxy_ip, port |-> l.proxy_port]])
<1> DEFINE T(x) == [n    |-> x.n,
                    dst  |-> [ip |-> x.original_ip, port |-> x.original_port],
                    peer |-> [ip |-> x.proxy_ip, port |-> x.proxy_port]]
<1>1. /\ Len(redirectLog) \in Nat /\ Len(redirectLog') = Len(redirectLog) + 1
      /\ \A i \in 1..Len(redirectLog) : redirectLog'[i] = redirectLog[i]
      /\ redirectLog'[Len(redirectLog) + 1] = l
  OBVIOUS
<1>2. Told = [i \in 1..Len(redirectLog) |-> T(redirectLog[i])]
  BY DEF Told
<1>3. Told' = [i \in 1..Len(redirectLog') |-> T(redirectLog'[i])]
  BY DEF Told
<1> HIDE DEF T
<1>4. Told \in Seq({T(redirectLog[i]) : i \in 1..Len(redirectLog)}) /\ Len(Told) = Len(redirectLog)
  BY <1>1, <1>2
<1>5. Told' = Append(Told, T(l))
  BY <1>1, <1>2, <1>3, <1>4
<1>6. QED
  BY <1>5 DEF T

(* The reader reports a connection that was made, diverted and not reported before. *)
LEMMA ReportPromise ==
    ASSUME IInv, ReportInv, ReadRedirect, UNCHANGED history
    PROVE  \E c \in Made : Promise!Report(c)
<1> DEFINE ev == redirectEvents[1].ev
           l  == LogLine(ev)
<1>1. /\ UNCHANGED outcomes /\ redirectEvents[1].st = "ready" /\ 1 \in 1..Len(redirectEvents)
      /\ redirectLog \in Seq({LogLine(e) : e \in RedirectEvents})
      /\ redirectLog' = Append(redirectLog, l)
  BY DEF ReadRedirect, Readable, ReportInv, ReportType, RedirectRing
<1>2. 1 \in Ready
  BY <1>1 DEF Ready
<1>3. PICK o \in outcomes : ReportOf(ev, o)
  BY <1>2 DEF ReportInv, Truthful
<1>4. LineOf(l, o) /\ l.n = EventN(1)
  BY <1>3, LineReports DEF IInv, LogLine, EventN
<1> DEFINE c == [n |-> o.n, dst |-> o.dst, peer |-> o.peer, how |-> o.how]
<1>5. c \in Made /\ c.how = "reported"
  BY <1>3 DEF Made, ReportOf
<1> HIDE DEF ev, l
<1>6. \A i \in 1..Len(redirectLog) : redirectLog[i].n # o.n
  BY <1>2, <1>4 DEF ReportInv, Once, LineN, LineOf
<1>7. Len(Told) = Len(redirectLog) /\ \A i \in 1..Len(redirectLog) : Told[i].n = redirectLog[i].n
  BY <1>1 DEF Told
<1>8. Told' = Append(Told, [n |-> c.n, dst |-> c.dst, peer |-> c.peer])
  BY <1>1, <1>4, ToldMore DEF LineOf
<1>9. Made' = Made
  BY <1>1 DEF Made
<1>10. Promise!Report(c)
  BY <1>5, <1>6, <1>7, <1>8, <1>9, NothingLearned DEF Promise!Report
<1>11. QED
  BY <1>5, <1>10

(* Every step of the agent is one of the promised steps, or none. *)
LEMMA NextPromise ==
    IInv /\ LearnInv /\ ReportInv /\ (IInv /\ LearnInv)' /\ [Next]_vars
        => [Promise!Next]_(Promise!avars)
<1> SUFFICES ASSUME IInv, LearnInv, ReportInv, (IInv /\ LearnInv)', [Next]_vars
             PROVE  Promise!Next \/ UNCHANGED Promise!avars
  OBVIOUS
<1>1. ASSUME UNCHANGED history, UNCHANGED <<outcomes, redirectLog>> PROVE UNCHANGED Promise!avars
  BY <1>1, NothingLearned DEF Promise!avars, Made, Told
<1>2. ASSUME NEW c \in CPUs, Observe(c) PROVE UNCHANGED Promise!avars
  BY <1>1, <1>2 DEF Observe, c4Vars
<1>3. CASE SkipDNSEvent \/ UNCHANGED vars
  BY <1>1, <1>3 DEF SkipDNSEvent, c4Vars, vars
<1>4. CASE ReadDNSEvents \/ Service
  BY <1>4, LearnPromise DEF ReadDNSEvents, Service, c4Vars, Promise!Next
<1>5. ASSUME NEW t \in Threads, Connect(t) PROVE Promise!Next \/ UNCHANGED Promise!avars
  <2>1. UNCHANGED history
    BY <1>5 DEF Connect
  <2>2. ASSUME NEW dst \in Targets, ConnectMiss(t, dst) PROVE Promise!Next
    BY <2>1, <2>2, PassPromise DEF Promise!Next
  <2>3. ASSUME NEW dst \in Targets, ConnectHit(t, dst) PROVE UNCHANGED Promise!avars
    BY <1>1, <2>1, <2>3 DEF ConnectHit
  <2>4. CASE Reserve(t)
    BY <1>1, <2>1, <2>4 DEF Reserve
  <2>5. CASE Submit(t)
    BY <2>1, <2>5, DivertPromise DEF Submit, At, Promise!Next
  <2>6. CASE NoReport(t)
    BY <2>1, <2>6, DivertPromise DEF NoReport, At, Promise!Next
  <2>7. QED
    BY <1>5, <2>2, <2>3, <2>4, <2>5, <2>6 DEF Connect, Program
<1>6. CASE ReadRedirectEvents
  BY <1>6, ReportPromise DEF ReadRedirectEvents, Promise!Next
<1>7. QED
  BY <1>2, <1>3, <1>4, <1>5, <1>6 DEF Next

(* The agent keeps its promise: captures, loops, evictions, lookups and      *)
(* reservations are invisible, a connection is diverted only if its address  *)
(* was heard of, it passes only while its entry is not in place, and each    *)
(* report is made once and tells what happened.                              *)
THEOREM AgentKeepsPromise == Spec => KeepsPromise
<1>1. Spec => [](IInv /\ LearnInv /\ ReportInv)
  BY SpecInv, SpecLearn, SpecReport, PTL
<1>2. QED
  BY <1>1, InitPromise, NextPromise, PTL DEF Spec, KeepsPromise, Promise!Spec
=============================================================================
