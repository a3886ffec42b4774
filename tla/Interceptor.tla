---------------------------- MODULE Interceptor ----------------------------
(***************************************************************************)
(* A running agent: the TC program on the CPUs that receive packets, the   *)
(* goroutine of ReadDNSEvents with the DNS service it calls, the connect   *)
(* hook in the threads of the node, and the goroutine of                   *)
(* ReadRedirectEvents.  They share the two ring buffers and the            *)
(* ai_destinations map, and nothing orders their steps.                    *)
(***************************************************************************)
EXTENDS TcDnsObserver, DnsService, Connect4, FiniteSets

CONSTANT Contents   \* size and answer section of each DNS message

ASSUME ContentsAssumption == Contents \in [Messages -> [size : Nat, answer : Seq(RR)]]

VARIABLES
    delivered,      \* history: messages handed to ProcessDNSEvent
    processed,      \* history: answer sections it has gone through
    lost            \* history: keys whose entry was evicted or not written

history == <<delivered, processed, lost>>
vars    == <<tcVars, svcVars, c4Vars, history>>

-----------------------------------------------------------------------------
Init ==
    /\ TcInit
    /\ svcInit
    /\ c4Init
    /\ delivered = {}
    /\ processed = {}
    /\ lost = {}

Observe(c) == TcProgram(c) /\ UNCHANGED <<svcVars, c4Vars, history>>

(* The checks of ReadDNSEvents on a record; all records have the size of     *)
(* dns_event_t, 8 bytes of msg_size and the msg array.                       *)
ReaderAccepts(ev) == ev.msg_size > 0 /\ 8 + ev.msg_size <= 8 + MAX_DNS_MSG_SIZE

(* dns.Msg.Unpack of the first msg_size bytes of the message: a message that *)
(* is all there is parsed as it is; one that is cut off is an error, or      *)
(* loses its last records when the cut falls between two of them.            *)
Whole(ev) == ev.msg_size >= Contents[ev.from.dns.msg].size
Unpack(ev) ==
    LET a == Contents[ev.from.dns.msg].answer
    IN  IF Whole(ev) THEN {a} ELSE {SubSeq(a, 1, n) : n \in 0..Len(a)}

ReadDNSEvents ==
    /\ Readable(dnsEvents)
    /\ LET ev == Head(dnsEvents).ev
       IN  /\ ReaderAccepts(ev)
           /\ \/ \E a \in Unpack(ev) : ProcessDNSEvent(a)
              \/ ~ Whole(ev) /\ ProcessUnpackError
           /\ delivered' = delivered \cup {ev.from.dns.msg}
    /\ dnsEvents' = Tail(dnsEvents)
    /\ UNCHANGED <<tcSkb, arrived, c4Vars, processed, lost>>

(* A record the reader passes over: discarded by the program, which the      *)
(* ring buffer library skips itself, or refused by the reader's checks.      *)
PassedOver(ring) == Skippable(ring) \/ (Readable(ring) /\ ~ ReaderAccepts(Head(ring).ev))

SkipDNSEvent ==
    /\ svcPc = "idle"
    /\ PassedOver(dnsEvents)
    /\ dnsEvents' = Tail(dnsEvents)
    /\ UNCHANGED <<tcSkb, arrived, svcVars, c4Vars, history>>

LiveKeys == {aiDest[s].key : s \in {x \in Slots : aiDest[x].st = "linked"}}

(* A step of ProcessDNSEvent, and what it does to the histories. *)
Service ==
    /\ Processing
    /\ processed' = IF svcPc = "a" /\ svcPc' = "idle" THEN processed \cup {answer}
                                                      ELSE processed
    /\ lost' = (lost \cup LiveKeys \cup {NativeUint32(ip) : ip \in failed'}) \ LiveKeys'
    /\ UNCHANGED <<tcVars, c4Vars, delivered>>

Connect(t) ==
    /\ \/ Program(t)
       \/ \E dst \in Targets : ConnectMiss(t, dst) \/ ConnectHit(t, dst)
    /\ UNCHANGED <<tcVars, svcLocal, history>>

ReadRedirectEvents == ReadRedirect /\ UNCHANGED <<tcVars, svcLocal, history>>

Next ==
    \/ \E c \in CPUs : Observe(c)
    \/ ReadDNSEvents
    \/ SkipDNSEvent
    \/ Service
    \/ \E t \in Threads : Connect(t)
    \/ ReadRedirectEvents

(* eBPF programs run to completion once started, and the scheduler runs the  *)
(* two reader goroutines; no packet and no connect() has to come.            *)
Fairness ==
    /\ \A c \in CPUs : WF_vars((TcSubmit(c) \/ TcDiscard(c)) /\ UNCHANGED <<svcVars, c4Vars, history>>)
    /\ WF_vars(ReadDNSEvents \/ SkipDNSEvent)
    /\ WF_vars(Service)
    /\ \A t \in Threads : WF_vars(Program(t) /\ UNCHANGED <<tcVars, svcLocal, history>>)
    /\ WF_vars(ReadRedirectEvents)

Spec == Init /\ [][Next]_vars /\ Fairness

-----------------------------------------------------------------------------
(* Properties *)

RedirectEvents ==
    [n : Nat, pid : Threads, tgid : {TgidOf[t] : t \in Threads}, original_ip : Nat, original_port : Nat,
     proxy_ip : Nat, proxy_port : Nat, hostname : HostFields \cup {NoHost, Torn}]

(* The types of the composed system: those of the TC program and of the DNS  *)
(* service, the records of redirect_events, and the runs of the connect hook.*)
TypeOK ==
    /\ TcTypeOK
    /\ svcTypeOK
    /\ redirectEvents \in Seq(RingRecord(Threads, RedirectEvents))
    /\ call \in [Threads -> Call \cup {NoCall}]
    /\ connects \in 0..MaxConnects
    /\ delivered \subseteq Messages

Redirected(o)  == o.how # "passed"
LinesOf(n)     == {i \in 1..Len(redirectLog) : redirectLog[i].n = n}
PendingOf(n)   == {i \in 1..Len(redirectEvents) :
                     redirectEvents[i].st = "ready" /\ redirectEvents[i].ev.n = n}

(* Only AI traffic is diverted: the address of every redirected connection   *)
(* was resolved through a configured AI domain by a DNS response that the    *)
(* agent has processed before, whatever was captured, cut off, evicted,      *)
(* overwritten or looked up in between.                                      *)
ResolvedBefore(h, ip4) ==
    \E m \in delivered : ResolvesTo(Contents[m].answer, h, ip4)

OnlyAIRedirected ==
    \A o \in outcomes : Redirected(o) => \E h \in Names : ResolvedBefore(h, o.dst.ip)

(* Nothing the agent learned gets lost unnoticed: the address of every AI    *)
(* domain in a response that was gone through is in ai_destinations, unless  *)
(* the map evicted it or its update failed.                                  *)
MapComplete ==
    \A a \in processed : Followable(a) =>
        \A ip4 \in Resolved(a) : NativeUint32(ip4) \in LiveKeys \cup lost

(* Where a connection ends up, through the conversions of the configuration, *)
(* of the map value and of the socket address: a redirected one at the       *)
(* configured proxy, every other one where the application wanted to go.     *)
LandsRight ==
    \A o \in outcomes :
        o.peer = IF Redirected(o) THEN [ip |-> ProxyIP, port |-> ProxyPort] ELSE o.dst

(* A connection whose event got a record is reported exactly once, as a      *)
(* pending event or as a log line, and no other connection is reported.      *)
Accounting ==
    /\ \A o \in outcomes :
          Cardinality(LinesOf(o.n)) + Cardinality(PendingOf(o.n))
              = IF o.how = "reported" THEN 1 ELSE 0
    /\ \A i \in 1..Len(redirectLog) : \E o \in outcomes : o.n = redirectLog[i].n

(* A log line shows the addresses of the connection it stands for, converted *)
(* back by the reader.                                                       *)
LogFaithful ==
    \A i \in 1..Len(redirectLog) : \E o \in outcomes :
        /\ o.n = redirectLog[i].n
        /\ [ip |-> redirectLog[i].original_ip, port |-> redirectLog[i].original_port] = o.dst
        /\ [ip |-> redirectLog[i].proxy_ip, port |-> redirectLog[i].proxy_port] = o.peer

(* A log line names a host through which the original address was resolved,  *)
(* unless the map element was given away between the lookup and the copy.    *)
HostOf(i, o) ==
    \E h \in Names : redirectLog[i].original_host = Hostname64[h] /\ ResolvedBefore(h, o.dst.ip)

LoggedHostResolves ==
    \A i \in 1..Len(redirectLog), o \in outcomes :
        o.n = redirectLog[i].n /\ ~ o.reused => HostOf(i, o)

(* The agent as its users see it: the addresses that it has heard of, those  *)
(* whose responses it has gone through and not lost, the connections made,   *)
(* and what the log lines say about them.                                    *)
Heard == {d.ip : d \in {t \in Targets : \E h \in Names : ResolvedBefore(h, t.ip)}}
InPlace ==
    {d.ip : d \in {t \in Targets : /\ NativeUint32(t.ip) \notin lost
                                  /\ \E a \in processed : Followable(a) /\ t.ip \in Resolved(a)}}
Made == {[n |-> o.n, dst |-> o.dst, peer |-> o.peer, how |-> o.how] : o \in outcomes}
Told ==
    [i \in 1..Len(redirectLog) |->
       [n    |-> redirectLog[i].n,
        dst  |-> [ip |-> redirectLog[i].original_ip, port |-> redirectLog[i].original_port],
        peer |-> [ip |-> redirectLog[i].proxy_ip, port |-> redirectLog[i].proxy_port]]]

Promise == INSTANCE Interception
    WITH Numbers <- 1..MaxConnects, Connections <- Targets,
         Proxy <- [ip |-> ProxyIP, port |-> ProxyPort],
         known <- Heard, sure <- InPlace, conns <- Made, log <- Told

(* The agent keeps its promise, step by step: captures, loops, evictions,    *)
(* lookups and reservations are stutters of a system that passes or diverts  *)
(* each connection at once.  A connection is diverted only if its address    *)
(* was heard of before, it bypasses the proxy only while the entry of its    *)
(* address is not in place or was lost, and each report is made once.        *)
KeepsPromise == Promise!Spec

(* Every response that reached the ring buffer is eventually taken out and   *)
(* gone through, and the service comes to rest.                              *)
CapturedIsProcessed == []<>(dnsEvents = <<>> /\ svcPc = "idle")

(* Every connection whose event got a record is eventually logged. *)
ReportedIsLogged ==
    \A n \in 1..MaxConnects :
        (\E t \in Threads : At(t, "reserved") /\ call[t].n = n) ~> (LinesOf(n) # {})

-----------------------------------------------------------------------------
(* What the documentation says and the code does not do. *)

(* "Userspace agent reads redirect_events and logs the redirect with PID,    *)
(* process name, original host/IP" (README.md, Data Flow): the host is one   *)
(* the address was resolved from.  It may be that of another address, whose  *)
(* entry took the map element over during the program run.                   *)
LoggedHostMatchesIP ==
    \A i \in 1..Len(redirectLog), o \in outcomes :
        o.n = redirectLog[i].n => HostOf(i, o)
=============================================================================
