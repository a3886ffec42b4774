------------------------------ MODULE Connect4 ------------------------------
(***************************************************************************)
(* The program cgroup_connect4 (bpf/ai_interceptor.c), which runs inside   *)
(* connect() of every thread of the node, and the loop of                  *)
(* ReadRedirectEvents (reader.go), which logs what the program reports.    *)
(*                                                                         *)
(* Between its map lookup and its use of the pointer the lookup returned   *)
(* the program runs concurrently with map updates, with the program runs   *)
(* of other threads and with the reader.                                   *)
(***************************************************************************)
EXTENDS AiDestinations, ByteOrder, BpfRing

CONSTANTS
    Threads,            \* thread ids
    TgidOf,             \* the process of each thread
    Targets,            \* the addresses the threads connect to
    ProxyIP, ProxyPort, \* config.go
    RedirectRingCap,    \* records that fit into redirect_events (4 MB)
    MaxConnects,        \* bound: calls of connect() in a behaviour
    NoCall,             \* the thread is not inside the program
    Torn                \* a hostname field with bytes of two names

(* A run of the program after its lookups.  seen is the hostname field of    *)
(* the element at the time of the lookup.                                    *)
Call == [n : Nat, dst : Targets, slot : Slots, seen : HostFields \cup {NoHost},
         pc : {"hit", "reserved", "full"}]

ASSUME Connect4Assumption ==
    /\ DOMAIN TgidOf = Threads
    /\ Targets \subseteq [ip : IPv4, port : Port]
    /\ ProxyIP \in IPv4
    /\ ProxyPort \in Port
    /\ RedirectRingCap \in Nat \ {0}
    /\ MaxConnects \in Nat
    /\ NoCall \notin Call
    /\ Torn \notin HostFields \cup {NoHost}

VARIABLES
    call,           \* per thread: the run of the program in progress
    redirectEvents, \* the redirect_events ring buffer
    redirectLog,    \* the "ai_traffic_redirected" lines, in order
    connects,       \* number of calls of connect()
    outcomes        \* history: the calls that returned, with their result

c4Vars == <<call, redirectEvents, redirectLog, connects, outcomes>>

-----------------------------------------------------------------------------
(* writeProxyConfig (manager.go): the value of proxy_config[0].  It is       *)
(* written before the program is attached (module Agent), and the lookup of  *)
(* index 0 of a one-element BPF_MAP_TYPE_ARRAY never returns NULL.           *)
ProxyConfig == [ip |-> NativeUint32(ProxyIP), port |-> ntohs(ProxyPort)]

\* A plausible slip: the address is converted to host order for the lookup.
UserIp4HostOrder(dst) == NativeUint32([i \in 1..4 |-> dst.ip[5 - i]])

(* ctx->user_ip4 and ctx->user_port: the bytes of the sockaddr, loaded as    *)
(* native integers, and back.                                                *)
UserIp4(dst)  == NativeUint32(dst.ip)
UserPort(dst) == NativeUint16(PortBytes(dst.port))
Peer(ip, port) == [ip |-> NativePutUint32(ip), port |-> BigUint16(NativePutUint16(port))]

RedirectEvent(t, k, host) ==
    [n |-> k.n,                         \* stands for timestamp_ns
     pid |-> t,                         \* (__u32)pid_tgid: the thread id
     tgid |-> TgidOf[t],
     original_ip |-> UserIp4(k.dst),
     original_port |-> UserPort(k.dst),
     proxy_ip |-> ProxyConfig.ip,
     proxy_port |-> ProxyConfig.port,
     hostname |-> host]

(* The element was given to another entry since the lookup. *)
Reused(k) == aiDest[k.slot].key # UserIp4(k.dst) \/ aiDest[k.slot].host # k.seen

(* bpf_probe_read_kernel through the pointer races with the map update that  *)
(* refills the element: it yields the new bytes, or some of each.            *)
ReadHostname(k) ==
    {aiDest[k.slot].host} \cup (IF aiDest[k.slot].host # k.seen THEN {Torn} ELSE {})

Outcome(t, n, dst, peer, how, reused) ==
    [n |-> n, thread |-> t, dst |-> dst, peer |-> peer, how |-> how, reused |-> reused]

-----------------------------------------------------------------------------
c4Init ==
    /\ call = [t \in Threads |-> NoCall]
    /\ redirectEvents = <<>>
    /\ redirectLog = <<>>
    /\ connects = 0
    /\ outcomes = {}

NewCall(t) ==
    /\ call[t] = NoCall
    /\ connects < MaxConnects
    /\ connects' = connects + 1

(* The destination is not in ai_destinations: return 1, address unchanged. *)
ConnectMiss(t, dst) ==
    /\ NewCall(t)
    /\ Linked(UserIp4(dst)) = {}
    /\ outcomes' = outcomes \cup
           {Outcome(t, connects + 1, dst, Peer(UserIp4(dst), UserPort(dst)),
                    "passed", FALSE)}
    /\ UNCHANGED <<call, redirectEvents, redirectLog, aiDest>>

(* The lookups: info points to the element that holds the key. *)
ConnectHit(t, dst) ==
    /\ NewCall(t)
    /\ \E s \in Linked(UserIp4(dst)) :
          call' = [call EXCEPT ![t] =
                      [n |-> connects + 1, dst |-> dst, slot |-> s,
                       seen |-> aiDest[s].host, pc |-> "hit"]]
    /\ UNCHANGED <<redirectEvents, redirectLog, outcomes, aiDest>>

At(t, pc) == call[t] # NoCall /\ call[t].pc = pc

Reserve(t) ==
    /\ At(t, "hit")
    /\ IF HasRoom(redirectEvents, RedirectRingCap)
       THEN /\ redirectEvents' = bpf_ringbuf_reserve(redirectEvents, t)
            /\ call' = [call EXCEPT ![t].pc = "reserved"]
       ELSE /\ call' = [call EXCEPT ![t].pc = "full"]
            /\ UNCHANGED redirectEvents
    /\ UNCHANGED <<redirectLog, connects, outcomes, aiDest>>

(* The end of the program: the context is rewritten to the proxy, with or    *)
(* without an event.                                                         *)
Rewrite(t, how) ==
    /\ outcomes' = outcomes \cup
           {Outcome(t, call[t].n, call[t].dst, Peer(ProxyConfig.ip, ProxyConfig.port),
                    how, Reused(call[t]))}
    /\ call' = [call EXCEPT ![t] = NoCall]
    /\ UNCHANGED <<redirectLog, connects, aiDest>>

\* A plausible slip: the filled-in record is not submitted.
SubmitForgotten(t) ==
    /\ At(t, "reserved")
    /\ Rewrite(t, "reported")
    /\ UNCHANGED redirectEvents

(* Fill in the event, the hostname through the pointer info, and submit it. *)
Submit(t) ==
    /\ At(t, "reserved")
    /\ \E host \in ReadHostname(call[t]) :
          redirectEvents' = bpf_ringbuf_submit(redirectEvents, t,
                                RedirectEvent(t, call[t], host))
    /\ Rewrite(t, "reported")

(* bpf_ringbuf_reserve returned NULL: no event. *)
NoReport(t) ==
    /\ At(t, "full")
    /\ Rewrite(t, "unreported")
    /\ UNCHANGED redirectEvents

-----------------------------------------------------------------------------
(* ReadRedirectEvents: one record, converted and logged.  Every record has   *)
(* the size of redirect_event_t, so ringbufCast does not fail.               *)
LogLine(ev) ==
    [n |-> ev.n,
     pid |-> ev.pid,
     original_host |-> ev.hostname,
     original_ip |-> uint32ToIP(ev.original_ip),
     original_port |-> ntohs(ev.original_port),
     proxy_ip |-> uint32ToIP(ev.proxy_ip),
     proxy_port |-> ntohs(ev.proxy_port)]

ReadRedirect ==
    /\ Readable(redirectEvents)
    /\ redirectLog' = Append(redirectLog, LogLine(Head(redirectEvents).ev))
    /\ redirectEvents' = Tail(redirectEvents)
    /\ UNCHANGED <<call, connects, outcomes, aiDest>>

Program(t) == Reserve(t) \/ Submit(t) \/ NoReport(t)

c4Next ==
    \/ ReadRedirect
    \/ \E t \in Threads :
          \/ Program(t)
          \/ \E dst \in Targets : ConnectMiss(t, dst) \/ ConnectHit(t, dst)
=============================================================================
