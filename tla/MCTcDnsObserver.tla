-------------------------- MODULE MCTcDnsObserver --------------------------
(***************************************************************************)
(* Packets at the boundaries of every check of tc_dns_observer.            *)
(***************************************************************************)
EXTENDS TcDnsObserver

CONSTANTS c1, c2, m

MCCPUs == {c1, c2}
MCMessages == {m}

Packet(len, ihl, proto, sport, doff, flags, an) ==
    [len |-> len,
     ip  |-> [ihl |-> ihl, proto |-> proto],
     l4  |-> [sport |-> sport, doff |-> doff],
     dns |-> [flags_hi |-> flags, ancount |-> an, msg |-> m]]

UdpBase == 14 + 20 + 8
TcpBase == 14 + 20 + 20 + 2

(* A UDP response whose payload has n bytes. *)
UdpPayload(n) == Packet(UdpBase + n, 5, UDP, 53, 0, 129, 1)

MCSkbs ==
    {UdpPayload(n) : n \in {0, 11, 12, 511, 512, 513, 1023, 1024, 1035, 1036, 1536, 1537}}
    \cup {Packet(TcpBase + n, 5, TCP, 53, 5, 129, 1) : n \in {0, 12, 512}}
    \cup {Packet(14 + 60 + 60 + 2 + 12, 15, TCP, 53, 15, 128, 256),
          Packet(TcpBase + 12, 5, TCP, 53, 4, 129, 1),     \* data offset too small
          Packet(UdpBase + 12, 4, UDP, 53, 0, 129, 1),     \* IHL too small
          Packet(UdpBase + 12, 5, UDP, 80, 0, 129, 1),     \* not from port 53
          Packet(UdpBase + 12, 5, 1, 53, 0, 129, 1),       \* neither UDP nor TCP
          Packet(14, 5, UDP, 53, 0, 129, 1),               \* no IP header
          Packet(UdpBase + 12, 5, UDP, 53, 0, 127, 1),     \* a query
          Packet(UdpBase + 12, 5, UDP, 53, 0, 129, 0)}     \* no answer
=============================================================================
