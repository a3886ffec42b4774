--------------------------- MODULE TcDnsObserver ---------------------------
(***************************************************************************)
(* The TC ingress program tc_dns_observer (bpf/ai_interceptor.c): it       *)
(* copies DNS responses into the dns_events ring buffer.  The program runs *)
(* on every CPU that receives packets; between the reservation of a record *)
(* and its submission the other CPUs and the reader make progress.         *)
(*                                                                         *)
(* A packet is the bytes the program looks at, whatever protocol they      *)
(* really belong to: the filter is attached with ETH_P_ALL and the program *)
(* does not check the IP version.  msg is the DNS message that starts at   *)
(* the payload offset.                                                     *)
(***************************************************************************)
EXTENDS Integers, Sequences, BpfRing

CONSTANTS
    CPUs,           \* the CPUs that run the program
    Messages,       \* DNS messages, opaque here
    Skbs,           \* the packets that may arrive
    NoSkb,          \* no packet is being handled
    DnsRingCap,     \* records that fit into dns_events (8 MB in the code)
    MaxPackets      \* bound: packets that arrive in a behaviour

(* defs.h, dns/defs.h *)
ETH_HDR_LEN        == 14
IP_HDR_MINLEN      == 20
UDP_HDR_LEN        == 8
TCP_HDR_MINLEN     == 20
DNS_TCP_LEN_PREFIX == 2
DNS_HDR_MIN_LEN    == 12
MAX_DNS_MSG_SIZE   == 512

UDP == 17
TCP == 6

Word16 == {n \in Nat : n < 65536}

(* The bytes of a packet the program looks at, by layer. *)
IpHdr  == [ihl : 0..15,             \* low nibble of byte 0
           proto : 0..255]          \* byte 9
L4Hdr  == [sport : Word16,        \* bytes 0 and 1
           doff : 0..15]            \* high nibble of byte 12
DnsMsg == [flags_hi : 0..255,       \* byte 2
           ancount : Word16,      \* bytes 6 and 7
           msg : Messages]          \* the message as a whole
Skb    == [len : Nat, ip : IpHdr, l4 : L4Hdr, dns : DnsMsg]

(* The sizes that fit the msg array of dns_event_t. *)
MsgSize == {n \in Nat : n <= MAX_DNS_MSG_SIZE}

ASSUME TcAssumption ==
    /\ Skbs \subseteq Skb
    /\ NoSkb \notin Skb
    /\ NoEvent \notin [msg_size : MsgSize, from : Skb]
    /\ DnsRingCap \in Nat \ {0}
    /\ MaxPackets \in Nat

VARIABLES
    dnsEvents,      \* the dns_events ring buffer
    tcSkb,          \* per CPU: the packet of the program run in progress
    arrived         \* number of packets that arrived

tcVars == <<dnsEvents, tcSkb, arrived>>

-----------------------------------------------------------------------------
(* The arithmetic of the program, in its integer widths. *)

U16(n) == n % 65536

(* bpf_skb_load_bytes succeeds iff the bytes lie within the packet. *)
Loadable(skb, off, n) == off + n <= skb.len

IpHdrLen(skb) == U16(skb.ip.ihl * 4)
TransportOffset(skb) == U16(ETH_HDR_LEN + IpHdrLen(skb))
TransportHdrLen(skb) ==
    IF skb.ip.proto = UDP THEN UDP_HDR_LEN ELSE U16(skb.l4.doff * 4)
DnsPrefix(skb) == IF skb.ip.proto = TCP THEN DNS_TCP_LEN_PREFIX ELSE 0
PayloadOffset(skb) ==
    U16(TransportOffset(skb) + TransportHdrLen(skb) + DnsPrefix(skb))

\* A plausible slip: the mask is one bit narrower.
PayloadLenTightMask(skb) == (skb.len - PayloadOffset(skb)) % MAX_DNS_MSG_SIZE

(* The mask 2*MAX_DNS_MSG_SIZE - 1 keeps the remainder modulo 1024, which    *)
(* divides 2^32, so the 32-bit subtraction needs no remainder of its own.    *)
PayloadLen(skb) == (skb.len - PayloadOffset(skb)) % (2 * MAX_DNS_MSG_SIZE)

(* The early returns up to the transport header. *)
FromPort53(skb) ==
    /\ Loadable(skb, ETH_HDR_LEN, 1)
    /\ IpHdrLen(skb) >= IP_HDR_MINLEN
    /\ Loadable(skb, ETH_HDR_LEN + 9, 1)
    /\ skb.ip.proto \in {UDP, TCP}
    /\ Loadable(skb, TransportOffset(skb), 2)
    /\ skb.l4.sport = 53
    /\ skb.ip.proto = TCP =>
          /\ Loadable(skb, TransportOffset(skb) + 12, 1)
          /\ TransportHdrLen(skb) >= TCP_HDR_MINLEN

\* A plausible bug: the check is dropped and only the mask bounds the length.
MaskedSize(skb) == PayloadLen(skb) >= DNS_HDR_MIN_LEN
SizeOk(skb) ==
    PayloadLen(skb) >= DNS_HDR_MIN_LEN /\ PayloadLen(skb) <= MAX_DNS_MSG_SIZE

Capturable(skb) ==
    /\ FromPort53(skb)
    /\ PayloadOffset(skb) < skb.len
    /\ SizeOk(skb)

(* dns/helpers.h: the QR bit is set and ANCOUNT is not zero. *)
is_valid_dns_response(skb, len) ==
    /\ len >= DNS_HDR_MIN_LEN
    /\ (skb.dns.flags_hi \div 128) % 2 = 1
    /\ skb.dns.ancount # 0

(* A filled-in record: the first msg_size bytes of the payload of a packet. *)
DnsEvent(skb) == [msg_size |-> PayloadLen(skb), from |-> skb]
DnsEvents     == [msg_size : MsgSize, from : Skb]

-----------------------------------------------------------------------------
(* One run of the program. *)

TcInit ==
    /\ dnsEvents = <<>>
    /\ tcSkb = [c \in CPUs |-> NoSkb]
    /\ arrived = 0

(* Up to bpf_ringbuf_reserve: the packet is a candidate and there is room. *)
TcReserve(c, skb) ==
    /\ tcSkb[c] = NoSkb
    /\ arrived < MaxPackets
    /\ Capturable(skb)
    /\ HasRoom(dnsEvents, DnsRingCap)
    /\ dnsEvents' = bpf_ringbuf_reserve(dnsEvents, c)
    /\ tcSkb' = [tcSkb EXCEPT ![c] = skb]
    /\ arrived' = arrived + 1

(* An early return: not a candidate, or the ring buffer is full. *)
TcPass(c, skb) ==
    /\ tcSkb[c] = NoSkb
    /\ arrived < MaxPackets
    /\ ~ (Capturable(skb) /\ HasRoom(dnsEvents, DnsRingCap))
    /\ arrived' = arrived + 1
    /\ UNCHANGED <<dnsEvents, tcSkb>>

CanCopy(skb) == Loadable(skb, PayloadOffset(skb), PayloadLen(skb))

(* Copy, validate, then submit or discard the record. *)
TcSubmit(c) ==
    /\ tcSkb[c] # NoSkb
    /\ CanCopy(tcSkb[c])
    /\ is_valid_dns_response(tcSkb[c], PayloadLen(tcSkb[c]))
    /\ dnsEvents' = bpf_ringbuf_submit(dnsEvents, c, DnsEvent(tcSkb[c]))
    /\ tcSkb' = [tcSkb EXCEPT ![c] = NoSkb]
    /\ UNCHANGED arrived

\* A plausible bug: an error path returns without giving the record back.
TcDiscardLeak(c) ==
    /\ tcSkb[c] # NoSkb
    /\ ~ is_valid_dns_response(tcSkb[c], PayloadLen(tcSkb[c]))
    /\ tcSkb' = [tcSkb EXCEPT ![c] = NoSkb]
    /\ UNCHANGED <<dnsEvents, arrived>>

TcDiscard(c) ==
    /\ tcSkb[c] # NoSkb
    /\ ~ ( /\ CanCopy(tcSkb[c])
           /\ is_valid_dns_response(tcSkb[c], PayloadLen(tcSkb[c])) )
    /\ dnsEvents' = bpf_ringbuf_discard(dnsEvents, c)
    /\ tcSkb' = [tcSkb EXCEPT ![c] = NoSkb]
    /\ UNCHANGED arrived

TcProgram(c) ==
    \/ \E skb \in Skbs : TcReserve(c, skb) \/ TcPass(c, skb)
    \/ TcSubmit(c)
    \/ TcDiscard(c)

(* The reader of the ring buffer, reduced to its effect on the ring. *)
Drain ==
    /\ Readable(dnsEvents) \/ Skippable(dnsEvents)
    /\ dnsEvents' = Tail(dnsEvents)
    /\ UNCHANGED <<tcSkb, arrived>>

TcNext == Drain \/ \E c \in CPUs : TcProgram(c)

(* A program run that started ends: eBPF programs are bounded and run to     *)
(* completion.  The reader goroutine keeps polling.                          *)
TcFairness ==
    /\ WF_tcVars(Drain)
    /\ \A c \in CPUs : WF_tcVars(TcSubmit(c) \/ TcDiscard(c))

TcSpec == TcInit /\ [][TcNext]_tcVars /\ TcFairness

-----------------------------------------------------------------------------
(* Properties *)

(* The ring buffer holds records of dns_event_t and nothing else: the        *)
(* msg_size of every filled-in record fits its msg array, the records a      *)
(* program run has reserved belong to a CPU, and the packet counter keeps    *)
(* its bound.                                                                *)
TcTypeOK ==
    /\ dnsEvents \in Seq(RingRecord(CPUs, DnsEvents))
    /\ tcSkb \in [CPUs -> Skb \cup {NoSkb}]
    /\ arrived \in 0..MaxPackets

Running(c) == tcSkb[c] # NoSkb
BusyAt(c)  == {i \in 1..Len(dnsEvents) :
                 dnsEvents[i].owner = c /\ dnsEvents[i].st = "busy"}

(* Every path through the program settles its reservation: a CPU that is in  *)
(* the middle of a run owns exactly one busy record, and a CPU between runs  *)
(* owns none, however the runs of the CPUs and the reader interleave.  A     *)
(* record left busy would hold back every later DNS response for good.       *)
ReservationSettled ==
    \A c \in CPUs :
        \/ Running(c)   /\ \E i \in BusyAt(c) : BusyAt(c) = {i}
        \/ ~ Running(c) /\ BusyAt(c) = {}

(* What the reader can rely on for every record it is given: msg_size is a   *)
(* legal DNS length that fits the msg array of dns_event_t, the bytes were   *)
(* copied from within the packet, and the packet is a response with answers  *)
(* from port 53.  This covers packets of every length and header content,    *)
(* the reserved but unfilled record included: it is never readable.          *)
WellFormed(ev) ==
    /\ ev.msg_size >= DNS_HDR_MIN_LEN
    /\ ev.msg_size <= MAX_DNS_MSG_SIZE
    /\ PayloadOffset(ev.from) + ev.msg_size <= ev.from.len
    /\ ev.from.l4.sport = 53
    /\ ev.from.dns.flags_hi >= 128
    /\ ev.from.dns.ancount > 0

ReadableWellFormed ==
    \A i \in 1..Len(dnsEvents) :
        dnsEvents[i].st = "ready" => WellFormed(dnsEvents[i].ev)

(* A payload shorter than 2*MAX_DNS_MSG_SIZE is captured whole or not at all:*)
(* below the mask's modulus the program never truncates a message.           *)
TruePayload(skb) == skb.len - PayloadOffset(skb)

ShortPayloadWhole ==
    \A i \in 1..Len(dnsEvents) :
        (/\ dnsEvents[i].st = "ready"
         /\ TruePayload(dnsEvents[i].ev.from) < 2 * MAX_DNS_MSG_SIZE)
        => dnsEvents[i].ev.msg_size = TruePayload(dnsEvents[i].ev.from)

(* "TC hook copies the raw DNS payload into the dns_events ring buffer"      *)
(* (README.md, Data Flow): the event holds the payload of the packet.  It    *)
(* does not hold for a payload of 1036 to 1536 bytes, whose length the mask  *)
(* of line 68 reduces to 12 to 512.                                          *)
RawPayload ==
    \A i \in 1..Len(dnsEvents) :
        dnsEvents[i].st = "ready" =>
            dnsEvents[i].ev.msg_size = TruePayload(dnsEvents[i].ev.from)

(* Whatever is in the ring buffer is eventually taken out of it: neither a   *)
(* reserved record nor a discarded one blocks the reader for good.           *)
RingDrains == []<>(dnsEvents = <<>>)
=============================================================================
