------------------------ MODULE TcDnsObserverProofs ------------------------
(***************************************************************************)
(* The TC program settles its reservations and never hands the reader a    *)
(* malformed record, for any packets, any number of CPUs and any capacity  *)
(* of the ring buffer.                                                     *)
(***************************************************************************)
EXTENDS TcDnsObserver, TLAPS

(* The records of a ring buffer that are not settled yet. *)
BusyRec(i) == dnsEvents[i].st = "busy"

(* Parts of ReservationSettled, in a form that each action preserves. *)
BusyIsOwned ==
    \A i \in 1..Len(dnsEvents) : BusyRec(i) => tcSkb[dnsEvents[i].owner] # NoSkb
BusyIsUnique ==
    \A i, j \in 1..Len(dnsEvents) :
        BusyRec(i) /\ BusyRec(j) /\ dnsEvents[i].owner = dnsEvents[j].owner => i = j
OwnerHasBusy ==
    \A c \in CPUs : tcSkb[c] # NoSkb =>
        \E i \in 1..Len(dnsEvents) : BusyRec(i) /\ dnsEvents[i].owner = c

(* A packet is handled beyond the reservation only if it passed the checks.  *)
RunningCapturable ==
    \A c \in CPUs : tcSkb[c] # NoSkb => tcSkb[c] \in Skb /\ Capturable(tcSkb[c])

(* A record is filled in before it is readable, from a packet that passed    *)
(* the checks before and after the reservation.                              *)
Checked(skb) ==
    /\ Capturable(skb)
    /\ CanCopy(skb)
    /\ is_valid_dns_response(skb, PayloadLen(skb))
ReadyIsChecked ==
    \A i \in 1..Len(dnsEvents) : dnsEvents[i].st = "ready" =>
        \E skb \in Skb : Checked(skb) /\ dnsEvents[i].ev = DnsEvent(skb)

TcIInv ==
    /\ TcTypeOK
    /\ RunningCapturable
    /\ BusyIsOwned
    /\ BusyIsUnique
    /\ OwnerHasBusy
    /\ ReadyIsChecked

-----------------------------------------------------------------------------
(* Arithmetic of the program. *)

(* The fields of a packet are numbers. *)
LEMMA SkbFields ==
    ASSUME NEW skb \in Skb
    PROVE  /\ skb.len \in Nat
           /\ skb.ip.ihl \in Nat
           /\ skb.l4.doff \in Nat
           /\ skb.dns.flags_hi \in 0..255
           /\ skb.dns.ancount \in Nat
<1>1. skb.len \in Nat /\ skb.ip \in IpHdr /\ skb.l4 \in L4Hdr /\ skb.dns \in DnsMsg
  BY DEF Skb
<1>2. QED
  BY <1>1 DEF IpHdr, L4Hdr, DnsMsg, Word16

(* Numbers truncated to 16 bits. *)
LEMMA U16Type == ASSUME NEW n \in Nat PROVE U16(n) \in Nat
BY DEF U16

(* The offset is a natural number. *)
LEMMA OffsetType == ASSUME NEW skb \in Skb PROVE PayloadOffset(skb) \in Nat
<1>1. IpHdrLen(skb) \in Nat
  BY SkbFields, U16Type DEF IpHdrLen
<1>2. TransportOffset(skb) \in Nat
  BY <1>1, U16Type DEF TransportOffset, ETH_HDR_LEN
<1>3. TransportHdrLen(skb) \in Nat
  BY SkbFields, U16Type DEF TransportHdrLen, UDP_HDR_LEN
<1>4. DnsPrefix(skb) \in Nat
  BY DEF DnsPrefix, DNS_TCP_LEN_PREFIX
<1>5. QED
  BY <1>2, <1>3, <1>4, U16Type DEF PayloadOffset

(* A captured length fits into the msg array and leaves room for a header. *)
LEMMA CapturedLen ==
    ASSUME NEW skb \in Skb, Capturable(skb)
    PROVE  PayloadLen(skb) \in Nat /\ PayloadLen(skb) >= 12 /\ PayloadLen(skb) <= 512
<1>1. skb.len - PayloadOffset(skb) \in Int
  BY OffsetType, SkbFields
<1>2. PayloadLen(skb) \in Int
  BY <1>1 DEF PayloadLen, MAX_DNS_MSG_SIZE
<1>3. PayloadLen(skb) >= 12 /\ PayloadLen(skb) <= 512
  BY DEF Capturable, SizeOk, DNS_HDR_MIN_LEN, MAX_DNS_MSG_SIZE
<1>4. QED
  BY <1>2, <1>3

(* What a checked packet is turned into is well-formed, and it is the whole  *)
(* payload when that is shorter than 1024 bytes.                             *)
LEMMA CheckedWellFormed ==
    ASSUME NEW skb \in Skb, Checked(skb)
    PROVE  /\ WellFormed(DnsEvent(skb))
           /\ TruePayload(skb) < 1024 => PayloadLen(skb) = TruePayload(skb)
<1>1. PayloadLen(skb) \in Nat /\ PayloadLen(skb) >= 12 /\ PayloadLen(skb) <= 512
  BY CapturedLen DEF Checked
<1>2. PayloadOffset(skb) \in Nat /\ skb.len \in Nat /\ PayloadOffset(skb) < skb.len
  BY OffsetType, SkbFields DEF Checked, Capturable
<1>3. PayloadOffset(skb) + PayloadLen(skb) <= skb.len
  BY DEF Checked, CanCopy, Loadable
<1>4. skb.l4.sport = 53
  BY DEF Checked, Capturable, FromPort53
<1>5. skb.dns.flags_hi >= 128 /\ skb.dns.ancount > 0
  BY SkbFields DEF Checked, is_valid_dns_response
<1>6. WellFormed(DnsEvent(skb))
  BY <1>1, <1>3, <1>4, <1>5 DEF WellFormed, DnsEvent, DNS_HDR_MIN_LEN, MAX_DNS_MSG_SIZE
<1>7. TruePayload(skb) < 1024 => PayloadLen(skb) = TruePayload(skb)
  BY <1>2 DEF TruePayload, PayloadLen, MAX_DNS_MSG_SIZE
<1>8. QED
  BY <1>6, <1>7

(* The event of a captured packet has the type of a dns_event_t. *)
LEMMA EventType ==
    ASSUME NEW skb \in Skb, Capturable(skb)
    PROVE  DnsEvent(skb) \in DnsEvents
BY CapturedLen DEF DnsEvent, DnsEvents, MsgSize, MAX_DNS_MSG_SIZE

-----------------------------------------------------------------------------
(* Ring buffers, whoever writes to them and whatever. *)

(* Every record was reserved by an owner. *)
LEMMA RingOwner ==
    ASSUME NEW Owners, NEW Events, NEW ring \in Seq(RingRecord(Owners, Events)), NEW i \in 1..Len(ring)
    PROVE  ring[i].owner \in Owners
<1>1. ring[i] \in RingRecord(Owners, Events)
  OBVIOUS
<1>2. QED
  BY <1>1 DEF RingRecord

(* A reservation adds one busy record at the end. *)
LEMMA ReserveRing ==
    ASSUME NEW Owners, NEW Events, NEW ring \in Seq(RingRecord(Owners, Events)), NEW o \in Owners,
           NEW new, new = bpf_ringbuf_reserve(ring, o)
    PROVE  /\ new \in Seq(RingRecord(Owners, Events))
           /\ Len(new) = Len(ring) + 1
           /\ \A i \in 1..Len(ring) : new[i] = ring[i]
           /\ new[Len(ring) + 1] = [owner |-> o, st |-> "busy", ev |-> NoEvent]
BY DEF bpf_ringbuf_reserve, RingRecord

(* A commit settles the busy records of its owner and touches no other. *)
LEMMA CommitRing ==
    ASSUME NEW Owners, NEW Events, NEW ring \in Seq(RingRecord(Owners, Events)), NEW o \in Owners,
           NEW new, NEW st \in {"ready", "discarded"}, NEW ev \in Events \cup {NoEvent},
           new = Committed(ring, o, st, ev)
    PROVE  /\ new \in Seq(RingRecord(Owners, Events))
           /\ Len(new) = Len(ring)
           /\ \A i \in 1..Len(ring) :
                new[i] = IF ring[i].owner = o /\ ring[i].st = "busy"
                         THEN [owner |-> o, st |-> st, ev |-> ev] ELSE ring[i]
BY DEF Committed, RingRecord

(* The reader takes the first record out. *)
LEMMA TailRing ==
    ASSUME NEW Owners, NEW Events, NEW ring \in Seq(RingRecord(Owners, Events)), Len(ring) > 0
    PROVE  /\ Tail(ring) \in Seq(RingRecord(Owners, Events))
           /\ Len(Tail(ring)) = Len(ring) - 1
           /\ \A i \in 1..Len(Tail(ring)) : i + 1 \in 1..Len(ring) /\ Tail(ring)[i] = ring[i + 1]
           /\ \A i \in 1..Len(ring) : i # 1 => i - 1 \in 1..Len(Tail(ring))
OBVIOUS

-----------------------------------------------------------------------------
(* The invariant. *)

Ring == Seq(RingRecord(CPUs, DnsEvents))

(* The ring buffer starts empty and every CPU idle. *)
LEMMA TcInitInv == TcInit => TcIInv
BY TcAssumption
   DEF TcInit, TcIInv, TcTypeOK, RunningCapturable, BusyIsOwned, BusyIsUnique,
       OwnerHasBusy, ReadyIsChecked

(* The program up to the reservation. *)
LEMMA ReserveInv ==
    ASSUME TcIInv, NEW c \in CPUs, NEW skb \in Skbs, TcReserve(c, skb)
    PROVE  TcIInv'
<1> USE DEF TcIInv
<1>1. /\ dnsEvents \in Ring /\ dnsEvents' = bpf_ringbuf_reserve(dnsEvents, c)
      /\ tcSkb \in [CPUs -> Skb \cup {NoSkb}] /\ tcSkb' = [tcSkb EXCEPT ![c] = skb]
      /\ tcSkb[c] = NoSkb /\ skb \in Skb /\ skb # NoSkb /\ Capturable(skb)
  BY TcAssumption DEF TcTypeOK, TcReserve, Ring
<1>2. /\ dnsEvents' \in Ring
      /\ Len(dnsEvents') = Len(dnsEvents) + 1
      /\ \A i \in 1..Len(dnsEvents) : dnsEvents'[i] = dnsEvents[i]
      /\ dnsEvents'[Len(dnsEvents) + 1] = [owner |-> c, st |-> "busy", ev |-> NoEvent]
  BY <1>1, ReserveRing DEF Ring
<1>3. Len(dnsEvents) \in Nat
  BY <1>1 DEF Ring
<1>4. \A i \in 1..Len(dnsEvents) : dnsEvents[i].owner \in CPUs
  BY <1>1, RingOwner DEF Ring
<1>5. TcTypeOK'
  BY <1>1, <1>2, TcAssumption DEF TcTypeOK, TcReserve, Ring
<1>6. RunningCapturable'
  BY <1>1 DEF RunningCapturable
<1>7. BusyIsOwned'
  BY <1>1, <1>2, <1>3, <1>4 DEF BusyIsOwned, BusyRec
<1>8. BusyIsUnique'
  BY <1>1, <1>2, <1>3, <1>4 DEF BusyIsUnique, BusyIsOwned, BusyRec
<1>9. OwnerHasBusy'
  BY <1>1, <1>2, <1>3 DEF OwnerHasBusy, BusyRec
<1>10. ReadyIsChecked'
  BY <1>2, <1>3 DEF ReadyIsChecked
<1>11. QED
  BY <1>5, <1>6, <1>7, <1>8, <1>9, <1>10

(* The end of a program run: the record is submitted or discarded. *)
LEMMA CommitInv ==
    ASSUME TcIInv, NEW c \in CPUs, TcSubmit(c) \/ TcDiscard(c)
    PROVE  TcIInv'
<1> USE DEF TcIInv
<1>1. /\ dnsEvents \in Ring
      /\ tcSkb \in [CPUs -> Skb \cup {NoSkb}] /\ tcSkb' = [tcSkb EXCEPT ![c] = NoSkb]
      /\ tcSkb[c] # NoSkb /\ tcSkb[c] \in Skb /\ Capturable(tcSkb[c])
  BY DEF TcTypeOK, TcSubmit, TcDiscard, Ring, RunningCapturable
<1>2. PICK st \in {"ready", "discarded"}, ev \in DnsEvents \cup {NoEvent} :
          /\ dnsEvents' = Committed(dnsEvents, c, st, ev)
          /\ st = "ready" => Checked(tcSkb[c]) /\ ev = DnsEvent(tcSkb[c])
  <2>1. CASE TcSubmit(c)
    BY <1>1, <2>1, EventType DEF TcSubmit, bpf_ringbuf_submit, Checked
  <2>2. CASE TcDiscard(c)
    BY <2>2 DEF TcDiscard, bpf_ringbuf_discard
  <2>3. QED
    BY <2>1, <2>2
<1>3. /\ dnsEvents' \in Ring
      /\ Len(dnsEvents') = Len(dnsEvents)
      /\ \A i \in 1..Len(dnsEvents) :
            dnsEvents'[i] = IF dnsEvents[i].owner = c /\ dnsEvents[i].st = "busy"
                            THEN [owner |-> c, st |-> st, ev |-> ev] ELSE dnsEvents[i]
  BY <1>1, <1>2, CommitRing DEF Ring
<1>4. Len(dnsEvents) \in Nat /\ \A i \in 1..Len(dnsEvents) : dnsEvents[i].owner \in CPUs
  BY <1>1, RingOwner DEF Ring
<1>5. TcTypeOK'
  BY <1>1, <1>3, TcAssumption DEF TcTypeOK, TcSubmit, TcDiscard, Ring
<1>6. RunningCapturable'
  BY <1>1 DEF RunningCapturable
<1>7. BusyIsOwned'
  BY <1>1, <1>3, <1>4 DEF BusyIsOwned, BusyRec
<1>8. BusyIsUnique'
  BY <1>1, <1>3, <1>4 DEF BusyIsUnique, BusyRec
<1>9. OwnerHasBusy'
  BY <1>1, <1>3, <1>4 DEF OwnerHasBusy, BusyRec
<1>10. ReadyIsChecked'
  <2> SUFFICES ASSUME NEW i \in 1..Len(dnsEvents), dnsEvents'[i].st = "ready"
               PROVE  \E skb \in Skb : Checked(skb) /\ dnsEvents'[i].ev = DnsEvent(skb)
    BY <1>3 DEF ReadyIsChecked
  <2>1. CASE dnsEvents[i].owner = c /\ dnsEvents[i].st = "busy"
    <3>1. st = "ready" /\ dnsEvents'[i].ev = ev
      BY <1>3, <2>1
    <3>2. QED
      BY <1>1, <1>2, <3>1
  <2>2. CASE ~ (dnsEvents[i].owner = c /\ dnsEvents[i].st = "busy")
    BY <1>3, <2>2 DEF ReadyIsChecked
  <2>3. QED
    BY <2>1, <2>2
<1>11. QED
  BY <1>5, <1>6, <1>7, <1>8, <1>9, <1>10

(* The reader takes out a record that is settled. *)
LEMMA DrainInv == ASSUME TcIInv, Drain PROVE TcIInv'
<1> USE DEF TcIInv
<1>1. /\ dnsEvents \in Ring /\ Len(dnsEvents) > 0 /\ dnsEvents' = Tail(dnsEvents)
      /\ dnsEvents[1].st # "busy"
      /\ UNCHANGED <<tcSkb, arrived>>
  BY DEF TcTypeOK, Drain, Readable, Skippable, Ring
<1>2. /\ dnsEvents' \in Ring
      /\ Len(dnsEvents') = Len(dnsEvents) - 1
      /\ \A i \in 1..Len(dnsEvents') : i + 1 \in 1..Len(dnsEvents) /\ dnsEvents'[i] = dnsEvents[i + 1]
      /\ \A i \in 1..Len(dnsEvents) : i # 1 => i - 1 \in 1..Len(dnsEvents')
  BY <1>1, TailRing DEF Ring
<1>3. Len(dnsEvents) \in Nat
  BY <1>1 DEF Ring
<1>4. TcTypeOK'
  BY <1>1, <1>2 DEF TcTypeOK, Ring
<1>5. RunningCapturable'
  BY <1>1 DEF RunningCapturable
<1>6. BusyIsOwned'
  BY <1>1, <1>2 DEF BusyIsOwned, BusyRec
<1>7. BusyIsUnique'
  BY <1>1, <1>2, <1>3 DEF BusyIsUnique, BusyRec
<1>8. OwnerHasBusy'
  <2> SUFFICES ASSUME NEW c \in CPUs, tcSkb[c] # NoSkb
               PROVE  \E i \in 1..Len(dnsEvents') : BusyRec(i)' /\ dnsEvents'[i].owner = c
    BY <1>1 DEF OwnerHasBusy
  <2>1. PICK j \in 1..Len(dnsEvents) : BusyRec(j) /\ dnsEvents[j].owner = c
    BY DEF OwnerHasBusy
  <2>2. j # 1
    BY <1>1, <2>1 DEF BusyRec
  <2>3. j - 1 \in 1..Len(dnsEvents') /\ dnsEvents'[j - 1] = dnsEvents[j]
    BY <1>2, <1>3, <2>2
  <2>4. QED
    BY <2>1, <2>3 DEF BusyRec
<1>9. ReadyIsChecked'
  BY <1>2 DEF ReadyIsChecked
<1>10. QED
  BY <1>4, <1>5, <1>6, <1>7, <1>8, <1>9

(* Every step of a program run or of the reader keeps the invariant. *)
LEMMA TcNextInv == TcIInv /\ [TcNext]_tcVars => TcIInv'
<1> SUFFICES ASSUME TcIInv, [TcNext]_tcVars PROVE TcIInv'
  OBVIOUS
<1>1. CASE Drain
  BY <1>1, DrainInv
<1>2. ASSUME NEW c \in CPUs, NEW skb \in Skbs, TcReserve(c, skb) PROVE TcIInv'
  BY <1>2, ReserveInv
<1>3. ASSUME NEW c \in CPUs, NEW skb \in Skbs, TcPass(c, skb) PROVE TcIInv'
  <2>1. UNCHANGED <<dnsEvents, tcSkb>> /\ arrived' \in 0..MaxPackets
    BY <1>3, TcAssumption DEF TcPass, TcIInv, TcTypeOK
  <2>2. QED
    BY <2>1 DEF TcIInv, TcTypeOK, RunningCapturable, BusyIsOwned, BusyIsUnique,
                OwnerHasBusy, ReadyIsChecked, BusyRec
<1>4. ASSUME NEW c \in CPUs, TcSubmit(c) \/ TcDiscard(c) PROVE TcIInv'
  BY <1>4, CommitInv
<1>5. CASE UNCHANGED tcVars
  BY <1>5 DEF tcVars, TcIInv, TcTypeOK, RunningCapturable, BusyIsOwned, BusyIsUnique,
              OwnerHasBusy, ReadyIsChecked, BusyRec
<1>6. QED
  BY <1>1, <1>2, <1>3, <1>4, <1>5 DEF TcNext, TcProgram

(* So it holds for any packets on any number of CPUs. *)
LEMMA TcSpecInv == TcSpec => []TcIInv
BY TcInitInv, TcNextInv, PTL DEF TcSpec

-----------------------------------------------------------------------------
(* The ring buffer, the packets in progress and the counter keep their       *)
(* types; in particular msg_size fits the msg array of every record.         *)
THEOREM TcTypeCorrect == TcSpec => []TcTypeOK
BY TcSpecInv, PTL DEF TcIInv

(* Every run of the program settles its reservation, however the runs of     *)
(* the CPUs and the reader interleave.                                       *)
THEOREM TcSettles == TcSpec => []ReservationSettled
<1>1. TcIInv => ReservationSettled
  <2> SUFFICES ASSUME TcIInv, NEW c \in CPUs
               PROVE  \/ Running(c) /\ \E i \in BusyAt(c) : BusyAt(c) = {i}
                      \/ ~ Running(c) /\ BusyAt(c) = {}
    BY DEF ReservationSettled
  <2>1. CASE Running(c)
    <3>1. PICK i \in BusyAt(c) : TRUE
      BY <2>1 DEF TcIInv, OwnerHasBusy, Running, BusyAt, BusyRec
    <3>2. \A j \in BusyAt(c) : j = i
      BY DEF TcIInv, BusyIsUnique, BusyAt, BusyRec
    <3>3. QED
      BY <2>1, <3>1, <3>2
  <2>2. CASE ~ Running(c)
    BY <2>2 DEF TcIInv, BusyIsOwned, Running, BusyAt, BusyRec
  <2>3. QED
    BY <2>1, <2>2
<1>2. QED
  BY <1>1, TcSpecInv, PTL

(* Whatever packets arrive, a record the reader gets is a response with      *)
(* answers, of a length that fits, copied from within the packet.            *)
THEOREM TcWellFormed == TcSpec => []ReadableWellFormed
<1>1. TcIInv => ReadableWellFormed
  BY CheckedWellFormed DEF TcIInv, ReadyIsChecked, ReadableWellFormed
<1>2. QED
  BY <1>1, TcSpecInv, PTL

(* A payload of less than 1024 bytes is captured whole or not at all. *)
THEOREM TcShortWhole == TcSpec => []ShortPayloadWhole
<1>1. TcIInv => ShortPayloadWhole
  <2> SUFFICES ASSUME TcIInv, NEW i \in 1..Len(dnsEvents), dnsEvents[i].st = "ready",
                      TruePayload(dnsEvents[i].ev.from) < 1024
               PROVE  dnsEvents[i].ev.msg_size = TruePayload(dnsEvents[i].ev.from)
    BY DEF ShortPayloadWhole, MAX_DNS_MSG_SIZE
  <2>1. PICK skb \in Skb : Checked(skb) /\ dnsEvents[i].ev = DnsEvent(skb)
    BY DEF TcIInv, ReadyIsChecked
  <2>2. QED
    BY <2>1, CheckedWellFormed DEF DnsEvent
<1>2. QED
  BY <1>1, TcSpecInv, PTL
=============================================================================
