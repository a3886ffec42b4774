-------------------------- MODULE DnsServiceProofs --------------------------
(***************************************************************************)
(* The DNS service writes only addresses that the message resolves through *)
(* an AI domain, all of them when the chain of CNAME records stands in     *)
(* order, and the map never holds an address twice: for any names, any     *)
(* configured domains, any answer sections and any size of the map.        *)
(***************************************************************************)
EXTENDS DnsService, TLAPS

-----------------------------------------------------------------------------
(* The conversions of utils.go, manager.go and the connect hook undo each    *)
(* other, for every address, every port and either byte order.               *)

(* The four bytes of an address are bytes. *)
LEMMA IPv4Bytes ==
    ASSUME NEW b \in IPv4
    PROVE  /\ b = <<b[1], b[2], b[3], b[4]>>
           /\ b[1] \in Byte /\ b[2] \in Byte /\ b[3] \in Byte /\ b[4] \in Byte
BY DEF IPv4

(* A 32-bit number determines the four digits it has to base 256. *)
LEMMA Digits ==
    ASSUME NEW w \in Byte, NEW x \in Byte, NEW y \in Byte, NEW z \in Byte,
           NEW n, n = w + 256 * x + 65536 * y + 16777216 * z
    PROVE  /\ n \in Nat
           /\ n % 256 = w
           /\ (n \div 256) % 256 = x
           /\ (n \div 65536) % 256 = y
           /\ n \div 16777216 = z
BY SMTT(60) DEF Byte

(* An address written to a map or a socket address as a native integer and   *)
(* read back is the same address: the key that writeDestination computes     *)
(* stands for the address uint32ToIP logs.                                   *)
THEOREM AddressRoundTrip ==
    \A b \in IPv4 : NativeUint32(b) \in Nat /\ NativePutUint32(NativeUint32(b)) = b
<1> SUFFICES ASSUME NEW b \in IPv4
             PROVE  NativeUint32(b) \in Nat /\ NativePutUint32(NativeUint32(b)) = b
  OBVIOUS
<1> DEFINE n == NativeUint32(b)
<1>1. CASE BigEndian
  <2>1. n = b[4] + 256 * b[3] + 65536 * b[2] + 16777216 * b[1]
    BY <1>1, IPv4Bytes, SMT DEF NativeUint32, Byte
  <2> HIDE DEF n
  <2>2. /\ n \in Nat /\ n % 256 = b[4] /\ (n \div 256) % 256 = b[3]
        /\ (n \div 65536) % 256 = b[2] /\ n \div 16777216 = b[1]
    BY <2>1, IPv4Bytes, Digits
  <2>3. NativePutUint32(n) = <<b[1], b[2], b[3], b[4]>>
    BY <1>1, <2>2 DEF NativePutUint32
  <2>4. QED
    BY <2>2, <2>3, IPv4Bytes DEF n
<1>2. CASE ~ BigEndian
  <2>1. n = b[1] + 256 * b[2] + 65536 * b[3] + 16777216 * b[4]
    BY <1>2, IPv4Bytes, SMT DEF NativeUint32, Byte
  <2> HIDE DEF n
  <2>2. /\ n \in Nat /\ n % 256 = b[1] /\ (n \div 256) % 256 = b[2]
        /\ (n \div 65536) % 256 = b[3] /\ n \div 16777216 = b[4]
    BY <2>1, IPv4Bytes, Digits
  <2>3. NativePutUint32(n) = <<b[1], b[2], b[3], b[4]>>
    BY <1>2, <2>2 DEF NativePutUint32
  <2>4. QED
    BY <2>2, <2>3, IPv4Bytes DEF n
<1>3. QED
  BY <1>1, <1>2

(* Different addresses have different keys in ai_destinations. *)
THEOREM KeysDistinct ==
    \A a, b \in IPv4 : NativeUint32(a) = NativeUint32(b) => a = b
BY AddressRoundTrip

(* ntohs is its own inverse, and applied to the port of a socket address it  *)
(* gives the port number the application asked for.                          *)
THEOREM PortRoundTrip ==
    \A p \in Port :
        /\ BigUint16(NativePutUint16(ntohs(p))) = p
        /\ ntohs(NativeUint16(PortBytes(p))) = p
        /\ BigUint16(NativePutUint16(NativeUint16(PortBytes(p)))) = p
        /\ NativeUint16(PortBytes(p)) \in Nat
        /\ ntohs(p) \in Nat
<1> SUFFICES ASSUME NEW p \in Nat, p < 65536
             PROVE  /\ BigUint16(NativePutUint16(ntohs(p))) = p
                    /\ ntohs(NativeUint16(PortBytes(p))) = p
                    /\ BigUint16(NativePutUint16(NativeUint16(PortBytes(p)))) = p
                    /\ NativeUint16(PortBytes(p)) \in Nat
                    /\ ntohs(p) \in Nat
  BY DEF Port
<1> DEFINE hi == p \div 256
           lo == p % 256
<1>1. hi \in Nat /\ lo \in Nat /\ hi < 256 /\ lo < 256 /\ p = 256 * hi + lo
  OBVIOUS
<1> HIDE DEF hi, lo
<1>2. /\ (256 * hi + lo) \div 256 = hi /\ (256 * hi + lo) % 256 = lo
      /\ (lo * 256 + hi) \div 256 = lo /\ (lo * 256 + hi) % 256 = hi
  BY <1>1
<1>3. PortBytes(p) = <<hi, lo>>
  BY DEF PortBytes, hi, lo
<1>4. CASE BigEndian
  <2>1. NativePutUint16(p) = <<hi, lo>> /\ NativeUint16(<<hi, lo>>) = p
    BY <1>1, <1>4 DEF NativePutUint16, NativeUint16, hi, lo
  <2>2. ntohs(p) = p /\ BigUint16(<<hi, lo>>) = p
    BY <1>1, <2>1 DEF ntohs, BigUint16
  <2>3. QED
    BY <1>3, <2>1, <2>2
<1>5. CASE ~ BigEndian
  <2> DEFINE q == 256 * lo + hi
  <2>1. q \in Nat /\ q % 256 = hi /\ q \div 256 = lo
    BY <1>1, <1>2
  <2>2. NativePutUint16(p) = <<lo, hi>> /\ NativeUint16(<<hi, lo>>) = q
    BY <1>1, <1>5 DEF NativePutUint16, NativeUint16, hi, lo
  <2>3. NativePutUint16(q) = <<hi, lo>>
    BY <1>5, <2>1 DEF NativePutUint16
  <2>4. BigUint16(<<lo, hi>>) = q /\ BigUint16(<<hi, lo>>) = p
    BY <1>1 DEF BigUint16
  <2>5. ntohs(p) = q /\ ntohs(q) = p
    BY <2>2, <2>3, <2>4 DEF ntohs
  <2> HIDE DEF q
  <2>6. QED
    BY <1>3, <2>1, <2>2, <2>3, <2>4, <2>5
<1>6. QED
  BY <1>4, <1>5

-----------------------------------------------------------------------------
(* The inductive invariant of the service. *)

(* What the first loop has found out: each name in aiCNAMEs is reached, by   *)
(* the CNAME records of the message, from the AI domain it is filed under.   *)
Chained ==
    \A n \in DOMAIN aiCNAMEs :
        isAIDomain(aiCNAMEs[n]) /\ Leads(answer, aiCNAMEs[n], n)

svcIInv == svcTypeOK /\ Chained /\ SoundWrites

(* The names whose A records are written, and the records that the first     *)
(* loop, or the second, has behind it.                                       *)
Found == {n \in Names : isAIDomain(n) \/ n \in DOMAIN aiCNAMEs}
Scanned(i) == svcPc = "cname" => i < idx
Visited(k) == svcPc = "idle" \/ (svcPc = "a" /\ k < idx)

(* With the records in order, a record that starts at a name found leads to  *)
(* a name found: none that is found later comes too late for it.             *)
Closed ==
    ChainOrdered(answer) =>
        \A i \in 1..Len(answer) :
            Scanned(i) /\ IsCNAME(answer[i]) /\ answer[i].name \in Found
            => answer[i].target \in Found
Origins ==
    ~ RootAlias(answer) => \A n \in DOMAIN aiCNAMEs : aiCNAMEs[n] # <<>>
Written ==
    \A k \in 1..Len(answer) :
        Visited(k) /\ ToWrite(answer[k]) => answer[k].ip \in {w.ip : w \in writes} \cup failed

svcCInv == Closed /\ Origins /\ Written

-----------------------------------------------------------------------------
(* A name leads to itself. *)
LEMMA LeadsSelf == ASSUME NEW a, NEW h PROVE Leads(a, h, h)
BY DEF Leads

(* A record that starts at a name the chain has reached takes it further. *)
LEMMA LeadsOn ==
    ASSUME NEW a, NEW h, NEW n, NEW i \in 1..Len(a),
           Leads(a, h, n), IsCNAME(a[i]), a[i].name = n
    PROVE  Leads(a, h, a[i].target)
BY DEF Leads

(* The fields of the records the loops look at. *)
LEMMA RRFields ==
    ASSUME NEW rr \in RR
    PROVE  /\ rr.type = "CNAME" => rr.name \in Names /\ rr.target \in Names
           /\ rr.type = "A" => rr.name \in Names /\ rr.ip \in IPv4 \cup {NoIP}
<1>1. CASE rr \in [type : {"CNAME"}, name : Names, target : Names]
  BY <1>1
<1>2. CASE rr \in [type : {"A"}, name : Names, ip : IPv4 \cup {NoIP}]
  BY <1>2
<1>3. CASE rr \in [type : {"OTHER"}, name : Names]
  BY <1>3
<1>4. QED
  BY <1>1, <1>2, <1>3 DEF RR

(* An update, also one that fails, keeps the type of the map. *)
LEMMA UpdateMap ==
    ASSUME aiDest \in [Slots -> Element]
    PROVE  /\ \A k \in Nat, h \in Names, s \in Slots :
                UpdateElem(k, h, s) => aiDest' \in [Slots -> Element]
           /\ UpdateFails => aiDest' \in [Slots -> Element]
<1>1. \A E : Unlink(E) \in [Slots -> Element]
  BY DEF Unlink, Element
<1>2. \A k \in Nat, h \in Names : [key |-> k, host |-> Hostname64[h], st |-> "linked"] \in Element
  BY DEF Element, HostFields
<1>3. QED
  BY <1>1, <1>2 DEF UpdateElem, UpdateFails

-----------------------------------------------------------------------------
(* The invariant. *)

(* The service starts idle on an empty map, where the invariant holds. *)
LEMMA svcInitInv == svcInit => svcIInv
<1> SUFFICES ASSUME svcInit PROVE svcIInv
  OBVIOUS
<1>1. aiDest \in [Slots -> Element] /\ \A s \in Slots : aiDest[s].st = "free"
  BY DEF svcInit, aiDestInit, Element
<1>2. DOMAIN aiCNAMEs = {}
  BY DEF svcInit
<1>3. svcTypeOK
  BY <1>1, <1>2, DnsAssumption DEF svcInit, svcTypeOK
<1>4. QED
  BY <1>1, <1>2, <1>3 DEF svcIInv, Chained, SoundWrites, svcInit

(* A new message starts with empty tables. *)
LEMMA ProcessInv ==
    ASSUME svcIInv, NEW a \in Seq(RR), ProcessDNSEvent(a)
    PROVE  svcIInv'
<1>1. DOMAIN aiCNAMEs' = {} /\ writes' = {} /\ failed' = {} /\ UNCHANGED aiDest
  BY DEF ProcessDNSEvent
<1>2. Len(a) \in Nat /\ handled' \in 0..MaxMessages
  BY DnsAssumption DEF svcIInv, svcTypeOK, ProcessDNSEvent
<1>3. svcTypeOK'
  BY <1>1, <1>2 DEF svcIInv, svcTypeOK, ProcessDNSEvent
<1>4. QED
  BY <1>1, <1>3 DEF svcIInv, Chained, SoundWrites

(* The first loop extends the table only along the records of the message. *)
LEMMA CnameStepInv == ASSUME svcIInv, CnameStep PROVE svcIInv'
<1> DEFINE rr == answer[idx]
<1>1. /\ answer \in Seq(RR) /\ idx \in 1..Len(answer) /\ rr \in RR
      /\ aiCNAMEs' = ScanCNAME(aiCNAMEs, rr)
      /\ UNCHANGED <<svcPc, answer, handled, writes, failed, aiDest>>
  BY DEF svcIInv, svcTypeOK, CnameStep
<1>2. idx' \in 1..(Len(answer) + 1)
  BY <1>1 DEF CnameStep
<1> HIDE DEF rr
<1> DEFINE Good(cn) ==
             /\ DOMAIN cn \subseteq Names
             /\ \A n \in DOMAIN cn : /\ cn[n] \in Names
                                     /\ isAIDomain(cn[n])
                                     /\ Leads(answer, cn[n], n)
<1>3. Good(aiCNAMEs')
  <2>0. Good(aiCNAMEs)
    BY DEF svcIInv, svcTypeOK, Chained
  <2>1. ASSUME NEW h \in Names, isAIDomain(h), Leads(answer, h, rr.target),
               rr.target \in Names, aiCNAMEs' = Put(aiCNAMEs, rr.target, h)
        PROVE  Good(aiCNAMEs')
    <3> DEFINE new == Put(aiCNAMEs, rr.target, h)
    <3>1. /\ DOMAIN new = DOMAIN aiCNAMEs \cup {rr.target}
          /\ \A x \in DOMAIN new : new[x] = IF x = rr.target THEN h ELSE aiCNAMEs[x]
      BY DEF Put
    <3>2. aiCNAMEs' = new
      BY <2>1
    <3> HIDE DEF new
    <3>3. QED
      BY <2>0, <2>1, <3>1, <3>2
  <2>2. CASE rr.type = "CNAME" /\ isAIDomain(rr.name)
    <3>1. rr.name \in Names /\ rr.target \in Names
      BY <1>1, <2>2, RRFields
    <3>2. Leads(answer, rr.name, rr.target)
      BY <1>1, <2>2, LeadsSelf, LeadsOn DEF IsCNAME, rr
    <3>3. aiCNAMEs' = Put(aiCNAMEs, rr.target, rr.name)
      BY <1>1, <2>2 DEF ScanCNAME
    <3>4. QED
      BY <2>1, <2>2, <3>1, <3>2, <3>3
  <2>3. CASE rr.type = "CNAME" /\ ~ isAIDomain(rr.name) /\ rr.name \in DOMAIN aiCNAMEs
    <3>1. rr.target \in Names
      BY <1>1, <2>3, RRFields
    <3>2. Leads(answer, aiCNAMEs[rr.name], rr.target)
      BY <1>1, <2>0, <2>3, LeadsOn DEF IsCNAME, rr
    <3>3. aiCNAMEs' = Put(aiCNAMEs, rr.target, aiCNAMEs[rr.name])
      BY <1>1, <2>3 DEF ScanCNAME
    <3>4. QED
      BY <2>0, <2>1, <2>3, <3>1, <3>2, <3>3
  <2>4. CASE ~ (rr.type = "CNAME" /\ (isAIDomain(rr.name) \/ rr.name \in DOMAIN aiCNAMEs))
    <3>1. aiCNAMEs' = aiCNAMEs
      BY <1>1, <2>4 DEF ScanCNAME
    <3>2. QED
      BY <2>0, <3>1
  <2>5. QED
    BY <2>2, <2>3, <2>4
<1>4. svcTypeOK'
  BY <1>1, <1>2, <1>3 DEF svcIInv, svcTypeOK
<1>5. Chained'
  BY <1>1, <1>3 DEF Chained
<1>6. SoundWrites'
  BY <1>1 DEF svcIInv, SoundWrites
<1>7. QED
  BY <1>4, <1>5, <1>6 DEF svcIInv

(* The second loop writes an address under a domain that leads to its name. *)
LEMMA AStepInv == ASSUME svcIInv, AStep PROVE svcIInv'
<1> DEFINE rr == answer[idx]
           h  == AIHostname(aiCNAMEs, rr.name)
<1>1. /\ answer \in Seq(RR) /\ idx \in 1..Len(answer) /\ rr \in RR
      /\ rr.type = "A" /\ rr.ip # NoIP /\ h # NoHost
      /\ writeDestination(rr.ip, h)
      /\ idx' = idx + 1
      /\ UNCHANGED <<svcPc, answer, aiCNAMEs, handled>>
  BY DEF svcIInv, svcTypeOK, AStep, ToWrite
<1>2. idx' \in 1..(Len(answer) + 1)
  BY <1>1
<1>3. rr.ip \in IPv4 /\ rr.name \in Names
  BY <1>1, RRFields
<1>4. h \in Names /\ isAIDomain(h) /\ Leads(answer, h, rr.name)
  <2>1. CASE isAIDomain(rr.name)
    BY <1>3, <2>1, LeadsSelf DEF AIHostname
  <2>2. CASE ~ isAIDomain(rr.name)
    BY <1>1, <2>2 DEF AIHostname, svcIInv, svcTypeOK, Chained
  <2>3. QED
    BY <2>1, <2>2
<1>5. ResolvesTo(answer, h, rr.ip)
  BY <1>1, <1>4 DEF ResolvesTo
<1> HIDE DEF rr, h
<1>6. NativeUint32(rr.ip) \in Nat
  BY <1>3, AddressRoundTrip
<1>7. CASE /\ \E s \in Slots : UpdateElem(NativeUint32(rr.ip), h, s)
           /\ writes' = writes \cup {[ip |-> rr.ip, host |-> h]}
           /\ UNCHANGED failed
  <2>1. aiDest' \in [Slots -> Element]
    BY <1>4, <1>6, <1>7, UpdateMap DEF svcIInv, svcTypeOK
  <2>2. svcTypeOK'
    BY <1>1, <1>2, <1>3, <1>4, <1>7, <2>1 DEF svcIInv, svcTypeOK
  <2>3. SoundWrites'
    BY <1>1, <1>5, <1>7 DEF svcIInv, SoundWrites
  <2>4. Chained'
    BY <1>1 DEF svcIInv, Chained
  <2>5. QED
    BY <2>1, <2>2, <2>3, <2>4 DEF svcIInv
<1>8. CASE UpdateFails /\ failed' = failed \cup {rr.ip} /\ UNCHANGED writes
  <2>1. svcTypeOK'
    <3>1. aiDest' \in [Slots -> Element]
      BY <1>8, UpdateMap DEF svcIInv, svcTypeOK
    <3>2. QED
      BY <1>1, <1>2, <1>3, <1>8, <3>1 DEF svcIInv, svcTypeOK
  <2>2. QED
    BY <1>1, <1>8, <2>1 DEF svcIInv, Chained, SoundWrites
<1>9. QED
  BY <1>1, <1>7, <1>8 DEF writeDestination

(* The steps that only move on. *)
LEMMA MoveInv ==
    ASSUME svcIInv, svcPc' \in {"idle", "cname", "a"}, idx' \in 1..(Len(answer) + 1),
           handled' \in 0..MaxMessages, UNCHANGED <<answer, aiCNAMEs, writes, failed, aiDest>>
    PROVE  svcIInv'
BY DEF svcIInv, svcTypeOK, Chained, SoundWrites

(* Every step of ProcessDNSEvent keeps the invariant. *)
LEMMA svcNextInv == svcIInv /\ [svcNext]_svcVars => svcIInv'
<1> SUFFICES ASSUME svcIInv, [svcNext]_svcVars PROVE svcIInv'
  OBVIOUS
<1>1. /\ Len(answer) \in Nat /\ idx \in 1..(Len(answer) + 1) /\ 1 \in 1..(Len(answer) + 1)
      /\ svcPc \in {"idle", "cname", "a"} /\ handled \in 0..MaxMessages
  BY DEF svcIInv, svcTypeOK
<1>2. CASE CnameStep
  BY <1>2, CnameStepInv
<1>3. CASE CnameDone
  BY <1>1, <1>3, MoveInv DEF CnameDone
<1>4. CASE AStep
  BY <1>4, AStepInv
<1>5. CASE ASkip
  <2>1. idx' \in 1..(Len(answer) + 1)
    BY <1>1, <1>5 DEF ASkip
  <2>2. QED
    BY <1>1, <1>5, <2>1, MoveInv DEF ASkip
<1>6. CASE ADone
  BY <1>1, <1>6, MoveInv DEF ADone
<1>7. CASE ProcessUnpackError
  <2>1. handled' \in 0..MaxMessages
    BY <1>1, <1>7, DnsAssumption DEF ProcessUnpackError
  <2>2. QED
    BY <1>1, <1>7, <2>1, MoveInv DEF ProcessUnpackError
<1>8. ASSUME NEW a \in Answers, ProcessDNSEvent(a) PROVE svcIInv'
  BY <1>8, ProcessInv, DnsAssumption
<1>9. CASE UNCHANGED svcVars
  BY <1>1, <1>9, MoveInv DEF svcVars, svcLocal
<1>10. QED
  BY <1>2, <1>3, <1>4, <1>5, <1>6, <1>7, <1>8, <1>9 DEF svcNext, Processing

(* So it holds for any number of messages. *)
LEMMA svcSpecInv == svcSpec => []svcIInv
BY svcInitInv, svcNextInv, PTL DEF svcSpec

-----------------------------------------------------------------------------
(* Nothing is missed. *)

(* No message, nothing to be missed. *)
LEMMA InitComplete == svcInit => svcCInv
BY DEF svcInit, svcCInv, Closed, Origins, Written

(* The same for a new message, before its first record. *)
LEMMA ProcessComplete ==
    ASSUME NEW a \in Seq(RR), ProcessDNSEvent(a)
    PROVE  svcCInv'
<1>1. svcPc' = "cname" /\ idx' = 1 /\ DOMAIN aiCNAMEs' = {} /\ answer' = a /\ Len(a) \in Nat
  BY DEF ProcessDNSEvent
<1>2. QED
  BY <1>1 DEF svcCInv, Closed, Origins, Written, Scanned, Visited

(* One record of the first loop. *)
LEMMA CnameStepComplete == ASSUME svcIInv, svcCInv, CnameStep PROVE svcCInv'
<1> DEFINE rr == answer[idx]
<1>1. /\ answer \in Seq(RR) /\ idx \in 1..Len(answer) /\ rr \in RR
      /\ aiCNAMEs' = ScanCNAME(aiCNAMEs, rr) /\ idx' = idx + 1
      /\ svcPc = "cname" /\ svcPc' = "cname" /\ answer' = answer
  BY DEF svcIInv, svcTypeOK, CnameStep
<1>2. rr.type = "CNAME" => rr.name \in Names /\ rr.target \in Names
  BY <1>1, RRFields
<1> HIDE DEF rr
<1>3. /\ rr.type = "CNAME" /\ rr.name \in Found =>
            DOMAIN aiCNAMEs' = DOMAIN aiCNAMEs \cup {rr.target}
      /\ ~ (rr.type = "CNAME" /\ rr.name \in Found) => aiCNAMEs' = aiCNAMEs
  BY <1>1, <1>2 DEF ScanCNAME, Put, Found
<1>4. Closed'
  <2> SUFFICES ASSUME ChainOrdered(answer), NEW i \in 1..Len(answer), i < idx + 1,
                      IsCNAME(answer[i]), answer[i].name \in Found'
               PROVE  answer[i].target \in Found'
    BY <1>1 DEF Closed, Scanned
  <2>0. Found \subseteq Found'
    BY <1>3 DEF Found
  <2>1. CASE i = idx
    <3>1. IsCNAME(rr) /\ rr.name \in Found
      <4>1. rr.name \in Found' /\ IsCNAME(rr)
        BY <2>1 DEF rr
      <4>2. rr.name # rr.target
        BY <1>1, <4>1 DEF ChainOrdered, rr
      <4>3. QED
        BY <1>3, <4>1, <4>2 DEF Found
    <3>2. QED
      BY <1>2, <1>3, <2>1, <3>1 DEF Found, IsCNAME, rr
  <2>2. CASE i < idx
    <3>1. answer[i].name \in Found
      <4>1. CASE IsCNAME(rr) /\ answer[i].name = rr.target
        BY <1>1, <2>2, <4>1 DEF ChainOrdered, rr
      <4>2. CASE ~ (IsCNAME(rr) /\ answer[i].name = rr.target)
        BY <1>3, <4>2 DEF Found, IsCNAME
      <4>3. QED
        BY <4>1, <4>2
    <3>2. answer[i].target \in Found
      BY <1>1, <2>2, <3>1 DEF svcCInv, Closed, Scanned
    <3>3. QED
      BY <2>0, <3>2
  <2>3. QED
    BY <1>1, <2>1, <2>2
<1>5. Origins'
  <2> SUFFICES ASSUME ~ RootAlias(answer), NEW n \in DOMAIN aiCNAMEs' PROVE aiCNAMEs'[n] # <<>>
    BY <1>1 DEF Origins, RootAlias
  <2>1. \A x \in DOMAIN aiCNAMEs : aiCNAMEs[x] # <<>>
    BY DEF svcCInv, Origins
  <2>2. CASE rr.type = "CNAME" /\ isAIDomain(rr.name)
    <3>1. rr.name # <<>>
      BY <1>1, <2>2 DEF RootAlias, IsCNAME, rr
    <3>2. QED
      BY <1>1, <2>1, <2>2, <3>1 DEF ScanCNAME, Put
  <2>3. CASE ~ (rr.type = "CNAME" /\ isAIDomain(rr.name))
    BY <1>1, <2>1, <2>3 DEF ScanCNAME, Put
  <2>4. QED
    BY <2>2, <2>3
<1>6. Written'
  BY <1>1 DEF Written, Visited
<1>7. QED
  BY <1>4, <1>5, <1>6 DEF svcCInv

(* One record of the second loop: what is to be written is written, or fails. *)
LEMMA ALoopComplete == ASSUME svcIInv, svcCInv, AStep \/ ASkip PROVE svcCInv'
<1>1. /\ svcPc = "a" /\ svcPc' = "a" /\ UNCHANGED <<answer, aiCNAMEs>> /\ idx' = idx + 1
      /\ idx \in 1..Len(answer)
  BY DEF AStep, ASkip, svcIInv, svcTypeOK
<1>2. Closed' /\ Origins'
  BY <1>1 DEF svcCInv, Closed, Origins, Scanned, Found
<1>3. {w.ip : w \in writes} \cup failed \subseteq ({w.ip : w \in writes} \cup failed)'
  BY DEF AStep, ASkip, writeDestination
<1>4. ToWrite(answer[idx]) => answer[idx].ip \in ({w.ip : w \in writes} \cup failed)'
  <2>1. CASE ASkip
    BY <2>1 DEF ASkip
  <2>2. CASE AStep
    <3>1. \/ writes' = writes \cup {[ip |-> answer[idx].ip, host |-> AIHostname(aiCNAMEs, answer[idx].name)]}
          \/ failed' = failed \cup {answer[idx].ip}
      BY <2>2 DEF AStep, writeDestination
    <3>2. [ip |-> answer[idx].ip, host |-> AIHostname(aiCNAMEs, answer[idx].name)].ip = answer[idx].ip
      OBVIOUS
    <3>3. QED
      BY <3>1, <3>2
  <2>3. QED
    BY <2>1, <2>2
<1>5. Written'
  <2> SUFFICES ASSUME NEW k \in 1..Len(answer), k < idx + 1, ToWrite(answer[k])
               PROVE  answer[k].ip \in ({w.ip : w \in writes} \cup failed)'
    BY <1>1 DEF Written, Visited, ToWrite
  <2>1. CASE k = idx
    BY <1>4, <2>1
  <2>2. CASE k < idx
    BY <1>1, <1>3, <2>2 DEF svcCInv, Written, Visited
  <2>3. QED
    BY <1>1, <2>1, <2>2
<1>6. QED
  BY <1>2, <1>5 DEF svcCInv

(* The ends of the loops, and steps of nothing. *)
LEMMA EndComplete ==
    ASSUME svcIInv, svcCInv, CnameDone \/ ADone \/ UNCHANGED <<svcPc, answer, idx, aiCNAMEs, writes, failed>>
    PROVE  svcCInv'
<1>1. UNCHANGED <<answer, aiCNAMEs, writes, failed>>
  BY DEF CnameDone, ADone
<1>2. Origins'
  BY <1>1 DEF svcCInv, Origins
<1>3. Len(answer) \in Nat /\ idx \in Nat
  BY DEF svcIInv, svcTypeOK
<1>4. Closed'
  <2>1. \A i \in 1..Len(answer) : Scanned(i)' => Scanned(i)
    BY <1>3 DEF CnameDone, ADone, Scanned
  <2>2. QED
    BY <1>1, <2>1 DEF svcCInv, Closed, Found
<1>5. Written'
  <2>1. \A k \in 1..Len(answer) : Visited(k)' => Visited(k)
    BY <1>3 DEF CnameDone, ADone, Visited
  <2>2. QED
    BY <1>1, <2>1 DEF svcCInv, Written, ToWrite
<1>6. QED
  BY <1>2, <1>4, <1>5 DEF svcCInv

(* Every step of ProcessDNSEvent. *)
LEMMA ProcessingComplete == ASSUME svcIInv, svcCInv, Processing PROVE svcCInv'
BY CnameStepComplete, ALoopComplete, EndComplete DEF Processing

(* Every step of the service. *)
LEMMA svcNextComplete == svcIInv /\ svcCInv /\ [svcNext]_svcVars => svcCInv'
<1> SUFFICES ASSUME svcIInv, svcCInv, [svcNext]_svcVars PROVE svcCInv'
  OBVIOUS
<1>1. CASE Processing
  BY <1>1, ProcessingComplete
<1>2. ASSUME NEW a \in Answers, ProcessDNSEvent(a) PROVE svcCInv'
  BY <1>2, ProcessComplete, DnsAssumption
<1>3. CASE ProcessUnpackError \/ UNCHANGED svcVars
  <2>1. UNCHANGED <<svcPc, answer, idx, aiCNAMEs, writes, failed>>
    BY <1>3 DEF ProcessUnpackError, svcVars, svcLocal
  <2>2. QED
    BY <2>1, EndComplete
<1>4. QED
  BY <1>1, <1>2, <1>3 DEF svcNext

(* What is left when the loops are done: Found is closed under the records   *)
(* of the message, so it holds every name an AI domain leads to.             *)
LEMMA NothingMissed ==
    ASSUME svcIInv, svcCInv, svcPc # "cname", Followable(answer), \A k \in 1..Len(answer) : Visited(k)
    PROVE  Missed = {}
<1> SUFFICES ASSUME NEW ip4 \in Resolved(answer)
             PROVE  ip4 \in {w.ip : w \in writes} \cup failed
  BY DEF Missed
<1>1. PICK h \in Names, k \in 1..Len(answer) :
          /\ isAIDomain(h) /\ answer[k].type = "A" /\ answer[k].ip = ip4 /\ ip4 # NoIP
          /\ Leads(answer, h, answer[k].name)
  BY DEF Resolved, ResolvesTo
<1>2. Found \in SUBSET Names /\ h \in Found
  BY <1>1 DEF Found
<1>3. \A i \in 1..Len(answer) :
          IsCNAME(answer[i]) /\ answer[i].name \in Found => answer[i].target \in Found
  BY DEF svcCInv, Closed, Scanned, Followable
<1>4. answer[k].name \in Found
  BY <1>1, <1>2, <1>3 DEF Leads
<1>5. AIHostname(aiCNAMEs, answer[k].name) # NoHost
  BY <1>4, DnsAssumption DEF Found, AIHostname, svcCInv, Origins, svcIInv, svcTypeOK, Followable
<1>6. QED
  BY <1>1, <1>5 DEF svcCInv, Written, ToWrite

-----------------------------------------------------------------------------
(* The state of the service and the map keep their types. *)
THEOREM svcTypeCorrect == svcSpec => []svcTypeOK
BY svcSpecInv, PTL DEF svcIInv

(* Whatever ProcessDNSEvent writes, the message resolves through the AI      *)
(* domain it is filed under.                                                 *)
THEOREM svcSound == svcSpec => []SoundWrites
BY svcSpecInv, PTL DEF svcIInv

(* A response with any number of records, whose CNAME records stand in the   *)
(* order of the chain, is gone through without missing an address.           *)
THEOREM svcComplete == svcSpec => []CompleteInOrder
<1>1. svcIInv /\ svcCInv => CompleteInOrder
  BY NothingMissed DEF CompleteInOrder, Visited
<1>2. QED
  BY <1>1, svcSpecInv, InitComplete, svcNextComplete, PTL DEF svcSpec
=============================================================================
