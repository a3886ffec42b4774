----------------------------- MODULE DnsService -----------------------------
(***************************************************************************)
(* The DNS service (src/internal/bpf/dns/service.go): ProcessDNSEvent      *)
(* walks the answer section of one response twice.  The first loop follows *)
(* CNAME records that start at an AI domain, the second writes the address *)
(* of every A record whose owner is an AI domain or a name found by the    *)
(* first loop into ai_destinations, one map update at a time, while        *)
(* connect hooks look addresses up.                                        *)
(*                                                                         *)
(* A name is the sequence of its labels, without the trailing dot that     *)
(* strings.TrimSuffix removes; <<>> is the root name "".                   *)
(***************************************************************************)
EXTENDS AiDestinations, ByteOrder

CONSTANTS
    AIDomains,  \* the configured domain suffixes
    Answers,    \* answer sections a message can have
    NoIP,       \* an A record without a usable address (To4 returns nil)
    MaxMessages \* bound: messages handled in a behaviour

RR == [type : {"CNAME"}, name : Names, target : Names]
        \cup [type : {"A"}, name : Names, ip : IPv4 \cup {NoIP}]
        \cup [type : {"OTHER"}, name : Names]

ASSUME DnsAssumption ==
    /\ Answers \subseteq Seq(RR)
    /\ NoIP \notin IPv4
    /\ DOMAIN Hostname64 = Names
    /\ NoHost \notin Names \cup HostFields
    /\ NoKey \notin Nat
    /\ MaxMessages \in Nat

VARIABLES
    svcPc,      \* "idle", "cname" (first loop), "a" (second loop)
    answer,     \* msg.Answer of the message being processed, or the last one
    idx,        \* position of the current loop in answer
    aiCNAMEs,   \* the map aiCNAMEs: cname target -> original AI hostname
    handled,    \* number of messages handled
    writes,     \* history: addresses written for this message, with hostname
    failed      \* history: addresses whose map update failed, for this message

svcLocal == <<svcPc, answer, idx, aiCNAMEs, handled, writes, failed>>
svcVars  == <<svcLocal, aiDest>>

-----------------------------------------------------------------------------
(* hostname == suffix || strings.HasSuffix(hostname, "."+suffix) *)
isAIDomain(h) ==
    \E s \in AIDomains :
        \/ h = s
        \/ /\ s # <<>>
           /\ Len(h) > Len(s)
           /\ SubSeq(h, Len(h) - Len(s) + 1, Len(h)) = s

(* m[k] = v for a Go map. *)
Put(m, k, v) == [x \in DOMAIN m \cup {k} |-> IF x = k THEN v ELSE m[x]]

\* A plausible bug: only the first hop of a chain is followed.
ScanCNAMEOneHop(cn, rr) ==
    IF rr.type = "CNAME" /\ isAIDomain(rr.name) THEN Put(cn, rr.target, rr.name) ELSE cn

\* A plausible bug: an alias outside every AI domain is taken for its own origin.
ScanCNAMEAnyAlias(cn, rr) ==
    IF rr.type = "CNAME" THEN Put(cn, rr.target, rr.name) ELSE cn

(* The body of the first loop. *)
ScanCNAME(cn, rr) ==
    IF rr.type = "CNAME" /\ isAIDomain(rr.name) THEN Put(cn, rr.target, rr.name)
    ELSE IF rr.type = "CNAME" /\ rr.name \in DOMAIN cn
         THEN Put(cn, rr.target, cn[rr.name])
    ELSE cn

\* A plausible bug: a name that is not found stands for itself.
AIHostnameDefault(cn, name) == IF name \in DOMAIN cn THEN cn[name] ELSE name

\* A plausible bug: the aliases found by the first loop are not consulted.
AIHostnameNoAlias(cn, name) == IF isAIDomain(name) THEN name ELSE NoHost

\* A plausible bug: an alias is filed under its own name.
AIHostnameOwner(cn, name) == IF isAIDomain(name) \/ name \in DOMAIN cn THEN name ELSE NoHost

(* The switch of the second loop; aiCNAMEs[name] is "" for a missing key. *)
AIHostname(cn, name) ==
    IF isAIDomain(name) THEN name
    ELSE IF name \in DOMAIN cn /\ cn[name] # <<>> THEN cn[name]
    ELSE NoHost

-----------------------------------------------------------------------------
svcInit ==
    /\ aiDestInit
    /\ svcPc = "idle"
    /\ answer = <<>>
    /\ idx = 1
    /\ aiCNAMEs = [x \in {} |-> <<>>]
    /\ handled = 0
    /\ writes = {}
    /\ failed = {}

(* ProcessDNSEvent is called and Unpack succeeds with answer section a. *)
ProcessDNSEvent(a) ==
    /\ svcPc = "idle"
    /\ handled < MaxMessages
    /\ handled' = handled + 1
    /\ svcPc' = "cname"
    /\ answer' = a
    /\ idx' = 1
    /\ aiCNAMEs' = [x \in {} |-> <<>>]
    /\ writes' = {}
    /\ failed' = {}
    /\ UNCHANGED aiDest

(* ProcessDNSEvent is called and Unpack fails: the reader logs the error. *)
ProcessUnpackError ==
    /\ svcPc = "idle"
    /\ handled < MaxMessages
    /\ handled' = handled + 1
    /\ UNCHANGED <<svcPc, answer, idx, aiCNAMEs, writes, failed, aiDest>>

CnameStep ==
    /\ svcPc = "cname"
    /\ idx <= Len(answer)
    /\ aiCNAMEs' = ScanCNAME(aiCNAMEs, answer[idx])
    /\ idx' = idx + 1
    /\ UNCHANGED <<svcPc, answer, handled, writes, failed, aiDest>>

CnameDone ==
    /\ svcPc = "cname"
    /\ idx > Len(answer)
    /\ svcPc' = "a"
    /\ idx' = 1
    /\ UNCHANGED <<answer, aiCNAMEs, handled, writes, failed, aiDest>>

(* writeDestination: the error of the update is dropped. *)
writeDestination(ip4, h) ==
    \/ /\ \E s \in Slots : UpdateElem(NativeUint32(ip4), h, s)
       /\ writes' = writes \cup {[ip |-> ip4, host |-> h]}
       /\ UNCHANGED failed
    \/ /\ UpdateFails
       /\ failed' = failed \cup {ip4}
       /\ UNCHANGED writes

ToWrite(rr) ==
    rr.type = "A" /\ rr.ip # NoIP /\ AIHostname(aiCNAMEs, rr.name) # NoHost

AStep ==
    /\ svcPc = "a"
    /\ idx <= Len(answer)
    /\ ToWrite(answer[idx])
    /\ writeDestination(answer[idx].ip, AIHostname(aiCNAMEs, answer[idx].name))
    /\ idx' = idx + 1
    /\ UNCHANGED <<svcPc, answer, aiCNAMEs, handled>>

\* A plausible slip: a record that is skipped takes the next one with it.
ASkipTwo ==
    /\ svcPc = "a"
    /\ idx <= Len(answer)
    /\ ~ ToWrite(answer[idx])
    /\ idx' = idx + 2
    /\ UNCHANGED <<svcPc, answer, aiCNAMEs, handled, writes, failed, aiDest>>

ASkip ==
    /\ svcPc = "a"
    /\ idx <= Len(answer)
    /\ ~ ToWrite(answer[idx])
    /\ idx' = idx + 1
    /\ UNCHANGED <<svcPc, answer, aiCNAMEs, handled, writes, failed, aiDest>>

ADone ==
    /\ svcPc = "a"
    /\ idx > Len(answer)
    /\ svcPc' = "idle"
    /\ UNCHANGED <<answer, idx, aiCNAMEs, handled, writes, failed, aiDest>>

Processing == CnameStep \/ CnameDone \/ AStep \/ ASkip \/ ADone

svcNext ==
    \/ Processing
    \/ ProcessUnpackError
    \/ \E a \in Answers : ProcessDNSEvent(a)

svcSpec == svcInit /\ [][svcNext]_svcVars

-----------------------------------------------------------------------------
(* Reference definitions, on the answer section as a whole. *)

IsCNAME(rr) == rr.type = "CNAME"

(* Name n is h, or is reached from h through CNAME records of a, in whatever *)
(* order they stand: every set of names that holds h and is closed under the *)
(* records holds n.                                                          *)
Leads(a, h, n) ==
    \A S \in SUBSET Names :
        (/\ h \in S
         /\ \A i \in 1..Len(a) : IsCNAME(a[i]) /\ a[i].name \in S => a[i].target \in S)
        => n \in S

(* Address ip4 was resolved through AI domain h by answer section a. *)
ResolvesTo(a, h, ip4) ==
    /\ h \in Names
    /\ isAIDomain(h)
    /\ \E k \in 1..Len(a) : /\ a[k].type = "A"
                            /\ a[k].ip = ip4
                            /\ Leads(a, h, a[k].name)

(* No CNAME record stands before the one that leads to it, as servers that   *)
(* follow a chain emit them.                                                 *)
ChainOrdered(a) ==
    \A i, j \in 1..Len(a) :
        IsCNAME(a[i]) /\ IsCNAME(a[j]) /\ a[i].target = a[j].name => i < j

(* aiCNAMEs[name] != "" takes the empty origin for a missing one: when an    *)
(* entry of AI_DOMAINS is empty, the aliases of the root name are not found. *)
RootAlias(a) ==
    /\ isAIDomain(<<>>)
    /\ \E i \in 1..Len(a) : IsCNAME(a[i]) /\ a[i].name = <<>>

Followable(a) == ChainOrdered(a) /\ ~ RootAlias(a)

-----------------------------------------------------------------------------
(* Properties *)

(* The loops of ProcessDNSEvent stay within the answer section, aiCNAMEs and *)
(* the map hold names and addresses, and nothing is written for an A record  *)
(* without a usable address.                                                 *)
svcTypeOK ==
    /\ aiDest \in [Slots -> Element]
    /\ svcPc \in {"idle", "cname", "a"}
    /\ answer \in Seq(RR)
    /\ idx \in 1..(Len(answer) + 1)
    /\ DOMAIN aiCNAMEs \subseteq Names
    /\ \A n \in DOMAIN aiCNAMEs : aiCNAMEs[n] \in Names
    /\ handled \in 0..MaxMessages
    /\ writes \subseteq [ip : IPv4, host : Names]
    /\ failed \subseteq IPv4

(* No address is taken for an AI destination by mistake: whatever            *)
(* ProcessDNSEvent writes, the message resolves it through the AI domain it  *)
(* is filed under, possibly over several CNAME hops.                         *)
SoundWrites == \A w \in writes : ResolvesTo(answer, w.host, w.ip)

(* Nothing is missed in a response whose chain stands in order and does not  *)
(* start at an empty AI domain: when the service is done with the message,   *)
(* every address the message resolves through an AI domain was written, or   *)
(* its update failed.                                                        *)
Resolved(a) ==
    {a[k].ip : k \in {i \in 1..Len(a) : /\ a[i].type = "A"
                                        /\ a[i].ip # NoIP
                                        /\ \E h \in Names : ResolvesTo(a, h, a[i].ip)}}

Missed == Resolved(answer) \ ({w.ip : w \in writes} \cup failed)

CompleteInOrder == svcPc = "idle" /\ Followable(answer) => Missed = {}

(* "We need to know that any IP resolved via an AI domain CNAME is an AI IP" *)
(* (comment in ProcessDNSEvent): the same, for records in any order.  It     *)
(* fails for a response that lists a later link of the chain first, because  *)
(* the first loop runs over the records once.                                *)
AnyOrderComplete == svcPc = "idle" /\ ~ RootAlias(answer) => Missed = {}
=============================================================================
