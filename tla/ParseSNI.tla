------------------------------ MODULE ParseSNI ------------------------------
(***************************************************************************)
(* extractSNI and parseSNI of the test proxy (testing/proxy/main.go): a    *)
(* walk over the nested lengths of a ClientHello, all of which the client  *)
(* chooses.                                                                *)
(*                                                                         *)
(* A record is its length, the type and length of the handshake message it *)
(* starts with, and the bytes after these.  The first                      *)
(* clientHelloRandOffset bytes of a hello are never looked at: tail holds  *)
(* those that follow, so that hello[i] is tail[i - 33].                    *)
(* Go checks the bounds of an index against the length of a slice, but     *)
(* those of a slice expression only against its capacity, which here goes  *)
(* on to the end of the record: a missing check would read on silently.    *)
(***************************************************************************)
EXTENDS Integers, Sequences

CONSTANT Records    \* the records to parse: [len, type, hsLen, tail]

Byte == {n \in Nat : n < 256}

TlsRecord == [len : Nat, type : Byte, hsLen : Nat, tail : Seq(Byte)]

ASSUME RecordsAssumption == Records \subseteq TlsRecord

VARIABLES
    rec,    \* the record
    at,     \* which part of the hello is next
    pos,    \* pos of parseSNI
    end,    \* end of parseSNI
    limit,  \* where in the record the slice ends that was read last
    seen,   \* where in the record the bytes end that were read last
    name    \* what is returned: name.from and name.to delimit it in the hello

vars == <<rec, at, pos, end, limit, seen, name>>

tlsHandshakeHdrLen      == 4
tlsHandshakeClientHello == 1
tlsExtSNI               == 0
tlsExtHdrLen            == 4
clientHelloMinLen       == 35
clientHelloRandOffset   == 34
sniExtMinLen            == 5
sniNameLenOffset        == 3

\* A plausible slip: the byte of the name type is not counted.
sniNameOffsetNoType == 4

sniNameOffset == 5

None == [from |-> 0, to |-> 0]     \* ""

-----------------------------------------------------------------------------
HelloLen == rec.hsLen       \* len(hello)

\* A plausible slip: bytes are taken for signed.
BSigned(i) ==
    LET b == IF i >= clientHelloRandOffset /\ i < clientHelloRandOffset + Len(rec.tail)
             THEN rec.tail[i - clientHelloRandOffset + 1] ELSE 0
    IN  IF b < 128 THEN b ELSE b - 256

(* hello[i], and a big-endian number of two bytes; beyond the record there   *)
(* is a panic, or the zeroed rest of the allocation.                         *)
B(i)   == IF i >= clientHelloRandOffset /\ i < clientHelloRandOffset + Len(rec.tail)
          THEN rec.tail[i - clientHelloRandOffset + 1] ELSE 0
U16(i) == 256 * B(i) + B(i + 1)

Init ==
    /\ rec \in Records
    /\ at = "record"
    /\ pos = 0
    /\ end = 0
    /\ limit = 0
    /\ seen = 0
    /\ name = None

Return(nm) == at' = "done" /\ name' = nm /\ UNCHANGED <<pos, end>>

(* The bytes of the hello up to offset i are read, from a slice of it that   *)
(* ends at offset n.                                                         *)
Reads(i, n) == limit' = tlsHandshakeHdrLen + n /\ seen' = tlsHandshakeHdrLen + i

Goto(to, p) == at' = to /\ pos' = p /\ UNCHANGED <<end, name>>

(* extractSNI: the record is long enough for its handshake header, and for   *)
(* the message whose length that states.                                     *)
HasHeader == rec.len >= tlsHandshakeHdrLen
Complete  == rec.len >= tlsHandshakeHdrLen + rec.hsLen

(* The checks of the handshake header, the slice that makes hello, and the   *)
(* length check of parseSNI.                                                 *)
Handshake ==
    /\ at = "record"
    /\ IF HasHeader THEN seen' = tlsHandshakeHdrLen /\ limit' = rec.len
                    ELSE UNCHANGED <<seen, limit>>
    /\ IF /\ HasHeader /\ rec.type = tlsHandshakeClientHello /\ Complete
          /\ HelloLen >= clientHelloMinLen
       THEN Goto("session", clientHelloRandOffset)
       ELSE Return(None)
    /\ UNCHANGED rec

(* A vector with a length of one byte, and what follows it. *)
Skip1(part, next) ==
    /\ at = part
    /\ IF pos + 1 > HelloLen
       THEN Return(None) /\ UNCHANGED <<limit, seen>>
       ELSE Reads(pos + 1, HelloLen) /\ Goto(next, pos + 1 + B(pos))
    /\ UNCHANGED rec

SessionID == Skip1("session", "ciphers")

CipherSuites ==
    /\ at = "ciphers"
    /\ IF pos + 2 > HelloLen
       THEN Return(None) /\ UNCHANGED <<limit, seen>>
       ELSE Reads(pos + 2, HelloLen) /\ Goto("compression", pos + 2 + U16(pos))
    /\ UNCHANGED rec

Compression == Skip1("compression", "extensions")

(* The total length of the extensions, which may not exceed the hello. *)
Extensions ==
    /\ at = "extensions"
    /\ IF pos + 2 > HelloLen
       THEN Return(None) /\ UNCHANGED <<limit, seen>>
       ELSE /\ Reads(pos + 2, HelloLen)
            /\ at' = "loop"
            /\ pos' = pos + 2
            /\ end' = IF pos + 2 + U16(pos) > HelloLen THEN HelloLen ELSE pos + 2 + U16(pos)
            /\ UNCHANGED name
    /\ UNCHANGED rec

(* One turn of the loop. *)
HasExtension == pos + tlsExtHdrLen <= end
Body         == pos + tlsExtHdrLen
ExtLen       == U16(pos + 2)
Fits         == Body + ExtLen <= end

NoExtension ==
    /\ at = "loop"
    /\ ~ HasExtension
    /\ Return(None)
    /\ UNCHANGED <<rec, limit, seen>>

ExtensionTooLong ==
    /\ at = "loop"
    /\ HasExtension /\ ~ Fits
    /\ Reads(Body, HelloLen)
    /\ Return(None)
    /\ UNCHANGED rec

IsSNI    == U16(pos) = tlsExtSNI /\ ExtLen >= sniExtMinLen
NameFrom == Body + sniNameOffset
NameTo   == NameFrom + U16(Body + sniNameLenOffset)

\* A plausible slip: the name is held against the hello, not the extension.
NameFitsHello == NameTo <= HelloLen

NameFits == NameTo <= Body + ExtLen

(* ext, the slice of the extension, holds the name. *)
ServerName ==
    /\ at = "loop"
    /\ HasExtension /\ Fits /\ IsSNI /\ NameFits
    /\ Reads(NameTo, Body + ExtLen)
    /\ Return([from |-> NameFrom, to |-> NameTo])
    /\ UNCHANGED rec

\* A plausible slip: only the body of the extension is stepped over.
AfterBody == pos + ExtLen

AfterExtension == Body + ExtLen

(* Any other extension, or one that is too short for its name. *)
NextExtension ==
    /\ at = "loop"
    /\ HasExtension /\ Fits /\ ~ (IsSNI /\ NameFits)
    /\ IF IsSNI THEN Reads(NameFrom, Body + ExtLen) ELSE Reads(Body, HelloLen)
    /\ Goto("loop", AfterExtension)
    /\ UNCHANGED rec

Next ==
    \/ Handshake \/ SessionID \/ CipherSuites \/ Compression \/ Extensions
    \/ NoExtension \/ ExtensionTooLong \/ ServerName \/ NextExtension

Spec == Init /\ [][Next]_vars /\ WF_vars(Next)

-----------------------------------------------------------------------------
(* Properties *)

(* The part of the hello, the offsets and the result of the walk. *)
TypeOK ==
    /\ rec \in TlsRecord
    /\ at \in {"record", "session", "ciphers", "compression", "extensions", "loop", "done"}
    /\ pos \in Nat /\ end \in Nat /\ limit \in Nat /\ seen \in Nat
    /\ name \in [from : Nat, to : Nat]

(* Whatever lengths the client puts into its hello, no byte is read from     *)
(* behind the slice it belongs to, the hello or the extension, and these lie *)
(* within the record; in particular none of the next bytes of the record is  *)
(* taken for a part of the name.                                             *)
InBounds ==
    /\ seen <= limit
    /\ limit <= rec.len
    /\ name # None => tlsHandshakeHdrLen + name.to <= limit

(* The walk comes to an end. *)
Terminates == <>(at = "done")
=============================================================================
