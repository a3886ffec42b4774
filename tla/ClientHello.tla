---------------------------- MODULE ClientHello ----------------------------
(***************************************************************************)
(* The ClientHello a TLS client sends, as its fields and as the bytes that *)
(* ParseSNI walks over: the reference for what the walk has to find.       *)
(***************************************************************************)
EXTENDS ParseSNI, SequencesExt

CONSTANT Hellos     \* sets of fields, see Encode

Word == {n \in Nat : n < 65536}

Zeros(n) == [i \in 1..n |-> 0]
Two(n)   == <<n \div 256, n % 256>>

(* server_name with one host name; pad stands for further names. *)
SNI(host, pad) ==
    [type |-> 0,
     body |-> Two(3 + Len(host) + pad) \o <<0>> \o Two(Len(host)) \o host \o Zeros(pad),
     host |-> host]

(* Another extension, or a server_name without a name. *)
Ext(type, n) == [type |-> type, body |-> Zeros(n), host |-> <<>>]

EncodeExt(e) == Two(e.type) \o Two(Len(e.body)) \o e.body
Encoded(h)   == [i \in 1..Len(h.exts) |-> EncodeExt(h.exts[i])]
EncodeTail(h) ==
    LET exts == FlattenSeq(Encoded(h))
    IN  <<h.session>> \o Zeros(h.session) \o Two(h.ciphers) \o Zeros(h.ciphers)
        \o <<h.compression>> \o Zeros(h.compression) \o Two(Len(exts)) \o exts

Record(n, tail) ==
    [len |-> 4 + 34 + Len(tail), type |-> 1, hsLen |-> n, tail |-> tail]
Encode(h) == Record(34 + Len(EncodeTail(h)), EncodeTail(h))

-----------------------------------------------------------------------------
(* The extensions of h with a host name. *)
Named(h) == {i \in 1..Len(h.exts) : h.exts[i].host # <<>>}

(* A server_name with a host name, or an extension without one; a            *)
(* server_name without a name is too short to hold one.                      *)
Extension == [type : Word, body : Seq(Byte), host : Seq(Byte)]
IsExtension(e) ==
    /\ e \in Extension
    /\ Len(e.body) \in Word
    /\ IF e.host # <<>> THEN \E pad \in 0..Len(e.body) : e = SNI(e.host, pad)
                        ELSE e.type = tlsExtSNI => Len(e.body) < sniExtMinLen

(* A hello in order: every length fits its field, and no two extensions have *)
(* a host name, as no type of extension may come twice.                      *)
InOrder(h) ==
    /\ h.session \in Byte /\ h.compression \in Byte /\ h.ciphers \in Word
    /\ h.exts \in Seq(Extension)
    /\ \A i \in 1..Len(h.exts) : IsExtension(h.exts[i])
    /\ Len(FlattenSeq(Encoded(h))) \in Word
    /\ \A i, j \in Named(h) : i = j

ASSUME HellosAssumption == \A h \in Hellos : InOrder(h)

(* The bytes that are returned. *)
Text == [i \in 1..(name.to - name.from) |-> B(name.from + i - 1)]

(* parseSNI returns the host name of every hello that is in order, whatever  *)
(* lengths its other fields have and whatever extensions come before, and    *)
(* "" if there is none.                                                      *)
FindsName ==
    at = "done" => \A h \in Hellos : rec = Encode(h) =>
        Text = IF Named(h) = {} THEN <<>> ELSE h.exts[CHOOSE i \in Named(h) : TRUE].host
=============================================================================
