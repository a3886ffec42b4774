----------------------------- MODULE ByteOrder -----------------------------
(***************************************************************************)
(* The byte-order conversions between Go values, socket addresses in       *)
(* memory and the integers the eBPF programs handle.  An IPv4 address is   *)
(* the sequence of its four bytes in network order; a port in memory is    *)
(* the sequence of its two bytes in network order.                         *)
(***************************************************************************)
EXTENDS Integers, Sequences

CONSTANT BigEndian      \* is the host big-endian? (gen.go builds for amd64 and arm64)

ASSUME EndianAssumption == BigEndian \in BOOLEAN

Byte == {n \in Nat : n < 256}
Port == {n \in Nat : n < 65536}
IPv4 == Byte \X Byte \X Byte \X Byte

(* binary.NativeEndian and binary.BigEndian of the Go library. *)
NativeUint16(b) == IF BigEndian THEN 256 * b[1] + b[2] ELSE b[1] + 256 * b[2]
NativePutUint16(n) ==
    IF BigEndian THEN <<n \div 256, n % 256>> ELSE <<n % 256, n \div 256>>
BigUint16(b) == 256 * b[1] + b[2]

NativeUint32(b) ==
    IF BigEndian
    THEN 16777216 * b[1] + 65536 * b[2] + 256 * b[3] + b[4]
    ELSE b[1] + 256 * b[2] + 65536 * b[3] + 16777216 * b[4]
NativePutUint32(n) ==
    LET low  == n % 256
        mid1 == (n \div 256) % 256
        mid2 == (n \div 65536) % 256
        high == n \div 16777216
    IN  IF BigEndian THEN <<high, mid2, mid1, low>> ELSE <<low, mid1, mid2, high>>

-----------------------------------------------------------------------------
(* utils.go *)

\* A plausible slip: on a little-endian host, reading the bytes back natively
\* makes the conversion the identity.
ntohsIdentity(n) == NativeUint16(NativePutUint16(n))
ntohs(n) == BigUint16(NativePutUint16(n))

uint32ToIP(n) == NativePutUint32(n)

(* htons of the application that fills in a sockaddr: network byte order. *)
PortBytes(p) == <<p \div 256, p % 256>>
=============================================================================
