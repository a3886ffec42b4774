--------------------------- MODULE HostnameField ---------------------------
(***************************************************************************)
(* The way of a hostname from writeDestination (service.go) through the    *)
(* field char hostname[MAX_HOSTNAME_LEN] of a map entry and of a redirect  *)
(* event (defs.h) to the log line, where int8SliceToString (utils.go)      *)
(* makes a string of it again.  This is what the function Hostname64 of    *)
(* module AiDestinations stands for.                                       *)
(***************************************************************************)
EXTENDS Naturals, Sequences

CONSTANTS
    MAX_HOSTNAME_LEN,   \* 64 in the code
    Hosts               \* the names that are written

(* Package dns writes every byte of a name that is not printable as \DDD, so *)
(* that a name has no zero byte and none that changes as an int8.            *)
NameByte == 32..126

ASSUME HostnameAssumption ==
    /\ MAX_HOSTNAME_LEN \in Nat \ {0}
    /\ Hosts \subseteq Seq(NameByte)

VARIABLES
    field,      \* the field of the map entry
    host,       \* the name it was last written for
    event,      \* the field of the redirect event
    evHost,     \* the name that entry was for
    logged      \* original_host of the log line

vars == <<field, host, event, evHost, logged>>

Fields == [1..MAX_HOSTNAME_LEN -> {0} \cup NameByte]
Zero   == [i \in 1..MAX_HOSTNAME_LEN |-> 0]

\* A plausible slip: the struct is declared once and filled in again.
CopyOver(old, h) ==
    [i \in 1..MAX_HOSTNAME_LEN |-> IF i <= Len(h) THEN h[i] ELSE old[i]]

(* The copying loop of writeDestination; info was old before. *)
Copy(old, h) ==
    [i \in 1..MAX_HOSTNAME_LEN |-> IF i <= Len(h) THEN h[i] ELSE 0]

\* A plausible slip: string(b[:]).
AllOfIt(f) == [i \in 1..MAX_HOSTNAME_LEN |-> f[i]]

(* nullTermString(b): up to the first zero, or all of it. *)
IsEnd(f, n) ==
    /\ \A i \in 1..n : f[i] # 0
    /\ n < MAX_HOSTNAME_LEN => f[n + 1] = 0
nullTermString(f) ==
    LET n == CHOOSE n \in 0..MAX_HOSTNAME_LEN : IsEnd(f, n)
    IN  [i \in 1..n |-> f[i]]

-----------------------------------------------------------------------------
Init ==
    /\ field = Zero
    /\ host = <<>>
    /\ event = Zero
    /\ evHost = <<>>
    /\ logged = <<>>

writeDestination(h) ==
    /\ field' = Copy(field, h)
    /\ host' = h
    /\ UNCHANGED <<event, evHost, logged>>

(* bpf_probe_read_kernel of the field of a matched entry. *)
ReadField ==
    /\ event' = field
    /\ evHost' = host
    /\ UNCHANGED <<field, host, logged>>

ReadRedirectEvents ==
    /\ logged' = nullTermString(event)
    /\ UNCHANGED <<field, host, event, evHost>>

Next == (\E h \in Hosts : writeDestination(h)) \/ ReadField \/ ReadRedirectEvents

Spec == Init /\ [][Next]_vars

-----------------------------------------------------------------------------
(* Properties *)

(* The fields hold bytes of names and zeros, the log line no zero. *)
TypeOK ==
    /\ field \in Fields /\ event \in Fields
    /\ host \in Seq(NameByte) /\ evHost \in Seq(NameByte)
    /\ logged \in Seq(NameByte)

(* The first MAX_HOSTNAME_LEN bytes of a name. *)
Cut(h) == [i \in 1..(IF Len(h) < MAX_HOSTNAME_LEN THEN Len(h) ELSE MAX_HOSTNAME_LEN) |-> h[i]]

(* What will be logged for an event is the name its entry was written for,   *)
(* byte for byte, whatever longer or shorter name the entry had before; of a *)
(* name that fills the field the first bytes, and nothing from behind it.    *)
LoggedIsName == nullTermString(event) = Cut(evHost)
=============================================================================
