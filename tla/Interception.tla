---------------------------- MODULE Interception ----------------------------
(***************************************************************************)
(* What the agent promises, without packets, maps, ring buffers and        *)
(* program runs: connections to addresses of AI domains are diverted to    *)
(* the proxy, all others are left alone, in one step each, and diverted    *)
(* ones are reported.                                                      *)
(*                                                                         *)
(* Between the time an address is first heard of and the time its entry is *)
(* in place, and again after the entry is evicted, either may happen.      *)
(***************************************************************************)
EXTENDS Naturals, Sequences

CONSTANTS
    Numbers,        \* tell connections apart
    Connections,    \* the destinations, records with a field ip
    Proxy           \* where connections are diverted to

VARIABLES
    known,      \* addresses that some response resolved through an AI domain
    sure,       \* those among them whose entries are in place
    conns,      \* the connections that were made
    log         \* the reports

avars == <<known, sure, conns, log>>

Init ==
    /\ known = {}
    /\ sure = {}
    /\ conns = {}
    /\ log = <<>>

(* Responses are captured, gone through, forgotten. *)
Learn ==
    /\ known \subseteq known'
    /\ sure' \subseteq known'
    /\ UNCHANGED <<conns, log>>

New(n) == \A c \in conns : c.n # n

Pass(n, dst) ==
    /\ New(n)
    /\ dst.ip \notin sure
    /\ conns' = conns \cup {[n |-> n, dst |-> dst, peer |-> dst, how |-> "passed"]}
    /\ UNCHANGED <<known, sure, log>>

(* A diverted connection, which will be reported unless there is no room. *)
Divert(n, dst, how) ==
    /\ New(n)
    /\ dst.ip \in known
    /\ conns' = conns \cup {[n |-> n, dst |-> dst, peer |-> Proxy, how |-> how]}
    /\ UNCHANGED <<known, sure, log>>

(* A connection is reported once, as what it was. *)
Report(c) ==
    /\ c.how = "reported"
    /\ \A i \in 1..Len(log) : log[i].n # c.n
    /\ log' = Append(log, [n |-> c.n, dst |-> c.dst, peer |-> c.peer])
    /\ UNCHANGED <<known, sure, conns>>

Next ==
    \/ Learn
    \/ \E n \in Numbers, dst \in Connections :
          Pass(n, dst) \/ \E how \in {"reported", "unreported"} : Divert(n, dst, how)
    \/ \E c \in conns : Report(c)

Spec == Init /\ [][Next]_avars
=============================================================================
