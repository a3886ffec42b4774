--------------------------- MODULE MCInterceptor ---------------------------
(***************************************************************************)
(* Three DNS messages and two threads of one process.  An alias resolves   *)
(* to ip1 over a CNAME, an apex name to ip2, and a name outside every AI   *)
(* domain to ip3.  The packets carry the alias message whole and cut off   *)
(* by the length mask.                                                     *)
(***************************************************************************)
EXTENDS Interceptor, TLC

CONSTANTS c1, s1, s2, mAlias, mApex, mOther

MCCPUs     == {c1}
MCSlots    == {s1, s2}
SlotSymmetry == Permutations(MCSlots)

MCMessages == {mAlias, mApex, mOther}
MCThreads  == {2001, 2002}
MCTgidOf   == [t \in MCThreads |-> 2001]

api   == <<"api", "openai", "com">>
apex  == <<"openai", "com">>
edge  == <<"edge", "net">>
MCNames      == {api, apex, edge}
MCHostname64 == [n \in MCNames |-> n]
MCAIDomains  == {apex}

ip1 == <<104, 18, 33, 45>>
ip2 == <<10, 0, 0, 9>>
ip3 == <<93, 184, 1, 34>>
MCProxyIP == <<10, 100, 0, 50>>
MCTargets == {[ip |-> i, port |-> 443] : i \in {ip1, ip2, ip3}}

A(n, i) == [type |-> "A", name |-> n, ip |-> i]
MCContents ==
    [m \in MCMessages |->
       CASE m = mAlias -> [size |-> 80, answer |-> <<[type |-> "CNAME", name |-> api, target |-> edge],
                                                     A(edge, ip1)>>]
         [] m = mApex  -> [size |-> 60, answer |-> <<A(apex, ip2)>>]
         [] m = mOther -> [size |-> 60, answer |-> <<A(edge, ip3)>>]]
MCAnswers == {MCContents[m].answer : m \in MCMessages}

UdpResponse(m, n) ==
    [len |-> 42 + n,
     ip  |-> [ihl |-> 5, proto |-> UDP],
     l4  |-> [sport |-> 53, doff |-> 0],
     dns |-> [flags_hi |-> 129, ancount |-> 1, msg |-> m]]

MCSkbs ==
    {UdpResponse(mAlias, 80), UdpResponse(mAlias, 1024 + 60), UdpResponse(mApex, 60),
     UdpResponse(mOther, 60), [UdpResponse(mOther, 60) EXCEPT !.dns.ancount = 0]}
=============================================================================
