---------------------------- MODULE MCDnsService ----------------------------
(***************************************************************************)
(* All answer sections of up to three records over two AI names, two names *)
(* of a content network and the root, with an AI_DOMAINS that ends in a    *)
(* comma: its last entry is the empty string, which is the root name.      *)
(***************************************************************************)
EXTENDS DnsService

CONSTANTS s1, s2

MCSlots == {s1, s2}

api  == <<"api", "openai", "com">>
apex == <<"openai", "com">>
edge == <<"edge", "net">>
cdn  == <<"notopenai", "com">>      \* shares a suffix of letters, not of labels

root == <<>>

MCNames     == {api, apex, edge, cdn, root}
MCHostname64 == [n \in MCNames |-> n]
MCAIDomains == {<<"openai", "com">>, root}

ip1 == <<104, 18, 33, 45>>
ip2 == <<10, 0, 0, 9>>

CnameRecords ==
    {[type |-> "CNAME", name |-> n, target |-> t] : n \in {api, edge, cdn}, t \in {apex, edge, cdn}}
        \cup {[type |-> "CNAME", name |-> root, target |-> edge]}
ARecords ==
    {[type |-> "A", name |-> n, ip |-> i] : n \in {apex, edge, cdn}, i \in {ip1, ip2}}
OtherRecords ==
    {[type |-> "OTHER", name |-> api], [type |-> "A", name |-> apex, ip |-> NoIP]}

MCAnswers ==
    UNION {[1..n -> CnameRecords \cup ARecords \cup OtherRecords] : n \in 0..3}
=============================================================================
