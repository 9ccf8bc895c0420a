------------------------------ MODULE MCIpRules ------------------------------
(* A small instance of IpRules for TLC: octets of two bits, IPv4 addresses   *)
(* of two octets, IPv6 addresses of three groups of two octets.              *)
EXTENDS IpRules

V4(a, b)  == Plain("v4", <<>>, FALSE, <<>>, <<a, b>>)
Mapped(a, b) == Plain("mapped", <<>>, FALSE, <<>>, <<a, b>>)
V6(left, gap, right) == Plain("v6", left, gap, right, <<>>)
V6Dotted(left, gap, a, b) == Plain("v6", left, gap, <<>>, <<a, b>>)
Garbage == Plain("other", <<>>, FALSE, <<>>, <<>>)

Bracketed(t) == [t EXCEPT !.bracketed = TRUE]
WithPort(t)  == [t EXCEPT !.port = TRUE]
WithZone(t)  == [t EXCEPT !.zone = TRUE]
InList(t)    == [t EXCEPT !.more = TRUE]

Rule(t, prefix) == [text |-> t, prefix |-> prefix, tail |-> FALSE]

(* Rules of every prefix length class, in several notations, and rules that *)
(* cannot be read.                                                          *)
WrittenRules ==
    {Rule(V4(1, 2), prefix) : prefix \in {NoPrefix, 0, 1, 3, 4, 5, JunkPrefix}} \cup
    {Rule(Mapped(3, 0), 2), Rule(Mapped(1, 1), 9), Rule(WithPort(V4(2, 3)), 3),
     Rule(V6(<<1, 2, 3>>, FALSE, <<>>), 9), Rule(V6(<<1>>, TRUE, <<>>), 4),
     Rule(V6Dotted(<<1>>, TRUE, 0, 3), NoPrefix), Rule(V6(<<>>, TRUE, <<>>), 0),
     Rule(Garbage, 3), [Rule(InList(V4(3, 3)), 4) EXCEPT !.tail = TRUE]}

StrayEntries == {NotText, Rule(Garbage, NoPrefix)}

Delivery(ip, forwarded, remote) ==
    [ip |-> ip, ips |-> <<>>, forwarded |-> forwarded, remote |-> remote]

OctetPairs == {<<0, 0>>, <<1, 1>>, <<1, 2>>, <<1, 3>>, <<2, 2>>, <<2, 3>>,
               <<3, 0>>, <<3, 1>>, <<3, 3>>}

DirectDeliveries ==
    {Delivery(<<V4(p[1], p[2])>>, <<>>, <<>>) : p \in OctetPairs} \cup
    {Delivery(<<Mapped(p[1], p[2])>>, <<>>, <<>>) : p \in {<<1, 2>>, <<3, 1>>}} \cup
    {Delivery(<<V6(g, FALSE, <<>>)>>, <<>>, <<>>) :
        g \in {<<1, 2, 3>>, <<1, 2, 11>>, <<1, 0, 3>>, <<0, 15, 6>>}} \cup
    {Delivery(<<WithPort(Bracketed(V6(<<1>>, TRUE, <<3>>)))>>, <<>>, <<>>),
     Delivery(<<WithZone(V6(<<1>>, TRUE, <<>>))>>, <<>>, <<>>),
     \* a mapped address in another spelling than "::ffff:"
     Delivery(<<Plain("v6", <<>>, TRUE, <<15>>, <<1, 2>>)>>, <<>>, <<>>)}

(* Forwarded and unreadable addresses.                                      *)
IndirectDeliveries ==
    {Delivery(<<V4(3, 2)>>, <<InList(V4(1, 2)), V4(3, 0)>>, <<V4(1, 2)>>),
     Delivery(<< Garbage >>, <<WithPort(Mapped(1, 2)), V4(1, 2)>>, <<>>),
     Delivery(<<>>, <<>>, <<V4(1, 2)>>),
     Delivery(<<>>, <<>>, <<>>)}

AllDeliveries == DirectDeliveries \cup IndirectDeliveries
=============================================================================
