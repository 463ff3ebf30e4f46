----------------------------- MODULE MCTraffic -----------------------------
(***************************************************************************)
(* Frames for Traffic: every service and every HTTP banner, with and       *)
(* without IP and TCP options.                                             *)
(***************************************************************************)
EXTENDS Traffic

H(kind, src, dst, payload, service) ==
    [kind |-> kind, src |-> src, dst |-> dst, payload |-> payload, ntp |-> None,
     service |-> service, ip_words |-> 5, tcp_words |-> 5]

Get == <<71, 69, 84, 32, 47>>

\* On a port of no service: every banner, alone and with text behind it, and
\* what only begins like one.
Sniffed ==
    UNION {{ H("Tcp", 4000, 8080, b, "HTTP"), H("Tcp", 8080, 4000, b \o <<47>>, "HTTP"),
             H("Tcp", 4000, 8080, Front(b), "TCP"),
             H("Tcp", 4000, 8080, Front(b) \o <<83, 32, 47>>, "TCP") } : b \in Banners}

Plain ==
    { H("Arp", 0, 0, <<>>, "ARP"), H("Ipv6", 0, 0, <<>>, "UNKNOWN(0)"),
      H("Other", 0, 0, <<>>, "IPv4"), H("Icmp", 0, 0, <<1, 2>>, "ICMP"),
      H("Tcp", 53, 4000, <<>>, "DNS"), H("Tcp", 4000, 80, <<>>, "HTTP"),
      H("Tcp", 443, 4000, Get, "HTTPS"), H("Tcp", 4000, 22, <<>>, "TCP"),
      H("Tcp", 53, 443, <<>>, "DNS"), H("Udp", 4000, 53, <<>>, "DNS"),
      H("Udp", 4000, 4001, Get, "UDP") }

\* Versions and modes that ntp.rs accepts.
Ntp == { [H("Udp", 4000, 123, <<>>, "NTP") EXCEPT
             !.ntp = [leap_indicator |-> l, version |-> v, mode |-> m]]
         : l \in 0 .. 3, v \in 3 .. 4, m \in 1 .. 6 }

Dhcp == { H("Udp", 68, 67, <<>>, "DHCP"), H("Udp", 67, 68, <<>>, "DHCP") }
Mdns == H("Udp", 5353, 5353, <<>>, "mDNS")

WithOptions(h) == [h EXCEPT !.ip_words = 7, !.tcp_words = 8]
MCHeads ==
    LET plain == Plain \union Sniffed \union Ntp \union Dhcp \union {Mdns}
    IN  plain \union {WithOptions(h) : h \in plain}

O(tag, value) == [tag |-> tag, value |-> value]
MCOptionChoices ==
    { O(53, <<3>>), O(0, <<>>), O(12, <<104>>), O(12, <<105, 106, 0>>), O(12, <<0>>),
      O(12, <<>>), O(60, <<118, 49>>), O(55, <<12, 1, 60>>) }

Label(n) == <<n, n>>
Service  == <<Label(95), Label(96)>>
Host     == <<Label(104), Label(96)>>
R(owner, type, target, short) ==
    [owner |-> owner, type |-> type, target |-> target, short |-> short]
MCRecordChoices ==
    { R(Service, PTR, <<Label(105)>> \o Service, TRUE),
      R(Service, PTR, Host, FALSE),
      R(<<Label(105)>> \o Service, SRV, Host, TRUE),
      R(<<Label(105)>> \o Service, SRV, <<Label(106), Label(96)>>, FALSE),
      R(<<Label(105)>> \o Service, SRV, <<>>, TRUE),
      R(Host, 1, <<>>, TRUE) }
=============================================================================
