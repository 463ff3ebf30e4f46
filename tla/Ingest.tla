------------------------------- MODULE Ingest -------------------------------
(***************************************************************************)
(* From the bytes of a frame to what discovery learns from it: the decoder *)
(* (packet/src/decode.rs), the classifier and the DHCP, mDNS and NTP       *)
(* parsers (protocol/src). A buffer is a sequence of bytes. Offsets count  *)
(* from zero and ranges are half open, as in the source. Where the source  *)
(* would panic (a slice that starts behind the buffer, option 53 without a *)
(* value) the operators have no value.                                     *)
(***************************************************************************)
EXTENDS Naturals, Sequences, SequencesExt

CONSTANT None

At(buf, o)       == buf[o + 1]
Slice(buf, a, b) == SubSeq(buf, a + 1, b)
From(buf, a)     == CASE a <= Len(buf) -> SubSeq(buf, a + 1, Len(buf))
Be16(buf, o)     == 256 * At(buf, o) + At(buf, o + 1)

(***************************************************************************)
(* decode.rs                                                               *)
(***************************************************************************)
decode_ethernet(raw) ==
    IF Len(raw) < 14 THEN None
    ELSE [destination |-> Slice(raw, 0, 6), source |-> Slice(raw, 6, 12),
          ethertype |-> Be16(raw, 12)]

\* The length in the header is in 32-bit words.
decode_ipv4(data) ==
    IF Len(data) < 20 THEN None
    ELSE [header_length |-> (At(data, 0) % 16) * 4, total_length |-> Be16(data, 2),
          protocol |-> At(data, 9), source |-> Slice(data, 12, 16),
          destination |-> Slice(data, 16, 20)]

Ports(data) == [source_port |-> Be16(data, 0), destination_port |-> Be16(data, 2)]

\* The header and the length of it; None when the data is too short.
decode_transport(ip, data) ==
    CASE ip.protocol = 6  -> IF Len(data) < 20 THEN None
                             ELSE [kind |-> "Tcp", head |-> Ports(data),
                                   length |-> (At(data, 12) \div 16) * 4]
      [] ip.protocol = 17 -> IF Len(data) < 8 THEN None
                             ELSE [kind |-> "Udp", head |-> Ports(data), length |-> 8]
      [] ip.protocol = 1  -> IF Len(data) < 4 THEN None
                             ELSE [kind |-> "Icmp", length |-> 4,
                                   head |-> [icmp_type |-> At(data, 0),
                                             icmp_code |-> At(data, 1)]]
      [] OTHER -> [kind |-> "None", head |-> None, length |-> 0]

\* The payload is the rest of the buffer, padding of the frame included.
decode_packet(raw) ==
    LET ethernet == decode_ethernet(raw)
        ip       == decode_ipv4(From(raw, 14))
        start    == 14 + ip.header_length
        tp       == decode_transport(ip, From(raw, start))
    IN  IF ethernet = None THEN None
        ELSE IF ethernet.ethertype # 2048
             THEN [ethernet |-> ethernet, ipv4 |-> None, transport |-> None,
                   payload |-> <<>>]
        ELSE IF ip = None \/ tp = None THEN None
        ELSE [ethernet |-> ethernet, ipv4 |-> ip, transport |-> tp,
              payload |-> From(raw, start + tp.length)]

(***************************************************************************)
(* classifier.rs                                                           *)
(***************************************************************************)
UdpPorts == [DNS |-> 53, DHCP_SERVER |-> 67, DHCP_CLIENT |-> 68, MDNS |-> 5353,
             NTP |-> 123]
TcpPorts == [DNS |-> 53, HTTP |-> 80, HTTPS |-> 443]

Banners == { <<71, 69, 84, 32>>,                      \* "GET "
             <<80, 79, 83, 84, 32>>,                  \* "POST "
             <<80, 85, 84, 32>>,                      \* "PUT "
             <<68, 69, 76, 69, 84, 69, 32>>,          \* "DELETE "
             <<72, 69, 65, 68, 32>>,                  \* "HEAD "
             <<79, 80, 84, 73, 79, 78, 83, 32>>,      \* "OPTIONS "
             <<80, 65, 84, 67, 72, 32>>,              \* "PATCH "
             <<84, 82, 65, 67, 69, 32>>,              \* "TRACE "
             <<67, 79, 78, 78, 69, 67, 84, 32>>,      \* "CONNECT "
             <<72, 84, 84, 80, 47, 49, 46>> }         \* "HTTP/1."

is_http_banner(payload) ==
    Len(payload) >= 5 /\ \E b \in Banners : IsPrefix(b, payload)

classify_tcp(src, dst, payload) ==
    LET Uses(port) == src = port \/ dst = port
    IN  IF Uses(TcpPorts.DNS) THEN "DNS"
        ELSE IF Uses(TcpPorts.HTTP) THEN "HTTP"
        ELSE IF Uses(TcpPorts.HTTPS) THEN "HTTPS"
        ELSE IF is_http_banner(payload) THEN "HTTP" ELSE "TCP"

\* Mutated: only the destination port tells NTP.
Mut_classify_udp(src, dst) ==
    LET Uses(port) == src = port \/ dst = port
    IN  IF Uses(UdpPorts.DNS) THEN "DNS"
        ELSE IF Uses(UdpPorts.DHCP_SERVER) \/ Uses(UdpPorts.DHCP_CLIENT) THEN "DHCP"
        ELSE IF Uses(UdpPorts.MDNS) THEN "mDNS"
        ELSE IF dst = UdpPorts.NTP THEN "NTP" ELSE "UDP"

classify_udp(src, dst) ==
    LET Uses(port) == src = port \/ dst = port
    IN  IF Uses(UdpPorts.DNS) THEN "DNS"
        ELSE IF Uses(UdpPorts.DHCP_SERVER) \/ Uses(UdpPorts.DHCP_CLIENT) THEN "DHCP"
        ELSE IF Uses(UdpPorts.MDNS) THEN "mDNS"
        ELSE IF Uses(UdpPorts.NTP) THEN "NTP" ELSE "UDP"

classify(p) ==
    LET head == p.transport.head
    IN  IF p.ethernet.ethertype = 2054 THEN "ARP"
        ELSE IF p.ipv4 = None THEN "UNKNOWN(0)"
        ELSE CASE p.transport.kind = "Tcp" ->
                     classify_tcp(head.source_port, head.destination_port, p.payload)
               [] p.transport.kind = "Udp" ->
                     classify_udp(head.source_port, head.destination_port)
               [] p.transport.kind = "Icmp" -> "ICMP"
               [] OTHER -> "IPv4"

(***************************************************************************)
(* dhcp.rs                                                                 *)
(***************************************************************************)
Cookie == <<99, 130, 83, 99>>
\* Where parse_dhcp looks for the cookie.
CookieOffset == 240

IsAscii(bytes) == \A i \in DOMAIN bytes : bytes[i] < 128

\* trim_end_matches('\0'); None for what is empty then, or is no text. Texts
\* of more than one byte per character do not occur here.
OptionText(value) ==
    LET kept == {i \in DOMAIN value : value[i] # 0}
    IN  IF kept = {} \/ ~IsAscii(value) THEN None
        ELSE SubSeq(value, 1, CHOOSE i \in kept : \A j \in kept : j <= i)

\* Mutated: padding is taken for an option with a length.
Mut_Options(payload, start) ==
    LET from[o \in Nat] ==
          IF o + 1 >= Len(payload) \/ At(payload, o) = 255 THEN <<>>
          ELSE LET next == o + 2 + At(payload, o + 1)
               IN  IF next > Len(payload) THEN <<>>
                   ELSE <<[tag |-> At(payload, o), value |-> Slice(payload, o + 2, next)]>>
                        \o from[next]
    IN  from[start]

\* The options from an offset on, up to the end option or one that is cut off.
Options(payload, start) ==
    LET from[o \in Nat] ==
          IF o + 1 >= Len(payload) \/ At(payload, o) = 255 THEN <<>>
          ELSE IF At(payload, o) = 0 THEN from[o + 1]
          ELSE LET next == o + 2 + At(payload, o + 1)
               IN  IF next > Len(payload) THEN <<>>
                   ELSE <<[tag |-> At(payload, o), value |-> Slice(payload, o + 2, next)]>>
                        \o from[next]
    IN  from[start]

\* The last usable value of an option wins.
LastText(options, tag) ==
    LET texts == SelectSeq([i \in DOMAIN options |->
                              IF options[i].tag = tag THEN OptionText(options[i].value)
                              ELSE None], LAMBDA t : t # None)
    IN  IF texts = <<>> THEN None ELSE Last(texts)

parse_dhcp(payload) ==
    IF \/ Len(payload) < CookieOffset + 4
       \/ Slice(payload, CookieOffset, CookieOffset + 4) # Cookie
    THEN None
    ELSE LET options == Options(payload, CookieOffset + 4)
             types   == SelectSeq(options, LAMBDA o : o.tag = 53)
         IN  [hostname |-> LastText(options, 12), vendor_class |-> LastText(options, 60),
              message_type |-> IF types = <<>> THEN None ELSE Last(types).value[1]]

(***************************************************************************)
(* ntp.rs                                                                  *)
(***************************************************************************)
parse_ntp(payload) ==
    LET first   == At(payload, 0)
        version == (first \div 8) % 8
        mode    == first % 8
    IN  IF Len(payload) < 48 \/ version \notin {3, 4} \/ mode \notin 1 .. 6 THEN None
        ELSE [leap_indicator |-> first \div 64, version |-> version, mode |-> mode]

(***************************************************************************)
(* mdns.rs. A name is its sequence of labels.                              *)
(***************************************************************************)
PTR == 12
SRV == 33
MaxJumps == 10

IsPointer(len) == len >= 192
Unnamed == [end |-> 0, ok |-> FALSE, labels |-> <<>>]

\* Mutated: a name ends behind the last pointer followed, not the first.
Mut_read_name_internal(payload, start, collect) ==
    LET from[at \in Nat \X Nat] ==
          LET o   == at[1]
              len == At(payload, o)
              pointer == (len - 192) * 256 + At(payload, o + 1)
              rest == from[<<o + 1 + len, at[2]>>]
          IN  IF o >= Len(payload) THEN Unnamed
              ELSE IF IsPointer(len)
                   THEN IF o + 1 >= Len(payload) \/ at[2] >= MaxJumps \/ pointer >= start
                        THEN Unnamed ELSE from[<<pointer, at[2] + 1>>]
              ELSE IF len = 0 THEN [end |-> o + 1, ok |-> TRUE, labels |-> <<>>]
              ELSE IF o + 1 + len > Len(payload) THEN Unnamed
              ELSE [rest EXCEPT !.labels = <<Slice(payload, o + 1, o + 1 + len)>> \o @]
    IN  from[<<start, 0>>]

\* Follows at most MaxJumps pointers, and only to before the name's start. The
\* name ends behind the first pointer, or behind the zero byte.
read_name_internal(payload, start, collect) ==
    LET from[at \in Nat \X Nat] ==
          LET o   == at[1]
              len == At(payload, o)
              pointer == (len - 192) * 256 + At(payload, o + 1)
              label == Slice(payload, o + 1, o + 1 + len)
              rest == from[<<o + 1 + len, at[2]>>]
          IN  IF o >= Len(payload) THEN Unnamed
              ELSE IF IsPointer(len)
                   THEN IF o + 1 >= Len(payload) \/ at[2] >= MaxJumps \/ pointer >= start
                        THEN Unnamed
                        ELSE [from[<<pointer, at[2] + 1>>] EXCEPT !.end = o + 2]
              ELSE IF len = 0 THEN [end |-> o + 1, ok |-> TRUE, labels |-> <<>>]
              ELSE IF o + 1 + len > Len(payload) \/ (collect /\ ~IsAscii(label))
                   THEN Unnamed
              ELSE IF collect THEN [rest EXCEPT !.labels = <<label>> \o @]
              ELSE rest
    IN  from[<<start, 0>>]

skip_name(payload, offset) == read_name_internal(payload, offset, FALSE)
read_name(payload, offset) == read_name_internal(payload, offset, TRUE)

NameOrNone(n) == IF n.labels = <<>> THEN None ELSE n.labels

\* A record behind its name.
RecordOf(payload, name) ==
    LET type  == Be16(payload, name.end)
        rdata == name.end + 10
        next  == rdata + Be16(payload, name.end + 8)
        named == CASE type = PTR -> read_name(payload, rdata)
                   [] type = SRV /\ next - rdata >= 7 -> read_name(payload, rdata + 6)
                   [] OTHER -> [end |-> next, ok |-> TRUE, labels |-> <<>>]
    IN  IF ~name.ok \/ rdata > Len(payload) THEN None
        ELSE IF next > Len(payload) THEN None
        ELSE IF ~named.ok THEN None
        ELSE [name |-> NameOrNone(name), record_type |-> type, next_offset |-> next,
              srv_target |-> IF type = SRV THEN NameOrNone(named) ELSE None,
              ptr_rdata  |-> IF type = PTR THEN NameOrNone(named) ELSE None]

parse_record(payload, offset) == RecordOf(payload, read_name(payload, offset))

\* The offset behind the questions, None when one is cut off.
AfterQuestions(payload, count) ==
    LET after[n \in Nat] ==
          IF n = 0 THEN 12
          ELSE LET before == after[n - 1]
                   name   == skip_name(payload, before)
               IN  IF before = None THEN None
                   ELSE IF ~name.ok \/ name.end + 4 > Len(payload) THEN None
                   ELSE name.end + 4
    IN  after[count]

\* The records from an offset on; the last is None if it does not parse.
Records(payload, offset, count) ==
    LET from[at \in Nat \X Nat] ==
          LET r == parse_record(payload, at[1])
          IN  IF at[2] = 0 THEN <<>>
              ELSE IF r = None THEN <<None>>
              ELSE <<r>> \o from[<<r.next_offset, at[2] - 1>>]
    IN  from[<<offset, count>>]

\* The first SRV target; the first PTR that has an instance, or else the last
\* PTR's owner as the service type.
MdnsInfo(found) ==
    LET cut   == found # <<>> /\ Last(found) = None
        good  == IF cut THEN Front(found) ELSE found
        srvs  == SelectSeq(good, LAMBDA r : r.srv_target # None)
        ptrs  == SelectSeq(good, LAMBDA r : r.record_type = PTR)
        named == SelectSeq(ptrs, LAMBDA r : r.ptr_rdata # None)
        ptr   == IF named # <<>> THEN Head(named) ELSE Last(ptrs)
        info  == [hostname |-> IF srvs = <<>> THEN None ELSE Head(srvs).srv_target,
                  instance |-> IF ptrs = <<>> THEN None ELSE ptr.ptr_rdata,
                  service_type |-> IF ptrs = <<>> THEN None ELSE ptr.name]
    IN  IF /\ info.hostname = None /\ info.instance = None
           /\ cut \/ info.service_type = None
        THEN None ELSE info

parse_mdns(payload) ==
    LET start == AfterQuestions(payload, Be16(payload, 4))
        count == Be16(payload, 6) + Be16(payload, 8) + Be16(payload, 10)
    IN  IF Len(payload) < 12 THEN None
        ELSE IF start = None THEN None
        ELSE MdnsInfo(Records(payload, start, count))

(***************************************************************************)
(* process_packet up to update_devices: what discovery learns.             *)
(***************************************************************************)
Field(info, f) == IF info = None THEN None ELSE info[f]

LearnedFrom(p) ==
    LET protocol == classify(p)
        Parsed(service, info, f) == IF protocol = service THEN Field(info, f) ELSE None
    IN  IF p = None THEN None
        ELSE [source |-> p.ethernet.source, destination |-> p.ethernet.destination,
              ip |-> Field(p.ipv4, "source"),
              protocol |-> protocol,
              dhcp_hostname |-> Parsed("DHCP", parse_dhcp(p.payload), "hostname"),
              dhcp_vendor_class |-> Parsed("DHCP", parse_dhcp(p.payload), "vendor_class"),
              mdns_hostname |-> Parsed("mDNS", parse_mdns(p.payload), "hostname")]

Learned(raw) == LearnedFrom(decode_packet(raw))
=============================================================================
