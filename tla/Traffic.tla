------------------------------ MODULE Traffic ------------------------------
(***************************************************************************)
(* Devices that send well-formed frames, as a reference for Ingest. A      *)
(* message is put together step by step, encoded as the protocols define   *)
(* it, and read back by the parsers of EdgeShield. The encoders are the    *)
(* reference definition: they share nothing with the parsers.              *)
(***************************************************************************)
EXTENDS Ingest

CONSTANTS
    DhcpHeader,   \* length of the fixed part of a DHCP message
    Heads,        \* frame headers: kind, ports, header lengths, and the
                  \* payload or the fields of an NTP message
    OptionChoices,\* DHCP options a device may add
    RecordChoices,\* mDNS records a device may add
    MaxOptions, MaxRecords

ASSUME TrafficAssumption ==
    /\ {MaxOptions, MaxRecords, DhcpHeader} \subseteq Nat
    /\ \A h \in Heads : h.ip_words \in 5 .. 15 /\ h.tcp_words \in 5 .. 15

VARIABLES head, options, questions, records

vars == <<head, options, questions, records>>

IsDhcp == head.kind = "Udp" /\ {head.src, head.dst} \subseteq {67, 68}
IsMdns == head.kind = "Udp" /\ head.src = 5353

Init == head \in Heads /\ options = <<>> /\ questions = <<>> /\ records = <<>>

AddOption ==
    /\ IsDhcp /\ Len(options) < MaxOptions
    /\ \E o \in OptionChoices : options' = Append(options, o)
    /\ UNCHANGED <<head, questions, records>>

AddQuestion ==
    /\ IsMdns /\ questions = <<>> /\ records = <<>>
    /\ \E r \in RecordChoices : questions' = <<r.owner>>
    /\ UNCHANGED <<head, options, records>>

AddRecord ==
    /\ IsMdns /\ Len(records) < MaxRecords
    /\ \E r \in RecordChoices : records' = Append(records, r)
    /\ UNCHANGED <<head, options, questions>>

Next == AddOption \/ AddQuestion \/ AddRecord

Spec == Init /\ [][Next]_vars

(***************************************************************************)
(* Encoders.                                                               *)
(***************************************************************************)
Zeros(n)  == [i \in 1 .. n |-> 0]
Two(n)    == <<n \div 256, n % 256>>
EndOption == [tag |-> 255, value |-> <<>>]

\* Padding has no length byte.
EncodeOption(o) ==
    IF o.tag \in {0, 255} THEN <<o.tag>> ELSE <<o.tag, Len(o.value)>> \o o.value

EncodeDhcp ==
    Zeros(DhcpHeader) \o <<99, 130, 83, 99>>
    \o FlattenSeq([i \in DOMAIN options |-> EncodeOption(options[i])])
    \o EncodeOption(EndOption)

\* Appends a name to what is written; where a suffix of it was written before
\* and `short` is set, a pointer to it replaces the suffix. `known` maps the
\* names written so far to their offsets.
RECURSIVE WriteName(_, _, _)
WriteName(out, name, short) ==
    LET o == Len(out.bytes)
        earlier == {k \in out.known : k.name = name}
    IN  IF name = <<>> THEN [out EXCEPT !.bytes = Append(@, 0)]
        ELSE IF short /\ earlier # {}
             THEN [out EXCEPT !.bytes =
                      @ \o Two(49152 + (CHOOSE k \in earlier : TRUE).offset)]
        ELSE WriteName([bytes |-> out.bytes \o <<Len(name[1])>> \o name[1],
                        known |-> {k \in out.known : k.name # name}
                                  \union {[name |-> name, offset |-> o]}],
                       Tail(name), short)

WriteQuestion(out, name) ==
    LET w == WriteName(out, name, TRUE)
    IN  [w EXCEPT !.bytes = @ \o <<0, PTR, 0, 1>>]

\* The length of the data is known when the data is written.
WriteRecord(out, r) ==
    LET owner == WriteName(out, r.owner, r.short)
        fixed == owner.bytes \o Two(r.type) \o <<0, 1, 0, 0, 0, 60, 0, 0>>
        start == Len(fixed)
        extra == IF r.type = SRV THEN Zeros(6) ELSE <<>>
        data  == CASE r.type \in {PTR, SRV} ->
                         WriteName([owner EXCEPT !.bytes = fixed \o extra],
                                   r.target, r.short)
                   [] OTHER -> [owner EXCEPT !.bytes = fixed \o <<9, 9>>]
    IN  [data EXCEPT !.bytes = [@ EXCEPT ![start] = Len(data.bytes) - start]]

EncodeMdns ==
    LET start == [bytes |-> Zeros(4) \o Two(Len(questions)) \o Two(Len(records)) \o Zeros(4),
                  known |-> {}]
        asked == FoldLeft(WriteQuestion, start, questions)
    IN  FoldLeft(WriteRecord, asked, records).bytes

EncodeNtp(m) == <<64 * m.leap_indicator + 8 * m.version + m.mode>> \o Zeros(47)

Payload ==
    CASE IsDhcp -> EncodeDhcp
      [] IsMdns -> EncodeMdns
      [] head.ntp # None -> EncodeNtp(head.ntp)
      [] OTHER -> head.payload

Protocol == [Tcp |-> 6, Udp |-> 17, Icmp |-> 1, Other |-> 41]
EncodeTransport(h, payload) ==
    CASE h.kind = "Udp"  -> Two(h.src) \o Two(h.dst) \o Two(8 + Len(payload)) \o <<0, 0>>
      [] h.kind = "Tcp"  -> Two(h.src) \o Two(h.dst) \o Zeros(8)
                            \o <<16 * h.tcp_words>> \o Zeros(4 * h.tcp_words - 13)
      [] h.kind = "Icmp" -> <<8, 0, 0, 0>>
      [] OTHER -> <<>>

Mac(n) == <<2, 0, 0, 0, 0, n>>
Ip(n)  == <<10, 0, 0, n>>

\* Device 1 sends to device 2.
Frame(h, payload) ==
    LET ip == <<64 + h.ip_words, 0, 0, 0, 0, 0, 0, 0, 64, Protocol[h.kind], 0, 0>>
              \o Ip(1) \o Ip(2) \o Zeros(4 * (h.ip_words - 5))
    IN  Mac(2) \o Mac(1)
        \o IF h.kind = "Arp" THEN <<8, 6>> \o Zeros(28)
           ELSE IF h.kind = "Ipv6" THEN <<134, 221>> \o Zeros(40)
           ELSE <<8, 0>> \o ip \o EncodeTransport(h, payload) \o payload

\* Ethernet fills a frame up to 60 bytes. What this machine sends itself is
\* captured before that.
Filled(raw)   == raw \o Zeros(IF Len(raw) < 60 THEN 60 - Len(raw) ELSE 0)
OnTheWire(h)  == LET raw == Frame(h, Payload) IN {raw, Filled(raw)}

Reply(h) == [h EXCEPT !.src = h.dst, !.dst = h.src]

(***************************************************************************)
(* Properties                                                              *)
(***************************************************************************)
\* A method of four bytes, on a port of no service, with nothing behind it.
NoFifthByte(h, raw) ==
    /\ h.kind = "Tcp" /\ 80 \notin {h.src, h.dst}
    /\ Len(h.payload) = 4 /\ raw = Frame(h, h.payload)

\* Every frame is read: its addresses are the sender's, and its protocol is
\* the service that either port, whichever side sends, or on other TCP ports a
\* complete HTTP banner stands for (decode_packet, classify). IP and TCP
\* options do not matter. The filling of a short frame counts as payload, and
\* that matters in one case only: "GET " and "PUT " alone are HTTP with it and
\* TCP without it, since is_http_banner asks for five bytes. A well-formed NTP
\* message gives back its fields (parse_ntp).
ServicesRecognised ==
    /\ \A h \in {head, Reply(head)} : \A raw \in OnTheWire(h) :
         LET l == Learned(raw)
         IN  /\ l.source = Mac(1) /\ l.destination = Mac(2)
             /\ l.ip = IF h.kind \in {"Arp", "Ipv6"} THEN None ELSE Ip(1)
             /\ l.protocol = IF h.service = "HTTP" /\ NoFifthByte(h, raw) THEN "TCP"
                            ELSE h.service
    /\ head.ntp # None => parse_ntp(Payload) = head.ntp

\* What the options of a DHCP message say about a device.
Announced(tag) ==
    LET given == {i \in DOMAIN options : options[i].tag = tag
                                         /\ \E j \in DOMAIN options[i].value :
                                               options[i].value[j] # 0}
    IN  IF given = {} THEN None
        ELSE SelectSeq(options[CHOOSE i \in given : \A k \in given : k <= i].value,
                       LAMBDA b : b # 0)

\* The hostname and the vendor class a device announces in its DHCP messages
\* reach discovery, wherever the options stand between other options and
\* padding (parse_dhcp, process_packet).
DhcpNamesFound ==
    IsDhcp => \A raw \in OnTheWire(head) :
                LET l == Learned(raw)
                IN  /\ l.dhcp_hostname = Announced(12)
                    /\ l.dhcp_vendor_class = Announced(60)

\* The first host, and the first instance with its service, that an mDNS
\* message names are found, whichever of its names are written as pointers to
\* earlier ones (parse_mdns, read_name_internal). A root target names no host.
MdnsNamesFound ==
    IsMdns =>
      LET hosts == SelectSeq(records, LAMBDA r : r.type = SRV /\ r.target # <<>>)
          ptrs  == SelectSeq(records, LAMBDA r : r.type = PTR)
          host  == IF hosts = <<>> THEN None ELSE Head(hosts).target
      IN  /\ \A raw \in OnTheWire(head) : Learned(raw).mdns_hostname = host
          /\ parse_mdns(EncodeMdns) =
               IF hosts = <<>> /\ ptrs = <<>> THEN None
               ELSE [hostname |-> host,
                     instance |-> IF ptrs = <<>> THEN None ELSE Head(ptrs).target,
                     service_type |-> IF ptrs = <<>> THEN None ELSE Head(ptrs).owner]
=============================================================================
