------------------------------- MODULE Records -------------------------------
(***************************************************************************)
(* What the three tables of the database hold of a device, and what is read *)
(* back: the row converters of SqliteStore, SqliteHistoryStore and          *)
(* SqliteAlertStore (crates/storage/src), the text forms of Protocol,       *)
(* Timestamp, Severity and AlertEventType (crates/common/src), and the      *)
(* migration of a database written before two of the columns existed, which *)
(* may be cut short by the end of the process.                              *)
(*                                                                          *)
(* One device is followed through packets, flushes, snapshots, alerts and   *)
(* restarts.  Which devices are flushed when is module SqliteStore's, which *)
(* rows are kept module HistoryTask's, the life of an alert AlertStores'.   *)
(* A text is a tuple that shows what the text tells apart; a JSON array is  *)
(* a set, since nothing depends on its order; {} is None.                   *)
(***************************************************************************)
EXTENDS Naturals, Sequences, FiniteSetsExt

CONSTANTS
  Packets,     \* what a packet tells of the device that sent it
  Kinds,       \* severity and event type of the alerts that may be raised
  Vendor,      \* what the OUI table says of the device: {} or a singleton
  Precision,   \* clock units to a millisecond
  MaxPackets,  \* bound: packets
  MaxClock,    \* bound: clock units
  MaxOpens     \* bound: starts of the daemon

ASSUME RecordsAssumption ==
  /\ Precision \in Nat \ {0}
  /\ MaxPackets \in Nat /\ MaxClock \in Nat /\ MaxOpens \in Nat

VARIABLES
  pc,       \* SqliteStore::open: "closed", "create", "vendor_class", "stats",
            \* "load"; then "open"; "failed"
  clock,    \* Timestamp::now()
  opens,    \* starts so far
  columns,  \* the columns of table devices, {} while there is no table
  device,   \* the device in memory, <<>> or <<d>>
  row,      \* its row of table devices, <<>> or <<r>>
  history,  \* its row of today in device_history, likewise
  alert,    \* the last row of alerts, likewise
  packets,  \* history: packets recorded
  old,      \* history: packets counted by the version before the migration
  born,     \* history: first_seen at the first flush, <<>> before it
  flushed, snapped, fired  \* history: what was last written to the tables

tables == <<row, history, alert>>
written == <<born, flushed, snapped, fired>>
vars == <<pc, clock, opens, columns, device, row, history, alert, packets,
          old, born, flushed, snapped, fired>>

-----------------------------------------------------------------------------
(* The text forms.                                                          *)

(* The names Display for Protocol writes, by variant.  A variant is a tuple *)
(* of one, Other(n) is <<"Other", n>>.                                      *)
ProtocolText ==
  [Arp |-> "ARP", Ipv4 |-> "IPv4", Icmp |-> "ICMP", Tcp |-> "TCP",
   Udp |-> "UDP", Dns |-> "DNS", Dhcp |-> "DHCP", Http |-> "HTTP",
   Https |-> "HTTPS", Mdns |-> "mDNS", Ntp |-> "NTP"]

ProtocolDisplay(p) ==
  IF p[1] = "Other" THEN <<"UNKNOWN", p[2]>> ELSE <<ProtocolText[p[1]]>>

(* The variants from_str makes of the names it knows.                       *)
ProtocolNamed ==
  [ARP |-> "Arp", IPv4 |-> "Ipv4", ICMP |-> "Icmp", TCP |-> "Tcp", UDP |-> "Udp",
   DNS |-> "Dns", DHCP |-> "Dhcp", HTTP |-> "Http", HTTPS |-> "Https",
   mDNS |-> "Mdns", NTP |-> "Ntp"]

(* Protocol::from_str, the set of at most one protocol a text names.  The   *)
(* stores have four copies of it.                                           *)
ProtocolFromStr(t) ==
  IF Len(t) = 2 THEN {<<"Other", n>> : n \in {t[2]} \cap 0 .. 255}
  ELSE {<<ProtocolNamed[u]>> : u \in {t[1]} \cap DOMAIN ProtocolNamed}

(* A mutated writer that rounds up.                                         *)
Mut_TimestampText(t) == <<"iso8601", (t + Precision - 1) \div Precision>>

(* Display for Timestamp, with three digits after the second, and           *)
(* serialize_iso8601, the same text.                                        *)
TimestampText(t) == <<"iso8601", t \div Precision>>

(* parse_timestamp and deserialize_iso8601.                                 *)
ParseTimestamp(x) == x[2] * Precision

(* IpAddr's Display and FromStr: the standard library's, exact inverses.    *)
IpText(ip) == <<"ip", ip>>
ParseIp(x) == {x[2]}

SeverityDisplay(s) == CASE s = "Info" -> "info" [] s = "Warning" -> "warning"
                        [] s = "Critical" -> "critical"
SeverityFromText(x) == {s \in {"Info", "Warning", "Critical"} : SeverityDisplay(s) = x}

EventText == [NewDevice |-> "new_device", DeviceOffline |-> "device_offline",
              ProtocolChange |-> "protocol_change"]

(* Display for AlertEventType; Custom(s) is written as s.                   *)
EventDisplay(e) == IF e[1] = "Custom" THEN e[2] ELSE EventText[e[1]]

parse_event_type(x) ==
  IF \E e \in DOMAIN EventText : EventText[e] = x
  THEN <<CHOOSE e \in DOMAIN EventText : EventText[e] = x>>
  ELSE <<"Custom", x>>

-----------------------------------------------------------------------------
(* The columns and what they hold.                                          *)

Array(items) == [json |-> "array", items |-> items]
EmptyObject  == [json |-> "object", items |-> {}]

(* serde_json::from_str::<Vec<_>>(s).unwrap_or_default()                    *)
Items(x) == IF x.json = "array" THEN x.items ELSE {}

ips_to_json(ips)   == Array({IpText(ip) : ip \in ips})
ips_from_json(x)   == UNION {ParseIp(t) : t \in Items(x)}
protocols_to_json(ps)  == Array({ProtocolDisplay(p) : p \in ps})
protocols_from_json(x) == UNION {ProtocolFromStr(t) : t \in Items(x)}

(* Vec<(String, u64)>: an array of pairs.                                   *)
protocol_stats_to_json(stats) ==
  Array({<<ProtocolDisplay(p), stats[p]>> : p \in DOMAIN stats})

(* A mutated reader that expects the object the comments speak of.          *)
Mut_protocol_stats_from_json(x) ==
  LET pairs == IF x.json = "object" THEN x.items ELSE {}
      known == UNION {ProtocolFromStr(t[1]) : t \in pairs}
  IN  [p \in known |-> (CHOOSE t \in pairs : p \in ProtocolFromStr(t[1]))[2]]

protocol_stats_from_json(x) ==
  LET known == UNION {ProtocolFromStr(t[1]) : t \in Items(x)}
  IN  [p \in known |-> (CHOOSE t \in Items(x) : p \in ProtocolFromStr(t[1]))[2]]

OldColumns == {"ips", "hostname", "first_seen", "last_seen", "packet_count",
               "bytes_sent", "bytes_received", "protocols", "vendor"}
AllColumns == OldColumns \cup {"dhcp_vendor_class", "protocol_stats"}

(* The values flush binds to the columns.                                   *)
DeviceRow(d) ==
  [d EXCEPT !.ips = ips_to_json(@), !.protocols = protocols_to_json(@),
            !.first_seen = TimestampText(@), !.last_seen = TimestampText(@),
            !.protocol_stats = protocol_stats_to_json(@)]

row_to_device(r) ==
  [r EXCEPT !.ips = ips_from_json(@), !.protocols = protocols_from_json(@),
            !.first_seen = ParseTimestamp(@), !.last_seen = ParseTimestamp(@),
            !.protocol_stats = protocol_stats_from_json(@)]

(* DeviceHistorySnapshot::from_device, taken at the time t.                 *)
from_device(d, t) ==
  [c \in AllColumns \cup {"snapshot_timestamp"} |->
     IF c = "snapshot_timestamp" THEN t ELSE d[c]]

(* The values of insert_snapshot; the converters are copies of the above.   *)
SnapshotRow(s) ==
  [DeviceRow(s) EXCEPT !.snapshot_timestamp = TimestampText(@)]
row_to_snapshot(r) ==
  [row_to_device(r) EXCEPT !.snapshot_timestamp = ParseTimestamp(@)]

(* The derived Serialize of Device, which writes protocols by their variant *)
(* names and the statistics as an object (serialize_protocol_stats), and    *)
(* the derived Deserialize.                                                 *)
DeviceJson(d) ==
  [d EXCEPT !.ips = ips_to_json(@), !.protocols = Array(@),
            !.first_seen = TimestampText(@), !.last_seen = TimestampText(@),
            !.protocol_stats = [json |-> "object",
              items |-> {<<ProtocolDisplay(p), @[p]>> : p \in DOMAIN @}]]

deserialize_protocol_stats(x) ==
  protocol_stats_from_json(Array(x.items))

DeviceFromJson(j) ==
  [j EXCEPT !.ips = ips_from_json(@), !.protocols = Items(@),
            !.first_seen = ParseTimestamp(@), !.last_seen = ParseTimestamp(@),
            !.protocol_stats = deserialize_protocol_stats(@)]

(* The values of insert_alert that are converted.                           *)
AlertRow(a) ==
  [severity |-> SeverityDisplay(a.severity), event_type |-> EventDisplay(a.event_type),
   device_snapshot |-> DeviceJson(a.device_snapshot),
   timestamp |-> TimestampText(a.timestamp),
   acknowledged |-> IF a.acknowledged THEN 1 ELSE 0]

row_to_alert(r) ==
  [severity |-> CHOOSE s \in SeverityFromText(r.severity) : TRUE,
   event_type |-> parse_event_type(r.event_type),
   device_snapshot |-> DeviceFromJson(r.device_snapshot),
   timestamp |-> ParseTimestamp(r.timestamp),
   acknowledged |-> r.acknowledged # 0]
-----------------------------------------------------------------------------
(* Device::new and record_sent.                                             *)
NewDevice ==
  [ips |-> {}, hostname |-> {}, first_seen |-> clock, last_seen |-> clock,
   packet_count |-> 0, bytes_sent |-> 0, bytes_received |-> 0, protocols |-> {},
   vendor |-> Vendor, dhcp_vendor_class |-> {}, protocol_stats |-> <<>>]

record_sent(d, p, now) ==
  LET before(q) == IF q \in DOMAIN d.protocol_stats THEN d.protocol_stats[q] ELSE 0
      protocols == d.protocols \cup {p.protocol}
      counted == DOMAIN d.protocol_stats \cup {p.protocol}
  IN  [d EXCEPT !.packet_count = @ + 1, !.bytes_sent = @ + p.len,
                !.protocols = protocols, !.last_seen = now,
                !.protocol_stats = [q \in counted |->
                  before(q) + IF q = p.protocol THEN 1 ELSE 0]]

(* The row a version without the two columns may have left behind.          *)
OldRow ==
  [c \in OldColumns |->
     CASE c = "ips" -> ips_to_json({"a"}) [] c = "protocols" -> protocols_to_json({<<"Tcp">>})
       [] c \in {"first_seen", "last_seen"} -> TimestampText(0)
       [] c = "packet_count" -> 1 [] c = "bytes_sent" -> 0 [] c = "bytes_received" -> 2
       [] OTHER -> {}]

Init ==
  /\ pc = "closed"
  /\ clock = 0
  /\ opens = 0
  /\ \/ columns = {} /\ row = <<>>
     \/ columns = OldColumns /\ row \in {<<>>, <<OldRow>>}
  /\ device = <<>>
  /\ history = <<>>
  /\ alert = <<>>
  /\ packets = 0
  /\ old = Len(row)
  /\ born = <<>>
  /\ flushed = <<>>
  /\ snapped = <<>>
  /\ fired = <<>>

(* CREATE TABLE IF NOT EXISTS                                               *)
Create ==
  /\ pc = "closed"
  /\ opens < MaxOpens
  /\ opens' = opens + 1
  /\ columns' = IF columns = {} THEN AllColumns ELSE columns
  /\ pc' = "vendor_class"
  /\ UNCHANGED <<clock, device, tables, packets, old, written>>

(* The row with the column c, which has the value v where it is new.        *)
Widened(r, c, v) == [k \in DOMAIN r \cup {c} |-> IF k = c THEN v ELSE r[k]]

(* A mutated migration that takes the column's being there for a failure.   *)
Mut_AddColumn(c, v, next) ==
  /\ columns' = columns \cup {c}
  /\ row' = [i \in DOMAIN row |-> Widened(row[i], c, v)]
  /\ pc' = IF c \in columns THEN "failed" ELSE next

(* add_column_if_missing: a statement of its own, committed at once.  A     *)
(* duplicate column is an error that is ignored.                            *)
AddColumn(c, v, next) ==
  /\ columns' = columns \cup {c}
  /\ row' = IF c \in columns THEN row
            ELSE [i \in DOMAIN row |-> Widened(row[i], c, v)]
  /\ pc' = next

(* migrate, its two statements.                                             *)
AddVendorClass ==
  /\ pc = "vendor_class"
  /\ AddColumn("dhcp_vendor_class", {}, "stats")
  /\ UNCHANGED <<clock, opens, device, history, alert, packets, old, written>>

AddStats ==
  /\ pc = "stats"
  /\ AddColumn("protocol_stats", EmptyObject, "load")
  /\ UNCHANGED <<clock, opens, device, history, alert, packets, old, written>>

(* load_all: the SELECT names every column.                                 *)
Load ==
  /\ pc = "load"
  /\ pc' = IF AllColumns \subseteq columns THEN "open" ELSE "failed"
  /\ device' = IF pc' = "open" THEN [i \in DOMAIN row |-> row_to_device(row[i])] ELSE <<>>
  /\ UNCHANGED <<clock, opens, columns, tables, packets, old, written>>
-----------------------------------------------------------------------------
(* The daemon at work, with the store open.                                 *)

(* process_packet.  `now` was read before Device::new reads the clock.      *)
Packet(p) ==
  /\ pc = "open"
  /\ packets < MaxPackets
  /\ \E now \in {clock, clock - 1} \cap Nat :
       LET known == IF device = <<>> THEN NewDevice ELSE device[1]
           d == record_sent(known, p, now)
       IN  device' = <<[d EXCEPT !.ips = @ \cup p.ips,
                          !.dhcp_vendor_class = IF @ = {} THEN p.vendor_class ELSE @]>>
  /\ packets' = packets + 1
  /\ UNCHANGED <<pc, clock, opens, columns, tables, old, written>>

Tick ==
  /\ clock < MaxClock
  /\ clock' = clock + 1
  /\ UNCHANGED <<pc, opens, columns, device, tables, packets, old, written>>

(* INSERT .. ON CONFLICT DO UPDATE: first_seen is not among the updates.    *)
Upsert(table, r) ==
  <<IF table = <<>> THEN r ELSE [r EXCEPT !.first_seen = table[1].first_seen]>>

(* flush, for this device.                                                  *)
Flush ==
  /\ pc = "open"
  /\ device # <<>>
  /\ row' = Upsert(row, DeviceRow(device[1]))
  /\ flushed' = device
  /\ born' = IF row = <<>> THEN <<device[1].first_seen>> ELSE born
  /\ UNCHANGED <<pc, clock, opens, columns, device, history, alert, packets, old,
                 snapped, fired>>

(* insert_snapshot of the device as it is, on the day the model is about.   *)
Snapshot ==
  /\ pc = "open"
  /\ device # <<>>
  /\ snapped' = <<from_device(device[1], clock)>>
  /\ history' = Upsert(history, SnapshotRow(snapped'[1]))
  /\ UNCHANGED <<pc, clock, opens, columns, device, row, alert, packets, old, born,
                 flushed, fired>>

(* insert_alert of an alert the rule engine made of the device.             *)
Fire(severity, event_type) ==
  /\ pc = "open"
  /\ device # <<>>
  /\ fired' = <<[severity |-> severity, event_type |-> <<event_type>>,
                 device_snapshot |-> device[1], timestamp |-> clock,
                 acknowledged |-> FALSE]>>
  /\ alert' = <<AlertRow(fired'[1])>>
  /\ UNCHANGED <<pc, clock, opens, columns, device, row, history, packets, old, born,
                 flushed, snapped>>

(* The process ends, between any two statements.                            *)
Stop ==
  /\ pc # "closed"
  /\ pc' = "closed"
  /\ device' = <<>>
  /\ UNCHANGED <<clock, opens, columns, tables, packets, old, written>>

Next ==
  \/ Create \/ AddVendorClass \/ AddStats \/ Load
  \/ \E p \in Packets : Packet(p)
  \/ Tick \/ Flush \/ Snapshot
  \/ \E k \in Kinds : Fire(k[1], k[2])
  \/ Stop

Spec == Init /\ [][Next]_vars

-----------------------------------------------------------------------------
(* The text of t loses less than a millisecond and never gains.             *)
Near(t, read) == read <= t /\ t - read < Precision

Times == {"first_seen", "last_seen"}
SameDevice(d, read) ==
  /\ \A c \in AllColumns \ Times : read[c] = d[c]
  /\ \A c \in Times : Near(d[c], read[c])

(* What the three tables hold reads back as what was written, but for the   *)
(* part of a time below the millisecond.  The losses do not add up: however *)
(* often the daemon is restarted and the device flushed again, first_seen   *)
(* stays within a millisecond of its first value.  A history row keeps the  *)
(* first_seen of the day's first snapshot (row_to_device, row_to_snapshot,  *)
(* row_to_alert and their writers).  No protocol is lost or mistaken for    *)
(* another by its name (Display and FromStr, two tables).                   *)
ReadsBack ==
  /\ \A p \in {<<v>> : v \in DOMAIN ProtocolText} \cup {<<"Other", 0>>, <<"Other", 255>>} :
       ProtocolFromStr(ProtocolDisplay(p)) = {p}
  /\ flushed # <<>> => SameDevice(flushed[1], row_to_device(row[1]))
  /\ born # <<>> => \A d \in {row_to_device(row[1])} \cup {device[i] : i \in DOMAIN device} :
                      Near(born[1], d.first_seen)
  /\ snapped # <<>> =>
       LET s == snapped[1]
           r == row_to_snapshot(history[1])
       IN  /\ SameDevice([s EXCEPT !.first_seen = r.first_seen], r)
           /\ Near(s.snapshot_timestamp, r.snapshot_timestamp)
           /\ r.first_seen <= s.first_seen
  /\ fired # <<>> =>
       LET r == row_to_alert(alert[1])
       IN  /\ SameDevice(fired[1].device_snapshot, r.device_snapshot)
           /\ Near(fired[1].timestamp, r.timestamp)
           /\ \A f \in {"severity", "event_type", "acknowledged"} : r[f] = fired[1][f]

(* The per-protocol counts add up to packet_count less what was counted     *)
(* before the column existed, in memory and in the row, and only of         *)
(* protocols in the set: across flushes, restarts, and a migration cut      *)
(* short anywhere (protocol_stats_to_json, protocol_stats_from_json).       *)
PacketsAccounted ==
  LET inRow == IF columns = AllColumns THEN {row_to_device(row[i]) : i \in DOMAIN row} ELSE {}
  IN  \A d \in inRow \cup {device[i] : i \in DOMAIN device} :
        /\ d.packet_count = MapThenSumSet(LAMBDA q : d.protocol_stats[q],
                                          DOMAIN d.protocol_stats) + old
        /\ DOMAIN d.protocol_stats \subseteq d.protocols

(* A database of either version opens, also when an earlier start ended     *)
(* between the statements of its migration (add_column_if_missing).         *)
AlwaysOpens == pc # "failed"
=============================================================================
