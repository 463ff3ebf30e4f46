------------------------------ MODULE Discovery ------------------------------
(***************************************************************************)
(* The discovery engine (crates/discovery/src/discovery.rs): the pipeline   *)
(* task folds each decoded packet into the record of its source and then of *)
(* its destination, and announces new and changed devices on a bounded      *)
(* channel without ever waiting for it.  The rule engine, the only reader,  *)
(* learns about devices from these events alone.                            *)
(*                                                                          *)
(* The offline scanner of the daemon (crates/daemon/src/daemon.rs) copies   *)
(* the same store and sends on the same channel, so storing a device and    *)
(* announcing it are two steps, and the scanner's reads are steps too.  It  *)
(* visits its copy in any order; copying is one step, since what follows    *)
(* is about one device at a time.  An interval of the scanner is left open. *)
(*                                                                          *)
(* A packet is what decode, classify, parse_dhcp and parse_mdns make of it; *)
(* "" stands for None.                                                      *)
(***************************************************************************)
EXTENDS Naturals, Sequences, FiniteSetsExt

CONSTANTS
  Mac,         \* hardware addresses
  Protocol,    \* the protocols classify tells apart
  Packets,     \* the packets that may be captured
  Stored,      \* the stores the daemon may start with: known address -> Device
  EventCap,    \* capacity of the event channel (1024 in the daemon)
  CounterMax,  \* where the u64 counters saturate
  Threshold,   \* silence the scanner reports, in seconds (60)
  MaxPackets,  \* bound: packets processed
  MaxTime,     \* bound: the wall clock, which does not step back
  MaxScans     \* bound: scans

(* A packet's addresses are at most its source's and its destination's.     *)
ASSUME DiscoveryAssumption ==
  /\ Threshold \in Nat /\ CounterMax \in Nat \ {0} /\ IsFiniteSet(Protocol)
  /\ \A p \in Packets :
       /\ p.src \in Mac /\ p.dst \in Mac /\ p.protocol \in Protocol
       /\ p.len \in Nat /\ IsFiniteSet(p.ips)

VARIABLES
  processed,   \* packets taken from the capture channel
  packet,      \* the packet being processed and its `now`: <<>> or <<p, now>>
  stage,       \* "recv", "source", "destination"
  outbox,      \* the event to be sent for the device just stored, or <<>>
  devices,     \* the device store: known address -> Device
  events,      \* the event channel
  clock,       \* Timestamp::now()
  scans,       \* scans begun
  listed,      \* last_seen in the scanner's copy of the devices to be visited
  scanNow,     \* `now` of the scan: <<>> until it is read
  heard,       \* history: devices stored since the scanner copied them
  view,        \* history: what the pipeline's events last told the reader, or
               \* how a device was when it was loaded
  dropped      \* history: devices of which an event was dropped

scanVars == <<scans, listed, scanNow>>
vars == <<processed, packet, stage, outbox, devices, events, clock, scans,
          listed, scanNow, heard, view, dropped>>

Min2(a, b) == IF a < b THEN a ELSE b

(* u64::saturating_add                                                      *)
SaturatingAdd(a, b) == Min2(a + b, CounterMax)

(* Device::new.  The vendor is a function of the address and left out.      *)
NewDevice ==
  [packet_count |-> 0, bytes_sent |-> 0, bytes_received |-> 0,
   protocols |-> {}, protocol_stats |-> [q \in Protocol |-> 0],
   ips |-> {}, hostname |-> "", vendor_class |-> "", last_seen |-> clock]

Known == DOMAIN devices

(* self.store.get(&mac)? or a new device                                    *)
Lookup(m) == IF m \in Known THEN devices[m] ELSE NewDevice

(* Devices, as packets make them.                                           *)
Names ==
  {""} \cup UNION {{p.dhcp_hostname, p.mdns_hostname, p.dhcp_vendor_class} : p \in Packets}

Device ==
  [packet_count : Nat, bytes_sent : Nat, bytes_received : Nat,
   protocols : SUBSET Protocol, protocol_stats : [Protocol -> 0 .. CounterMax],
   ips : SUBSET UNION {p.ips : p \in Packets}, hostname : Names,
   vendor_class : Names, last_seen : Nat]

(* The packets counted for all protocols.                                   *)
StatSum(stats) == MapThenSumSet(LAMBDA q : stats[q], Protocol)

(* The packet counter is the saturated sum of the per-protocol counters, and *)
(* the protocol set is the set of protocols counted.                         *)
Agree(d) ==
  /\ d.packet_count = Min2(CounterMax, StatSum(d.protocol_stats))
  /\ d.protocols = {q \in Protocol : d.protocol_stats[q] > 0}

(* SqliteStore::open loads what an earlier run wrote; an in-memory store is *)
(* empty.  Rows from before the migration, without counters by protocol,    *)
(* are module Records'.                                                     *)
ASSUME StoredAssumption ==
  \A s \in Stored : \A m \in DOMAIN s :
    s[m] \in Device /\ IsFiniteSet(s[m].ips) /\ Agree(s[m])

(* The part of a device the rules may look at.                              *)
Profile(d) == <<d.protocols, d.hostname, d.vendor_class, d.ips>>

(* Loaded devices are not announced.                                        *)
Init ==
  /\ processed = 0
  /\ packet = <<>>
  /\ stage = "recv"
  /\ devices \in Stored
  /\ outbox = <<>>
  /\ events = <<>>
  /\ clock = 0
  /\ scans = 0
  /\ listed = <<>>
  /\ scanNow = <<>>
  /\ heard = {}
  /\ view = [m \in Known |-> Profile(devices[m])]
  /\ dropped = {}

-----------------------------------------------------------------------------
(* The fields of a device that one packet changes.                          *)

(* A mutated counter update that leaves the per-protocol counter alone.     *)
RecordedNoStats(d, q, now) ==
  [d EXCEPT !.last_seen = now,
            !.packet_count = SaturatingAdd(@, 1),
            !.protocols = @ \cup {q}]

(* What record_sent and record_received have in common.                     *)
Recorded(d, q, now) ==
  [d EXCEPT !.last_seen = now,
            !.packet_count = SaturatingAdd(@, 1),
            !.protocols = @ \cup {q},
            !.protocol_stats[q] = SaturatingAdd(@, 1)]

RecordSent(d, p, now) ==
  [Recorded(d, p.protocol, now) EXCEPT !.bytes_sent = SaturatingAdd(@, p.len)]

RecordReceived(d, p, now) ==
  [Recorded(d, p.protocol, now) EXCEPT !.bytes_received = SaturatingAdd(@, p.len)]

(* A name found in the packet is taken if there is none yet.                *)
FirstOf(old, new) == IF old = "" THEN new ELSE old

(* The source device: counters, DHCP name, mDNS name, vendor class, IPs.    *)
Sent(d, p, now) ==
  [RecordSent(d, p, now) EXCEPT
     !.hostname = FirstOf(FirstOf(@, p.dhcp_hostname), p.mdns_hostname),
     !.vendor_class = FirstOf(@, p.dhcp_vendor_class),
     !.ips = @ \cup p.ips]

(* The destination device: counters and IPs only.                           *)
Received(d, p, now) == [RecordReceived(d, p, now) EXCEPT !.ips = @ \cup p.ips]

(* A mutated comparison that overlooks new addresses.                       *)
ChangedButIps(old, new) ==
  \/ new.protocols # old.protocols
  \/ new.hostname # old.hostname
  \/ new.vendor_class # old.vendor_class

(* `changed`: sets only grow, so comparing the sizes of the IP sets will do.*)
Changed(old, new) ==
  \/ new.protocols # old.protocols
  \/ new.hostname # old.hostname
  \/ new.vendor_class # old.vendor_class
  \/ Cardinality(new.ips) # Cardinality(old.ips)

-----------------------------------------------------------------------------
(* A DiscoveryEvent.  Of the device it carries, the profile is kept.        *)
Event(kind, m, profile) == [kind |-> kind, mac |-> m, profile |-> profile]

(* event_tx.try_send: a full channel drops the event.                       *)
TrySend(e) == events' = IF Len(events) < EventCap THEN Append(events, e) ELSE events

(* A mutated choice that announces every device as a new one.               *)
AnnouncementNew(m, d) ==
  IF m \in Known /\ ~Changed(devices[m], d) THEN <<>>
                                           ELSE <<Event("discovered", m, Profile(d))>>

(* The event for a device that becomes d, if there is one.                  *)
Announcement(m, d) ==
  CASE m \notin Known -> <<Event("discovered", m, Profile(d))>>
    [] m \in Known /\ Changed(devices[m], d) -> <<Event("updated", m, Profile(d))>>
    [] OTHER -> <<>>

(* self.store.upsert(device)                                                *)
StoreDevice(m, d) ==
  /\ devices' = [x \in Known \cup {m} |-> IF x = m THEN d ELSE devices[x]]
  /\ outbox' = Announcement(m, d)
  /\ heard' = heard \cup {m}

(* process_packet up to update_devices; undecodable packets are skipped.    *)
Receive ==
  /\ stage = "recv" /\ outbox = <<>>
  /\ processed < MaxPackets
  /\ processed' = processed + 1
  /\ \E p \in Packets :
       IF p.decodes THEN packet' = <<p, clock>> /\ stage' = "source"
                    ELSE UNCHANGED <<packet, stage>>
  /\ UNCHANGED <<outbox, devices, events, clock, scanVars, heard, view, dropped>>

(* update_devices, first block.                                             *)
UpdateSource ==
  /\ stage = "source"
  /\ LET p == packet[1]
     IN  /\ StoreDevice(p.src, Sent(Lookup(p.src), p, packet[2]))
         /\ IF p.src = p.dst THEN stage' = "recv" /\ packet' = <<>>
                             ELSE stage' = "destination" /\ UNCHANGED packet
  /\ UNCHANGED <<processed, events, clock, scanVars, view, dropped>>

(* update_devices, second block.                                            *)
UpdateDestination ==
  /\ stage = "destination" /\ outbox = <<>>
  /\ LET p == packet[1]
     IN  StoreDevice(p.dst, Received(Lookup(p.dst), p, packet[2]))
  /\ stage' = "recv"
  /\ packet' = <<>>
  /\ UNCHANGED <<processed, events, clock, scanVars, view, dropped>>

(* The try_send at the end of either block.                                 *)
Announce ==
  /\ outbox # <<>>
  /\ TrySend(outbox[1])
  /\ dropped' = IF events' = events THEN dropped \cup {outbox[1].mac} ELSE dropped
  /\ outbox' = <<>>
  /\ UNCHANGED <<processed, packet, stage, devices, clock, scanVars, heard, view>>

-----------------------------------------------------------------------------
(* offline_scanner.                                                         *)

(* ticker.tick().await; store.list()                                        *)
ScanList ==
  /\ listed = <<>> /\ scans < MaxScans /\ Known # {}
  /\ scans' = scans + 1
  /\ listed' = [m \in Known |-> devices[m].last_seen]
  /\ scanNow' = <<>>
  /\ heard' = {}
  /\ UNCHANGED <<processed, packet, stage, outbox, devices, events, clock, view, dropped>>

(* let now = Utc::now()                                                     *)
ScanReadNow ==
  /\ listed # <<>> /\ scanNow = <<>>
  /\ scanNow' = <<clock>>
  /\ UNCHANGED <<processed, packet, stage, outbox, devices, events, clock, scans,
                 listed, heard, view, dropped>>

(* A mutated comparison: >= instead of >.                                   *)
SilentAtLeast(last_seen) == scanNow[1] - last_seen >= Threshold

(* silent_for.num_seconds() > 60                                            *)
SilentTooLong(last_seen) == scanNow[1] - last_seen > Threshold

(* The loop's turn for one device; emit_offline_event drops the event when  *)
(* the channel is full.                                                     *)
ScanDevice(m) ==
  /\ scanNow # <<>> /\ m \in DOMAIN listed
  /\ IF SilentTooLong(listed[m]) THEN TrySend(Event("offline", m, <<>>))
                                 ELSE UNCHANGED events
  /\ listed' = [x \in DOMAIN listed \ {m} |-> listed[x]]
  /\ UNCHANGED <<processed, packet, stage, outbox, devices, clock, scans, scanNow,
                 heard, view, dropped>>

-----------------------------------------------------------------------------
Tick ==
  /\ clock < MaxTime
  /\ clock' = clock + 1
  /\ UNCHANGED <<processed, packet, stage, outbox, devices, events, scanVars, heard,
                 view, dropped>>

(* The rule engine takes the oldest event.  An offline event carries the    *)
(* scanner's copy, which may be older than what was announced before it; no *)
(* condition on it looks at the profile, which is left out.                 *)
Consume ==
  /\ events # <<>>
  /\ events' = Tail(events)
  /\ LET e == Head(events)
     IN  view' = IF e.kind = "offline" THEN view
                 ELSE [x \in DOMAIN view \cup {e.mac} |->
                         IF x = e.mac THEN e.profile ELSE view[x]]
  /\ UNCHANGED <<processed, packet, stage, outbox, devices, clock, scanVars, heard,
                 dropped>>

Next ==
  \/ Receive \/ UpdateSource \/ UpdateDestination \/ Announce
  \/ ScanList \/ ScanReadNow \/ \E m \in Mac : ScanDevice(m)
  \/ Tick \/ Consume

Spec == Init /\ [][Next]_vars

-----------------------------------------------------------------------------
(* Properties.                                                              *)

(* The three views of a device's traffic, the packet counter, the counters  *)
(* by protocol and the protocol set, agree, also where counters saturate    *)
(* and after the device was loaded (record_sent, record_received).          *)
CountersAgree == \A m \in Known : Agree(devices[m])

(* The pipeline's events of m that are still to be read, by their places in *)
(* the channel, and whether one is still to be sent.                        *)
Queued(m) == {x \in DOMAIN events : events[x].mac = m /\ events[x].kind # "offline"}
Unsent(m) == outbox # <<>> /\ outbox[1].mac = m

(* What the reader knows of m once it has read all of them.                 *)
LastHeard(m) ==
  IF Unsent(m) THEN outbox[1].profile
  ELSE IF Queued(m) # {} THEN events[Max(Queued(m))].profile
  ELSE view[m]

(* update_devices emits "only when something meaningful changes", and       *)
(* loses nothing by it: unless one of m's events was dropped, the queued    *)
(* events bring the reader up to m's present protocols, names and addresses *)
(* from what it was told before, or from how m was loaded.                  *)
ReaderCatchesUp ==
  \A m \in Known \ dropped : LastHeard(m) = Profile(devices[m])

(* A device is announced as new at most once while the daemon runs, never   *)
(* after an update of it, and not at all if it was loaded: the rules on new *)
(* devices do not see a saved one again after a restart (update_devices).   *)
AnnouncedOnce ==
  \A m \in Known :
    /\ \A x \in Queued(m) : events[x].kind = "discovered" =>
         m \notin DOMAIN view /\ \A y \in Queued(m) : x <= y
    /\ Unsent(m) /\ outbox[1].kind = "discovered" =>
         m \notin DOMAIN view /\ Queued(m) = {}

(* A device is reported offline by mistake only if it was heard of while    *)
(* the scan was under way: whenever packets and time go on between the      *)
(* scanner's copy, its reading of the clock and its event, any other device *)
(* it reports has been silent for more than the threshold at that moment.   *)
FalseReportsOnlyByRace ==
  [][Len(events') > Len(events) /\ events'[Len(events')].kind = "offline" =>
       LET m == events'[Len(events')].mac
       IN  m \in heard \/ clock - devices[m].last_seen > Threshold]_vars

(* What keeps the scanner's mistakes to the race, inductively.  A device on *)
(* its list is known and was heard of since, or is as it was listed.  The   *)
(* clock it read is not ahead.  The pipeline never announces silence.       *)
ScanInv ==
  /\ clock \in Nat
  /\ events \in Seq(Range(events))
  /\ packet # <<>> => packet[2] \in Nat
  /\ stage # "recv" => packet # <<>>
  /\ outbox # <<>> => outbox[1].kind # "offline"
  /\ \A m \in Known : "last_seen" \in DOMAIN devices[m] /\ devices[m].last_seen \in Nat
  /\ scanNow # <<>> => scanNow[1] \in Nat /\ scanNow[1] <= clock
  /\ \A m \in DOMAIN listed :
       /\ m \in Known
       /\ m \in heard \/ listed[m] = devices[m].last_seen

(* The devices, their counters and the packet at work.                      *)
DeviceInv ==
  /\ packet # <<>> => packet[1] \in Packets
  /\ stage = "source" => outbox = <<>>
  /\ \A m \in Known : devices[m] \in Device /\ IsFiniteSet(devices[m].ips)
  /\ CountersAgree

(* Only known devices are announced, and each one as new before its other   *)
(* events.                                                                  *)
AnnounceInv ==
  /\ DOMAIN view \subseteq Known
  /\ \A x \in DOMAIN events : events[x].kind # "offline" => events[x].mac \in Known
  /\ outbox # <<>> => outbox[1].mac \in Known
  /\ AnnouncedOnce

(* The last event of m that is still to be read, or else the reader's view, *)
(* says what m is like.                                                     *)
Tells(m, profile) ==
  IF Unsent(m) THEN outbox[1].profile = profile
  ELSE IF Queued(m) # {}
  THEN \E x \in Queued(m) :
         events[x].profile = profile /\ \A y \in Queued(m) : y <= x
  ELSE m \in DOMAIN view /\ view[m] = profile

CatchUpInv == \A m \in Known \ dropped : Tells(m, Profile(devices[m]))

DiscoveryInv == ScanInv /\ DeviceInv /\ AnnounceInv /\ CatchUpInv
=============================================================================
