----------------------------- MODULE MCDiscovery -----------------------------
(* A small set of packets that exercises every branch of update_devices: a    *)
(* DHCP request with name and vendor class, an mDNS announcement, traffic     *)
(* with and without addresses, a packet to oneself and an undecodable one.    *)
(* The store is empty, or holds one device that has a name, or both, with     *)
(* counters at their limit and before it.                                     *)
EXTENDS Discovery

Plain(src, dst, protocol, ips) ==
  [decodes |-> TRUE, src |-> src, dst |-> dst, protocol |-> protocol, ips |-> ips,
   len |-> 1, dhcp_hostname |-> "", mdns_hostname |-> "", dhcp_vendor_class |-> ""]

PacketSet ==
  {[Plain("m1", "m2", "dhcp", {}) EXCEPT !.dhcp_hostname = "by-dhcp",
                                         !.dhcp_vendor_class = "vc"],
   [Plain("m1", "m2", "mdns", {"ip1"}) EXCEPT !.mdns_hostname = "by-mdns"],
   Plain("m2", "m1", "arp", {}),
   Plain("m2", "m2", "arp", {"ip2"}),
   [Plain("m1", "m2", "arp", {}) EXCEPT !.decodes = FALSE]}

Kept(count, hostname, ips) ==
  [packet_count |-> count, bytes_sent |-> 1, bytes_received |-> 0, protocols |-> {"arp"},
   protocol_stats |-> [q \in Protocol |-> IF q = "arp" THEN count ELSE 0],
   ips |-> ips, hostname |-> hostname, vendor_class |-> "", last_seen |-> 0]

StoredSet ==
  {<<>>,
   [m \in {"m1"} |-> Kept(1, "by-mdns", {})],
   [m \in Mac |-> IF m = "m1" THEN Kept(2, "", {"ip1"}) ELSE Kept(1, "", {"ip2"})]}
=============================================================================
