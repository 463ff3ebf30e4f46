-------------------------- MODULE DurableInventory --------------------------
(***************************************************************************)
(* What the device store promises to the rest of EdgeShield, whatever its   *)
(* implementation does with caches, dirty marks and flush passes: a live    *)
(* inventory that only one writer advances, a saved inventory that lags     *)
(* behind it and never runs ahead or backwards, and restarts that resume    *)
(* from exactly what was saved.                                             *)
(*                                                                          *)
(* A device record is reduced to two fields: `first`, the start of the      *)
(* daemon in which the device was first seen (first_seen), and `count`, the *)
(* number of packets recorded for it (packet_count).  `count` grows by one  *)
(* with every update, so it is also the version of the record.              *)
(***************************************************************************)
EXTENDS Naturals

CONSTANTS
  Mac,        \* the hardware addresses that may be seen
  MaxCount,   \* bound: updates of one device
  MaxStarts   \* bound: starts of the daemon

VARIABLES
  up,         \* is the daemon running?
  live,       \* the inventory as the daemon and its API see it
  saved,      \* the inventory on disk
  starts      \* how often the daemon was started

ivars == <<up, live, saved, starts>>

(* Device::new before its first packet: no such device.                     *)
Absent == [first |-> 0, count |-> 0]

(* The record after one more packet; a new device gets this start's stamp.  *)
Touch(d, start) ==
  [first |-> IF d.count = 0 THEN start ELSE d.first, count |-> d.count + 1]

(* r is a state that a device, now at record d, has been in.                *)
Earlier(r, d) ==
  /\ r.first = d.first
  /\ r.count \in 1 .. d.count

-----------------------------------------------------------------------------
InventoryInit ==
  /\ up = FALSE
  /\ live = [m \in Mac |-> Absent]
  /\ saved = [m \in Mac |-> Absent]
  /\ starts = 0

Start ==
  /\ ~up
  /\ starts < MaxStarts
  /\ up' = TRUE
  /\ starts' = starts + 1
  /\ live' = saved
  /\ UNCHANGED saved

Record(m) ==
  /\ up
  /\ live[m].count < MaxCount
  /\ live' = [live EXCEPT ![m] = Touch(live[m], starts)]
  /\ UNCHANGED <<up, saved, starts>>

(* Some record the device has had reaches the disk: possibly not the newest *)
(* one, never one older than what is there.                                 *)
Save(m) ==
  /\ up
  /\ \E r \in [first : 1 .. MaxStarts, count : 1 .. MaxCount] :
       /\ Earlier(r, live[m])
       /\ saved[m].count <= r.count
       /\ saved' = [saved EXCEPT ![m] = r]
  /\ UNCHANGED <<up, live, starts>>

(* The daemon stops, cleanly or not: only what was saved is left.           *)
Stop ==
  /\ up
  /\ up' = FALSE
  /\ live' = saved
  /\ UNCHANGED <<saved, starts>>

InventoryNext ==
  \/ Start
  \/ Stop
  \/ \E m \in Mac : Record(m) \/ Save(m)

InventorySpec == InventoryInit /\ [][InventoryNext]_ivars
=============================================================================
