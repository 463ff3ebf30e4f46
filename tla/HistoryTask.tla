----------------------------- MODULE HistoryTask -----------------------------
(***************************************************************************)
(* Daily device history: history_snapshot_task (crates/daemon/src/daemon.rs)*)
(* on the device store and SqliteHistoryStore, with the pipeline and the    *)
(* write-back flush going on, midnight passing between any two steps of a   *)
(* cycle, statements that fail, and kills and restarts of the daemon.  The  *)
(* history table shares the database file and survives; the devices in      *)
(* memory fall back to what was flushed (module SqliteStore).               *)
(*                                                                          *)
(* A cycle copies the devices, reads today's date, upserts one row per      *)
(* device and deletes the rows before the cutoff.  The period of the task   *)
(* is left open: a tick may come at any time while it waits.  Dates are     *)
(* numbered; a count of 0 marks a device or a row that is not there.  The   *)
(* other columns are copied and replaced as packet_count is.                *)
(***************************************************************************)
EXTENDS Integers, FiniteSets, Sequences

CONSTANTS
  Mac,        \* hardware addresses
  Retention,  \* history_retention_days, 0 to keep everything
  DefaultLimit, \* rows of a page when the client gives no limit (90)
  MaxDay,     \* bound: the last date
  MaxCount,   \* bound: packets of one device
  MaxStarts   \* bound: starts of the daemon

ASSUME HistoryAssumption ==
  /\ Retention \in Nat /\ DefaultLimit \in Nat
  /\ MaxDay \in Nat /\ MaxCount \in Nat /\ MaxStarts \in Nat

VARIABLES
  day,        \* the date of Utc::now()
  starts,     \* how often the daemon was started
  devices,    \* the device store in memory
  saved,      \* the flushed devices
  now,        \* `now` of the packet being processed
  updating,   \* its devices still to be updated, source and destination
  pc,         \* the task: "wait", "date", "loop", "cutoff", "delete"
  copies,     \* `devices`, the task's copy of the store
  todo,       \* the devices of the copy still to be inserted
  today,      \* `today`
  cutoff,     \* `cutoff`
  rows,       \* table device_history: device -> date -> row
  taken       \* history: the dates a device's snapshot was inserted on

taskVars   == <<pc, copies, todo, today, cutoff>>
packetVars == <<now, updating>>
deviceVars == <<starts, devices, saved, now, updating>>
vars == <<day, starts, devices, saved, now, updating, pc, copies, todo, today,
          cutoff, rows, taken>>

Date   == 0 .. MaxDay
Device == [first : Date, last : Date, count : Nat]
Row    == [first : Date, last : Date, count : Nat, at : Date]

NoDevice == [first |-> 0, last |-> 0, count |-> 0]
NoRow    == [first |-> 0, last |-> 0, count |-> 0, at |-> 0]
Nobody   == [m \in Mac |-> NoDevice]

Known(ds) == {m \in Mac : ds[m].count > 0}

Init ==
  /\ day = 0
  /\ starts = 1
  /\ devices = Nobody
  /\ saved = Nobody
  /\ now = 0
  /\ updating = {}
  /\ pc = "wait"
  /\ copies = Nobody
  /\ todo = {}
  /\ today = 0
  /\ cutoff = 0
  /\ rows = [m \in Mac |-> [d \in Date |-> NoRow]]
  /\ taken = [m \in Mac |-> {}]

-----------------------------------------------------------------------------
(* The rest of the daemon, time, and the loss of the process.               *)

(* process_packet reads `now` once, for the source and the destination.     *)
ReadNow(ms) ==
  /\ updating = {}
  /\ now' = day
  /\ updating' = ms
  /\ UNCHANGED <<day, starts, devices, saved, taskVars, rows, taken>>

(* One device of the packet.  Device::new reads the clock again, so that a  *)
(* new device's first_seen may be after its last_seen.                      *)
Packet(m) ==
  /\ m \in updating
  /\ devices[m].count < MaxCount
  /\ devices' = [devices EXCEPT ![m] =
       [first |-> IF @.count = 0 THEN day ELSE @.first, last |-> now,
        count |-> @.count + 1]]
  /\ updating' = updating \ {m}
  /\ UNCHANGED <<day, starts, saved, now, taskVars, rows, taken>>

Flush(m) ==
  /\ saved[m] # devices[m]
  /\ saved' = [saved EXCEPT ![m] = devices[m]]
  /\ UNCHANGED <<day, starts, devices, packetVars, taskVars, rows, taken>>

Midnight ==
  /\ day < MaxDay
  /\ day' = day + 1
  /\ UNCHANGED <<deviceVars, taskVars, rows, taken>>

(* The process ends at any point; the next one loads the flushed devices    *)
(* and skips the first, immediate tick.                                     *)
Restart ==
  /\ starts < MaxStarts
  /\ starts' = starts + 1
  /\ devices' = saved
  /\ now' = 0
  /\ updating' = {}
  /\ pc' = "wait"
  /\ copies' = Nobody
  /\ todo' = {}
  /\ today' = 0
  /\ cutoff' = 0
  /\ UNCHANGED <<day, saved, rows, taken>>

-----------------------------------------------------------------------------
(* One cycle of history_snapshot_task.                                      *)

(* A mutated list that copies only the devices with unsaved changes.        *)
ListDirty ==
  /\ pc = "wait"
  /\ copies' = [m \in Mac |-> IF devices[m] # saved[m] THEN devices[m] ELSE NoDevice]
  /\ todo' = Known(copies')
  /\ pc' = "date"
  /\ UNCHANGED <<day, deviceVars, today, cutoff, rows, taken>>

(* ticker.tick().await; store.list().  An error of list skips the cycle.    *)
List ==
  /\ pc = "wait"
  /\ copies' = devices
  /\ todo' = Known(devices)
  /\ pc' = "date"
  /\ UNCHANGED <<day, deviceVars, today, cutoff, rows, taken>>

(* A mutated task that reads the date once, before its loop.                *)
ReadDateHoisted ==
  /\ pc = "date"
  /\ pc' = "loop"
  /\ UNCHANGED <<day, deviceVars, copies, todo, today, cutoff, rows, taken>>

(* let today = Utc::now()                                                   *)
ReadDate ==
  /\ pc = "date"
  /\ today' = day
  /\ pc' = "loop"
  /\ UNCHANGED <<day, deviceVars, copies, todo, cutoff, rows, taken>>

(* DeviceHistorySnapshot::from_device, stamped now.                         *)
FromDevice(d) == [first |-> d.first, last |-> d.last, count |-> d.count, at |-> day]

(* ON CONFLICT(mac, snapshot_date) DO UPDATE: every column but first_seen.  *)
Upserted(old, new) == IF old.count > 0 THEN [new EXCEPT !.first = old.first] ELSE new

(* insert_snapshot of one device of the copy                                *)
Insert(m) ==
  /\ pc = "loop" /\ m \in todo
  /\ rows' = [rows EXCEPT ![m][today] = Upserted(@, FromDevice(copies[m]))]
  /\ taken' = [taken EXCEPT ![m] = @ \cup {today}]
  /\ todo' = todo \ {m}
  /\ UNCHANGED <<day, deviceVars, pc, copies, today, cutoff>>

(* ... which fails: logged, the loop goes on.  The device is taken out of   *)
(* the copy, which is not read again, to tell it from the inserted ones.    *)
InsertFails(m) ==
  /\ pc = "loop" /\ m \in todo
  /\ todo' = todo \ {m}
  /\ copies' = [copies EXCEPT ![m] = NoDevice]
  /\ UNCHANGED <<day, deviceVars, pc, today, cutoff, rows, taken>>

(* A mutated test of retention_days that never prunes.                      *)
LoopDoneKeeping ==
  /\ pc = "loop" /\ todo = {}
  /\ pc' = "wait"
  /\ UNCHANGED <<day, deviceVars, copies, todo, today, cutoff, rows, taken>>

(* The loop is done; without retention the task waits for its next tick.    *)
LoopDone ==
  /\ pc = "loop" /\ todo = {}
  /\ pc' = IF Retention > 0 THEN "cutoff" ELSE "wait"
  /\ UNCHANGED <<day, deviceVars, copies, todo, today, cutoff, rows, taken>>

(* A mutated cutoff, a day late.                                            *)
ReadCutoffLate ==
  /\ pc = "cutoff"
  /\ cutoff' = day - Retention + 1
  /\ pc' = "delete"
  /\ UNCHANGED <<day, deviceVars, copies, todo, today, rows, taken>>

(* let cutoff = Utc::now() - Duration::days(retention_days)                 *)
ReadCutoff ==
  /\ pc = "cutoff"
  /\ cutoff' = day - Retention
  /\ pc' = "delete"
  /\ UNCHANGED <<day, deviceVars, copies, todo, today, rows, taken>>

(* delete_before(cutoff), then vacuum, which changes no row.                *)
DeleteBefore ==
  /\ pc = "delete"
  /\ rows' = [m \in Mac |-> [d \in Date |-> IF d < cutoff THEN NoRow ELSE rows[m][d]]]
  /\ pc' = "wait"
  /\ UNCHANGED <<day, deviceVars, copies, todo, today, cutoff, taken>>

(* ... which fails: logged, vacuum is tried and the task waits.             *)
DeleteFails ==
  /\ pc = "delete"
  /\ pc' = "wait"
  /\ UNCHANGED <<day, deviceVars, copies, todo, today, cutoff, rows, taken>>

Cycle ==
  \/ List \/ ReadDate \/ LoopDone \/ ReadCutoff \/ DeleteBefore \/ DeleteFails
  \/ \E m \in Mac : Insert(m) \/ InsertFails(m)

Next ==
  \/ \E src, dst \in Mac : ReadNow({src, dst})
  \/ \E m \in Mac : Packet(m) \/ Flush(m)
  \/ Midnight \/ Restart
  \/ Cycle

Spec == Init /\ [][Next]_vars

(* The runtime polls the task whenever its tick is due, and a statement that*)
(* is tried again and again does not fail for ever.                         *)
FairSpec ==
  /\ Spec
  /\ WF_vars(Cycle)
  /\ \A m \in Mac : SF_vars(Insert(m))
  /\ SF_vars(DeleteBefore)

-----------------------------------------------------------------------------
(* GET /devices/{mac}/history.  A query parameter is <<>> or <<value>>.      *)

Option(S) == {<<>>} \cup {<<x>> : x \in S}

(* The dates of m's rows between the two dates, each inclusive if given.    *)
Asked(m, from, to) ==
  {d \in Date : /\ rows[m][d].count > 0
                /\ from = <<>> \/ d >= from[1]
                /\ to = <<>> \/ d <= to[1]}

(* The first `size` dates in order: the k-th has k - 1 before it.           *)
Earlier(dates, d) == {e \in dates : e < d}
Oldest(dates, size) ==
  [k \in 1 .. size |-> CHOOSE d \in dates : Cardinality(Earlier(dates, d)) = k - 1]

(* A mutated query: ORDER BY snapshot_date DESC.                            *)
ListHistoryNewest(m, from, to, limit) ==
  LET n == Cardinality(Asked(m, from, to))
      s == Oldest(Asked(m, from, to), n)
  IN  [k \in 1 .. (IF limit < n THEN limit ELSE n) |-> s[n + 1 - k]]

(* list_history: ORDER BY snapshot_date ASC LIMIT                           *)
ListHistory(m, from, to, limit) ==
  LET n == Cardinality(Asked(m, from, to))
  IN  Oldest(Asked(m, from, to), IF limit < n THEN limit ELSE n)

(* get_device_history                                                       *)
GetDeviceHistory(m, from, to, limit) ==
  ListHistory(m, from, to, IF limit = <<>> THEN DefaultLimit ELSE limit[1])

-----------------------------------------------------------------------------
TypeOK ==
  /\ day \in Date
  /\ starts \in Nat
  /\ devices \in [Mac -> Device]
  /\ saved \in [Mac -> Device]
  /\ now \in Date
  /\ updating \in SUBSET Mac
  /\ pc \in {"wait", "date", "loop", "cutoff", "delete"}
  /\ copies \in [Mac -> Device]
  /\ todo \in SUBSET Mac
  /\ today \in Date
  /\ cutoff \in Int
  /\ rows \in [Mac -> [Date -> Row]]
  /\ taken \in [Mac -> SUBSET Date]

(* A row tells nothing from after its date: the devices are copied before   *)
(* the date is read, so whenever midnight passes, the device was first and  *)
(* last seen on the row's date or before it, and the row was written then   *)
(* or later.                                                                *)
RowsKeepToTheirDate ==
  \A m \in Mac, d \in Date :
    rows[m][d].count > 0 =>
      rows[m][d].first <= d /\ rows[m][d].last <= d /\ d <= rows[m][d].at

(* The last snapshot of a day wins: a row written in this cycle shows the   *)
(* device as it was copied, except first_seen, which the upsert leaves at   *)
(* the value of the day's first snapshot.                                   *)
LastSnapshotWins ==
  pc = "loop" =>
    \A m \in Known(copies) \ todo :
      /\ rows[m][today].count = copies[m].count
      /\ rows[m][today].last = copies[m].last

(* Snapshots are kept for the whole retention time, however cycles, deletes *)
(* and midnights interleave, and over restarts: a date is missing only if no*)
(* snapshot was inserted or the date is more than Retention days back.      *)
KeptForRetention ==
  \A m \in Mac : \A d \in taken[m] :
    Retention = 0 \/ d >= day - Retention => rows[m][d].count > 0

(* What a device record tells is not from after `limit`.                   *)
Dated(d, limit) == d.count > 0 => d.first <= limit /\ d.last <= limit

Records ==
  \A m \in Mac :
    /\ Dated(devices[m], day)
    /\ Dated(saved[m], day)
    /\ Dated(copies[m], IF pc = "loop" THEN today ELSE day)

Locals ==
  /\ now <= day /\ today <= day
  /\ pc = "date" => todo = Known(copies)
  /\ pc = "loop" => todo \subseteq Known(copies)
  /\ pc \in {"cutoff", "delete"} => Retention > 0
  /\ pc = "delete" => cutoff <= day - Retention

(* The inductive invariant behind the three above: what the task holds in   *)
(* its locals from earlier steps is still right for the rows it writes.     *)
HistoryInv ==
  /\ TypeOK
  /\ Records
  /\ Locals
  /\ RowsKeepToTheirDate
  /\ LastSnapshotWins
  /\ KeptForRetention

(* One page: in order, nothing left out between its dates, and nothing left *)
(* out after them unless it is full, by the client's limit or the default.  *)
OldestPage(m, from, to, limit) ==
  LET s    == GetDeviceHistory(m, from, to, limit)
      page == {s[k] : k \in DOMAIN s}
      full == Len(s) = IF limit = <<>> THEN DefaultLimit ELSE limit[1]
  IN  /\ \A j, k \in DOMAIN s : j < k => s[j] < s[k]
      /\ page \subseteq Asked(m, from, to)
      /\ \A d \in Asked(m, from, to) \ page : full /\ \A e \in page : e < d

(* A page of a device's history is the oldest part of the asked range,      *)
(* whatever days were snapshotted, failed or deleted.                       *)
PagesAreOldestFirst ==
  \A m \in Mac, from, to \in Option(Date), limit \in Option(0 .. 2) :
    OldestPage(m, from, to, limit)

(* A device the flush has saved gets into the history: failed inserts, days *)
(* and restarts only delay it.                                              *)
SavedGetsSnapshot ==
  \A m \in Mac : (saved[m].count > 0) ~> (taken[m] # {})

(* Old rows go: what is out of its retention time does not stay in the      *)
(* table, even though a failing delete is not tried before the next cycle.  *)
OldRowsGo ==
  Retention > 0 => \A m \in Mac, d \in Date :
    (rows[m][d].count > 0 /\ d < day - Retention) ~> (rows[m][d].count = 0)
=============================================================================
