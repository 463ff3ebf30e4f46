----------------------------- MODULE SqliteStore -----------------------------
(***************************************************************************)
(* The write-back device store (crates/storage/src/sqlite.rs) with the two  *)
(* threads that work on it: the pipeline task, its only writer, and the     *)
(* flush pass, run by the daemon's flush task every few seconds and once    *)
(* more by main after the pipeline has drained.                             *)
(*                                                                          *)
(* The pipeline takes no lock.  The steps of `upsert` and `flush` that touch*)
(* shared state one after the other (DashMap, DashSet, SQLite row) are      *)
(* therefore separate actions here.  A process may be killed between any    *)
(* two of them; every SQLite statement is its own transaction, so a killed  *)
(* flush leaves the rows it had reached.                                    *)
(***************************************************************************)
EXTENDS Naturals

CONSTANTS
  Mac,        \* the hardware addresses that may be seen
  MaxCount,   \* bound: updates of one device
  MaxStarts   \* bound: starts of the daemon

ASSUME BoundsAssumption == MaxCount \in Nat /\ MaxStarts \in Nat

VARIABLES
  phase,      \* "down" (killed or never started), "running", "drained",
              \* "final" (main's last flush), "stopped" (exited after it)
  starts,     \* how often the store was opened; also the clock of first_seen
  cache,      \* SqliteStore.cache: the device records in memory
  dirty,      \* SqliteStore.dirty
  db,         \* the rows of table `devices`
  marking,    \* the device upsert has cached but not yet marked dirty
  flushing,   \* "idle", "loop" (top of a loop of flush), "exec" (row bound)
  dirtyMacs,  \* dirty_macs: the snapshot this flush still has to clear
  todo,       \* the part of it this flush has not copied yet
  row         \* [mac, dev]: the device copied from the cache for the SQL upsert

procVars  == <<phase, starts>>
storeVars == <<cache, dirty, marking>>
flushVars == <<flushing, dirtyMacs, todo, row>>
vars == <<phase, starts, cache, dirty, db, marking, flushing, dirtyMacs, todo, row>>

Device == [first : Nat, count : Nat]
Absent == [first |-> 0, count |-> 0]
Empty  == [m \in Mac |-> Absent]
NoRow  == [mac |-> {}, dev |-> Absent]

Up == phase \in {"running", "drained", "final"}

Init ==
  /\ phase = "down"
  /\ starts = 0
  /\ cache = Empty
  /\ dirty = {}
  /\ db = Empty
  /\ marking = {}
  /\ flushing = "idle"
  /\ dirtyMacs = {}
  /\ todo = {}
  /\ row = NoRow

-----------------------------------------------------------------------------
(* Opening and losing the process.                                          *)

(* A mutated load that starts with an empty cache.                          *)
OpenWithoutLoad ==
  /\ phase \in {"down", "stopped"}
  /\ starts < MaxStarts
  /\ phase' = "running"
  /\ starts' = starts + 1
  /\ cache' = Empty
  /\ dirty' = {}
  /\ marking' = {}
  /\ UNCHANGED <<db, flushVars>>

(* SqliteStore::open: every row is loaded into the cache, nothing is dirty.  *)
Open ==
  /\ phase \in {"down", "stopped"}
  /\ starts < MaxStarts
  /\ phase' = "running"
  /\ starts' = starts + 1
  /\ cache' = db
  /\ dirty' = {}
  /\ marking' = {}
  /\ UNCHANGED <<db, flushVars>>

(* kill -9, a panic of the process, power loss: memory is gone.             *)
Crash ==
  /\ Up
  /\ phase' = "down"
  /\ cache' = Empty
  /\ dirty' = {}
  /\ marking' = {}
  /\ flushing' = "idle"
  /\ dirtyMacs' = {}
  /\ todo' = {}
  /\ row' = NoRow
  /\ UNCHANGED <<starts, db>>

(* A signal: capture.stop() and pipeline_handle.await have returned.        *)
Drain ==
  /\ phase = "running"
  /\ marking = {}
  /\ phase' = "drained"
  /\ UNCHANGED <<starts, storeVars, db, flushVars>>

-----------------------------------------------------------------------------
(* The pipeline: get, change and upsert one device.                         *)

(* The record update_devices builds from what `get` returned.               *)
Touch(d) ==
  [first |-> IF d.count = 0 THEN starts ELSE d.first, count |-> d.count + 1]

(* self.cache.upsert(device.clone())                                        *)
UpsertCache(m) ==
  /\ phase = "running"
  /\ marking = {}
  /\ cache[m].count < MaxCount
  /\ cache' = [cache EXCEPT ![m] = Touch(cache[m])]
  /\ marking' = {m}
  /\ UNCHANGED <<procVars, dirty, db, flushVars>>

(* self.dirty.insert(device.mac)                                            *)
UpsertMark(m) ==
  /\ m \in marking
  /\ dirty' = dirty \cup {m}
  /\ marking' = {}
  /\ UNCHANGED <<procVars, cache, db, flushVars>>

-----------------------------------------------------------------------------
(* The flush pass.  The connection mutex admits one at a time.              *)

(* flush_task's tick: lock, snapshot the dirty set; an empty one returns 0.  *)
FlushBegin ==
  /\ phase \in {"running", "drained"}
  /\ flushing = "idle"
  /\ dirty # {}
  /\ flushing' = "loop"
  /\ dirtyMacs' = dirty
  /\ todo' = dirty
  /\ UNCHANGED <<procVars, storeVars, db, row>>

(* main: abort the background tasks, then flush once more.  An aborted      *)
(* flush task that is inside `flush` runs it to the end, main waits for the *)
(* mutex; with nothing dirty the flush returns at once and the daemon exits.*)
FinalFlushBegin ==
  /\ phase = "drained"
  /\ flushing = "idle"
  /\ \/ /\ dirty = {}
        /\ phase' = "stopped"
        /\ UNCHANGED flushVars
     \/ /\ dirty # {}
        /\ phase' = "final"
        /\ flushing' = "loop"
        /\ dirtyMacs' = dirty
        /\ todo' = dirty
        /\ UNCHANGED row
  /\ UNCHANGED <<starts, storeVars, db>>

(* self.cache.get(mac): the next device of the snapshot, copied.            *)
FlushGet(m) ==
  /\ flushing = "loop"
  /\ m \in todo
  /\ row' = [mac |-> {m}, dev |-> cache[m]]
  /\ todo' = todo \ {m}
  /\ flushing' = "exec"
  /\ UNCHANGED <<procVars, storeVars, db, dirtyMacs>>

(* The row INSERT ... ON CONFLICT DO UPDATE leaves: first_seen is not among *)
(* the updated columns.                                                     *)
Upserted(old, new) ==
  [first |-> IF old.count = 0 THEN new.first ELSE old.first, count |-> new.count]

(* conn.execute(...)                                                        *)
FlushExec(m) ==
  /\ flushing = "exec"
  /\ m \in row.mac
  /\ db' = [db EXCEPT ![m] = Upserted(db[m], row.dev)]
  /\ row' = NoRow
  /\ flushing' = "loop"
  /\ UNCHANGED <<procVars, storeVars, dirtyMacs, todo>>

(* A mutated failure path that forgets the marks of the whole snapshot.     *)
FlushFailForgets ==
  /\ flushing = "exec"
  /\ flushing' = "idle"
  /\ dirty' = dirty \ dirtyMacs
  /\ dirtyMacs' = {}
  /\ todo' = {}
  /\ row' = NoRow
  /\ phase' = IF phase = "final" THEN "down" ELSE phase
  /\ UNCHANGED <<starts, cache, marking, db>>

(* conn.execute fails: flush returns the error, the dirty set keeps all     *)
(* marks.  After the final flush the daemon exits all the same.             *)
FlushFail ==
  /\ flushing = "exec"
  /\ flushing' = "idle"
  /\ dirtyMacs' = {}
  /\ todo' = {}
  /\ row' = NoRow
  /\ phase' = IF phase = "final" THEN "down" ELSE phase
  /\ UNCHANGED <<starts, storeVars, db>>

(* A mutated clear that empties the whole dirty set, not just the snapshot. *)
FlushClearAll(m) ==
  /\ flushing = "loop"
  /\ todo = {}
  /\ m \in dirtyMacs
  /\ dirty' = {}
  /\ dirtyMacs' = {}
  /\ UNCHANGED <<procVars, cache, marking, db, flushing, todo, row>>

(* self.dirty.remove(mac), once every device of the snapshot is written.    *)
FlushClear(m) ==
  /\ flushing = "loop"
  /\ todo = {}
  /\ m \in dirtyMacs
  /\ dirty' = dirty \ {m}
  /\ dirtyMacs' = dirtyMacs \ {m}
  /\ UNCHANGED <<procVars, cache, marking, db, flushing, todo, row>>

(* flush returns Ok and releases the connection.                            *)
FlushReturn ==
  /\ flushing = "loop"
  /\ todo = {}
  /\ dirtyMacs = {}
  /\ flushing' = "idle"
  /\ phase' = IF phase = "final" THEN "stopped" ELSE phase
  /\ UNCHANGED <<starts, storeVars, db, dirtyMacs, todo, row>>

Next ==
  \/ Open \/ Crash \/ Drain
  \/ FlushBegin \/ FinalFlushBegin \/ FlushFail \/ FlushReturn
  \/ \E m \in Mac : \/ UpsertCache(m) \/ UpsertMark(m)
                    \/ FlushGet(m) \/ FlushExec(m) \/ FlushClear(m)

Spec == Init /\ [][Next]_vars

(* The flush task's interval timer and the steps of a running flush are not *)
(* held up for ever, upsert does not stop half way, and a write that fails  *)
(* is retried with the next interval until it succeeds.                     *)
Fairness ==
  /\ WF_vars(FlushBegin)
  /\ WF_vars(FlushReturn)
  /\ \A m \in Mac : /\ WF_vars(UpsertMark(m))
                    /\ WF_vars(FlushGet(m))
                    /\ SF_vars(FlushExec(m))
                    /\ WF_vars(FlushClear(m))

FairSpec == Spec /\ Fairness

-----------------------------------------------------------------------------
(* Properties.                                                              *)

(* The types of the state: a count stays within the number of updates made  *)
(* and only known addresses are cached, marked, copied or flushed.          *)
TypeOK ==
  /\ phase \in {"down", "running", "drained", "final", "stopped"}
  /\ starts \in 0 .. MaxStarts
  /\ cache \in [Mac -> [first : 0 .. MaxStarts, count : 0 .. MaxCount]]
  /\ db \in [Mac -> [first : 0 .. MaxStarts, count : 0 .. MaxCount]]
  /\ dirty \subseteq Mac
  /\ marking \subseteq Mac
  /\ flushing \in {"idle", "loop", "exec"}
  /\ dirtyMacs \subseteq Mac
  /\ todo \subseteq Mac
  /\ row \in [mac : SUBSET Mac, dev : [first : 0 .. MaxStarts, count : 0 .. MaxCount]]

(* r is a state that a device, now at record d, has been in.                *)
Earlier(r, d) == r.first = d.first /\ r.count <= d.count

(* While the daemon runs, every row of `devices` is a state its device has  *)
(* been in: never ahead of memory, and with the first_seen memory shows.    *)
(* This is what lets `open` trust the rows after a kill at any point of an  *)
(* upsert or a flush, and what the missing first_seen in flush's ON CONFLICT*)
(* list is for.                                                             *)
SavedIsEarlier ==
  Up => \A m \in Mac : db[m].count > 0 => Earlier(db[m], cache[m])

(* The same with what a flush in progress relies on: it runs only while the *)
(* daemon is up; its snapshot holds dirty devices, dirty devices are cached *)
(* (the defensive `None => continue` of the loop is never taken), and the   *)
(* copy it is about to write lies between the row and the cached record.    *)
StoreInv ==
  /\ SavedIsEarlier
  /\ \A m \in Mac : /\ cache[m].count > 0 => cache[m].first > 0
                    /\ db[m].count > 0 => db[m].first > 0
  /\ Up => starts > 0
  /\ flushing # "idle" => Up
  /\ flushing = "idle" => dirtyMacs = {}
  /\ todo \subseteq dirtyMacs
  /\ dirtyMacs \subseteq dirty
  /\ \A m \in dirty \cup marking : cache[m].count > 0
  /\ \A m, k \in marking : m = k
  /\ flushing # "exec" => row.mac = {}
  /\ \A m \in row.mac : /\ m \in dirtyMacs
                       /\ row.dev.count > 0
                       /\ db[m].count <= row.dev.count
                       /\ Earlier(row.dev, cache[m])

(* A change to m that is not yet in SQLite will be found by a later flush:  *)
(* m is marked dirty, or the upsert in progress is about to mark it.        *)
Tracked(m) == Up => cache[m] = db[m] \/ m \in dirty \cup marking

(* The clear loop of a flush is about to unmark m although m's row is older *)
(* than m's cached record: m was upserted again after this flush copied it. *)
StaleClear(m) ==
  /\ flushing = "loop"
  /\ todo = {}
  /\ m \in dirtyMacs
  /\ cache[m] # db[m]

(* The store loses sight of an unsaved change in exactly one way: the clear *)
(* loop of flush removing the mark of a device that was upserted during     *)
(* that very flush.  Failed writes, kills, restarts, upserts that overlap a *)
(* flush of other devices and the order cache-then-mark in upsert never do. *)
TrackLostOnlyByStaleClear ==
  [][\A m \in Mac : Tracked(m) /\ ~Tracked(m)' => StaleClear(m)]_vars

(* A mark set while the running flush has not taken the device into its     *)
(* snapshot is honoured: that record, or a later one of the device, reaches *)
(* SQLite unless the process ends first.                                    *)
SettledMarkIsFlushed ==
  \A m \in Mac : \A n \in 1 .. MaxCount :
    (Up /\ m \in dirty \ dirtyMacs /\ cache[m].count = n)
      ~> (db[m].count >= n \/ ~Up)

(* The store seen from outside: memory while the process is up, the rows    *)
(* once it is gone.                                                         *)
Inventory == INSTANCE DurableInventory WITH
  up <- Up,
  live <- IF Up THEN cache ELSE db,
  saved <- db

(* The write-back store implements the promise of DurableInventory: rows    *)
(* only ever move to newer states of their device, and every restart        *)
(* resumes from exactly the rows.                                           *)
ImplementsInventory == Inventory!InventorySpec
=============================================================================
