-------------------------- MODULE SqliteStore_proofs --------------------------
(***************************************************************************)
(* What TLC checks of the write-back store on two devices, proved for every *)
(* set of devices and every bound: types, the inductive invariant StoreInv, *)
(* the one way in which an unsaved change can get lost, and that the store  *)
(* implements DurableInventory.                                             *)
(***************************************************************************)
EXTENDS SqliteStore, TLAPS

(* Every reachable state of the store is well typed, whatever the number of *)
(* devices.                                                                 *)
THEOREM TypeCorrect == Spec => []TypeOK
<1>1. Init => TypeOK
  BY BoundsAssumption DEF Init, TypeOK, Empty, Absent, NoRow
<1>2. TypeOK /\ [Next]_vars => TypeOK'
  <2> SUFFICES ASSUME TypeOK, [Next]_vars PROVE TypeOK'
    OBVIOUS
  <2> USE BoundsAssumption DEF TypeOK
  <2>1. CASE Open
    BY <2>1 DEF Open, flushVars
  <2>2. CASE Crash
    BY <2>2 DEF Crash, Empty, Absent, NoRow
  <2>3. CASE Drain
    BY <2>3 DEF Drain, storeVars, flushVars
  <2>4. CASE FlushBegin
    BY <2>4 DEF FlushBegin, procVars, storeVars
  <2>5. CASE FinalFlushBegin
    BY <2>5 DEF FinalFlushBegin, storeVars, flushVars
  <2>6. CASE FlushFail
    BY <2>6 DEF FlushFail, storeVars, NoRow, Absent
  <2>7. CASE FlushReturn
    BY <2>7 DEF FlushReturn, storeVars
  <2>8. ASSUME NEW m \in Mac, UpsertCache(m) PROVE TypeOK'
    <3>1. Touch(cache[m]) \in [first : 0 .. MaxStarts, count : 0 .. MaxCount]
      BY <2>8 DEF UpsertCache, Touch
    <3> QED
      BY <2>8, <3>1 DEF UpsertCache, procVars, flushVars
  <2>9. ASSUME NEW m \in Mac, UpsertMark(m) PROVE TypeOK'
    BY <2>9 DEF UpsertMark, procVars, flushVars
  <2>10. ASSUME NEW m \in Mac, FlushGet(m) PROVE TypeOK'
    BY <2>10 DEF FlushGet, procVars, storeVars
  <2>11. ASSUME NEW m \in Mac, FlushExec(m) PROVE TypeOK'
    <3>1. Upserted(db[m], row.dev) \in [first : 0 .. MaxStarts, count : 0 .. MaxCount]
      BY <2>11 DEF FlushExec, Upserted
    <3> QED
      BY <2>11, <3>1 DEF FlushExec, procVars, storeVars, NoRow, Absent
  <2>12. ASSUME NEW m \in Mac, FlushClear(m) PROVE TypeOK'
    BY <2>12 DEF FlushClear, procVars
  <2>13. CASE UNCHANGED vars
    BY <2>13 DEF vars
  <2> QED
    BY <2>1, <2>2, <2>3, <2>4, <2>5, <2>6, <2>7, <2>8, <2>9, <2>10, <2>11,
       <2>12, <2>13 DEF Next
<1> QED
  BY <1>1, <1>2, PTL DEF Spec

(* Each step keeps StoreInv: the heart of the argument.  Memory moves only  *)
(* forward (UpsertCache), a flush copies only what is cached (FlushGet) and *)
(* writes only that copy (FlushExec), so a row never overtakes its device.  *)
LEMMA StoreInvStep ==
  TypeOK /\ StoreInv /\ [Next]_vars => StoreInv'
<1> SUFFICES ASSUME TypeOK, StoreInv, [Next]_vars PROVE StoreInv'
  OBVIOUS
<1> USE BoundsAssumption DEF TypeOK, StoreInv, SavedIsEarlier, Earlier, Up
<1>1. CASE Open
  BY <1>1 DEF Open, flushVars
<1>2. CASE Crash
  BY <1>2 DEF Crash, Empty, Absent, NoRow
<1>3. CASE Drain
  BY <1>3 DEF Drain, storeVars, flushVars
<1>4. CASE FlushBegin
  BY <1>4 DEF FlushBegin, procVars, storeVars
<1>5. CASE FinalFlushBegin
  BY <1>5 DEF FinalFlushBegin, storeVars, flushVars
<1>6. CASE FlushFail
  BY <1>6 DEF FlushFail, storeVars, NoRow, Absent
<1>7. CASE FlushReturn
  BY <1>7 DEF FlushReturn, storeVars
<1>8. ASSUME NEW m \in Mac, UpsertCache(m) PROVE StoreInv'
  <2>1. /\ cache'[m].count = cache[m].count + 1
        /\ cache[m].count > 0 => cache'[m].first = cache[m].first
        /\ cache'[m].first > 0
        /\ \A k \in Mac \ {m} : cache'[k] = cache[k]
    BY <1>8 DEF UpsertCache, Touch
  <2>2. UNCHANGED <<phase, starts, dirty, db, flushing, dirtyMacs, todo, row>>
    BY <1>8 DEF UpsertCache, procVars, flushVars
  <2>3. marking' = {m}
    BY <1>8 DEF UpsertCache
  <2>4. SavedIsEarlier'
    BY <2>1, <2>2
  <2>5. \A k \in row.mac : Earlier(row.dev, cache'[k])
    BY <2>1
  <2>6. \A k \in dirty \cup {m} : cache'[k].count > 0
    BY <2>1
  <2> QED
    BY <2>1, <2>2, <2>3, <2>4, <2>5, <2>6
<1>9. ASSUME NEW m \in Mac, UpsertMark(m) PROVE StoreInv'
  BY <1>9 DEF UpsertMark, procVars, flushVars
<1>10. ASSUME NEW m \in Mac, FlushGet(m) PROVE StoreInv'
  BY <1>10 DEF FlushGet, procVars, storeVars
<1>11. ASSUME NEW m \in Mac, FlushExec(m) PROVE StoreInv'
  <2>1. /\ db'[m].count = row.dev.count
        /\ db'[m].first = cache[m].first
        /\ \A k \in Mac \ {m} : db'[k] = db[k]
    BY <1>11 DEF FlushExec, Upserted
  <2>2. /\ UNCHANGED <<phase, starts, cache, dirty, marking, dirtyMacs, todo>>
        /\ row'.mac = {} /\ flushing = "exec" /\ flushing' = "loop"
    BY <1>11 DEF FlushExec, procVars, storeVars, NoRow
  <2>3. SavedIsEarlier'
    BY <1>11, <2>1, <2>2 DEF FlushExec
  <2> QED
    BY <1>11, <2>1, <2>2, <2>3 DEF FlushExec
<1>12. ASSUME NEW m \in Mac, FlushClear(m) PROVE StoreInv'
  BY <1>12 DEF FlushClear, procVars
<1>13. CASE UNCHANGED vars
  BY <1>13 DEF vars
<1> QED
  BY <1>1, <1>2, <1>3, <1>4, <1>5, <1>6, <1>7, <1>8, <1>9, <1>10, <1>11,
     <1>12, <1>13 DEF Next

(* StoreInv holds in every reachable state.                                 *)
THEOREM StoreInvariant == Spec => []StoreInv
<1>1. Init => StoreInv
  BY DEF Init, StoreInv, SavedIsEarlier, Up, Empty, Absent, NoRow
<1> QED
  BY <1>1, TypeCorrect, StoreInvStep, PTL DEF Spec

(* Whatever kills, restarts, failing writes and overlaps of upserts with a  *)
(* flush occur, each row of `devices` is a state its device has been in.    *)
THEOREM RowsAreEarlierStates == Spec => []SavedIsEarlier
<1>1. StoreInv => SavedIsEarlier
  BY DEF StoreInv
<1> QED
  BY <1>1, StoreInvariant, PTL

(* An unsaved change drops out of sight only when the clear loop of a flush *)
(* unmarks a device upserted during that flush (StaleClear); a flush that   *)
(* excluded upserts of its own snapshot would never lose one.               *)
THEOREM OnlyStaleClearLosesTrack == Spec => TrackLostOnlyByStaleClear
<1>1. TypeOK /\ StoreInv /\ [Next]_vars
        => [\A m \in Mac : Tracked(m) /\ ~Tracked(m)' => StaleClear(m)]_vars
  <2> SUFFICES ASSUME TypeOK, StoreInv, Next,
                      NEW m \in Mac, Tracked(m), ~Tracked(m)'
               PROVE  StaleClear(m)
    BY DEF vars, Tracked, Up
  <2> USE DEF Tracked, Up
  <2>1. CASE Open
    BY <2>1 DEF Open
  <2>2. CASE Crash
    BY <2>2 DEF Crash
  <2>3. CASE Drain \/ FlushBegin \/ FinalFlushBegin \/ FlushFail \/ FlushReturn
    BY <2>3 DEF Drain, FlushBegin, FinalFlushBegin, FlushFail, FlushReturn,
                procVars, storeVars
  <2>4. ASSUME NEW k \in Mac, UpsertCache(k) PROVE StaleClear(m)
    BY <2>4 DEF UpsertCache, procVars, TypeOK
  <2>5. ASSUME NEW k \in Mac, UpsertMark(k) \/ FlushGet(k) PROVE StaleClear(m)
    BY <2>5 DEF UpsertMark, FlushGet, procVars, storeVars, StoreInv
  <2>6. ASSUME NEW k \in Mac, FlushExec(k) PROVE StaleClear(m)
    <3>1. k \in dirty
      BY <2>6 DEF FlushExec, StoreInv
    <3> QED
      BY <2>6, <3>1 DEF FlushExec, procVars, storeVars, TypeOK
  <2>7. ASSUME NEW k \in Mac, FlushClear(k) PROVE StaleClear(m)
    BY <2>7 DEF FlushClear, procVars, StaleClear
  <2> QED
    BY <2>1, <2>2, <2>3, <2>4, <2>5, <2>6, <2>7 DEF Next
<1> QED
  BY <1>1, TypeCorrect, StoreInvariant, PTL DEF Spec, TrackLostOnlyByStaleClear

(* The store keeps the promise of DurableInventory: an upsert is a Record,  *)
(* the SQL upsert of a flush is a Save of a state the device has had, and   *)
(* every way the process can end is a Stop; all other steps are invisible.  *)
THEOREM StoreImplementsInventory == Spec => ImplementsInventory
<1> USE DEF Inventory!Absent, Absent
<1>1. Init => Inventory!InventoryInit
  BY DEF Init, Inventory!InventoryInit, Up, Empty
<1>2. TypeOK /\ StoreInv /\ [Next]_vars => [Inventory!InventoryNext]_Inventory!ivars
  <2> SUFFICES ASSUME TypeOK, StoreInv, [Next]_vars
               PROVE  \/ Inventory!InventoryNext
                      \/ UNCHANGED <<Up, IF Up THEN cache ELSE db, db, starts>>
    BY DEF Inventory!ivars
  <2> USE DEF Up
  <2>1. CASE Open
    BY <2>1 DEF Open, Inventory!InventoryNext, Inventory!Start
  <2>2. CASE Crash
    BY <2>2 DEF Crash, Inventory!InventoryNext, Inventory!Stop
  <2>3. CASE Drain \/ FlushBegin
    BY <2>3 DEF Drain, FlushBegin, procVars, storeVars
  <2>4. CASE FinalFlushBegin
    BY <2>4 DEF FinalFlushBegin, storeVars, Inventory!InventoryNext, Inventory!Stop
  <2>5. CASE FlushFail \/ FlushReturn
    BY <2>5 DEF FlushFail, FlushReturn, storeVars, StoreInv,
                Inventory!InventoryNext, Inventory!Stop
  <2>6. ASSUME NEW m \in Mac, UpsertCache(m) PROVE Inventory!Record(m)
    BY <2>6 DEF UpsertCache, procVars, Inventory!Record, Inventory!Touch, Touch
  <2>7. ASSUME NEW m \in Mac, UpsertMark(m) \/ FlushGet(m) \/ FlushClear(m)
        PROVE  UNCHANGED <<Up, IF Up THEN cache ELSE db, db, starts>>
    BY <2>7 DEF UpsertMark, FlushGet, FlushClear, procVars, storeVars
  <2>8. ASSUME NEW m \in Mac, FlushExec(m) PROVE Inventory!Save(m)
    <3> DEFINE r == Upserted(db[m], row.dev)
    <3>1. /\ r \in [first : 1 .. MaxStarts, count : 1 .. MaxCount]
          /\ r.first = cache[m].first
          /\ r.count \in 1 .. cache[m].count
          /\ db[m].count <= r.count
      BY <2>8, BoundsAssumption
      DEF FlushExec, Upserted, TypeOK, StoreInv, SavedIsEarlier, Earlier
    <3>2. Up /\ UNCHANGED <<phase, starts, cache>> /\ db' = [db EXCEPT ![m] = r]
      BY <2>8 DEF FlushExec, StoreInv, procVars, storeVars
    <3> QED
      BY <3>1, <3>2 DEF Inventory!Save, Inventory!Earlier
  <2>9. CASE UNCHANGED vars
    BY <2>9 DEF vars
  <2> QED
    BY <2>1, <2>2, <2>3, <2>4, <2>5, <2>6, <2>7, <2>8, <2>9
    DEF Next, Inventory!InventoryNext
<1> QED
  BY <1>1, <1>2, TypeCorrect, StoreInvariant, PTL
  DEF Spec, ImplementsInventory, Inventory!InventorySpec
=============================================================================
