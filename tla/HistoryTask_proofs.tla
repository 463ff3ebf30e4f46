-------------------------- MODULE HistoryTask_proofs --------------------------
(***************************************************************************)
(* The history table proved right for every set of devices, every retention *)
(* time and every bound: HistoryInv is inductive, and implies what the run  *)
(* of HistoryTask checks of the rows on small instances.  The pages of the  *)
(* API are proved right for every range and limit.                          *)
(***************************************************************************)
EXTENDS HistoryTask, TLAPS

(* Each action keeps the types.                                             *)
LEMMA TypeStep == TypeOK /\ [Next]_vars => TypeOK'
<1> SUFFICES ASSUME TypeOK, [Next]_vars PROVE TypeOK'
  OBVIOUS
<1>a. NoDevice \in Device /\ NoRow \in Row /\ 0 \in Date
  BY HistoryAssumption DEF NoDevice, Device, NoRow, Row, Date
<1>b. day \in Date /\ day + 1 \in Nat
  BY HistoryAssumption DEF TypeOK, Date
<1> USE DEF TypeOK, deviceVars, packetVars, taskVars
<1>0. ASSUME NEW src \in Mac, NEW dst \in Mac, ReadNow({src, dst}) PROVE TypeOK'
  BY <1>0 DEF ReadNow
<1>1. ASSUME NEW m \in Mac, Packet(m) PROVE TypeOK'
  <2>1. devices[m] \in Device
    OBVIOUS
  <2>2. [first |-> IF devices[m].count = 0 THEN day ELSE devices[m].first,
         last |-> now, count |-> devices[m].count + 1] \in Device
    BY <1>b, <2>1 DEF Device
  <2> QED
    BY <1>1, <2>2 DEF Packet
<1>2. ASSUME NEW m \in Mac, Flush(m) PROVE TypeOK'
  BY <1>2 DEF Flush
<1>3. CASE Midnight
  BY <1>3, HistoryAssumption DEF Midnight, Date
<1>4. CASE Restart
  BY <1>4, <1>a DEF Restart, Nobody
<1>5. CASE List
  BY <1>5 DEF List, Known
<1>6. CASE ReadDate
  BY <1>6 DEF ReadDate
<1>7. ASSUME NEW m \in Mac, Insert(m) PROVE TypeOK'
  <2>1. copies[m] \in Device /\ rows[m][today] \in Row
    OBVIOUS
  <2>2. FromDevice(copies[m]) \in Row
    BY <1>b, <2>1 DEF FromDevice, Device, Row
  <2>3. Upserted(rows[m][today], FromDevice(copies[m])) \in Row
    BY <2>1, <2>2 DEF Upserted, Row
  <2>4. rows' \in [Mac -> [Date -> Row]]
    BY <1>7, <2>3 DEF Insert
  <2>5. taken' \in [Mac -> SUBSET Date]
    BY <1>7 DEF Insert
  <2> QED
    BY <1>7, <2>4, <2>5 DEF Insert
<1>8. ASSUME NEW m \in Mac, InsertFails(m) PROVE TypeOK'
  BY <1>8, <1>a DEF InsertFails
<1>9. CASE LoopDone
  BY <1>9 DEF LoopDone
<1>10. CASE ReadCutoff
  BY <1>10, <1>b, HistoryAssumption DEF ReadCutoff, Date
<1>11. CASE DeleteBefore
  BY <1>11, <1>a DEF DeleteBefore
<1>12. CASE DeleteFails
  BY <1>12 DEF DeleteFails
<1>13. CASE UNCHANGED vars
  BY <1>13 DEF vars
<1> QED
  BY <1>0, <1>1, <1>2, <1>3, <1>4, <1>5, <1>6, <1>7, <1>8, <1>9, <1>10, <1>11,
     <1>12, <1>13 DEF Next, Cycle

(* Each action keeps HistoryInv.  The two that matter: Insert writes a copy *)
(* taken before its date; DeleteBefore uses a cutoff that can only be too   *)
(* old.                                                                     *)
LEMMA HistoryInvStep == HistoryInv /\ [Next]_vars => HistoryInv'
<1> SUFFICES ASSUME HistoryInv, [Next]_vars PROVE HistoryInv'
  OBVIOUS
<1>a. TypeOK /\ TypeOK'
  BY TypeStep DEF HistoryInv
<1>b. /\ day \in Nat /\ now \in Nat /\ today \in Nat /\ Retention \in Nat /\ cutoff \in Int
      /\ \A d \in Date : d \in Nat
  BY <1>a, HistoryAssumption DEF TypeOK, Date
<1>c. \A m \in Mac :
        /\ devices[m].first \in Nat /\ devices[m].last \in Nat /\ devices[m].count \in Nat
        /\ saved[m].first \in Nat /\ saved[m].last \in Nat /\ saved[m].count \in Nat
        /\ copies[m].first \in Nat /\ copies[m].last \in Nat /\ copies[m].count \in Nat
  BY <1>a, <1>b DEF TypeOK, Device
<1>d. \A m \in Mac, d \in Date :
        /\ rows[m][d].first \in Nat /\ rows[m][d].last \in Nat
        /\ rows[m][d].count \in Nat /\ rows[m][d].at \in Nat
  <2>1. \A m \in Mac, d \in Date : rows[m][d] \in Row
    BY <1>a DEF TypeOK
  <2> QED
    BY <1>b, <2>1 DEF Row
<1>e. /\ devices \in [Mac -> Device] /\ saved \in [Mac -> Device]
      /\ copies \in [Mac -> Device] /\ todo \subseteq Mac /\ today \in Date
      /\ rows \in [Mac -> [Date -> Row]] /\ taken \in [Mac -> SUBSET Date]
  BY <1>a DEF TypeOK
<1>f. /\ Records /\ Locals
      /\ RowsKeepToTheirDate /\ LastSnapshotWins /\ KeptForRetention
  BY DEF HistoryInv
<1> USE <1>b, <1>c, <1>d, <1>e, <1>f DEF deviceVars, packetVars, taskVars
<1>0. ASSUME NEW src \in Mac, NEW dst \in Mac, ReadNow({src, dst}) PROVE HistoryInv'
  <2>1. Records'
    BY <1>0 DEF ReadNow, Records, Dated
  <2>2. Locals' /\ RowsKeepToTheirDate' /\ LastSnapshotWins' /\ KeptForRetention'
    BY <1>0 DEF ReadNow, Locals, Known, RowsKeepToTheirDate, LastSnapshotWins, KeptForRetention
  <2> QED
    BY <1>a, <2>1, <2>2 DEF HistoryInv
<1>1. ASSUME NEW m \in Mac, Packet(m) PROVE HistoryInv'
  <2>1. Records'
    BY <1>1 DEF Packet, Records, Dated, Locals
  <2>2. Locals' /\ RowsKeepToTheirDate' /\ LastSnapshotWins' /\ KeptForRetention'
    BY <1>1 DEF Packet, Locals, Known, RowsKeepToTheirDate, LastSnapshotWins, KeptForRetention
  <2> QED
    BY <1>a, <2>1, <2>2 DEF HistoryInv
<1>2. ASSUME NEW m \in Mac, Flush(m) PROVE HistoryInv'
  <2>1. Records'
    BY <1>2 DEF Flush, Records, Dated
  <2>2. Locals' /\ RowsKeepToTheirDate' /\ LastSnapshotWins' /\ KeptForRetention'
    BY <1>2 DEF Flush, Locals, Known, RowsKeepToTheirDate, LastSnapshotWins, KeptForRetention
  <2> QED
    BY <1>a, <2>1, <2>2 DEF HistoryInv
<1>3. CASE Midnight
  <2>1. Records'
    BY <1>3 DEF Midnight, Records, Dated
  <2>2. Locals'
    BY <1>3 DEF Midnight, Locals, Known
  <2>3. KeptForRetention'
    BY <1>3 DEF Midnight, KeptForRetention
  <2>4. RowsKeepToTheirDate' /\ LastSnapshotWins'
    BY <1>3 DEF Midnight, RowsKeepToTheirDate, LastSnapshotWins, Known
  <2> QED
    BY <1>a, <2>1, <2>2, <2>3, <2>4 DEF HistoryInv
<1>4. CASE Restart
  <2>1. Records'
    BY <1>4 DEF Restart, Nobody, NoDevice, Records, Dated
  <2>2. Locals'
    BY <1>4 DEF Restart, Nobody, NoDevice, Locals, Known
  <2>3. LastSnapshotWins'
    BY <1>4 DEF Restart, Nobody, NoDevice, LastSnapshotWins, Known
  <2>4. RowsKeepToTheirDate' /\ KeptForRetention'
    BY <1>4 DEF Restart, RowsKeepToTheirDate, KeptForRetention
  <2> QED
    BY <1>a, <2>1, <2>2, <2>3, <2>4 DEF HistoryInv
<1>5. CASE List
  <2>1. Records'
    BY <1>5 DEF List, Records, Dated
  <2>2. Locals'
    BY <1>5 DEF List, Locals, Known
  <2>3. LastSnapshotWins'
    BY <1>5 DEF List, LastSnapshotWins, Known
  <2>4. RowsKeepToTheirDate' /\ KeptForRetention'
    BY <1>5 DEF List, RowsKeepToTheirDate, KeptForRetention
  <2> QED
    BY <1>a, <2>1, <2>2, <2>3, <2>4 DEF HistoryInv
<1>6. CASE ReadDate
  <2>1. Records'
    BY <1>6 DEF ReadDate, Records, Dated
  <2>2. Locals'
    BY <1>6 DEF ReadDate, Locals, Known
  <2>3. LastSnapshotWins'
    BY <1>6 DEF ReadDate, LastSnapshotWins, Known, Locals
  <2>4. RowsKeepToTheirDate' /\ KeptForRetention'
    BY <1>6 DEF ReadDate, RowsKeepToTheirDate, KeptForRetention
  <2> QED
    BY <1>a, <2>1, <2>2, <2>3, <2>4 DEF HistoryInv
<1>7. ASSUME NEW m \in Mac, Insert(m) PROVE HistoryInv'
  <2>1. Locals'
    BY <1>7 DEF Insert, Locals, Known
  <2>2. RowsKeepToTheirDate'
    BY <1>7 DEF Insert, Upserted, FromDevice, RowsKeepToTheirDate, Records, Dated, Locals
  <2>3. LastSnapshotWins'
    BY <1>7 DEF Insert, Upserted, FromDevice, LastSnapshotWins, Known, Locals
  <2>4. KeptForRetention'
    BY <1>7 DEF Insert, Upserted, FromDevice, KeptForRetention, Locals, Known
  <2>5. Records'
    BY <1>7 DEF Insert, Records, Dated
  <2> QED
    BY <1>a, <2>1, <2>2, <2>3, <2>4, <2>5 DEF HistoryInv
<1>8. ASSUME NEW m \in Mac, InsertFails(m) PROVE HistoryInv'
  <2>1. Records'
    BY <1>8 DEF InsertFails, NoDevice, Records, Dated
  <2>2. Locals'
    BY <1>8 DEF InsertFails, NoDevice, Locals, Known
  <2>3. LastSnapshotWins'
    BY <1>8 DEF InsertFails, NoDevice, LastSnapshotWins, Known, Locals
  <2>4. RowsKeepToTheirDate' /\ KeptForRetention'
    BY <1>8 DEF InsertFails, RowsKeepToTheirDate, KeptForRetention
  <2> QED
    BY <1>a, <2>1, <2>2, <2>3, <2>4 DEF HistoryInv
<1>9. CASE LoopDone
  <2>1. Records'
    BY <1>9 DEF LoopDone, Records, Dated, Locals
  <2>2. Locals'
    BY <1>9 DEF LoopDone, Locals, Known
  <2>3. LastSnapshotWins'
    BY <1>9 DEF LoopDone, LastSnapshotWins, Known
  <2>4. RowsKeepToTheirDate' /\ KeptForRetention'
    BY <1>9 DEF LoopDone, RowsKeepToTheirDate, KeptForRetention
  <2> QED
    BY <1>a, <2>1, <2>2, <2>3, <2>4 DEF HistoryInv
<1>10. CASE ReadCutoff
  <2>1. Records'
    BY <1>10 DEF ReadCutoff, Records, Dated
  <2>2. Locals'
    BY <1>10 DEF ReadCutoff, Locals, Known
  <2>3. LastSnapshotWins'
    BY <1>10 DEF ReadCutoff, LastSnapshotWins, Known
  <2>4. RowsKeepToTheirDate' /\ KeptForRetention'
    BY <1>10 DEF ReadCutoff, RowsKeepToTheirDate, KeptForRetention
  <2> QED
    BY <1>a, <2>1, <2>2, <2>3, <2>4 DEF HistoryInv
<1>11. CASE DeleteBefore
  <2>1. Records'
    BY <1>11 DEF DeleteBefore, NoRow, Records, Dated
  <2>2. Locals'
    BY <1>11 DEF DeleteBefore, NoRow, Locals, Known
  <2>3. RowsKeepToTheirDate'
    BY <1>11 DEF DeleteBefore, NoRow, RowsKeepToTheirDate
  <2>4. LastSnapshotWins'
    BY <1>11 DEF DeleteBefore, NoRow, LastSnapshotWins, Known
  <2>5. KeptForRetention'
    BY <1>11 DEF DeleteBefore, NoRow, KeptForRetention, Locals
  <2> QED
    BY <1>a, <2>1, <2>2, <2>3, <2>4, <2>5 DEF HistoryInv
<1>12. CASE DeleteFails
  <2>1. Records'
    BY <1>12 DEF DeleteFails, Records, Dated
  <2>2. Locals'
    BY <1>12 DEF DeleteFails, Locals, Known
  <2>3. LastSnapshotWins'
    BY <1>12 DEF DeleteFails, LastSnapshotWins, Known
  <2>4. RowsKeepToTheirDate' /\ KeptForRetention'
    BY <1>12 DEF DeleteFails, RowsKeepToTheirDate, KeptForRetention
  <2> QED
    BY <1>a, <2>1, <2>2, <2>3, <2>4 DEF HistoryInv
<1>13. CASE UNCHANGED vars
  BY <1>13, <1>a DEF vars, HistoryInv, TypeOK, Records, Dated, Locals,
     Known, RowsKeepToTheirDate, LastSnapshotWins, KeptForRetention
<1> QED
  BY <1>0, <1>1, <1>2, <1>3, <1>4, <1>5, <1>6, <1>7, <1>8, <1>9, <1>10, <1>11,
     <1>12, <1>13 DEF Next, Cycle

(* HistoryInv holds in every reachable state of the task, with any number of*)
(* devices, days, failures and restarts.                                    *)
THEOREM HistoryInvariant == Spec => []HistoryInv
<1>1. Init => HistoryInv
  BY HistoryAssumption
     DEF Init, HistoryInv, TypeOK, Date, Device, Row, Nobody, NoDevice, NoRow, Records,
         Dated, Locals, RowsKeepToTheirDate, LastSnapshotWins,
         KeptForRetention
<1> QED
  BY <1>1, HistoryInvStep, PTL DEF Spec

(* No row of the history shows anything from after its date.                *)
THEOREM RowsDated == Spec => []RowsKeepToTheirDate
<1>1. HistoryInv => RowsKeepToTheirDate
  BY DEF HistoryInv
<1> QED
  BY <1>1, HistoryInvariant, PTL

(* A snapshot once inserted is there until its retention time is over.      *)
THEOREM RetentionKept == Spec => []KeptForRetention
<1>1. HistoryInv => KeptForRetention
  BY DEF HistoryInv
<1> QED
  BY <1>1, HistoryInvariant, PTL

(* Within a cycle, the rows written so far are the devices as copied.       *)
THEOREM LastWins == Spec => []LastSnapshotWins
<1>1. HistoryInv => LastSnapshotWins
  BY DEF HistoryInv
<1> QED
  BY <1>1, HistoryInvariant, PTL

-----------------------------------------------------------------------------
(* The pages of the history.                                                *)
INSTANCE FiniteSetTheorems

(* The number of dates before a date tells the dates of a finite set apart, *)
(* and takes every value there is room for.                                 *)
LEMMA DateRanks ==
  ASSUME NEW S, \A d \in S : d \in Nat, IsFiniteSet(S),
         NEW rank, rank = [a \in S |-> Cardinality(Earlier(S, a))]
  PROVE  /\ Cardinality(S) \in Nat
         /\ \A a \in S : rank[a] \in 0 .. Cardinality(S) - 1
         /\ \A a, b \in S : a < b => rank[a] < rank[b]
         /\ \A k \in 1 .. Cardinality(S) : \E a \in S : rank[a] = k - 1
<1> DEFINE n == Cardinality(S)
           Before(a) == Earlier(S, a)
<1>0. \A a \in S : rank[a] = Cardinality(Before(a))
  OBVIOUS
<1>1. n \in Nat
  BY FS_CardinalityType
<1>2. \A a \in S : Before(a) \in SUBSET S /\ a \notin Before(a)
  BY DEF Earlier
<1>3. ASSUME NEW a \in S, NEW b \in S, a < b
      PROVE  Before(a) \in SUBSET Before(b) /\ a \in Before(b)
  <2>1. \A c \in S : c < a => c < b
    BY <1>3
  <2> QED BY <1>3, <2>1 DEF Earlier
<1> HIDE DEF Before
<1>4. ASSUME NEW a \in S PROVE IsFiniteSet(Before(a)) /\ rank[a] \in Nat /\ rank[a] < n
  <2>1. /\ IsFiniteSet(Before(a)) /\ Cardinality(Before(a)) <= n
        /\ n = Cardinality(Before(a)) => S = Before(a)
    BY <1>2, FS_Subset
  <2>2. Cardinality(Before(a)) \in Nat /\ n # Cardinality(Before(a))
    BY <1>2, <2>1, FS_CardinalityType
  <2> QED BY <1>0, <1>1, <2>1, <2>2
<1>5. ASSUME NEW a \in S, NEW b \in S, a < b PROVE rank[a] < rank[b]
  <2>1. IsFiniteSet(Before(b)) /\ Before(a) \in SUBSET Before(b) /\ Before(a) # Before(b)
    BY <1>2, <1>3, <1>4, <1>5
  <2>2. /\ Cardinality(Before(a)) <= Cardinality(Before(b))
        /\ Cardinality(Before(b)) # Cardinality(Before(a))
    BY <2>1, FS_Subset
  <2>3. rank[a] \in Nat /\ rank[b] \in Nat
    BY <1>4
  <2> QED BY <1>0, <2>2, <2>3
<1>6. ASSUME NEW k \in 1 .. n PROVE \E a \in S : rank[a] = k - 1
  <2> DEFINE f == [a \in S |-> rank[a] + 1]
  <2>1. f \in [S -> 1 .. n]
    <3> SUFFICES ASSUME NEW a \in S PROVE rank[a] + 1 \in 1 .. n
      OBVIOUS
    <3>1. rank[a] \in Nat /\ rank[a] < n
      BY <1>4
    <3> HIDE DEF n
    <3> QED BY <1>1, <3>1
  <2>2. ASSUME NEW a \in S, NEW b \in S, f[a] = f[b] PROVE a = b
    <3>1. rank[a] = rank[b] /\ rank[a] \in Nat
      BY <1>4, <2>2
    <3>2. ~(a < b) /\ ~(b < a)
      BY <1>5, <3>1
    <3> QED BY <3>2
  <2>3. f \in Injection(S, 1 .. n)
    BY <2>1, <2>2 DEF Injection, IsInjective
  <2>4. IsFiniteSet(1 .. n) /\ Cardinality(1 .. n) = n
    BY <1>1, FS_Interval
  <2> HIDE DEF f, n
  <2>5. f \in Surjection(S, 1 .. n)
    BY <2>3, <2>4, FS_Injection DEF n
  <2>6. PICK a \in S : f[a] = k
    BY <2>5 DEF Surjection
  <2>7. rank[a] + 1 = k /\ rank[a] \in Nat
    BY <1>4, <2>6 DEF f
  <2> QED BY <2>7
<1>7. \A a \in S : rank[a] \in 0 .. n - 1
  BY <1>1, <1>4
<1> QED BY <1>1, <1>5, <1>6, <1>7

(* s lists the `size` least dates of S, in order.                           *)
IsOldest(s, S, size) ==
  /\ Len(s) = size /\ DOMAIN s = 1 .. size
  /\ \A k \in 1 .. size : s[k] \in S
  /\ \A j, k \in 1 .. size : j < k => s[j] < s[k]
  /\ \A d \in S : (\A k \in 1 .. size : s[k] # d) =>
       size < Cardinality(S) /\ \A k \in 1 .. size : s[k] < d

(* What ORDER BY and LIMIT give.                                            *)
LEMMA OldestOf ==
  ASSUME NEW S, \A d \in S : d \in Nat, IsFiniteSet(S), NEW size \in 0 .. Cardinality(S),
         NEW s, s = Oldest(S, size)
  PROVE  IsOldest(s, S, size)
<1>1. PICK rank : rank = [a \in S |-> Cardinality(Earlier(S, a))]
  OBVIOUS
<1>n. PICK n : n = Cardinality(S)
  OBVIOUS
<1>2. /\ n \in Nat
      /\ \A a \in S : rank[a] \in 0 .. n - 1
      /\ \A a, b \in S : a < b => rank[a] < rank[b]
      /\ \A k \in 1 .. n : \E a \in S : rank[a] = k - 1
  <2>1. /\ Cardinality(S) \in Nat
        /\ \A a \in S : rank[a] \in 0 .. Cardinality(S) - 1
        /\ \A a, b \in S : a < b => rank[a] < rank[b]
        /\ \A k \in 1 .. Cardinality(S) : \E a \in S : rank[a] = k - 1
    BY <1>1, DateRanks, Zenon
  <2> QED BY <1>n, <2>1, Zenon
<1>3. size \in Nat /\ size <= n
  BY <1>2, <1>n
<1> DEFINE Before(a) == Earlier(S, a)
<1>4. /\ s = [k \in 1 .. size |-> CHOOSE a \in S : Cardinality(Before(a)) = k - 1]
      /\ \A a \in S : rank[a] = Cardinality(Before(a))
  BY <1>1 DEF Oldest
<1> HIDE DEF Before
<1>5. ASSUME NEW k \in 1 .. size PROVE s[k] \in S /\ rank[s[k]] = k - 1
  <2>1. \E a \in S : Cardinality(Before(a)) = k - 1
    <3>1. k \in 1 .. n
      BY <1>2, <1>3
    <3> QED BY <1>2, <1>4, <3>1
  <2>2. s[k] = CHOOSE a \in S : Cardinality(Before(a)) = k - 1
    BY <1>4
  <2> QED BY <1>4, <2>1, <2>2
<1>6. Len(s) = size /\ DOMAIN s = 1 .. size
  BY <1>3, <1>4
<1>7. ASSUME NEW j \in 1 .. size, NEW k \in 1 .. size, j < k PROVE s[j] < s[k]
  <2>1. PICK a, b : a = s[j] /\ b = s[k]
    OBVIOUS
  <2>2. a \in S /\ b \in S /\ rank[a] = j - 1 /\ rank[b] = k - 1
    BY <1>5, <2>1
  <2>3. j - 1 < k - 1 /\ ~ (k - 1 < j - 1) /\ j - 1 # k - 1
    BY <1>3, <1>7
  <2>4. a # b /\ ~ (b < a)
    BY <1>2, <2>2, <2>3
  <2>5. a < b
    BY <2>2, <2>4
  <2> QED BY <2>1, <2>5
<1>8. ASSUME NEW d \in S, \A k \in 1 .. size : s[k] # d
      PROVE  size < n /\ \A k \in 1 .. size : s[k] < d
  <2>1. PICK q \in Nat : q = rank[d] /\ q < n
    BY <1>2
  <2>2. ~ (q < size)
    <3> SUFFICES ASSUME q < size PROVE FALSE
      OBVIOUS
    <3>1. q + 1 \in 1 .. size /\ (q + 1) - 1 = q
      BY <1>3
    <3>2. PICK e : e = s[q + 1]
      OBVIOUS
    <3>3. e \in S /\ rank[e] = q /\ e # d
      BY <1>5, <1>8, <3>1, <3>2
    <3>4. e < d \/ d < e
      BY <3>3
    <3> QED BY <1>2, <2>1, <3>3, <3>4
  <2>3. ASSUME NEW k \in 1 .. size PROVE s[k] < d
    <3>1. PICK e : e = s[k]
      OBVIOUS
    <3>2. e \in S /\ rank[e] = k - 1 /\ e # d
      BY <1>5, <1>8, <3>1
    <3>3. k - 1 < q /\ ~ (q < k - 1)
      BY <1>3, <2>2
    <3>4. ~ (d < e)
      BY <1>2, <2>1, <3>2, <3>3
    <3>5. e < d
      BY <3>2, <3>4
    <3> QED BY <3>1, <3>5
  <2>4. size < n
    BY <1>2, <1>3, <2>1, <2>2
  <2> QED BY <2>3, <2>4
<1> QED BY <1>n, <1>5, <1>6, <1>7, <1>8 DEF IsOldest

(* The pages for every range and every limit a client can give.             *)
AllPagesOldest ==
  \A m \in Mac, from, to \in Option(Nat), limit \in Option(Nat) :
    OldestPage(m, from, to, limit)

(* get_device_history answers every request with the oldest part of the     *)
(* asked range, whatever rows snapshots, failures and deletes have left.    *)
(* The query alone ensures it, so that no invariant of the table is needed. *)
THEOREM PagesOldestFirst == Spec => [](PagesAreOldestFirst /\ AllPagesOldest)
<1>1. ASSUME NEW m \in Mac, NEW from, NEW to, NEW limit \in Option(Nat)
      PROVE  OldestPage(m, from, to, limit)
  <2>a. PICK S : S = Asked(m, from, to)
    OBVIOUS
  <2>b. PICK most : most = IF limit = <<>> THEN DefaultLimit ELSE limit[1]
    OBVIOUS
  <2>c. PICK size : size = IF most < Cardinality(S) THEN most ELSE Cardinality(S)
    OBVIOUS
  <2>d. PICK s : s = GetDeviceHistory(m, from, to, limit)
    OBVIOUS
  <2>1. (\A d \in S : d \in Nat) /\ IsFiniteSet(S) /\ Cardinality(S) \in Nat
    <3>1. IsFiniteSet(Date)
      <4>1. 0 \in Int /\ MaxDay \in Int
        BY HistoryAssumption
      <4> QED BY <4>1, FS_Interval DEF Date
    <3>2. S \in SUBSET Date
      BY <2>a DEF Asked
    <3>3. IsFiniteSet(S) /\ Cardinality(S) \in Nat
      BY <3>1, <3>2, FS_Subset, FS_CardinalityType
    <3> QED BY <3>2, <3>3, HistoryAssumption DEF Date
  <2>2. most \in Nat
    BY <2>b, HistoryAssumption DEF Option
  <2>3. size \in 0 .. Cardinality(S) /\ size \in Nat /\ (size < Cardinality(S) => size = most)
    BY <2>c, <2>1, <2>2
  <2>4. s = Oldest(S, size)
    BY <2>a, <2>b, <2>c, <2>d DEF GetDeviceHistory, ListHistory
  <2>5. IsOldest(s, S, size)
    BY <2>1, <2>3, <2>4, OldestOf, Zenon
  <2>6. \A d \in S \ {s[k] : k \in DOMAIN s} :
          Len(s) = most /\ \A e \in {s[k] : k \in DOMAIN s} : e < d
    BY <2>3, <2>5 DEF IsOldest
  <2> QED BY <2>a, <2>b, <2>d, <2>5, <2>6 DEF OldestPage, IsOldest
<1>2. PagesAreOldestFirst
  <2>1. Option(0 .. 2) \subseteq Option(Nat)
    BY DEF Option
  <2> QED BY <1>1, <2>1 DEF PagesAreOldestFirst
<1>3. AllPagesOldest
  BY <1>1 DEF AllPagesOldest
<1> QED BY <1>2, <1>3, PTL
=============================================================================
