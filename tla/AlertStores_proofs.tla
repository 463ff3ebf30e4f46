-------------------------- MODULE AlertStores_proofs --------------------------
(***************************************************************************)
(* Proofs about the two alert stores, for every number of alerts, rules,    *)
(* devices, filters and restarts and every order in which the in-memory map *)
(* is walked.                                                               *)
(***************************************************************************)
EXTENDS AlertStores, FiniteSetTheorems, SequenceTheorems, TLAPS

-----------------------------------------------------------------------------
(* Sorting.  A strict order of all of S, as a set of pairs.                 *)
OrdersAll(R, S) ==
  /\ \A a \in S : <<a, a>> \notin R
  /\ \A a, b, c \in S : <<a, b>> \in R /\ <<b, c>> \in R => <<a, c>> \in R
  /\ \A a, b \in S : a = b \/ <<a, b>> \in R \/ <<b, a>> \in R

(* The number of elements ahead of an element tells the elements apart.     *)
LEMMA Ranks ==
  ASSUME NEW S, IsFiniteSet(S), NEW R, OrdersAll(R, S),
         NEW rank, rank = [a \in S |-> Cardinality({b \in S : <<b, a>> \in R})]
  PROVE  /\ \A a \in S : rank[a] \in 0 .. Cardinality(S) - 1
         /\ \A a, b \in S : <<a, b>> \in R => rank[a] < rank[b]
         /\ \A k \in 1 .. Cardinality(S) : \E a \in S : rank[a] = k - 1
<1> DEFINE n == Cardinality(S)
           Ahead(a) == {b \in S : <<b, a>> \in R}
<1>0. \A a \in S : rank[a] = Cardinality(Ahead(a))
  OBVIOUS
<1>1. n \in Nat
  BY FS_CardinalityType
<1>2. \A a \in S : Ahead(a) \in SUBSET S /\ a \notin Ahead(a)
  BY DEF OrdersAll
<1>3. \A a, b \in S : <<a, b>> \in R => Ahead(a) \in SUBSET Ahead(b) /\ a \in Ahead(b)
  BY DEF OrdersAll
<1> HIDE DEF Ahead
<1>4. \A a \in S : IsFiniteSet(Ahead(a)) /\ rank[a] \in Nat /\ rank[a] < n
  <2> SUFFICES ASSUME NEW a \in S
               PROVE  IsFiniteSet(Ahead(a)) /\ rank[a] \in Nat /\ rank[a] < n
    OBVIOUS
  <2>1. /\ IsFiniteSet(Ahead(a)) /\ Cardinality(Ahead(a)) <= n
        /\ n = Cardinality(Ahead(a)) => S = Ahead(a)
    BY <1>2, FS_Subset
  <2>2. Cardinality(Ahead(a)) \in Nat /\ n # Cardinality(Ahead(a))
    BY <1>2, <2>1, FS_CardinalityType
  <2> QED BY <1>0, <1>1, <2>1, <2>2
<1>5. ASSUME NEW a \in S, NEW b \in S, <<a, b>> \in R PROVE rank[a] < rank[b]
  <2>1. IsFiniteSet(Ahead(b)) /\ Ahead(a) \in SUBSET Ahead(b) /\ Ahead(a) # Ahead(b)
    BY <1>2, <1>3, <1>4, <1>5
  <2>2. /\ Cardinality(Ahead(a)) <= Cardinality(Ahead(b))
        /\ Cardinality(Ahead(b)) # Cardinality(Ahead(a))
    BY <2>1, FS_Subset
  <2>3. rank[a] \in Nat /\ rank[b] \in Nat
    BY <1>4
  <2> QED BY <1>0, <2>2, <2>3
<1>6. \A k \in 1 .. n : \E a \in S : rank[a] = k - 1
  <2> DEFINE f == [a \in S |-> rank[a] + 1]
  <2>1. f \in [S -> 1 .. n]
    <3> SUFFICES ASSUME NEW a \in S PROVE rank[a] + 1 \in 1 .. n
      OBVIOUS
    <3>1. rank[a] \in Nat /\ rank[a] < n /\ n \in Nat
      BY <1>1, <1>4
    <3> HIDE DEF n
    <3> QED BY <3>1
  <2>2. \A a, b \in S : f[a] = f[b] => a = b
    <3> SUFFICES ASSUME NEW a \in S, NEW b \in S, f[a] = f[b], a # b PROVE FALSE
      OBVIOUS
    <3>1. rank[a] = rank[b] /\ rank[a] \in Nat
      BY <1>4
    <3>2. <<a, b>> \in R \/ <<b, a>> \in R
      BY DEF OrdersAll
    <3> QED BY <1>5, <3>1, <3>2
  <2>3. f \in Injection(S, 1 .. n)
    BY <2>1, <2>2 DEF Injection, IsInjective
  <2>4. IsFiniteSet(1 .. n) /\ Cardinality(1 .. n) = n
    BY <1>1, FS_Interval
  <2> HIDE DEF f, n
  <2>5. f \in Surjection(S, 1 .. n)
    BY <2>3, <2>4, FS_Injection DEF n
  <2>6. ASSUME NEW k \in 1 .. n PROVE \E a \in S : rank[a] = k - 1
    <3>1. PICK a \in S : f[a] = k
      BY <2>5 DEF Surjection
    <3>2. rank[a] + 1 = k /\ rank[a] \in Nat
      BY <1>4, <3>1 DEF f
    <3> QED BY <3>2
  <2> QED BY <2>6
<1>7. \A a \in S : rank[a] \in 0 .. n - 1
  BY <1>1, <1>4
<1> QED BY <1>5, <1>6, <1>7

(* Ranked lists every element of S, in the order R.                         *)
LEMMA RankedSorts ==
  ASSUME NEW S, IsFiniteSet(S), NEW R, OrdersAll(R, S),
         NEW s, s = Ranked(S, R)
  PROVE  /\ s \in Seq(S) /\ Len(s) = Cardinality(S) /\ Cardinality(S) \in Nat
         /\ \A i, j \in 1 .. Len(s) : i < j => <<s[i], s[j]>> \in R
         /\ \A a \in S : \E k \in 1 .. Len(s) : s[k] = a
<1> DEFINE n == Cardinality(S)
<1>1. PICK rank : rank = [a \in S |-> Cardinality({b \in S : <<b, a>> \in R})]
  OBVIOUS
<1>2. /\ \A a \in S : rank[a] \in 0 .. n - 1
      /\ \A a, b \in S : <<a, b>> \in R => rank[a] < rank[b]
      /\ \A k \in 1 .. n : \E a \in S : rank[a] = k - 1
  BY <1>1, Ranks
<1>3. n \in Nat
  BY FS_CardinalityType
<1> DEFINE Ahead(a) == {b \in S : <<b, a>> \in R}
<1>4. /\ s = [k \in 1 .. n |-> CHOOSE a \in S : Cardinality(Ahead(a)) = k - 1]
      /\ \A a \in S : rank[a] = Cardinality(Ahead(a))
  BY <1>1 DEF Ranked
<1> HIDE DEF n, Ahead
<1>5. ASSUME NEW k \in 1 .. n PROVE s[k] \in S /\ rank[s[k]] = k - 1
  <2>1. \E a \in S : Cardinality(Ahead(a)) = k - 1
    BY <1>2, <1>4
  <2>2. s[k] = CHOOSE a \in S : Cardinality(Ahead(a)) = k - 1
    BY <1>4
  <2> QED BY <1>4, <2>1, <2>2
<1>6. s \in Seq(S) /\ Len(s) = n
  BY <1>3, <1>4, <1>5
<1>7. ASSUME NEW i \in 1 .. n, NEW j \in 1 .. n, i < j PROVE <<s[i], s[j]>> \in R
  <2>1. /\ s[i] \in S /\ s[j] \in S /\ rank[s[i]] = i - 1 /\ rank[s[j]] = j - 1
    BY <1>5
  <2>2. s[i] # s[j] /\ ~ (rank[s[j]] < rank[s[i]])
    BY <1>3, <1>7, <2>1
  <2> QED BY <1>2, <2>1, <2>2 DEF OrdersAll
<1>8. ASSUME NEW a \in S PROVE \E k \in 1 .. n : s[k] = a
  <2>1. PICK r \in 0 .. n - 1 : r = rank[a]
    BY <1>2
  <2>2. r + 1 \in 1 .. n /\ (r + 1) - 1 = r
    BY <1>3
  <2>3. s[r + 1] \in S /\ rank[s[r + 1]] = r
    BY <1>5, <2>2
  <2>4. ~ (rank[a] < rank[s[r + 1]]) /\ ~ (rank[s[r + 1]] < rank[a])
    BY <2>1, <2>3
  <2>5. s[r + 1] = a \/ <<s[r + 1], a>> \in R \/ <<a, s[r + 1]>> \in R
    BY <2>3 DEF OrdersAll
  <2>6. s[r + 1] = a
    BY <1>2, <2>3, <2>4, <2>5
  <2> QED BY <2>2, <2>6
<1> QED BY <1>3, <1>6, <1>7, <1>8 DEF n

-----------------------------------------------------------------------------
(* The stored alerts.                                                       *)

(* What every step but a restart does to them: an alert that could be seen  *)
(* before is as it was, save for its acknowledgment, or gone.               *)
Kept ==
  /\ Fresh <= Fresh'
  /\ \A id \in DOMAIN alerts' :
       id < Fresh => /\ id \in DOMAIN alerts
                     /\ alerts'[id].serial = alerts[id].serial
                     /\ alerts'[id].at = alerts[id].at

LEMMA FreshType ==
  ASSUME TypeOK, StoreInv
  PROVE  /\ MaxInserts \in Nat /\ Fresh \in 1 .. MaxInserts + 1 /\ nextId \in Nat
         /\ \A id \in DOMAIN alerts : id \in Id
         /\ inserting # <<>> => Fresh = nextId - 1
<1>1. MaxInserts \in Nat /\ raised \in 0 .. MaxInserts /\ nextId \in 1 .. raised + 1
  BY StoresAssumption DEF TypeOK
<1>2. CASE inserting = <<>>
  <2>1. Fresh = nextId
    BY <1>2 DEF Fresh
  <2> QED BY <1>1, <1>2, <2>1 DEF StoreInv, Id
<1>3. CASE inserting # <<>>
  <2>1. Fresh = nextId - 1 /\ Fresh \in Id
    BY <1>3 DEF Fresh, StoreInv, TypeOK, Alert
  <2> QED BY <1>1, <1>3, <2>1 DEF StoreInv, Id
<1> QED BY <1>2, <1>3

LEMMA InsertSqliteStep ==
  ASSUME TypeOK, StoreInv, NEW r \in Rule, NEW m \in Mac, InsertSqlite(r, m)
  PROVE  TypeOK' /\ StoreInv' /\ Kept
<1> DEFINE a == NewAlert(r, m)
<1>1. /\ inserting = <<>> /\ inserting' = <<>> /\ raised < MaxInserts /\ raised' = raised + 1
      /\ alerts' = [x \in DOMAIN alerts \cup {nextId} |-> IF x = nextId THEN a ELSE alerts[x]]
      /\ nextId' = nextId + 1 /\ UNCHANGED <<backend, order, clock, starts>>
  BY DEF InsertSqlite, TypeOK, Store
<1>2. /\ MaxInserts \in Nat /\ raised \in 0 .. MaxInserts /\ nextId \in 1 .. raised + 1
      /\ clock \in Nat
  BY StoresAssumption DEF TypeOK
<1>3. Fresh = nextId /\ Fresh' = nextId + 1
  BY <1>1 DEF Fresh
<1>4. a \in Alert /\ a.id = nextId /\ a.at = clock
  BY <1>1, <1>2 DEF NewAlert, Alert, Id
<1> HIDE DEF a
<1>5. \A id \in DOMAIN alerts : id \in 1 .. nextId - 1 /\ alerts[id].at <= clock
  BY <1>3 DEF StoreInv
<1>6. nextId \notin DOMAIN alerts
  BY <1>2, <1>5
<1>7. /\ DOMAIN alerts' = DOMAIN alerts \cup {nextId} /\ alerts'[nextId] = a
      /\ \A id \in DOMAIN alerts : alerts'[id] = alerts[id]
  BY <1>1, <1>6
<1>8. TypeOK'
  <2>1. raised' \in 0 .. MaxInserts /\ nextId' \in 1 .. raised' + 1
    BY <1>1, <1>2
  <2>2. \A id \in DOMAIN alerts' : alerts'[id] \in Alert
    BY <1>4, <1>7 DEF TypeOK
  <2> QED BY <1>1, <2>1, <2>2 DEF TypeOK
<1>9. StoreInv'
  <2>1. ASSUME NEW id \in DOMAIN alerts'
        PROVE  id \in 1 .. Fresh' - 1 /\ alerts'[id].id = id /\ alerts'[id].at <= clock
    <3>1. CASE id = nextId
      BY <1>2, <1>3, <1>4, <1>7, <3>1
    <3>2. CASE id \in DOMAIN alerts
      <4>1. id \in 1 .. Fresh' - 1
        BY <1>2, <1>3, <1>5, <3>2
      <4> QED BY <1>7, <3>2, <4>1 DEF StoreInv
    <3> QED BY <1>7, <3>1, <3>2
  <2>2. ASSUME NEW i \in DOMAIN alerts', NEW j \in DOMAIN alerts', i < j
        PROVE  alerts'[i].at <= alerts'[j].at
    <3>1. i \in DOMAIN alerts
      BY <1>2, <1>3, <1>5, <1>7, <2>1, <2>2
    <3>2. CASE j = nextId
      BY <1>4, <1>5, <1>7, <3>1, <3>2
    <3>3. CASE j \in DOMAIN alerts
      BY <1>7, <2>2, <3>1, <3>3 DEF StoreInv
    <3> QED BY <1>7, <3>2, <3>3
  <2> QED BY <1>1, <2>1, <2>2 DEF StoreInv
<1>10. Kept
  BY <1>2, <1>3, <1>7 DEF Kept
<1> QED BY <1>8, <1>9, <1>10

LEMMA InsertAllocatesStep ==
  ASSUME TypeOK, StoreInv, NEW r \in Rule, NEW m \in Mac, InsertAllocates(r, m)
  PROVE  TypeOK' /\ StoreInv' /\ Fresh' = Fresh
<1> DEFINE a == NewAlert(r, m)
<1>1. /\ backend = "memory" /\ inserting = <<>> /\ inserting' = <<a>>
      /\ raised < MaxInserts /\ raised' = raised + 1
      /\ nextId' = nextId + 1 /\ UNCHANGED <<backend, order, clock, starts, alerts>>
  BY DEF InsertAllocates
<1>2. /\ MaxInserts \in Nat /\ raised \in 0 .. MaxInserts /\ nextId \in 1 .. raised + 1
      /\ clock \in Nat
  BY StoresAssumption DEF TypeOK
<1>3. a \in Alert /\ a.id = nextId /\ a.at = clock
  BY <1>1, <1>2 DEF NewAlert, Alert, Id
<1> HIDE DEF a
<1>4. inserting' # <<>> /\ inserting'[1] = a
  BY <1>1
<1>5. Fresh = nextId /\ Fresh' = nextId
  BY <1>1, <1>2, <1>4 DEF Fresh
<1>6. raised' \in 0 .. MaxInserts /\ nextId' \in 1 .. raised' + 1 /\ clock <= clock
  BY <1>1, <1>2
<1>7. TypeOK'
  BY <1>1, <1>3, <1>4, <1>6 DEF TypeOK
<1>8. StoreInv'
  BY <1>1, <1>3, <1>4, <1>5, <1>6 DEF StoreInv
<1> QED BY <1>5, <1>7, <1>8

LEMMA InsertStoresStep ==
  ASSUME TypeOK, StoreInv, InsertStores
  PROVE  TypeOK' /\ StoreInv' /\ Kept
<1>0. PICK a : a = inserting[1]
  OBVIOUS
<1>1. /\ inserting # <<>> /\ inserting' = <<>> /\ nextId' = nextId
      /\ alerts' = [x \in DOMAIN alerts \cup {a.id} |-> IF x = a.id THEN a ELSE alerts[x]]
      /\ UNCHANGED <<backend, order, clock, starts, raised>>
  BY <1>0 DEF InsertStores, Store, daemonVars
<1>2. /\ a \in Alert /\ a.id = Fresh /\ a.at <= clock /\ a.at \in Nat
      /\ \A id \in DOMAIN alerts : alerts[id].at <= a.at
  BY <1>0, <1>1 DEF TypeOK, StoreInv, Alert
<1>3. Fresh = nextId - 1 /\ nextId \in Nat /\ Fresh \in Nat \ {0} /\ Fresh' = Fresh + 1
  <2>1. Fresh = nextId - 1 /\ nextId \in Nat /\ Fresh \in Nat \ {0}
    BY <1>1, FreshType
  <2>2. Fresh' = nextId
    BY <1>1 DEF Fresh
  <2> QED BY <2>1, <2>2
<1>4. \A id \in DOMAIN alerts : id \in 1 .. Fresh - 1
  BY DEF StoreInv
<1>5. Fresh \notin DOMAIN alerts
  BY <1>3, <1>4
<1> HIDE DEF Fresh
<1>6. /\ DOMAIN alerts' = DOMAIN alerts \cup {Fresh} /\ alerts'[Fresh] = a
      /\ \A id \in DOMAIN alerts : alerts'[id] = alerts[id]
  BY <1>1, <1>2, <1>5
<1>7. TypeOK'
  BY <1>1, <1>2, <1>6 DEF TypeOK
<1>8. ASSUME NEW id \in DOMAIN alerts'
      PROVE  id \in 1 .. Fresh' - 1 /\ alerts'[id].id = id /\ alerts'[id].at <= clock
  <2>1. CASE id = Fresh
    BY <1>2, <1>3, <1>6, <2>1
  <2>2. CASE id \in DOMAIN alerts
    <3>1. id \in 1 .. Fresh' - 1
      BY <1>3, <1>4, <2>2
    <3> QED BY <1>6, <2>2, <3>1 DEF StoreInv
  <2> QED BY <1>6, <2>1, <2>2
<1>9. ASSUME NEW i \in DOMAIN alerts', NEW j \in DOMAIN alerts', i < j
      PROVE  alerts'[i].at <= alerts'[j].at
  <2>1. i \in DOMAIN alerts
    BY <1>3, <1>4, <1>6, <1>9
  <2>2. CASE j = Fresh
    BY <1>2, <1>6, <2>1, <2>2
  <2>3. CASE j \in DOMAIN alerts
    BY <1>6, <1>9, <2>1, <2>3 DEF StoreInv
  <2> QED BY <1>6, <2>2, <2>3
<1>10. Kept
  BY <1>3, <1>4, <1>6 DEF Kept
<1> QED BY <1>1, <1>7, <1>8, <1>9, <1>10 DEF StoreInv

LEMMA AcknowledgeStep ==
  ASSUME TypeOK, StoreInv, NEW id \in Id, Acknowledge(id)
  PROVE  /\ TypeOK' /\ StoreInv' /\ Kept
         /\ \A r, m : Suppressing(alerts, r, m) \subseteq Suppressing(alerts', r, m)
<1>1. /\ id \in DOMAIN alerts /\ alerts' = [alerts EXCEPT ![id].acked = TRUE]
      /\ UNCHANGED <<nextId, inserting, backend, order, clock, starts, raised>>
  BY DEF Acknowledge, Acknowledged, daemonVars
<1>2. /\ DOMAIN alerts' = DOMAIN alerts
      /\ \A x \in DOMAIN alerts : alerts[x] \in Alert /\ alerts'[x] \in Alert
      /\ \A x \in DOMAIN alerts :
           /\ alerts'[x].id = alerts[x].id /\ alerts'[x].at = alerts[x].at
           /\ alerts'[x].rule = alerts[x].rule /\ alerts'[x].mac = alerts[x].mac
           /\ alerts'[x].serial = alerts[x].serial
           /\ alerts[x].acked => alerts'[x].acked
  BY <1>1 DEF TypeOK, Alert
<1>3. Fresh' = Fresh /\ Fresh <= Fresh
  BY <1>1, FreshType DEF Fresh
<1>4. TypeOK'
  BY <1>1, <1>2 DEF TypeOK
<1>5. StoreInv'
  BY <1>1, <1>2, <1>3 DEF StoreInv
<1>6. Kept
  BY <1>2, <1>3 DEF Kept
<1> QED BY <1>2, <1>4, <1>5, <1>6 DEF Suppressing

LEMMA DeleteStep ==
  ASSUME TypeOK, StoreInv, NEW id \in Id, Delete(id)
  PROVE  TypeOK' /\ StoreInv' /\ Kept
<1>1. /\ alerts' = [x \in DOMAIN alerts \ {id} |-> alerts[x]]
      /\ UNCHANGED <<nextId, inserting, backend, order, clock, starts, raised>>
  BY DEF Delete, Deleted, daemonVars
<1>2. Fresh' = Fresh /\ Fresh <= Fresh
  BY <1>1, FreshType DEF Fresh
<1>3. TypeOK'
  BY <1>1 DEF TypeOK
<1>4. StoreInv'
  BY <1>1, <1>2 DEF StoreInv
<1>5. Kept
  BY <1>1, <1>2 DEF Kept
<1> QED BY <1>3, <1>4, <1>5

-----------------------------------------------------------------------------
(* The read in progress and the client's memory.                            *)

(* The kind and the stage of a call tell what else it holds.                *)
LEMMA CallKinds ==
  ASSUME CallOK
  PROVE  /\ Running("check") <=> call \in CheckCall /\ call.pc = "scan"
         /\ call.kind = "check" <=> call \in CheckCall
         /\ Running("list") <=> call \in ListCall
         /\ call.kind = "list" /\ call.pc = "done" <=> call \in ListDone
<1>1. CASE call = Idle
  BY <1>1 DEF Idle, Running, CheckCall, ListCall, ListDone
<1>2. CASE call \in CheckCall
  BY <1>2 DEF Running, CheckCall, ListCall, ListDone
<1>3. CASE call \in ListCall
  BY <1>3 DEF Running, CheckCall, ListCall, ListDone
<1>4. CASE call \in ListDone
  BY <1>4 DEF Running, CheckCall, ListCall, ListDone
<1> QED BY <1>1, <1>2, <1>3, <1>4 DEF CallOK

LEMMA MeansKept ==
  ASSUME TypeOK, StoreInv, TypeOK', StoreInv', Kept,
         NEW id \in Nat, NEW serial, Means(id, serial)
  PROVE  Means(id, serial)'
<1>1. Fresh \in Nat /\ Fresh' \in Nat /\ Fresh <= Fresh' /\ id < Fresh
  <2>1. Fresh \in Nat
    BY FreshType
  <2>2. inserting' = <<>> => Fresh' = nextId'
    BY DEF Fresh
  <2>3. inserting' # <<>> => Fresh' = nextId' - 1
    BY DEF Fresh
  <2>4. nextId' \in Nat \ {0}
    BY StoresAssumption DEF TypeOK
  <2> QED BY <2>1, <2>2, <2>3, <2>4 DEF Kept, Means
<1>2. id < Fresh'
  BY <1>1
<1>3. id \in DOMAIN alerts' => alerts'[id].serial = serial
  BY <1>1 DEF Kept, Means
<1> QED BY <1>2, <1>3 DEF Means

(* Nothing the calls look at has changed.                                   *)
LEMMA CallUnchanged ==
  ASSUME CallOK, MeaningInv, CheckInv, ListInv,
         UNCHANGED <<call, shown, backend, order, starts, alerts>>, Fresh' = Fresh
  PROVE  CallOK' /\ MeaningInv' /\ CheckInv' /\ ListInv'
<1>1. CallOK'
  BY DEF CallOK
<1>2. MeaningInv'
  BY DEF MeaningInv, Means
<1>3. CheckInv'
  BY DEF CheckInv, AnswerWasTrue
<1>4. ListInv'
  BY DEF ListInv, ListShowsMostRecent
<1> QED BY <1>1, <1>2, <1>3, <1>4

(* A change of the alerts, lived through by the read in progress.           *)
LEMMA WitnessStep ==
  ASSUME TypeOK, StoreInv, TypeOK', StoreInv', CallOK, MeaningInv, CheckInv, ListInv,
         Kept, UNCHANGED <<shown, backend, order, starts>>,
         NEW deleted \in BOOLEAN, Witness(alerts', deleted),
         \/ deleted \/ ~Running("check")
         \/ \A r, m : Suppressing(alerts, r, m) \subseteq Suppressing(alerts', r, m)
  PROVE  CallOK' /\ MeaningInv' /\ CheckInv' /\ ListInv'
<1>s. backend = "sqlite" \/ shown.start = starts => Means(shown.id, shown.serial)'
  <2>1. shown.id \in Nat
    BY DEF CallOK
  <2>2. PICK id \in Nat : id = shown.id
    BY <2>1
  <2>3. PICK serial : serial = shown.serial
    OBVIOUS
  <2> QED BY <2>2, <2>3, MeansKept DEF MeaningInv
<1>1. CASE Running("check")
  <2> DEFINE now == Suppressing(alerts', call.rule, call.mac) # {}
  <2>1. call \in CheckCall /\ call.pc = "scan"
    BY <1>1, CallKinds
  <2>2. call' = [call EXCEPT !.ever = call.ever \/ now, !.always = call.always /\ now,
                             !.deleted = call.deleted \/ deleted]
    BY <1>1 DEF Witness
  <2> HIDE DEF now
  <2>3. /\ call' \in CheckCall /\ call'.kind = "check" /\ call'.pc = "scan"
        /\ call'.rule = call.rule /\ call'.mac = call.mac /\ call'.pos = call.pos
        /\ call'.found <=> call.found
        /\ call'.ever <=> call.ever \/ now
        /\ call'.always <=> call.always /\ now
        /\ call'.deleted <=> call.deleted \/ deleted
    BY <2>1, <2>2 DEF CheckCall
  <2>4. CallOK' /\ call' \notin ListCall /\ call' \notin ListDone
    BY <2>3 DEF CallOK, ListCall, ListDone
  <2>5. MeaningInv'
    BY <1>s, <2>4 DEF MeaningInv
  <2>6. ListInv'
    BY <2>3, <2>4 DEF ListInv, ListShowsMostRecent
  <2>7. AnswerWasTrue'
    BY <2>3 DEF AnswerWasTrue
  <2>8. ASSUME backend = "memory", call'.always, ~call'.found, ~call'.deleted
        PROVE  \E id \in Suppressing(alerts', call.rule, call.mac) : order[id] >= call.pos
    <3>1. PICK id \in Suppressing(alerts, call.rule, call.mac) : order[id] >= call.pos
      BY <2>1, <2>3, <2>8 DEF CheckInv
    <3>2. id \in Suppressing(alerts', call.rule, call.mac)
      BY <1>1, <2>3, <2>8
    <3> QED BY <3>1, <3>2
  <2>9. now <=> Suppressing(alerts', call.rule, call.mac) # {}
    BY DEF now
  <2>10. call.found => call.ever
    BY <2>1 DEF CheckInv
  <2> QED BY <2>3, <2>4, <2>5, <2>6, <2>7, <2>8, <2>9, <2>10 DEF CheckInv
<1>2. CASE Running("list")
  <2>1. call \in ListCall
    BY <1>2, CallKinds
  <2>2. call' = [call EXCEPT !.stayed =
          {id \in call.stayed : id \in DOMAIN alerts' /\ Matches(alerts'[id], call.filter)}]
    BY <1>2, <2>1 DEF Witness, Running, ListCall
  <2>3. /\ call' \in ListCall /\ call'.kind = "list" /\ call'.pc = "scan"
        /\ call'.filter = call.filter /\ call'.pos = call.pos /\ call'.got = call.got
        /\ call'.stayed = {id \in call.stayed : /\ id \in DOMAIN alerts'
                                               /\ Matches(alerts'[id], call.filter)}
    BY <2>1, <2>2 DEF ListCall
  <2>4. CallOK' /\ call' \notin CheckCall /\ call' \notin ListDone
    BY <2>3 DEF CallOK, CheckCall, ListDone
  <2>5. ASSUME NEW a \in call.got
        PROVE  /\ Means(a.id, a.serial)'
               /\ a.id \in DOMAIN alerts' => alerts'[a.id].at = a.at
    <3>1. a.id \in Nat
      BY <2>1, StoresAssumption DEF ListCall, Alert, Id
    <3>2. Means(a.id, a.serial) /\ (a.id \in DOMAIN alerts => alerts[a.id].at = a.at)
      BY <2>1 DEF MeaningInv, ListInv
    <3>3. Means(a.id, a.serial)'
      BY <3>1, <3>2, MeansKept
    <3> QED BY <3>2, <3>3 DEF Kept, Means
  <2>6. MeaningInv'
    BY <1>s, <2>3, <2>4, <2>5 DEF MeaningInv
  <2>7. ListInv'
    BY <2>1, <2>3, <2>5 DEF ListInv, ListShowsMostRecent
  <2>8. CheckInv'
    BY <2>3, <2>4 DEF CheckInv, AnswerWasTrue
  <2> QED BY <2>4, <2>6, <2>7, <2>8
<1>3. CASE ~Running("check") /\ ~Running("list")
  <2>1. call' = call
    BY <1>3 DEF Witness
  <2>2. call \notin ListCall /\ ~ (call \in CheckCall /\ call.pc = "scan")
    BY <1>3, CallKinds
  <2>3. CallOK'
    BY <2>1 DEF CallOK
  <2>4. ASSUME call \in ListDone, NEW k \in DOMAIN call.result
        PROVE  Means(call.result[k].id, call.result[k].serial)'
    <3>1. call.result[k] \in Alert
      BY <2>4 DEF ListDone
    <3>2. PICK id \in Nat : id = call.result[k].id
      BY <3>1, StoresAssumption DEF Alert, Id
    <3>3. PICK serial : serial = call.result[k].serial
      OBVIOUS
    <3>4. Means(id, serial)
      BY <2>4, <3>2, <3>3 DEF MeaningInv
    <3>5. Means(id, serial)'
      BY <3>4, MeansKept
    <3> QED BY <2>1, <3>2, <3>3, <3>5
  <2>5. MeaningInv'
    BY <1>s, <2>1, <2>2, <2>4 DEF MeaningInv
  <2>6. CheckInv'
    BY <2>1, <2>2 DEF CheckInv, AnswerWasTrue
  <2>7. ListInv'
    BY <2>1, <2>2 DEF ListInv, ListShowsMostRecent
  <2> QED BY <2>3, <2>5, <2>6, <2>7
<1> QED BY <1>1, <1>2, <1>3

(* is_acknowledged.                                                         *)
LEMMA CheckSteps ==
  ASSUME TypeOK, StoreInv, CallOK, MeaningInv, CheckInv, ListInv,
         \/ \E r \in Rule, m \in Mac : CheckBegin(r, m)
         \/ CheckSqlite \/ CheckVisit \/ CheckEnd
  PROVE  CallOK' /\ MeaningInv' /\ CheckInv' /\ ListInv'
<1>1. UNCHANGED <<backend, order, starts, alerts, nextId, inserting, shown>>
  BY DEF CheckBegin, CheckSqlite, CheckVisit, CheckEnd, daemonVars, storeVars
<1>2. MaxInserts \in Nat /\ \A id \in DOMAIN alerts : id \in Id /\ order[id] \in Id
  BY FreshType DEF TypeOK
<1>3. Fresh' = Fresh
  BY <1>1 DEF Fresh
<1>4. ASSUME call' \in CheckCall, CheckInv' PROVE CallOK' /\ MeaningInv' /\ ListInv'
  <2>1. call' \notin ListCall /\ call' \notin ListDone /\ call'.kind = "check"
    BY <1>4 DEF CheckCall, ListCall, ListDone
  <2>2. CallOK'
    BY <1>1, <1>4 DEF CallOK
  <2>3. MeaningInv'
    BY <1>1, <1>3, <2>1 DEF MeaningInv, Means
  <2> QED BY <2>1, <2>2, <2>3 DEF ListInv, ListShowsMostRecent
<1>5. ASSUME NEW r \in Rule, NEW m \in Mac, CheckBegin(r, m)
      PROVE  call' \in CheckCall /\ CheckInv'
  <2> DEFINE now == Suppressing(alerts, r, m) # {}
  <2>1. call' = [kind |-> "check", pc |-> "scan", rule |-> r, mac |-> m, pos |-> 1,
                 found |-> FALSE, ever |-> now, always |-> now, deleted |-> FALSE]
    BY <1>5 DEF CheckBegin
  <2> HIDE DEF now
  <2>2. now \in BOOLEAN
    BY DEF now
  <2>3. /\ call' \in CheckCall /\ call'.pc = "scan" /\ call'.rule = r /\ call'.mac = m
        /\ call'.pos = 1 /\ ~call'.found /\ (call'.ever <=> now) /\ (call'.always <=> now)
    BY <1>2, <2>1, <2>2 DEF CheckCall
  <2>4. \A id \in Suppressing(alerts, r, m) : order[id] >= 1
    BY <1>2 DEF Suppressing, Id
  <2>5. now <=> Suppressing(alerts, r, m) # {}
    BY DEF now
  <2>6. AnswerWasTrue'
    BY <2>3 DEF AnswerWasTrue
  <2> QED BY <1>1, <2>3, <2>4, <2>5, <2>6 DEF CheckInv
<1>6. ASSUME CheckSqlite PROVE call' \in CheckCall /\ CheckInv'
  <2> DEFINE S == Suppressing(alerts, call.rule, call.mac)
             hit == Cardinality(S) > 0
  <2>1. call \in CheckCall /\ call.pc = "scan" /\ backend = "sqlite"
    BY <1>6, CallKinds DEF CheckSqlite
  <2>2. call' = [call EXCEPT !.pc = "done", !.found = hit]
    BY <1>6 DEF CheckSqlite
  <2>3. hit \in BOOLEAN /\ (hit <=> S # {})
    <3>1. IsFiniteSet(Id)
      BY <1>2, FS_Interval DEF Id
    <3>2. S \in SUBSET Id
      BY <1>2 DEF Suppressing
    <3> HIDE DEF S
    <3>3. IsFiniteSet(S)
      BY <3>1, <3>2, FS_Subset
    <3>4. Cardinality(S) \in Nat /\ (Cardinality(S) = 0 <=> S = {})
      BY <3>3, FS_CardinalityType, FS_EmptySet
    <3> QED BY <3>4
  <2>4. (S # {} => call.ever) /\ (call.always => S # {})
    BY <2>1 DEF CheckInv
  <2> HIDE DEF S, hit
  <2>5. /\ call' \in CheckCall /\ call'.kind = "check" /\ call'.pc = "done"
        /\ call'.found <=> hit
        /\ call'.ever <=> call.ever
        /\ call'.always <=> call.always
    BY <2>1, <2>2, <2>3 DEF CheckCall
  <2> QED BY <2>1, <1>1, <2>3, <2>4, <2>5 DEF CheckInv, AnswerWasTrue
<1>7. ASSUME CheckVisit PROVE call' \in CheckCall /\ CheckInv'
  <2> DEFINE S == Suppressing(alerts, call.rule, call.mac)
             hit == \E id \in S : order[id] = call.pos
  <2>1. /\ call \in CheckCall /\ call.pc = "scan" /\ backend = "memory"
        /\ call.pos \in Id /\ ~call.found
    BY <1>7, CallKinds DEF CheckVisit
  <2>2. call' = [call EXCEPT !.pos = call.pos + 1, !.found = hit]
    BY <1>7 DEF CheckVisit
  <2>3. /\ S # {} => call.ever
        /\ call.always => S # {}
        /\ call.always /\ ~call.deleted => \E id \in S : order[id] >= call.pos
    BY <2>1 DEF CheckInv
  <2>4. \A id \in S : order[id] \in Nat
    BY <1>2 DEF Suppressing, Id
  <2>5. call.pos \in Nat /\ call.pos + 1 \in 1 .. MaxInserts + 1
    BY <1>2, <2>1 DEF Id
  <2>6. hit \in BOOLEAN
    OBVIOUS
  <2>7. hit => call.ever
    BY <2>3
  <2>8. call.always /\ ~hit /\ ~call.deleted => \E id \in S : order[id] >= call.pos + 1
    <3> SUFFICES ASSUME call.always, ~call.deleted, ~hit
                 PROVE  \E id \in S : order[id] >= call.pos + 1
      OBVIOUS
    <3>1. PICK id \in S : order[id] >= call.pos
      BY <2>3
    <3>2. order[id] # call.pos /\ order[id] \in Nat
      BY <2>4
    <3>3. order[id] >= call.pos + 1
      BY <2>5, <3>1, <3>2
    <3> QED BY <3>3
  <2> HIDE DEF hit
  <2>9. /\ call' \in CheckCall /\ call'.kind = "check" /\ call'.pc = "scan"
        /\ call'.rule = call.rule /\ call'.mac = call.mac /\ call'.pos = call.pos + 1
        /\ call'.found <=> hit
        /\ call'.ever <=> call.ever
        /\ call'.always <=> call.always
        /\ call'.deleted <=> call.deleted
    BY <2>1, <2>2, <2>5, <2>6 DEF CheckCall
  <2>10. AnswerWasTrue'
    BY <2>9 DEF AnswerWasTrue
  <2> QED BY <1>1, <2>1, <2>3, <2>7, <2>8, <2>9, <2>10 DEF CheckInv
<1>8. ASSUME CheckEnd PROVE call' \in CheckCall /\ CheckInv'
  <2>1. /\ call \in CheckCall /\ call.pc = "scan" /\ backend = "memory"
        /\ call.pos \notin Id \/ call.found
    BY <1>8, CallKinds DEF CheckEnd
  <2>2. call' = [call EXCEPT !.pc = "done"]
    BY <1>8 DEF CheckEnd
  <2>3. /\ call' \in CheckCall /\ call'.kind = "check" /\ call'.pc = "done"
        /\ call'.found <=> call.found
        /\ call'.ever <=> call.ever
        /\ call'.always <=> call.always
        /\ call'.deleted <=> call.deleted
    BY <2>1, <2>2 DEF CheckCall
  <2>4. call.found => call.ever
    BY <2>1 DEF CheckInv
  <2>5. ~call.found => ~call.always \/ call.deleted
    <3> SUFFICES ASSUME ~call.found, call.always, ~call.deleted PROVE FALSE
      OBVIOUS
    <3>1. PICK id \in Suppressing(alerts, call.rule, call.mac) : order[id] >= call.pos
      BY <2>1 DEF CheckInv
    <3>2. order[id] \in 1 .. MaxInserts
      BY <1>2 DEF Suppressing, Id
    <3>3. call.pos \in 1 .. MaxInserts + 1 /\ call.pos \notin 1 .. MaxInserts
      BY <2>1 DEF CheckCall, Id
    <3> QED BY <1>2, <3>1, <3>2, <3>3
  <2> QED BY <1>1, <2>1, <2>3, <2>4, <2>5 DEF CheckInv, AnswerWasTrue
<1> QED BY <1>4, <1>5, <1>6, <1>7, <1>8

-----------------------------------------------------------------------------
(* list_alerts.                                                             *)

NewestFirst(R, S) == \A a, b \in S : <<a, b>> \in R => a.at >= b.at

(* t holds alerts of S, newest first; what is missing is as old as anything *)
(* in it, and then it has n of them.                                        *)
IsCut(t, S, n) ==
  /\ t \in Seq(Alert)
  /\ \A k \in DOMAIN t : t[k] \in S
  /\ \A j, k \in DOMAIN t : j < k => t[j].at >= t[k].at
  /\ \A a \in S : \/ \E k \in DOMAIN t : t[k] = a
                  \/ Len(t) = n /\ \A k \in DOMAIN t : t[k].at >= a.at

LEMMA CutList ==
  ASSUME NEW S \in SUBSET Alert, IsFiniteSet(S), NEW R, OrdersAll(R, S),
         NewestFirst(R, S), NEW n \in Nat
  PROVE  IsCut(Truncated(Ranked(S, R), n), S, n)
<1>0. PICK t : t = Truncated(Ranked(S, R), n)
  OBVIOUS
<1>1. PICK s : s = Ranked(S, R)
  OBVIOUS
<1>2. /\ s \in Seq(S) /\ Len(s) \in Nat
      /\ \A i, j \in 1 .. Len(s) : i < j => <<s[i], s[j]>> \in R
      /\ \A a \in S : \E k \in 1 .. Len(s) : s[k] = a
  BY <1>1, RankedSorts
<1>3. PICK m \in Nat : m = IF n < Len(s) THEN n ELSE Len(s)
  BY <1>2
<1>4. m <= Len(s) /\ (m = n \/ m = Len(s))
  BY <1>2, <1>3
<1>5. t = SubSeq(s, 1, m)
  BY <1>0, <1>1, <1>3 DEF Truncated
<1>6. t \in Seq(S) /\ Len(t) = m /\ \A k \in 1 .. m : t[k] = s[k]
  <2>1. \A k \in 1 .. m : s[k] \in S
    BY <1>2, <1>4
  <2>2. /\ SubSeq(s, 1, m) \in Seq(S)
        /\ Len(SubSeq(s, 1, m)) = IF 1 <= m THEN m - 1 + 1 ELSE 0
        /\ \A k \in 1 .. m - 1 + 1 : SubSeq(s, 1, m)[k] = s[1 + k - 1]
    BY <2>1, SubSeqProperties
  <2>3. (IF 1 <= m THEN m - 1 + 1 ELSE 0) = m /\ m - 1 + 1 = m
    OBVIOUS
  <2>4. \A k \in 1 .. m : 1 + k - 1 = k
    OBVIOUS
  <2> QED BY <1>5, <2>2, <2>3, <2>4
<1>7. DOMAIN t = 1 .. m /\ \A k \in 1 .. m : t[k] \in S /\ k \in 1 .. Len(s)
  <2>1. DOMAIN t = 1 .. m
    BY <1>6, LenProperties
  <2>2. \A k \in 1 .. m : t[k] \in S
    BY <1>6, <2>1, ElementOfSeq
  <2>3. \A k \in 1 .. m : k \in 1 .. Len(s)
    BY <1>2, <1>4
  <2> QED BY <2>1, <2>2, <2>3
<1>8. t \in Seq(Alert)
  BY <1>6
<1>9. \A j, k \in DOMAIN t : j < k => t[j].at >= t[k].at
  BY <1>2, <1>6, <1>7 DEF NewestFirst
<1>10. ASSUME NEW a \in S
       PROVE  \/ \E k \in DOMAIN t : t[k] = a
              \/ Len(t) = n /\ \A k \in DOMAIN t : t[k].at >= a.at
  <2>1. PICK i \in 1 .. Len(s) : s[i] = a
    BY <1>2
  <2>2. CASE i <= m
    <3>1. i \in 1 .. m
      BY <1>2, <2>2
    <3> QED BY <1>6, <1>7, <2>1, <3>1
  <2>3. CASE m < i
    <3>1. m = n
      BY <1>2, <1>4, <2>3
    <3>2. \A k \in 1 .. m : t[k].at >= a.at
      <4> SUFFICES ASSUME NEW k \in 1 .. m PROVE t[k].at >= a.at
        OBVIOUS
      <4>1. k < i /\ k \in 1 .. Len(s)
        BY <1>2, <1>7, <2>3
      <4>2. <<s[k], s[i]>> \in R
        BY <1>2, <4>1
      <4> QED BY <1>6, <1>7, <2>1, <4>2 DEF NewestFirst
    <3> QED BY <1>6, <1>7, <3>1, <3>2
  <2> QED BY <1>2, <2>2, <2>3
<1> QED BY <1>0, <1>7, <1>8, <1>9, <1>10 DEF IsCut

(* Alerts with different ids are finitely many.                             *)
LEMMA FiniteAlerts ==
  ASSUME NEW S \in SUBSET Alert, \A a, b \in S : a.id = b.id => a = b
  PROVE  IsFiniteSet(S)
<1> DEFINE f == [a \in S |-> a.id]
<1>1. f \in Injection(S, Id)
  BY DEF Injection, IsInjective, Alert
<1>2. IsFiniteSet(Id)
  BY StoresAssumption, FS_Interval DEF Id
<1> HIDE DEF f
<1> QED BY <1>1, <1>2, FS_Injection

(* The alerts a query finds are filed under their ids.                      *)
LEMMA SelectedFacts ==
  ASSUME TypeOK, StoreInv, NEW f
  PROVE  /\ Selected(f) \in SUBSET Alert
         /\ \A a \in Selected(f) : /\ a.id \in DOMAIN alerts /\ alerts[a.id] = a
                                   /\ Matches(a, f) /\ Means(a.id, a.serial)
         /\ \A id \in DOMAIN alerts :
              Matches(alerts[id], f) => alerts[id] \in Selected(f) /\ alerts[id].id = id
<1>1. \A id \in DOMAIN alerts : alerts[id].id = id /\ alerts[id] \in Alert
  BY DEF TypeOK, StoreInv
<1>2. \A id \in DOMAIN alerts : id < Fresh
  <2>1. Fresh \in Nat /\ \A id \in DOMAIN alerts : id \in 1 .. Fresh - 1
    BY FreshType DEF StoreInv
  <2> HIDE DEF Fresh
  <2> QED BY <2>1
<1>3. \A a \in Selected(f) : /\ a.id \in DOMAIN alerts /\ alerts[a.id] = a
                             /\ Matches(a, f) /\ a \in Alert
  BY <1>1 DEF Selected
<1>4. \A id \in DOMAIN alerts :
        Matches(alerts[id], f) => alerts[id] \in Selected(f) /\ alerts[id].id = id
  BY <1>1 DEF Selected
<1> QED BY <1>2, <1>3, <1>4 DEF Means

LEMMA ListSqliteStep ==
  ASSUME TypeOK, StoreInv, NEW f \in Filters, ListSqlite(f)
  PROVE  /\ call' \in ListDone /\ ListShowsMostRecent'
         /\ \A k \in DOMAIN call'.result : Means(call'.result[k].id, call'.result[k].serial)
<1>1. PICK S \in SUBSET Alert : S = Selected(f)
  BY SelectedFacts
<1>2. /\ \A a \in S : /\ a.id \in DOMAIN alerts /\ alerts[a.id] = a
                      /\ Means(a.id, a.serial) /\ a.id \in Nat /\ a \in Alert
  <2>1. \A a \in Alert : a.id \in Nat
    BY StoresAssumption DEF Alert, Id
  <2> QED BY <1>1, <2>1, SelectedFacts
<1>3. IsFiniteSet(S)
  BY <1>2, FiniteAlerts
<1>4. PICK R : R = ById(S)
  OBVIOUS
<1>5. \A a, b \in S : <<a, b>> \in R <=> a.id > b.id
  BY <1>4 DEF ById
<1>6. OrdersAll(R, S)
  BY <1>2, <1>5 DEF OrdersAll
<1>7. NewestFirst(R, S)
  <2> SUFFICES ASSUME NEW a \in S, NEW b \in S, a.id > b.id PROVE a.at >= b.at
    BY <1>5 DEF NewestFirst
  <2>1. b.id < a.id /\ a.at \in Nat /\ b.at \in Nat
    BY <1>2 DEF Alert
  <2>2. alerts[b.id].at <= alerts[a.id].at
    BY <1>2, <2>1 DEF StoreInv
  <2> QED BY <1>2, <2>1, <2>2
<1>8. PICK t : t = Truncated(Ranked(S, R), f.limit)
  OBVIOUS
<1>9. f.limit \in Nat
  BY StoresAssumption
<1>10. /\ t \in Seq(Alert)
       /\ \A k \in DOMAIN t : t[k] \in S
       /\ \A j, k \in DOMAIN t : j < k => t[j].at >= t[k].at
       /\ \A a \in S : \/ \E k \in DOMAIN t : t[k] = a
                       \/ Len(t) = f.limit /\ \A k \in DOMAIN t : t[k].at >= a.at
  <2>1. IsCut(t, S, f.limit)
    BY <1>3, <1>6, <1>7, <1>8, <1>9, CutList
  <2> QED BY <2>1 DEF IsCut
<1>11. PICK stayed : stayed = {alerts[id] : id \in {a.id : a \in S}}
  OBVIOUS
<1>12. \A a \in stayed : a \in S
  BY <1>2, <1>11
<1>13. call' = [kind |-> "list", pc |-> "done", result |-> t, stayed |-> stayed,
                limit |-> f.limit]
  BY <1>1, <1>4, <1>8, <1>11 DEF ListSqlite, Listed
<1>14. call' \in ListDone
  BY <1>9, <1>10, <1>12, <1>13 DEF ListDone
<1>15. call'.result = t /\ call'.stayed = stayed /\ call'.limit = f.limit
  BY <1>13
<1>16. ListShowsMostRecent'
  <2>1. \A a \in stayed : \/ \E k \in DOMAIN t : t[k].id = a.id
                          \/ Len(t) = f.limit /\ \A k \in DOMAIN t : t[k].at >= a.at
    BY <1>10, <1>12
  <2> QED BY <1>10, <1>15, <2>1 DEF ListShowsMostRecent
<1> QED BY <1>2, <1>10, <1>14, <1>15, <1>16

LEMMA ListBeginStep ==
  ASSUME TypeOK, StoreInv, NEW f \in Filters, ListBegin(f)
  PROVE  call' \in ListCall /\ MaxInserts \in Nat /\ call'.got = {} /\ ListInv'
<1>1. MaxInserts \in Nat /\ \A id \in Id : order[id] \in Nat /\ order[id] >= 1
  BY StoresAssumption DEF TypeOK, Id
<1>2. PICK stayed : stayed = {a.id : a \in Selected(f)}
  OBVIOUS
<1>3. \A id \in stayed : id \in DOMAIN alerts /\ Matches(alerts[id], f) /\ id \in Id
  <2>1. \A a \in Selected(f) : /\ a.id \in DOMAIN alerts /\ Matches(alerts[a.id], f)
                               /\ a.id \in Id
    BY SelectedFacts DEF Alert
  <2> QED BY <1>2, <2>1
<1>4. call' = [kind |-> "list", pc |-> "scan", filter |-> f, pos |-> 1, got |-> {},
               stayed |-> stayed]
  BY <1>2 DEF ListBegin
<1>5. /\ call' \in ListCall /\ call'.filter = f /\ call'.pos = 1 /\ call'.got = {}
      /\ call'.stayed = stayed /\ call'.pc = "scan"
  BY <1>1, <1>3, <1>4 DEF ListCall
<1>6. alerts' = alerts /\ order' = order
  BY DEF ListBegin, daemonVars, storeVars
<1>7. \A id \in stayed : ~(order[id] < 1)
  BY <1>1, <1>3
<1>8. \A id \in stayed : Matches(alerts'[id], call'.filter)
  BY <1>3, <1>5, <1>6
<1> QED BY <1>1, <1>3, <1>5, <1>6, <1>7, <1>8 DEF ListInv, ListShowsMostRecent

LEMMA ListVisitStep ==
  ASSUME TypeOK, StoreInv, CallOK, MeaningInv, ListInv, ListVisit
  PROVE  /\ call' \in ListCall /\ ListInv'
         /\ \A a \in call'.got : Means(a.id, a.serial)
<1>1. call \in ListCall /\ call.pos \in Id
  BY CallKinds DEF ListVisit
<1>2. /\ MaxInserts \in Nat /\ call.pos \in Nat /\ call.pos + 1 \in 1 .. MaxInserts + 1
      /\ \A id \in Id : order[id] \in Nat
  <2>1. MaxInserts \in Nat /\ call.pos \in 1 .. MaxInserts
    BY <1>1, StoresAssumption DEF Id
  <2>2. \A id \in Id : order[id] \in Id
    BY DEF TypeOK
  <2>3. \A k \in Id : k \in Nat
    BY <2>1 DEF Id
  <2> QED BY <2>1, <2>2, <2>3
<1>3. PICK new : new = {a \in Selected(call.filter) : order[a.id] = call.pos}
  OBVIOUS
<1>4. \A a \in new : /\ a \in Alert /\ a.id \in Id /\ order[a.id] = call.pos
                     /\ a.id \in DOMAIN alerts /\ alerts[a.id] = a /\ Means(a.id, a.serial)
  BY <1>3, SelectedFacts DEF Alert
<1>5. PICK got : got = call.got \cup new
  OBVIOUS
<1>6. call' = [call EXCEPT !.pos = call.pos + 1, !.got = got]
  BY <1>3, <1>5 DEF ListVisit
<1>7. \A a \in call.got : a \in Alert /\ a.id \in Id
  BY <1>1 DEF ListCall, Alert
<1>8. /\ call' \in ListCall /\ call'.filter = call.filter /\ call'.pos = call.pos + 1
      /\ call'.got = got /\ call'.stayed = call.stayed /\ call'.pc = "scan"
  BY <1>1, <1>2, <1>4, <1>5, <1>6, <1>7 DEF ListCall
<1>9. alerts' = alerts /\ order' = order
  BY DEF ListVisit, daemonVars, storeVars
<1>10. /\ \A a, b \in call.got : a.id = b.id => a = b
       /\ \A a \in call.got : /\ order[a.id] < call.pos
                              /\ a.id \in DOMAIN alerts => alerts[a.id].at = a.at
       /\ \A id \in call.stayed :
            /\ id \in DOMAIN alerts /\ Matches(alerts[id], call.filter)
            /\ order[id] < call.pos => \E a \in call.got : a.id = id
  BY <1>1 DEF ListInv
<1>11. \A a, b \in got : a.id = b.id => a = b
  <2>1. \A a \in call.got, b \in new : a.id # b.id
    BY <1>2, <1>4, <1>10
  <2>2. \A a, b \in new : a.id = b.id => a = b
    BY <1>4
  <2> QED BY <1>5, <1>10, <2>1, <2>2
<1>12. \A a \in got : /\ order[a.id] < call.pos + 1
                      /\ a.id \in DOMAIN alerts => alerts[a.id].at = a.at
  <2>1. \A a \in call.got : order[a.id] < call.pos + 1
    BY <1>2, <1>7, <1>10
  <2>2. \A a \in new : order[a.id] < call.pos + 1
    BY <1>2, <1>4
  <2> QED BY <1>4, <1>5, <1>10, <2>1, <2>2
<1>13. ASSUME NEW id \in call.stayed, order[id] < call.pos + 1
       PROVE  \E a \in got : a.id = id
  <2>1. id \in Id
    BY <1>1 DEF ListCall
  <2>2. order[id] < call.pos \/ order[id] = call.pos
    BY <1>2, <1>13, <2>1
  <2>3. CASE order[id] = call.pos
    <3>1. alerts[id] \in Selected(call.filter) /\ alerts[id].id = id
      BY <1>10, SelectedFacts
    <3>2. alerts[id] \in new
      BY <1>3, <2>3, <3>1
    <3> QED BY <1>5, <3>1, <3>2
  <2> QED BY <1>5, <1>10, <2>2, <2>3
<1>14. \A id \in call.stayed : Matches(alerts'[id], call'.filter)
  BY <1>8, <1>9, <1>10
<1>15. \A a \in got : Means(a.id, a.serial)
  BY <1>1, <1>4, <1>5 DEF MeaningInv
<1>16. ListInv'
  BY <1>8, <1>9, <1>10, <1>11, <1>12, <1>13, <1>14 DEF ListInv, ListShowsMostRecent
<1> QED BY <1>8, <1>15, <1>16

LEMMA ListEndStep ==
  ASSUME TypeOK, StoreInv, CallOK, MeaningInv, ListInv, ListEnd
  PROVE  /\ call' \in ListDone /\ ListShowsMostRecent'
         /\ \A k \in DOMAIN call'.result : Means(call'.result[k].id, call'.result[k].serial)
<1>1. call \in ListCall /\ call.pos \notin Id
  BY CallKinds DEF ListEnd
<1>2. /\ MaxInserts \in Nat /\ call.pos = MaxInserts + 1
      /\ \A id \in Id : order[id] \in Nat /\ order[id] < call.pos
  BY <1>1, StoresAssumption DEF TypeOK, Id, ListCall
<1>3. PICK S \in SUBSET Alert : S = call.got
  BY <1>1 DEF ListCall
<1>4. PICK f \in Filters : f = call.filter
  BY <1>1 DEF ListCall
<1>5. /\ \A a, b \in S : a.id = b.id => a = b
      /\ \A a \in S : a.id \in DOMAIN alerts => alerts[a.id].at = a.at
      /\ \A a \in S : Means(a.id, a.serial) /\ a.id \in Id /\ a.at \in Nat
  BY <1>1, <1>3 DEF ListInv, MeaningInv, Alert
<1>6. IsFiniteSet(S)
  BY <1>5, FiniteAlerts
<1>7. PICK R : R = ByTime(S)
  OBVIOUS
<1>8. \A a, b \in S : <<a, b>> \in R <=> \/ a.at > b.at
                                         \/ a.at = b.at /\ order[a.id] < order[b.id]
  BY <1>7 DEF ByTime
<1>9. OrdersAll(R, S)
  <2>1. \A a, b \in S : a # b => order[a.id] # order[b.id]
    BY <1>5 DEF TypeOK, IsInjective
  <2>2. \A a \in S : a.at \in Nat /\ order[a.id] \in Nat
    BY <1>2, <1>5
  <2> QED BY <1>8, <2>1, <2>2 DEF OrdersAll
<1>10. NewestFirst(R, S)
  BY <1>5, <1>8 DEF NewestFirst
<1>11. PICK t : t = Truncated(Ranked(S, R), f.limit)
  OBVIOUS
<1>12. f.limit \in Nat
  BY StoresAssumption
<1>13. /\ t \in Seq(Alert)
       /\ \A k \in DOMAIN t : t[k] \in S
       /\ \A j, k \in DOMAIN t : j < k => t[j].at >= t[k].at
       /\ \A a \in S : \/ \E k \in DOMAIN t : t[k] = a
                       \/ Len(t) = f.limit /\ \A k \in DOMAIN t : t[k].at >= a.at
  <2>1. IsCut(t, S, f.limit)
    BY <1>6, <1>9, <1>10, <1>11, <1>12, CutList
  <2> QED BY <2>1 DEF IsCut
<1>14. PICK stayed : stayed = {alerts[id] : id \in call.stayed}
  OBVIOUS
<1>15. \A a \in stayed : a \in Alert /\ \E b \in S : b.id = a.id /\ b.at = a.at
  <2> SUFFICES ASSUME NEW id \in call.stayed
               PROVE  /\ alerts[id] \in Alert
                      /\ \E b \in S : b.id = alerts[id].id /\ b.at = alerts[id].at
    BY <1>14
  <2>1. id \in Id /\ id \in DOMAIN alerts
    BY <1>1 DEF ListCall, ListInv
  <2>2. order[id] < call.pos
    BY <1>2, <2>1
  <2>3. PICK b \in S : b.id = id
    BY <1>1, <1>3, <2>2 DEF ListInv
  <2>4. alerts[id] \in Alert /\ alerts[id].id = id
    BY <2>1 DEF TypeOK, StoreInv
  <2> QED BY <1>5, <2>1, <2>3, <2>4
<1>16. call' = [kind |-> "list", pc |-> "done", result |-> t, stayed |-> stayed,
                limit |-> f.limit]
  BY <1>3, <1>4, <1>7, <1>11, <1>14 DEF ListEnd, Listed
<1>17. call' \in ListDone
  BY <1>12, <1>13, <1>15, <1>16 DEF ListDone
<1>18. call'.result = t /\ call'.stayed = stayed /\ call'.limit = f.limit
  BY <1>16
<1>19. ListShowsMostRecent'
  <2>1. ASSUME NEW a \in stayed
        PROVE  \/ \E k \in DOMAIN t : t[k].id = a.id
               \/ Len(t) = f.limit /\ \A k \in DOMAIN t : t[k].at >= a.at
    <3>1. PICK b \in S : b.id = a.id /\ b.at = a.at
      BY <1>15
    <3> QED BY <1>13, <3>1
  <2> QED BY <1>13, <1>18, <2>1 DEF ListShowsMostRecent
<1> QED BY <1>5, <1>13, <1>17, <1>18, <1>19

LEMMA ListSteps ==
  ASSUME TypeOK, StoreInv, CallOK, MeaningInv, CheckInv, ListInv,
         \/ \E f \in Filters : ListSqlite(f) \/ ListBegin(f)
         \/ ListVisit \/ ListEnd
  PROVE  CallOK' /\ MeaningInv' /\ CheckInv' /\ ListInv'
<1>1. UNCHANGED <<backend, order, starts, alerts, nextId, inserting, shown>>
  BY DEF ListSqlite, ListBegin, ListVisit, ListEnd, daemonVars, storeVars
<1>2. \A id, serial : Means(id, serial)' <=> Means(id, serial)
  BY <1>1 DEF Means, Fresh
<1>3. \/ call' \in ListCall /\ ListInv' /\ \A a \in call'.got : Means(a.id, a.serial)
      \/ /\ call' \in ListDone /\ ListShowsMostRecent'
         /\ \A k \in DOMAIN call'.result : Means(call'.result[k].id, call'.result[k].serial)
  BY ListSqliteStep, ListBeginStep, ListVisitStep, ListEndStep
<1>4. call' \notin CheckCall /\ call'.kind = "list" /\ (call' \in ListDone => call' \notin ListCall)
  BY <1>3 DEF CheckCall, ListCall, ListDone
<1>5. CallOK'
  BY <1>1, <1>3 DEF CallOK
<1>6. CheckInv'
  BY <1>4 DEF CheckInv, AnswerWasTrue
<1>7. ListInv'
  BY <1>3, <1>4 DEF ListInv
<1>8. MeaningInv'
  BY <1>1, <1>2, <1>3, <1>4 DEF MeaningInv
<1> QED BY <1>5, <1>6, <1>7, <1>8

(* A call that is over.                                                     *)
LEMMA CallIdle ==
  ASSUME call' = Idle, shown' \in [id : Nat, serial : Nat, start : 0 .. starts'],
         backend' = "sqlite" \/ shown'.start = starts' => Means(shown.id, shown.serial)'
  PROVE  CallOK' /\ MeaningInv' /\ CheckInv' /\ ListInv'
<1>1. call'.kind = "none"
  BY DEF Idle
<1>2. call' \notin CheckCall /\ call' \notin ListCall /\ call' \notin ListDone
  BY <1>1 DEF CheckCall, ListCall, ListDone
<1>3. CallOK'
  BY DEF CallOK
<1>4. MeaningInv'
  BY <1>2 DEF MeaningInv
<1>5. CheckInv' /\ ListInv'
  BY <1>1, <1>2 DEF CheckInv, ListInv, AnswerWasTrue, ListShowsMostRecent
<1> QED BY <1>3, <1>4, <1>5

LEMMA ReturnSteps ==
  ASSUME TypeOK, StoreInv, CallOK, MeaningInv, CheckReturns \/ ListReturns
  PROVE  CallOK' /\ MeaningInv' /\ CheckInv' /\ ListInv'
<1>1. UNCHANGED <<backend, order, starts, alerts, nextId, inserting>> /\ call' = Idle
  BY DEF CheckReturns, ListReturns, daemonVars, storeVars
<1>2. \A id, serial : Means(id, serial)' <=> Means(id, serial)
  BY <1>1 DEF Means, Fresh
<1>3. starts \in Nat
  BY DEF TypeOK
<1>4. /\ shown' \in [id : Nat, serial : Nat, start : 0 .. starts]
      /\ backend = "sqlite" \/ shown'.start = starts => Means(shown'.id, shown'.serial)
  <2>1. CASE shown' = shown
    BY <2>1 DEF CallOK, MeaningInv
  <2>2. CASE shown' = Nothing
    <3>1. Fresh \in Nat /\ 0 < Fresh /\ 0 \notin DOMAIN alerts
      <4>1. Fresh \in 1 .. MaxInserts + 1 /\ MaxInserts \in Nat /\ \A id \in DOMAIN alerts : id \in Id
        BY FreshType
      <4> HIDE DEF Fresh
      <4> QED BY <4>1 DEF Id
    <3>2. Means(0, 0)
      BY <3>1 DEF Means
    <3>3. shown'.id = 0 /\ shown'.serial = 0 /\ shown' \in [id : Nat, serial : Nat, start : 0 .. starts]
      BY <1>3, <2>2 DEF Nothing
    <3> QED BY <3>2, <3>3
  <2>3. ASSUME ListReturns, shown' # Nothing
        PROVE  /\ shown' \in [id : Nat, serial : Nat, start : 0 .. starts]
               /\ Means(shown'.id, shown'.serial)
    <3>1. PICK k \in DOMAIN call.result :
            shown' = [id |-> call.result[k].id, serial |-> call.result[k].serial,
                      start |-> starts]
      BY <2>3 DEF ListReturns
    <3>2. call \in ListDone
      BY <2>3 DEF ListReturns, CallOK, Idle, CheckCall, ListCall
    <3>3. call.result[k] \in Alert
      BY <3>2 DEF ListDone
    <3>4. call.result[k].id \in Nat /\ call.result[k].serial \in Nat
      BY <3>3, StoresAssumption DEF Alert, Id
    <3>5. Means(call.result[k].id, call.result[k].serial)
      BY <3>2 DEF MeaningInv
    <3>6. shown'.id = call.result[k].id /\ shown'.serial = call.result[k].serial
      BY <3>1
    <3> QED BY <1>3, <3>1, <3>4, <3>5, <3>6
  <2>4. CheckReturns => shown' = shown
    BY DEF CheckReturns
  <2> QED BY <2>1, <2>2, <2>3, <2>4
<1>5. Means(shown.id, shown.serial)' <=> Means(shown'.id, shown'.serial)
  BY <1>1 DEF Means, Fresh
<1> QED BY <1>1, <1>4, <1>5, CallIdle

-----------------------------------------------------------------------------
LEMMA StoreUnchanged ==
  ASSUME TypeOK, StoreInv, UNCHANGED <<backend, order, starts, raised, storeVars>>,
         clock' = clock \/ clock' = clock + 1
  PROVE  TypeOK' /\ StoreInv' /\ Fresh' = Fresh
<1>1. Fresh' = Fresh /\ alerts' = alerts /\ inserting' = inserting /\ nextId' = nextId
  BY DEF Fresh, storeVars
<1>2. TypeOK'
  BY <1>1 DEF TypeOK
<1>3. clock \in Nat /\ clock' \in Nat /\ clock <= clock'
  BY DEF TypeOK
<1>4. \A id \in DOMAIN alerts : alerts[id].at \in Nat
  BY DEF TypeOK, Alert
<1>5. inserting # <<>> => inserting[1].at \in Nat
  BY DEF TypeOK, Alert
<1>6. /\ \A id \in DOMAIN alerts : alerts[id].at <= clock'
      /\ inserting # <<>> => inserting[1].at <= clock'
  BY <1>3, <1>4, <1>5 DEF StoreInv
<1> HIDE DEF Fresh
<1>7. StoreInv'
  BY <1>1, <1>6 DEF StoreInv
<1> QED BY <1>1, <1>2, <1>7

(* A restart of the daemon keeps a database and empties a map.              *)
LEMMA RestartStep ==
  ASSUME TypeOK, StoreInv, CallOK, MeaningInv, Restart
  PROVE  TypeOK' /\ StoreInv' /\ CallOK' /\ MeaningInv' /\ CheckInv' /\ ListInv'
<1>1. /\ starts' = starts + 1 /\ inserting' = <<>> /\ call' = Idle
      /\ UNCHANGED <<backend, order, clock, raised, shown>>
  BY DEF Restart
<1>2. starts \in Nat /\ shown \in [id : Nat, serial : Nat, start : 0 .. starts]
  BY DEF TypeOK, CallOK
<1>3. shown.start # starts + 1 /\ shown \in [id : Nat, serial : Nat, start : 0 .. starts + 1]
  BY <1>2
<1>4. Fresh' = nextId'
  BY <1>1 DEF Fresh
<1>5. CASE backend = "sqlite"
  <2>1. inserting = <<>> /\ alerts' = alerts /\ nextId' = nextId
    BY <1>5 DEF TypeOK, Restart
  <2>2. Fresh' = Fresh
    BY <1>1, <2>1 DEF Fresh
  <2>3. TypeOK'
    BY <1>1, <1>2, <2>1 DEF TypeOK
  <2>4. StoreInv'
    <3> HIDE DEF Fresh
    <3> QED BY <1>1, <2>1, <2>2 DEF StoreInv
  <2>5. Means(shown.id, shown.serial)'
    <3>1. Means(shown.id, shown.serial)
      BY <1>5 DEF MeaningInv
    <3> HIDE DEF Fresh
    <3> QED BY <1>1, <2>1, <2>2, <3>1 DEF Means
  <2> QED BY <1>1, <1>3, <2>3, <2>4, <2>5, CallIdle
<1>6. CASE backend = "memory"
  <2>1. alerts' = <<>> /\ nextId' = 1
    BY <1>6 DEF Restart
  <2>2. DOMAIN alerts' = {}
    BY <2>1
  <2>3. TypeOK'
    BY <1>1, <1>2, <2>1, <2>2, StoresAssumption DEF TypeOK
  <2>4. StoreInv'
    BY <1>1, <2>2 DEF StoreInv
  <2> QED BY <1>1, <1>3, <1>6, <2>3, <2>4, CallIdle
<1> QED BY <1>5, <1>6 DEF TypeOK

LEMMA StoresInit ==
  ASSUME Init PROVE StoresInv
<1>1. /\ starts = 1 /\ raised = 0 /\ nextId = 1 /\ inserting = <<>> /\ call = Idle
      /\ shown = Nothing /\ alerts = <<>> /\ DOMAIN alerts = {}
  BY DEF Init
<1>2. TypeOK
  BY <1>1, StoresAssumption DEF Init, TypeOK
<1>3. StoreInv
  BY <1>1 DEF StoreInv
<1>4. Fresh = 1
  BY <1>1 DEF Fresh
<1>5. call.kind = "none"
  BY <1>1 DEF Idle
<1>6. call \notin CheckCall /\ call \notin ListCall /\ call \notin ListDone
  BY <1>5 DEF CheckCall, ListCall, ListDone
<1>7. /\ shown.id = 0 /\ shown.serial = 0
      /\ shown \in [id : Nat, serial : Nat, start : 0 .. starts]
  BY <1>1 DEF Nothing
<1>8. CallOK
  BY <1>1, <1>7 DEF CallOK
<1>9. MeaningInv
  BY <1>1, <1>4, <1>6, <1>7 DEF MeaningInv, Means
<1>10. CheckInv /\ ListInv
  BY <1>5, <1>6 DEF CheckInv, ListInv, AnswerWasTrue, ListShowsMostRecent
<1> QED BY <1>2, <1>3, <1>8, <1>9, <1>10 DEF StoresInv

LEMMA StoresStep ==
  ASSUME StoresInv, [Next]_vars
  PROVE  StoresInv'
<1>0. TypeOK /\ StoreInv /\ CallOK /\ MeaningInv /\ CheckInv /\ ListInv
  BY DEF StoresInv
<1>1. ASSUME NEW r \in Rule, NEW m \in Mac, InsertSqlite(r, m) PROVE StoresInv'
  <2>1. TypeOK' /\ StoreInv' /\ Kept
    BY <1>0, <1>1, InsertSqliteStep
  <2>2. /\ UNCHANGED <<shown, backend, order, starts>> /\ Witness(alerts', FALSE)
        /\ ~Running("check")
    BY <1>1 DEF InsertSqlite
  <2>3. CallOK' /\ MeaningInv' /\ CheckInv' /\ ListInv'
    BY <1>0, <2>1, <2>2, WitnessStep
  <2> QED BY <2>1, <2>3 DEF StoresInv
<1>2. ASSUME NEW r \in Rule, NEW m \in Mac, InsertAllocates(r, m) PROVE StoresInv'
  <2>1. TypeOK' /\ StoreInv' /\ Fresh' = Fresh
    BY <1>0, <1>2, InsertAllocatesStep
  <2>2. UNCHANGED <<call, shown, backend, order, starts, alerts>>
    BY <1>2 DEF InsertAllocates
  <2>3. CallOK' /\ MeaningInv' /\ CheckInv' /\ ListInv'
    BY <1>0, <2>1, <2>2, CallUnchanged
  <2> QED BY <2>1, <2>3 DEF StoresInv
<1>3. CASE InsertStores
  <2>1. TypeOK' /\ StoreInv' /\ Kept
    BY <1>0, <1>3, InsertStoresStep
  <2>2. UNCHANGED <<shown, backend, order, starts>> /\ Witness(alerts', FALSE)
    BY <1>3 DEF InsertStores, daemonVars
  <2>3. \A r, m : Suppressing(alerts, r, m) \subseteq Suppressing(alerts', r, m)
    <3>1. PICK a : a = inserting[1]
      OBVIOUS
    <3>2. alerts' = [x \in DOMAIN alerts \cup {a.id} |-> IF x = a.id THEN a ELSE alerts[x]]
      BY <1>3, <3>1 DEF InsertStores, Store
    <3>3. a.id \notin DOMAIN alerts
      <4>1. /\ a.id = Fresh /\ Fresh \in Nat
            /\ \A id \in DOMAIN alerts : id \in 1 .. Fresh - 1
        BY <1>0, <1>3, <3>1, FreshType DEF InsertStores, StoreInv
      <4> HIDE DEF Fresh
      <4> QED BY <4>1
    <3> QED BY <3>2, <3>3 DEF Suppressing
  <2>4. CallOK' /\ MeaningInv' /\ CheckInv' /\ ListInv'
    BY <1>0, <2>1, <2>2, <2>3, WitnessStep
  <2> QED BY <2>1, <2>4 DEF StoresInv
<1>4. ASSUME NEW id \in Id, Acknowledge(id) PROVE StoresInv'
  <2>1. /\ TypeOK' /\ StoreInv' /\ Kept
        /\ \A r, m : Suppressing(alerts, r, m) \subseteq Suppressing(alerts', r, m)
    BY <1>0, <1>4, AcknowledgeStep
  <2>2. UNCHANGED <<shown, backend, order, starts>> /\ Witness(alerts', FALSE)
    BY <1>4 DEF Acknowledge, daemonVars
  <2>3. CallOK' /\ MeaningInv' /\ CheckInv' /\ ListInv'
    BY <1>0, <2>1, <2>2, WitnessStep
  <2> QED BY <2>1, <2>3 DEF StoresInv
<1>5. ASSUME NEW id \in Id, Delete(id) PROVE StoresInv'
  <2>1. TypeOK' /\ StoreInv' /\ Kept
    BY <1>0, <1>5, DeleteStep
  <2>2. UNCHANGED <<shown, backend, order, starts>> /\ Witness(alerts', TRUE)
    BY <1>5 DEF Delete, daemonVars
  <2>3. CallOK' /\ MeaningInv' /\ CheckInv' /\ ListInv'
    BY <1>0, <2>1, <2>2, WitnessStep
  <2> QED BY <2>1, <2>3 DEF StoresInv
<1>6. CASE \/ \E r \in Rule, m \in Mac : CheckBegin(r, m)
           \/ CheckSqlite \/ CheckVisit \/ CheckEnd
  <2>1. UNCHANGED <<daemonVars, storeVars>>
    BY <1>6 DEF CheckBegin, CheckSqlite, CheckVisit, CheckEnd
  <2>2. TypeOK' /\ StoreInv'
    BY <1>0, <2>1, StoreUnchanged DEF daemonVars
  <2>3. CallOK' /\ MeaningInv' /\ CheckInv' /\ ListInv'
    BY <1>0, <1>6, CheckSteps
  <2> QED BY <2>2, <2>3 DEF StoresInv
<1>7. CASE \/ \E f \in Filters : ListSqlite(f) \/ ListBegin(f)
           \/ ListVisit \/ ListEnd
  <2>1. UNCHANGED <<daemonVars, storeVars>>
    BY <1>7 DEF ListSqlite, ListBegin, ListVisit, ListEnd
  <2>2. TypeOK' /\ StoreInv'
    BY <1>0, <2>1, StoreUnchanged DEF daemonVars
  <2>3. CallOK' /\ MeaningInv' /\ CheckInv' /\ ListInv'
    BY <1>0, <1>7, ListSteps
  <2> QED BY <2>2, <2>3 DEF StoresInv
<1>8. CASE CheckReturns \/ ListReturns
  <2>1. UNCHANGED <<daemonVars, storeVars>>
    BY <1>8 DEF CheckReturns, ListReturns
  <2>2. TypeOK' /\ StoreInv'
    BY <1>0, <2>1, StoreUnchanged DEF daemonVars
  <2>3. CallOK' /\ MeaningInv' /\ CheckInv' /\ ListInv'
    BY <1>0, <1>8, ReturnSteps
  <2> QED BY <2>2, <2>3 DEF StoresInv
<1>9. CASE Tick \/ UNCHANGED vars
  <2>1. /\ UNCHANGED <<backend, order, starts, raised, storeVars, call, shown>>
        /\ clock' = clock \/ clock' = clock + 1
    BY <1>9 DEF Tick, vars, storeVars
  <2>2. TypeOK' /\ StoreInv' /\ Fresh' = Fresh
    BY <1>0, <2>1, StoreUnchanged
  <2>3. CallOK' /\ MeaningInv' /\ CheckInv' /\ ListInv'
    BY <1>0, <2>1, <2>2, CallUnchanged DEF storeVars
  <2> QED BY <2>2, <2>3 DEF StoresInv
<1>10. CASE Restart
  BY <1>0, <1>10, RestartStep DEF StoresInv
<1> QED BY <1>1, <1>2, <1>3, <1>4, <1>5, <1>6, <1>7, <1>8, <1>9, <1>10 DEF Next

-----------------------------------------------------------------------------
(* The inductive invariant of both stores: the ids in use are below the one *)
(* next_id hands out, newer alerts have higher ids, a walk of the map has   *)
(* copied what stayed behind it once, and has what it still misses ahead.   *)
THEOREM StoresInvariant == Spec => []StoresInv
<1>1. Init => StoresInv
  BY StoresInit
<1>2. StoresInv /\ [Next]_vars => StoresInv'
  BY StoresStep
<1> QED BY <1>1, <1>2, PTL DEF Spec

(* Whatever is inserted, acknowledged or deleted during is_acknowledged, of *)
(* either store, its answer was true at some moment of the call; only a     *)
(* delete during a walk of the map excuses a "no".                          *)
THEOREM AnswersTrue == Spec => []AnswerWasTrue
<1>1. StoresInv => AnswerWasTrue
  BY DEF StoresInv, CheckInv
<1> QED BY <1>1, StoresInvariant, PTL

(* An id a client was shown by list_alerts names that alert or none, for any*)
(* number of inserts, deletes and restarts of a daemon with SQLite, and of  *)
(* inserts and deletes within one start of a daemon without.                *)
THEOREM IdsStable == Spec => []IdsKeepTheirMeaning
<1>1. StoresInv => IdsKeepTheirMeaning
  BY DEF StoresInv, MeaningInv, Means, IdsKeepTheirMeaning
<1> QED BY <1>1, StoresInvariant, PTL

(* list_alerts of either store returns its alerts most recent first, and    *)
(* leaves out one that was there all the time only where the limit cuts the *)
(* list, for any number of alerts, any filters and any order of the shards. *)
THEOREM RecentFirst == Spec => []ListShowsMostRecent
<1>1. StoresInv => ListShowsMostRecent
  BY DEF StoresInv, ListInv
<1> QED BY <1>1, StoresInvariant, PTL
=============================================================================
