--------------------------- MODULE Discovery_proofs ---------------------------
(***************************************************************************)
(* What the offline scanner reports, proved for any devices, packets,       *)
(* channel capacity and threshold: it is wrong only for a device that was   *)
(* heard of during the scan.  And what the pipeline stores and announces:   *)
(* counters that agree, each device as new once, every change.              *)
(***************************************************************************)
EXTENDS Discovery, SequenceTheorems, FiniteSetTheorems, TLAPS

(* A sequence is one over its own elements.                                 *)
LEMMA OverItsElements ==
  ASSUME NEW S, NEW s \in Seq(S)
  PROVE  s \in Seq(Range(s))
<1>1. /\ Len(s) \in Nat
      /\ s \in [1 .. Len(s) -> S]
      /\ DOMAIN s = 1 .. Len(s)
  BY LenProperties
<1>2. s \in [1 .. Len(s) -> Range(s)]
  BY <1>1 DEF Range
<1> QED BY <1>1, <1>2

(* try_send leaves the channel alone or puts the event at its end.          *)
LEMMA TrySendAppends ==
  ASSUME ScanInv, NEW e, TrySend(e)
  PROVE  /\ events' \in Seq(Range(events'))
         /\ Len(events') > Len(events) => events'[Len(events')] = e
<1> DEFINE S == Range(events) \cup {e}
<1>1. events \in Seq(S)
  BY SeqMonotonic DEF ScanInv
<1>2. CASE events' = events
  BY <1>2, <1>1, LenProperties DEF ScanInv
<1>3. CASE events' = Append(events, e)
  <2>1. /\ Append(events, e) \in Seq(S)
        /\ Len(Append(events, e)) = Len(events) + 1
        /\ Append(events, e)[Len(events) + 1] = e
    BY <1>1, AppendProperties
  <2> HIDE DEF S
  <2>2. events' \in Seq(Range(events'))
    BY <1>3, <2>1, OverItsElements
  <2> QED BY <1>3, <2>1, <2>2
<1> QED BY <1>2, <1>3 DEF TrySend

(* record_sent and record_received stamp the device with the packet's time. *)
LEMMA Stamped ==
  ASSUME NEW d, NEW p, NEW now, "last_seen" \in DOMAIN d
  PROVE  /\ "last_seen" \in DOMAIN Sent(d, p, now) /\ Sent(d, p, now).last_seen = now
         /\ "last_seen" \in DOMAIN Received(d, p, now)
         /\ Received(d, p, now).last_seen = now
<1>1. ASSUME NEW q
      PROVE  /\ "last_seen" \in DOMAIN Recorded(d, q, now)
             /\ Recorded(d, q, now).last_seen = now
  BY DEF Recorded
<1>2. /\ "last_seen" \in DOMAIN RecordSent(d, p, now)
      /\ RecordSent(d, p, now).last_seen = now
  BY <1>1 DEF RecordSent
<1>3. /\ "last_seen" \in DOMAIN RecordReceived(d, p, now)
      /\ RecordReceived(d, p, now).last_seen = now
  BY <1>1 DEF RecordReceived
<1> QED BY <1>2, <1>3 DEF Sent, Received

(* A device that is looked up has a time.                                   *)
LEMMA LookupHasTime ==
  ASSUME ScanInv, NEW m
  PROVE  "last_seen" \in DOMAIN Lookup(m)
  BY DEF ScanInv, Lookup, NewDevice, Known

(* Storing a stamped device, and marking it as heard of, keeps what ScanInv *)
(* says of the devices, the list and the outbox.                            *)
LEMMA StoreKeeps ==
  ASSUME ScanInv, NEW m, NEW d, StoreDevice(m, d),
         "last_seen" \in DOMAIN d, d.last_seen \in Nat,
         UNCHANGED <<events, clock, scanVars>>,
         stage' # "recv" => packet' # <<>>,
         packet' # <<>> => packet'[2] \in Nat
  PROVE  ScanInv'
<1>1. outbox' # <<>> => outbox'[1].kind # "offline"
  BY DEF StoreDevice, Announcement, Event
<1>2. /\ DOMAIN devices' = Known \cup {m}
      /\ \A x \in Known \cup {m} : devices'[x] = IF x = m THEN d ELSE devices[x]
  BY DEF StoreDevice
<1>3. \A x \in Known' : "last_seen" \in DOMAIN devices'[x] /\ devices'[x].last_seen \in Nat
  BY <1>2 DEF ScanInv, Known
<1>4. \A x \in DOMAIN listed' :
        x \in Known' /\ (x \in heard' \/ listed'[x] = devices'[x].last_seen)
  BY <1>2 DEF ScanInv, Known, StoreDevice, scanVars
<1>5. /\ clock' \in Nat
      /\ events' \in Seq(Range(events'))
      /\ scanNow' # <<>> => scanNow'[1] \in Nat /\ scanNow'[1] <= clock'
  BY DEF ScanInv, scanVars
<1> QED BY <1>1, <1>3, <1>4, <1>5 DEF ScanInv

(* Each step keeps ScanInv.                                                 *)
LEMMA ScanInvStep == ScanInv /\ [Next]_vars => ScanInv'
<1> SUFFICES ASSUME ScanInv, [Next]_vars PROVE ScanInv'
  OBVIOUS
<1>1. CASE Receive
  BY <1>1 DEF Receive, ScanInv, Known, scanVars
<1>2. CASE UpdateSource
  <2> DEFINE p == packet[1]
             d == Sent(Lookup(p.src), p, packet[2])
  <2>1. "last_seen" \in DOMAIN d /\ d.last_seen = packet[2]
    BY LookupHasTime, Stamped
  <2>2. packet[2] \in Nat /\ packet # <<>>
    BY <1>2 DEF UpdateSource, ScanInv
  <2>3. /\ StoreDevice(p.src, d)
        /\ UNCHANGED <<events, clock, scanVars>>
        /\ stage' # "recv" => packet' # <<>>
        /\ packet' # <<>> => packet'[2] \in Nat
    BY <1>2, <2>2 DEF UpdateSource
  <2> HIDE DEF d
  <2> QED BY <2>1, <2>2, <2>3, StoreKeeps
<1>3. CASE UpdateDestination
  <2> DEFINE p == packet[1]
             d == Received(Lookup(p.dst), p, packet[2])
  <2>1. "last_seen" \in DOMAIN d /\ d.last_seen = packet[2]
    BY LookupHasTime, Stamped
  <2>2. packet[2] \in Nat
    BY <1>3 DEF UpdateDestination, ScanInv
  <2>3. /\ StoreDevice(p.dst, d)
        /\ UNCHANGED <<events, clock, scanVars>>
        /\ stage' # "recv" => packet' # <<>>
        /\ packet' # <<>> => packet'[2] \in Nat
    BY <1>3 DEF UpdateDestination
  <2> HIDE DEF d
  <2> QED BY <2>1, <2>2, <2>3, StoreKeeps
<1>4. CASE Announce
  <2>1. events' \in Seq(Range(events'))
    BY <1>4, TrySendAppends DEF Announce
  <2> QED BY <1>4, <2>1 DEF Announce, ScanInv, Known, scanVars
<1>5. CASE ScanList
  BY <1>5 DEF ScanList, ScanInv, Known
<1>6. CASE ScanReadNow
  BY <1>6 DEF ScanReadNow, ScanInv, Known
<1>7. ASSUME NEW m \in Mac, ScanDevice(m) PROVE ScanInv'
  <2>1. events' \in Seq(Range(events'))
    BY <1>7, TrySendAppends DEF ScanDevice, ScanInv
  <2> QED BY <1>7, <2>1 DEF ScanDevice, ScanInv, Known
<1>8. CASE Tick
  BY <1>8 DEF Tick, ScanInv, Known, scanVars
<1>9. CASE Consume
  <2>1. Tail(events) \in Seq(Range(events))
    BY <1>9, HeadTailProperties DEF Consume, ScanInv
  <2>2. events' \in Seq(Range(events'))
    BY <1>9, <2>1, OverItsElements DEF Consume
  <2> QED BY <1>9, <2>2 DEF Consume, ScanInv, Known, scanVars
<1>10. CASE UNCHANGED vars
  BY <1>10 DEF vars, ScanInv, Known
<1> QED BY <1>1, <1>2, <1>3, <1>4, <1>5, <1>6, <1>7, <1>8, <1>9, <1>10 DEF Next

(* The daemon starts with devices that have a time, and with no scan.       *)
LEMMA InitScan == Init => ScanInv
<1> SUFFICES ASSUME Init PROVE ScanInv
  OBVIOUS
<1>1. \A m \in Known : devices[m] \in Device
  BY StoredAssumption DEF Init, Known
<1>2. \A m \in Known : "last_seen" \in DOMAIN devices[m] /\ devices[m].last_seen \in Nat
  BY <1>1 DEF Device
<1> QED BY <1>2, EmptySeq DEF Init, ScanInv

(* offline_scanner: a report that is wrong when it is sent is about a device*)
(* whose packet came during the scan, for any devices, traffic, capacity    *)
(* and threshold.                                                           *)
THEOREM ReportsSound == Spec => FalseReportsOnlyByRace
<1>1. Init => ScanInv
  BY InitScan
<1>2. ScanInv /\ [Next]_vars =>
        [Len(events') > Len(events) /\ events'[Len(events')].kind = "offline" =>
           LET m == events'[Len(events')].mac
           IN  m \in heard \/ clock - devices[m].last_seen > Threshold]_vars
  <2> SUFFICES ASSUME ScanInv, Next,
                      Len(events') > Len(events),
                      events'[Len(events')].kind = "offline"
               PROVE  \/ events'[Len(events')].mac \in heard
                      \/ clock - devices[events'[Len(events')].mac].last_seen > Threshold
    OBVIOUS
  <2>0. Len(events) \in Nat
    BY LenProperties DEF ScanInv
  <2>1. CASE Announce
    BY <2>1, TrySendAppends DEF Announce, ScanInv
  <2>2. ASSUME NEW m \in Mac, ScanDevice(m)
        PROVE  m \in heard \/ clock - devices[m].last_seen > Threshold
    <3>1. SilentTooLong(listed[m])
      BY <2>0, <2>2 DEF ScanDevice
    <3>2. /\ m \in heard \/ listed[m] = devices[m].last_seen
          /\ m \in Known
          /\ scanNow[1] \in Nat /\ scanNow[1] <= clock
      BY <2>2 DEF ScanDevice, ScanInv
    <3>3. devices[m].last_seen \in Nat /\ clock \in Nat
      BY <3>2 DEF ScanInv
    <3> QED BY <3>1, <3>2, <3>3, DiscoveryAssumption DEF SilentTooLong
  <2>3. ASSUME NEW m \in Mac, ScanDevice(m)
        PROVE  events'[Len(events')].mac = m
    <3>1. TrySend(Event("offline", m, <<>>))
      BY <2>0, <2>3 DEF ScanDevice
    <3>2. events'[Len(events')] = Event("offline", m, <<>>)
      BY <3>1, TrySendAppends
    <3> QED BY <3>2 DEF Event
  <2>4. CASE Consume
    <3>1. Len(Tail(events)) = Len(events) - 1
      BY <2>4, HeadTailProperties DEF Consume, ScanInv
    <3> QED BY <2>0, <2>4, <3>1 DEF Consume
  <2>5. CASE events' = events
    BY <2>0, <2>5
  <2> QED BY <2>1, <2>2, <2>3, <2>4, <2>5
          DEF Next, Receive, UpdateSource, UpdateDestination, ScanList, ScanReadNow, Tick
<1> QED
  BY <1>1, <1>2, ScanInvStep, PTL DEF Spec, FalseReportsOnlyByRace

-----------------------------------------------------------------------------
(* Induction over the natural numbers, for a set of them: were m missing,   *)
(* adding 1 would map the members below m one-to-one into themselves and    *)
(* miss 0, which no finite set allows.                                      *)
LEMMA SetInduction ==
  ASSUME NEW S \in SUBSET Nat, 0 \in S, \A n \in S : n + 1 \in S
  PROVE  S = Nat
<1>1. SUFFICES ASSUME NEW m \in Nat, m \notin S PROVE FALSE
  OBVIOUS
<1> DEFINE T == S \cap (0 .. m)
           f == [x \in T |-> x + 1]
<1>2. IsFiniteSet(T)
  <2>1. IsFiniteSet(0 .. m)
    BY FS_Interval
  <2> QED BY <2>1, FS_Intersection
<1>3. f \in Injection(T, T)
  BY <1>1 DEF Injection, IsInjective
<1>4. f \in Surjection(T, T)
  <2> HIDE DEF T, f
  <2> QED BY <1>2, <1>3, FS_Injection
<1>5. 0 \in T
  BY <1>1
<1>6. PICK x \in T : f[x] = 0
  <2> HIDE DEF T, f
  <2> QED BY <1>4, <1>5 DEF Surjection
<1> QED
  BY <1>6

-----------------------------------------------------------------------------
(* Sums over the protocols.                                                 *)

First(T) == CHOOSE q \in T : TRUE

(* F gives the sums of stats over the sets in D, taking one protocol at a   *)
(* time.                                                                    *)
Sums(F, stats, D) ==
  \A T \in D : F[T] = IF T = {} THEN 0 ELSE stats[First(T)] + F[T \ {First(T)}]

LEMMA FirstIn == \A T : T # {} => First(T) \in T
BY DEF First

LEMMA SmallerSets ==
  ASSUME NEW T \in SUBSET Protocol, T # {}
  PROVE  /\ IsFiniteSet(T) /\ T \ {First(T)} \in SUBSET Protocol
         /\ Cardinality(T) \in Nat \ {0}
         /\ Cardinality(T \ {First(T)}) = Cardinality(T) - 1
<1>1. IsFiniteSet(T) /\ First(T) \in T
  BY FirstIn, FS_Subset, DiscoveryAssumption
<1> QED BY <1>1, FS_RemoveElement, FS_CardinalityType, FS_EmptySet

(* One more packet of protocol q adds 1 to the sums over the sets with q.   *)
LEMMA SumsStep ==
  ASSUME NEW f \in [Protocol -> Nat], NEW g \in [Protocol -> Nat],
         NEW q \in Protocol, g[q] = f[q] + 1, \A r \in Protocol \ {q} : g[r] = f[r],
         NEW F \in [SUBSET Protocol -> Nat], NEW G \in [SUBSET Protocol -> Nat],
         Sums(F, f, SUBSET Protocol), Sums(G, g, SUBSET Protocol)
  PROVE  /\ G[Protocol] = F[Protocol] + 1
         /\ f[q] <= F[Protocol]
<1> DEFINE Ok(T) == /\ q \in T => G[T] = F[T] + 1 /\ f[q] <= F[T]
                    /\ q \notin T => G[T] = F[T]
           S == {n \in Nat : \A T \in SUBSET Protocol : Cardinality(T) = n => Ok(T)}
<1>1. 0 \in S
  <2>1. \A T \in SUBSET Protocol : Cardinality(T) = 0 => T = {}
    BY FS_Subset, FS_EmptySet, DiscoveryAssumption
  <2>2. F[{}] = 0 /\ G[{}] = 0
    BY DEF Sums
  <2> QED BY <2>1, <2>2
<1>2. ASSUME NEW n \in S PROVE n + 1 \in S
  <2> SUFFICES ASSUME NEW T \in SUBSET Protocol, Cardinality(T) = n + 1 PROVE Ok(T)
    OBVIOUS
  <2> DEFINE x == First(T)
             U == T \ {First(T)}
  <2>1. T # {}
    <3>1. Cardinality({}) = 0 /\ n + 1 # 0
      BY FS_EmptySet
    <3> QED BY <3>1
  <2>2. x \in T /\ x \in Protocol
    BY <2>1, FirstIn
  <2>3. U \in SUBSET Protocol /\ Cardinality(U) = n
    BY <2>1, SmallerSets
  <2>4. Ok(U)
    BY <2>3
  <2>5. F[T] = f[x] + F[U] /\ G[T] = g[x] + G[U]
    BY <2>1 DEF Sums
  <2>6. F[U] \in Nat /\ G[U] \in Nat /\ f[x] \in Nat /\ f[q] \in Nat
    BY <2>2, <2>3
  <2>7. CASE x = q
    <3>1. q \in T /\ q \notin U
      BY <2>2, <2>7
    <3> HIDE DEF x, U
    <3> QED BY <2>4, <2>5, <2>6, <2>7, <3>1
  <2>8. CASE x # q
    <3>1. (q \in T <=> q \in U) /\ g[x] = f[x]
      BY <2>2, <2>8
    <3> HIDE DEF x, U
    <3> QED BY <2>4, <2>5, <2>6, <3>1
  <2> QED BY <2>7, <2>8
<1>3. S = Nat
  <2>1. S \in SUBSET Nat
    OBVIOUS
  <2> HIDE DEF S
  <2> QED BY <1>1, <1>2, <2>1, SetInduction
<1>4. Cardinality(Protocol) \in Nat
  BY FS_CardinalityType, DiscoveryAssumption
<1>5. Ok(Protocol)
  <2> HIDE DEF Ok
  <2> QED BY <1>3, <1>4
<1> QED BY <1>5

(* Two such functions for the same counters agree.                          *)
LEMMA SumsUnique ==
  ASSUME NEW stats, NEW F, NEW G,
         Sums(F, stats, SUBSET Protocol), Sums(G, stats, SUBSET Protocol)
  PROVE  G[Protocol] = F[Protocol]
<1> DEFINE S == {n \in Nat : \A T \in SUBSET Protocol : Cardinality(T) = n => G[T] = F[T]}
<1>1. 0 \in S
  <2>1. \A T \in SUBSET Protocol : Cardinality(T) = 0 => T = {}
    BY FS_Subset, FS_EmptySet, DiscoveryAssumption
  <2>2. F[{}] = 0 /\ G[{}] = 0
    BY DEF Sums
  <2> QED BY <2>1, <2>2
<1>2. ASSUME NEW n \in S PROVE n + 1 \in S
  <2> SUFFICES ASSUME NEW T \in SUBSET Protocol, Cardinality(T) = n + 1 PROVE G[T] = F[T]
    OBVIOUS
  <2> DEFINE U == T \ {First(T)}
  <2>1. T # {}
    <3>1. Cardinality({}) = 0 /\ n + 1 # 0
      BY FS_EmptySet
    <3> QED BY <3>1
  <2>2. U \in SUBSET Protocol /\ Cardinality(U) = n
    BY <2>1, SmallerSets
  <2>3. G[U] = F[U]
    BY <2>2
  <2>4. F[T] = stats[First(T)] + F[U] /\ G[T] = stats[First(T)] + G[U]
    BY <2>1 DEF Sums
  <2> QED BY <2>3, <2>4
<1>3. S = Nat
  <2>1. S \in SUBSET Nat
    OBVIOUS
  <2> HIDE DEF S
  <2> QED BY <1>1, <1>2, <2>1, SetInduction
<1>4. Cardinality(Protocol) \in Nat
  BY FS_CardinalityType, DiscoveryAssumption
<1> QED BY <1>3, <1>4

(* StatSum is given by such a function.                                     *)
LEMMA StatSumIs ==
  ASSUME NEW stats \in [Protocol -> Nat]
  PROVE  \E F \in [SUBSET Protocol -> Nat] :
           Sums(F, stats, SUBSET Protocol) /\ StatSum(stats) = F[Protocol]
<1> DEFINE Small(n) == {T \in SUBSET Protocol : Cardinality(T) <= n}
           S == {n \in Nat : \E F \in [Small(n) -> Nat] : Sums(F, stats, Small(n))}
<1>1. \A T \in SUBSET Protocol : IsFiniteSet(T) /\ Cardinality(T) \in Nat
  BY FS_Subset, FS_CardinalityType, DiscoveryAssumption
<1>2. 0 \in S
  <2>1. \A T \in Small(0) : T = {}
    BY <1>1, FS_EmptySet
  <2>2. [T \in Small(0) |-> 0] \in [Small(0) -> Nat]
    OBVIOUS
  <2>3. Sums([T \in Small(0) |-> 0], stats, Small(0))
    BY <2>1 DEF Sums
  <2> QED BY <2>2, <2>3
<1>3. ASSUME NEW n \in S PROVE n + 1 \in S
  <2>1. PICK F \in [Small(n) -> Nat] : Sums(F, stats, Small(n))
    BY <1>3
  <2> DEFINE G == [T \in Small(n + 1) |->
                     IF T \in Small(n) THEN F[T]
                     ELSE stats[First(T)] + F[T \ {First(T)}]]
  <2>2. ASSUME NEW T \in Small(n + 1), T # {}
        PROVE  /\ T \ {First(T)} \in Small(n) /\ T \ {First(T)} \in Small(n + 1)
               /\ First(T) \in Protocol
    BY <1>1, <2>2, SmallerSets, FirstIn
  <2>3. \A T \in Small(n + 1) : T \notin Small(n) => T # {}
    BY <1>1, FS_EmptySet
  <2>4. {} \in Small(n) /\ \A T \in Small(n) : T \in Small(n + 1)
    BY <1>1, FS_EmptySet
  <2> HIDE DEF Small
  <2>5. G \in [Small(n + 1) -> Nat]
    BY <2>2, <2>3
  <2>6. Sums(G, stats, Small(n + 1))
    <3> SUFFICES ASSUME NEW T \in Small(n + 1)
                 PROVE  G[T] = IF T = {} THEN 0 ELSE stats[First(T)] + G[T \ {First(T)}]
      BY DEF Sums
    <3>1. CASE T = {}
      BY <2>1, <2>4, <3>1 DEF Sums
    <3>2. CASE T # {}
      <4>1. G[T \ {First(T)}] = F[T \ {First(T)}]
        BY <2>2, <3>2
      <4>2. G[T] = stats[First(T)] + F[T \ {First(T)}]
        BY <2>1, <3>2 DEF Sums
      <4> QED BY <3>2, <4>1, <4>2
    <3> QED BY <3>1, <3>2
  <2> HIDE DEF G
  <2> QED BY <2>5, <2>6
<1>4. S = Nat
  <2>1. S \in SUBSET Nat
    OBVIOUS
  <2> HIDE DEF S
  <2> QED BY <1>2, <1>3, <2>1, SetInduction
<1>5. Small(Cardinality(Protocol)) = SUBSET Protocol /\ Cardinality(Protocol) \in Nat
  BY <1>1, FS_Subset, DiscoveryAssumption
<1>6. PICK F \in [SUBSET Protocol -> Nat] : Sums(F, stats, SUBSET Protocol)
  <2> HIDE DEF Small
  <2>1. \E F \in [Small(Cardinality(Protocol)) -> Nat] :
          Sums(F, stats, Small(Cardinality(Protocol)))
    BY <1>4, <1>5
  <2> QED BY <1>5, <2>1
<1> DEFINE G == CHOOSE iter : iter =
                  [s \in SUBSET Protocol |->
                     IF s = {} THEN 0
                     ELSE LET x == CHOOSE x \in s : TRUE IN stats[x] + iter[s \ {x}]]
<1>7. StatSum(stats) = G[Protocol]
  BY Zenon DEF StatSum, MapThenSumSet, MapThenFoldSet
<1>8. F = [s \in SUBSET Protocol |->
             IF s = {} THEN 0
             ELSE LET x == CHOOSE x \in s : TRUE IN stats[x] + F[s \ {x}]]
  <2>1. F = [s \in SUBSET Protocol |-> F[s]]
    OBVIOUS
  <2>2. \A s \in SUBSET Protocol :
          F[s] = IF s = {} THEN 0
                 ELSE LET x == CHOOSE x \in s : TRUE IN stats[x] + F[s \ {x}]
    BY <1>6 DEF Sums, First
  <2> QED BY <2>1, <2>2, Zenon
<1>9. G = [s \in SUBSET Protocol |->
             IF s = {} THEN 0
             ELSE LET x == CHOOSE x \in s : TRUE IN stats[x] + G[s \ {x}]]
  BY <1>8, Zenon
<1> HIDE DEF G
<1>10. Sums(G, stats, SUBSET Protocol)
  <2>1. \A s \in SUBSET Protocol :
          G[s] = IF s = {} THEN 0
                 ELSE LET x == CHOOSE x \in s : TRUE IN stats[x] + G[s \ {x}]
    BY <1>9, Zenon
  <2> QED BY <2>1 DEF Sums, First
<1>11. G[Protocol] = F[Protocol]
  BY <1>6, <1>10, SumsUnique
<1> QED BY <1>6, <1>7, <1>11

(* What the sum is for a new device, that it bounds its parts, and what one *)
(* more packet makes of it.                                                 *)
LEMMA StatSumNew == StatSum([q \in Protocol |-> 0]) = 0
<1> DEFINE z == [q \in Protocol |-> 0]
           Z == [T \in SUBSET Protocol |-> 0]
<1>1. z \in [Protocol -> Nat]
  OBVIOUS
<1>2. Sums(Z, z, SUBSET Protocol)
  <2> SUFFICES ASSUME NEW T \in SUBSET Protocol
               PROVE  Z[T] = IF T = {} THEN 0 ELSE z[First(T)] + Z[T \ {First(T)}]
    BY DEF Sums
  <2>1. Z[T] = 0 /\ Z[T \ {First(T)}] = 0
    OBVIOUS
  <2>2. T # {} => z[First(T)] = 0
    <3>1. T # {} => First(T) \in Protocol
      BY FirstIn
    <3> QED BY <3>1
  <2> HIDE DEF z, Z
  <2> QED BY <2>1, <2>2
<1>3. Z[Protocol] = 0
  OBVIOUS
<1> HIDE DEF z, Z
<1>4. PICK F \in [SUBSET Protocol -> Nat] :
        Sums(F, z, SUBSET Protocol) /\ StatSum(z) = F[Protocol]
  BY <1>1, StatSumIs
<1>5. F[Protocol] = Z[Protocol]
  BY <1>2, <1>4, SumsUnique
<1> QED BY <1>3, <1>4, <1>5 DEF z

LEMMA StatSumStep ==
  ASSUME NEW f \in [Protocol -> Nat], NEW q \in Protocol
  PROVE  /\ StatSum(f) \in Nat /\ f[q] <= StatSum(f)
         /\ StatSum([f EXCEPT ![q] = f[q] + 1]) = StatSum(f) + 1
<1> DEFINE g == [f EXCEPT ![q] = f[q] + 1]
<1>1. g \in [Protocol -> Nat] /\ g[q] = f[q] + 1 /\ \A r \in Protocol \ {q} : g[r] = f[r]
  OBVIOUS
<1> HIDE DEF g
<1>2. PICK F \in [SUBSET Protocol -> Nat] :
        Sums(F, f, SUBSET Protocol) /\ StatSum(f) = F[Protocol]
  BY StatSumIs
<1>3. PICK G \in [SUBSET Protocol -> Nat] :
        Sums(G, g, SUBSET Protocol) /\ StatSum(g) = G[Protocol]
  BY <1>1, StatSumIs
<1>4. G[Protocol] = F[Protocol] + 1 /\ f[q] <= F[Protocol]
  BY <1>1, <1>2, <1>3, SumsStep
<1>5. F[Protocol] \in Nat
  OBVIOUS
<1> QED BY <1>2, <1>3, <1>4, <1>5 DEF g

-----------------------------------------------------------------------------
(* What a packet makes of a device.                                         *)

LEMMA RecordedFields ==
  ASSUME NEW d \in Device, NEW q \in Protocol, NEW now \in Nat
  PROVE  LET e == Recorded(d, q, now)
         IN  /\ e \in Device
             /\ e.packet_count = SaturatingAdd(d.packet_count, 1)
             /\ e.protocols = d.protocols \cup {q}
             /\ e.protocol_stats =
                  [d.protocol_stats EXCEPT ![q] = SaturatingAdd(d.protocol_stats[q], 1)]
             /\ e.ips = d.ips /\ e.hostname = d.hostname
             /\ e.vendor_class = d.vendor_class
<1>1. /\ d.packet_count \in Nat /\ d.bytes_sent \in Nat /\ d.bytes_received \in Nat
      /\ d.protocols \in SUBSET Protocol /\ d.protocol_stats \in [Protocol -> 0 .. CounterMax]
  BY DEF Device
<1>2. CounterMax \in Nat \ {0}
  BY DiscoveryAssumption
<1>3. \A n \in Nat : SaturatingAdd(n, 1) \in 0 .. CounterMax
  BY <1>2 DEF SaturatingAdd, Min2
<1> DEFINE e == Recorded(d, q, now)
<1>4. /\ e = [d EXCEPT !.last_seen = now,
                       !.packet_count = SaturatingAdd(d.packet_count, 1),
                       !.protocols = d.protocols \cup {q},
                       !.protocol_stats =
                          [d.protocol_stats EXCEPT ![q] = SaturatingAdd(d.protocol_stats[q], 1)]]
  BY DEF Recorded, Device
<1> DEFINE s == [d.protocol_stats EXCEPT ![q] = SaturatingAdd(d.protocol_stats[q], 1)]
           n == SaturatingAdd(d.packet_count, 1)
<1>5. s \in [Protocol -> 0 .. CounterMax] /\ n \in Nat
  BY <1>1, <1>2, <1>3
<1> HIDE DEF e, s, n
<1>6. e = [d EXCEPT !.last_seen = now, !.packet_count = n,
                    !.protocols = d.protocols \cup {q}, !.protocol_stats = s]
  BY <1>4 DEF s, n
<1>7. /\ e.packet_count = n /\ e.protocols = d.protocols \cup {q} /\ e.protocol_stats = s
      /\ e.ips = d.ips /\ e.hostname = d.hostname /\ e.vendor_class = d.vendor_class
  BY <1>6 DEF Device
<1>8. e \in Device
  BY <1>5, <1>6 DEF Device
<1> QED BY <1>7, <1>8 DEF e, s, n

(* record_sent and record_received keep the counters in agreement.          *)
LEMMA RecordedAgrees ==
  ASSUME NEW d \in Device, NEW q \in Protocol, NEW now \in Nat, Agree(d)
  PROVE  Agree(Recorded(d, q, now))
<1> DEFINE e == Recorded(d, q, now)
           f == d.protocol_stats
           g == e.protocol_stats
<1>1. /\ e.packet_count = SaturatingAdd(d.packet_count, 1)
      /\ e.protocols = d.protocols \cup {q}
      /\ g = [f EXCEPT ![q] = SaturatingAdd(f[q], 1)]
  BY RecordedFields
<1>2. /\ f \in [Protocol -> 0 .. CounterMax] /\ f \in [Protocol -> Nat]
      /\ CounterMax \in Nat \ {0}
  BY DiscoveryAssumption DEF Device
<1>3. /\ d.packet_count = Min2(CounterMax, StatSum(f))
      /\ d.protocols = {r \in Protocol : f[r] > 0}
  BY DEF Agree
<1> HIDE DEF e, f, g
<1>4. /\ StatSum(f) \in Nat /\ f[q] <= StatSum(f)
      /\ StatSum([f EXCEPT ![q] = f[q] + 1]) = StatSum(f) + 1
  BY <1>2, StatSumStep
<1>5. f[q] \in 0 .. CounterMax
  BY <1>2
<1>6. e.packet_count = Min2(CounterMax, StatSum(g))
  <2>1. CASE f[q] < CounterMax
    <3>0. SaturatingAdd(f[q], 1) = f[q] + 1
      BY <1>2, <1>5, <2>1 DEF SaturatingAdd, Min2
    <3>1. g = [f EXCEPT ![q] = f[q] + 1]
      BY <1>1, <3>0
    <3>2. StatSum(g) = StatSum(f) + 1
      BY <1>4, <3>1
    <3> QED BY <1>1, <1>2, <1>3, <1>4, <3>2 DEF SaturatingAdd, Min2
  <2>2. CASE f[q] = CounterMax
    <3>0. SaturatingAdd(f[q], 1) = f[q] /\ SaturatingAdd(CounterMax, 1) = CounterMax
      BY <1>2, <2>2 DEF SaturatingAdd, Min2
    <3>1. g = f
      BY <1>1, <1>2, <3>0
    <3>2. Min2(CounterMax, StatSum(f)) = CounterMax
      BY <1>2, <1>4, <2>2 DEF Min2
    <3> QED BY <1>1, <1>3, <3>0, <3>1, <3>2
  <2> QED BY <1>2, <1>5, <2>1, <2>2
<1>7. e.protocols = {r \in Protocol : g[r] > 0}
  <2>1. g[q] > 0 /\ \A r \in Protocol : r # q => g[r] = f[r]
    BY <1>1, <1>2, <1>5 DEF SaturatingAdd, Min2
  <2> QED BY <1>1, <1>3, <2>1
<1> QED BY <1>6, <1>7 DEF Agree, e, g

LEMMA SentFields ==
  ASSUME NEW d \in Device, IsFiniteSet(d.ips), Agree(d), NEW p \in Packets, NEW now \in Nat
  PROVE  LET e == Sent(d, p, now)
         IN  e \in Device /\ IsFiniteSet(e.ips) /\ Agree(e) /\ d.ips \subseteq e.ips
<1>1. /\ p.protocol \in Protocol /\ p.len \in Nat /\ IsFiniteSet(p.ips)
      /\ p.dhcp_hostname \in Names /\ p.mdns_hostname \in Names
      /\ p.dhcp_vendor_class \in Names /\ CounterMax \in Nat
  <2>1. /\ p.protocol \in Protocol /\ p.len \in Nat /\ IsFiniteSet(p.ips)
        /\ CounterMax \in Nat
    BY DiscoveryAssumption
  <2>2. {p.dhcp_hostname, p.mdns_hostname, p.dhcp_vendor_class} \subseteq Names
    BY DEF Names
  <2> QED BY <2>1, <2>2
<1> DEFINE r == Recorded(d, p.protocol, now)
           n == SaturatingAdd(r.bytes_sent, p.len)
           t == RecordSent(d, p, now)
           h == FirstOf(FirstOf(t.hostname, p.dhcp_hostname), p.mdns_hostname)
           v == FirstOf(t.vendor_class, p.dhcp_vendor_class)
           i == t.ips \cup p.ips
           e == Sent(d, p, now)
<1>2. r \in Device /\ r.ips = d.ips /\ Agree(r)
  BY <1>1, RecordedFields, RecordedAgrees
<1> HIDE DEF r
<1>3. n \in Nat
  BY <1>1, <1>2 DEF Device, SaturatingAdd, Min2
<1>4. t = [r EXCEPT !.bytes_sent = n]
  BY <1>2 DEF RecordSent, Device, r
<1> HIDE DEF n, t
<1>5. /\ t \in Device /\ t.ips = r.ips /\ t.packet_count = r.packet_count
      /\ t.protocol_stats = r.protocol_stats /\ t.protocols = r.protocols
  BY <1>2, <1>3, <1>4 DEF Device
<1>6. h \in Names /\ v \in Names /\ i \in SUBSET UNION {x.ips : x \in Packets}
  BY <1>1, <1>5 DEF Device, FirstOf
<1>7. e = [t EXCEPT !.hostname = h, !.vendor_class = v, !.ips = i]
  BY <1>5 DEF Sent, Device, t
<1> HIDE DEF h, v, e
<1>8. /\ e \in Device /\ e.ips = i /\ e.packet_count = t.packet_count
      /\ e.protocol_stats = t.protocol_stats /\ e.protocols = t.protocols
  <2> HIDE DEF i
  <2> QED BY <1>5, <1>6, <1>7 DEF Device
<1>9. IsFiniteSet(i)
  BY <1>1, <1>2, <1>5, FS_Union
<1> QED BY <1>2, <1>5, <1>8, <1>9 DEF Agree, e

LEMMA ReceivedFields ==
  ASSUME NEW d \in Device, IsFiniteSet(d.ips), Agree(d), NEW p \in Packets, NEW now \in Nat
  PROVE  LET e == Received(d, p, now)
         IN  e \in Device /\ IsFiniteSet(e.ips) /\ Agree(e) /\ d.ips \subseteq e.ips
<1>1. /\ p.protocol \in Protocol /\ p.len \in Nat /\ IsFiniteSet(p.ips)
      /\ CounterMax \in Nat
  BY DiscoveryAssumption
<1> DEFINE r == Recorded(d, p.protocol, now)
           n == SaturatingAdd(r.bytes_received, p.len)
           t == RecordReceived(d, p, now)
           i == t.ips \cup p.ips
           e == Received(d, p, now)
<1>2. r \in Device /\ r.ips = d.ips /\ Agree(r)
  BY <1>1, RecordedFields, RecordedAgrees
<1> HIDE DEF r
<1>3. n \in Nat
  BY <1>1, <1>2 DEF Device, SaturatingAdd, Min2
<1>4. t = [r EXCEPT !.bytes_received = n]
  BY <1>2 DEF RecordReceived, Device, r
<1> HIDE DEF n, t
<1>5. /\ t \in Device /\ t.ips = r.ips /\ t.packet_count = r.packet_count
      /\ t.protocol_stats = r.protocol_stats /\ t.protocols = r.protocols
  BY <1>2, <1>3, <1>4 DEF Device
<1>6. i \in SUBSET UNION {x.ips : x \in Packets}
  BY <1>5 DEF Device
<1>7. e = [t EXCEPT !.ips = i]
  BY <1>5 DEF Received, Device, t
<1> HIDE DEF e
<1>8. /\ e \in Device /\ e.ips = i /\ e.packet_count = t.packet_count
      /\ e.protocol_stats = t.protocol_stats /\ e.protocols = t.protocols
  <2> HIDE DEF i
  <2> QED BY <1>5, <1>6, <1>7 DEF Device
<1>9. IsFiniteSet(i)
  BY <1>1, <1>2, <1>5, FS_Union
<1> QED BY <1>2, <1>5, <1>8, <1>9 DEF Agree, e

(* A device that is looked up is in order; a new one has counted nothing.   *)
LEMMA LookupFacts ==
  ASSUME ScanInv, DeviceInv, NEW m
  PROVE  /\ Lookup(m) \in Device /\ IsFiniteSet(Lookup(m).ips) /\ Agree(Lookup(m))
         /\ m \in Known => Lookup(m) = devices[m]
<1>1. CASE m \in Known
  BY <1>1 DEF DeviceInv, CountersAgree, Lookup
<1>2. CASE m \notin Known
  <2> DEFINE z == [q \in Protocol |-> 0]
             d == Lookup(m)
  <2>1. z \in [Protocol -> 0 .. CounterMax] /\ StatSum(z) = 0 /\ CounterMax \in Nat
        /\ \A q \in Protocol : z[q] = 0
    BY StatSumNew, DiscoveryAssumption
  <2>2. d = [packet_count |-> 0, bytes_sent |-> 0, bytes_received |-> 0,
             protocols |-> {}, protocol_stats |-> z,
             ips |-> {}, hostname |-> "", vendor_class |-> "", last_seen |-> clock]
    BY <1>2 DEF Lookup, NewDevice
  <2> HIDE DEF z, d
  <2>3. d \in Device
    <3>1. clock \in Nat
      BY DEF ScanInv
    <3> DEFINE I == UNION {p.ips : p \in Packets}
    <3>2. {} \in SUBSET I /\ {} \in SUBSET Protocol
      BY Zenon
    <3>3. "" \in Names
      BY DEF Names
    <3> HIDE DEF I
    <3>4. d \in [packet_count : Nat, bytes_sent : Nat, bytes_received : Nat,
                protocols : SUBSET Protocol, protocol_stats : [Protocol -> 0 .. CounterMax],
                ips : SUBSET I, hostname : Names, vendor_class : Names, last_seen : Nat]
      BY <2>1, <2>2, <3>1, <3>2, <3>3
    <3> QED BY <3>4 DEF Device, I
  <2>4. d.packet_count = 0 /\ d.protocols = {} /\ d.protocol_stats = z /\ d.ips = {}
    BY <2>2
  <2>5. Agree(d)
    BY <2>1, <2>4 DEF Agree, Min2
  <2>6. IsFiniteSet(d.ips)
    BY <2>4, FS_EmptySet
  <2> QED BY <1>2, <2>3, <2>5, <2>6 DEF d
<1> QED BY <1>1, <1>2

(* `changed` is false only if the profile is the same: the addresses only   *)
(* grow, so as many as before are the ones as before.                       *)
LEMMA NotChanged ==
  ASSUME NEW d, NEW e, IsFiniteSet(e.ips), d.ips \subseteq e.ips, ~ Changed(d, e)
  PROVE  Profile(e) = Profile(d)
<1>1. e.ips = d.ips
  BY FS_Subset DEF Changed
<1> QED BY <1>1 DEF Changed, Profile

(* Storing a device in order, with its announcement, keeps all devices in   *)
(* order and the reader able to catch up.                                   *)
LEMMA StoreTells ==
  ASSUME ScanInv, DeviceInv, AnnounceInv, CatchUpInv,
         NEW m, NEW d \in Device, IsFiniteSet(d.ips), Agree(d),
         m \in Known => devices[m].ips \subseteq d.ips,
         StoreDevice(m, d), outbox = <<>>, UNCHANGED <<events, view, dropped>>
  PROVE  /\ \A x \in Known' : devices'[x] \in Device /\ IsFiniteSet(devices'[x].ips)
         /\ CountersAgree' /\ AnnounceInv' /\ CatchUpInv'
<1>1. /\ Known' = Known \cup {m}
      /\ \A x \in Known \cup {m} : devices'[x] = IF x = m THEN d ELSE devices[x]
  BY DEF StoreDevice, Known
<1>2. \A x \in Known' : /\ devices'[x] \in Device /\ IsFiniteSet(devices'[x].ips)
                         /\ Agree(devices'[x])
  BY <1>1 DEF DeviceInv, CountersAgree
<1>3. CountersAgree'
  BY <1>2 DEF CountersAgree
<1>4. \A x : Queued(x)' = Queued(x) /\ ~ Unsent(x)
  BY DEF Queued, Unsent
<1>5. /\ \A x : Unsent(x)' => x = m /\ outbox'[1].profile = Profile(d)
      /\ outbox' # <<>> => Unsent(m)'
      /\ outbox' = <<>> => m \in Known /\ ~ Changed(devices[m], d)
      /\ outbox' # <<>> /\ outbox'[1].kind = "discovered" => m \notin Known
  BY DEF StoreDevice, Announcement, Event, Unsent
<1>6. m \notin Known => m \notin DOMAIN view /\ Queued(m) = {}
  BY DEF AnnounceInv, Queued
<1>7. AnnouncedOnce'
  <2> SUFFICES ASSUME NEW x \in Known'
               PROVE  /\ \A y \in Queued(x) : events[y].kind = "discovered" =>
                           x \notin DOMAIN view /\ \A z \in Queued(x) : y <= z
                      /\ Unsent(x)' /\ outbox'[1].kind = "discovered" =>
                           x \notin DOMAIN view /\ Queued(x) = {}
    BY <1>4 DEF AnnouncedOnce
  <2>1. CASE x \in Known
    <3>1. \A y \in Queued(x) : events[y].kind = "discovered" =>
             x \notin DOMAIN view /\ \A z \in Queued(x) : y <= z
      BY <2>1 DEF AnnounceInv, AnnouncedOnce
    <3> QED BY <1>5, <1>6, <3>1 DEF Unsent
  <2>2. CASE x \notin Known
    <3>1. x = m
      BY <1>1, <2>2
    <3> QED BY <1>6, <2>2, <3>1
  <2> QED BY <2>1, <2>2
<1>8. AnnounceInv'
  <2>1. outbox' # <<>> => outbox'[1].mac \in Known'
    BY <1>1, <1>5 DEF Unsent
  <2>2. /\ (DOMAIN view)' \subseteq Known'
        /\ \A x \in DOMAIN events' : events'[x].kind # "offline" => events'[x].mac \in Known'
    BY <1>1 DEF AnnounceInv
  <2> QED BY <1>7, <2>1, <2>2 DEF AnnounceInv
<1>9. CatchUpInv'
  <2> SUFFICES ASSUME NEW x \in Known' \ dropped PROVE Tells(x, Profile(devices[x]))'
    BY DEF CatchUpInv
  <2>1. CASE Unsent(x)'
    <3>1. outbox'[1].profile = Profile(d) /\ devices'[x] = d
      BY <1>1, <1>5, <2>1
    <3> QED BY <2>1, <3>1 DEF Tells, Profile
  <2>2. CASE ~ Unsent(x)'
    <3>1. x \in Known /\ Profile(devices'[x]) = Profile(devices[x])
      <4>1. CASE x # m
        BY <1>1, <4>1
      <4>2. CASE x = m
        <5>1. m \in Known /\ ~ Changed(devices[m], d)
          BY <1>5, <2>2, <4>2
        <5>2. Profile(d) = Profile(devices[m])
          BY <5>1, NotChanged
        <5> QED BY <1>1, <4>2, <5>1, <5>2
      <4> QED BY <4>1, <4>2
    <3>2. Tells(x, Profile(devices[x]))
      BY <3>1 DEF CatchUpInv
    <3>3. Profile(devices[x])' = Profile(devices[x])
      BY <3>1 DEF Profile
    <3> QED BY <1>4, <2>2, <3>2, <3>3 DEF Tells
  <2> QED BY <2>1, <2>2
<1> QED BY <1>2, <1>3, <1>8, <1>9

(* Sending is in the order of storing: the event that was to be sent is the *)
(* last in the channel, or it is dropped.                                   *)
LEMMA AnnounceStep ==
  ASSUME ScanInv, AnnounceInv, CatchUpInv, Announce
  PROVE  AnnounceInv' /\ CatchUpInv'
<1> DEFINE e == outbox[1]
           n == Len(events)
<1>0. PICK k : k = outbox[1].mac
  OBVIOUS
<1>1. n \in Nat /\ DOMAIN events = 1 .. n
  BY LenProperties DEF ScanInv
<1>2. /\ outbox # <<>> /\ outbox' = <<>> /\ Known' = Known /\ view' = view
      /\ devices' = devices /\ k \in Known /\ k = e.mac /\ e.kind # "offline"
  BY <1>0 DEF Announce, Known, AnnounceInv, ScanInv
<1>3. \A x : ~ Unsent(x)' /\ (Unsent(x) <=> x = k)
  BY <1>2 DEF Unsent
<1>4. CASE events' = events
  <2>1. dropped' = dropped \cup {k}
    BY <1>0, <1>4 DEF Announce
  <2>2. \A x : Queued(x)' = Queued(x)
    BY <1>4 DEF Queued
  <2>3. AnnouncedOnce'
    BY <1>2, <1>3, <1>4, <2>2 DEF AnnouncedOnce, AnnounceInv
  <2>4. AnnounceInv'
    BY <1>2, <1>4, <2>3 DEF AnnounceInv
  <2>5. CatchUpInv'
    <3> SUFFICES ASSUME NEW x \in Known \ dropped' PROVE Tells(x, Profile(devices[x]))'
      BY <1>2 DEF CatchUpInv
    <3>1. x # k /\ Tells(x, Profile(devices[x]))
      BY <2>1 DEF CatchUpInv
    <3> QED BY <1>2, <1>3, <1>4, <2>2, <3>1 DEF Tells, Profile
  <2> QED BY <2>4, <2>5
<1>5. CASE events' = Append(events, e)
  <2>1. /\ DOMAIN events' = 1 .. n + 1 /\ events'[n + 1] = e
        /\ \A x \in 1 .. n : events'[x] = events[x]
    <3>1. events \in Seq(Range(events) \cup {e})
      BY SeqMonotonic DEF ScanInv
    <3> QED BY <1>5, <3>1, AppendProperties, LenProperties
  <2>2. Queued(k)' = Queued(k) \cup {n + 1}
    BY <1>1, <1>2, <2>1 DEF Queued
  <2>3. \A x : x # k => Queued(x)' = Queued(x)
    BY <1>1, <1>2, <2>1 DEF Queued
  <2>4. \A x : Queued(x) \subseteq 1 .. n
    BY <1>1 DEF Queued
  <2>5. dropped \subseteq dropped'
    BY DEF Announce
  <2> HIDE DEF e, n
  <2>6. AnnouncedOnce'
    <3> SUFFICES ASSUME NEW x \in Known, NEW y \in Queued(x)', events'[y].kind = "discovered"
                 PROVE  x \notin DOMAIN view /\ \A z \in Queued(x)' : y <= z
      BY <1>2, <1>3 DEF AnnouncedOnce
    <3>1. CASE y \in Queued(x)
      <4>1. events'[y] = events[y]
        BY <2>1, <2>4, <3>1
      <4>2. x \notin DOMAIN view /\ \A z \in Queued(x) : y <= z
        BY <3>1, <4>1 DEF AnnounceInv, AnnouncedOnce
      <4>3. \A z \in Queued(x)' : z \in Queued(x) \/ z = n + 1
        BY <2>2, <2>3
      <4>4. y <= n + 1
        BY <1>1, <2>4, <3>1
      <4> QED BY <4>2, <4>3, <4>4
    <3>2. CASE y \notin Queued(x)
      <4>1. x = k /\ y = n + 1
        BY <2>2, <2>3, <3>2
      <4>2. e.kind = "discovered"
        BY <2>1, <4>1
      <4>3. x \notin DOMAIN view /\ Queued(x) = {}
        BY <1>3, <4>1, <4>2 DEF AnnounceInv, AnnouncedOnce, e
      <4> QED BY <1>1, <2>2, <4>1, <4>3
    <3> QED BY <3>1, <3>2
  <2>7. AnnounceInv'
    <3>1. \A x \in DOMAIN events' : events'[x].kind # "offline" => events'[x].mac \in Known
      <4> SUFFICES ASSUME NEW x \in 1 .. n + 1, events'[x].kind # "offline"
                   PROVE  events'[x].mac \in Known
        BY <2>1
      <4>1. CASE x = n + 1
        BY <1>2, <2>1, <4>1
      <4>2. CASE x \in 1 .. n
        BY <1>1, <2>1, <4>2 DEF AnnounceInv
      <4> QED BY <1>1, <4>1, <4>2
    <3> QED BY <1>2, <2>6, <3>1 DEF AnnounceInv
  <2>8. CatchUpInv'
    <3> SUFFICES ASSUME NEW x \in Known \ dropped PROVE Tells(x, Profile(devices[x]))'
      BY <1>2, <2>5 DEF CatchUpInv
    <3>0. Tells(x, Profile(devices[x])) /\ Profile(devices[x])' = Profile(devices[x])
      BY <1>2 DEF CatchUpInv, Profile
    <3>1. CASE x = k
      <4>1. e.profile = Profile(devices[x])
        BY <1>3, <3>0, <3>1 DEF Tells, e
      <4>2. n + 1 \in Queued(x)' /\ \A y \in Queued(x)' : y <= n + 1
        BY <1>1, <2>2, <2>4, <3>1
      <4>3. events'[n + 1].profile = Profile(devices[x])'
        BY <2>1, <3>0, <4>1
      <4> QED BY <1>3, <4>2, <4>3 DEF Tells
    <3>2. CASE x # k
      <4>1. Queued(x)' = Queued(x) /\ \A y \in Queued(x) : events'[y] = events[y]
        BY <2>1, <2>3, <2>4, <3>2
      <4> QED BY <1>2, <1>3, <3>0, <3>2, <4>1 DEF Tells
    <3> QED BY <3>1, <3>2
  <2> QED BY <2>7, <2>8
<1> QED BY <1>4, <1>5 DEF Announce, TrySend

(* The scanner's events do not concern the reader's picture.                *)
LEMMA OfflineStep ==
  ASSUME ScanInv, AnnounceInv, CatchUpInv, NEW m, TrySend(Event("offline", m, <<>>)),
         UNCHANGED <<outbox, devices, view, dropped>>
  PROVE  AnnounceInv' /\ CatchUpInv'
<1> DEFINE e == Event("offline", m, <<>>)
           n == Len(events)
<1>1. n \in Nat /\ DOMAIN events = 1 .. n
  BY LenProperties DEF ScanInv
<1>2. \A x \in DOMAIN events' :
        events'[x].kind # "offline" => x \in DOMAIN events /\ events'[x] = events[x]
  <2>1. CASE events' = events
    BY <2>1
  <2>2. CASE events' = Append(events, e)
    <3>1. events \in Seq(Range(events) \cup {e})
      BY SeqMonotonic DEF ScanInv
    <3>2. /\ DOMAIN events' = 1 .. n + 1 /\ events'[n + 1] = e
          /\ \A x \in 1 .. n : events'[x] = events[x]
      BY <2>2, <3>1, AppendProperties, LenProperties
    <3>3. e.kind = "offline"
      BY DEF Event
    <3> HIDE DEF e, n
    <3> QED BY <1>1, <3>2, <3>3
  <2> QED BY <2>1, <2>2 DEF TrySend
<1>3. \A x \in DOMAIN events : x \in DOMAIN events' /\ events'[x] = events[x]
  <2>1. CASE events' = events
    BY <2>1
  <2>2. CASE events' = Append(events, e)
    <3>1. events \in Seq(Range(events) \cup {e})
      BY SeqMonotonic DEF ScanInv
    <3>2. /\ DOMAIN events' = 1 .. n + 1
          /\ \A x \in 1 .. n : events'[x] = events[x]
      BY <2>2, <3>1, AppendProperties, LenProperties
    <3> HIDE DEF e, n
    <3> QED BY <1>1, <3>2
  <2> QED BY <2>1, <2>2 DEF TrySend
<1>4. \A x : Queued(x)' = Queued(x) /\ Unsent(x)' = Unsent(x)
  BY <1>2, <1>3 DEF Queued, Unsent
<1>5. \A x : \A y \in Queued(x) : events'[y] = events[y]
  BY <1>3 DEF Queued
<1>6. AnnouncedOnce'
  BY <1>4, <1>5 DEF AnnounceInv, AnnouncedOnce, Known
<1>7. AnnounceInv'
  BY <1>2, <1>6 DEF AnnounceInv, Known
<1>8. CatchUpInv'
  <2> SUFFICES ASSUME NEW x \in Known \ dropped PROVE Tells(x, Profile(devices[x]))'
    BY DEF CatchUpInv, Known
  <2>1. Tells(x, Profile(devices[x])) /\ Profile(devices[x])' = Profile(devices[x])
    BY DEF CatchUpInv, Profile
  <2> QED BY <1>4, <1>5, <2>1 DEF Tells
<1> QED BY <1>7, <1>8

(* Reading the oldest event moves the others up; what it said of its device *)
(* is what the reader now knows.                                            *)
LEMMA ConsumeStep ==
  ASSUME ScanInv, AnnounceInv, CatchUpInv, Consume
  PROVE  AnnounceInv' /\ CatchUpInv'
<1> DEFINE n == Len(events)
<1>1. PICK e : e = Head(events)
  OBVIOUS
<1>2. /\ n \in Nat \ {0} /\ DOMAIN events = 1 .. n /\ events[1] = e
      /\ DOMAIN events' = 1 .. n - 1 /\ \A x \in 1 .. n - 1 : events'[x] = events[x + 1]
  <2>1. n \in Nat \ {0} /\ DOMAIN events = 1 .. n /\ events[1] = e
    BY <1>1, LenProperties, EmptySeq DEF Consume, ScanInv
  <2>2. /\ Tail(events) \in Seq(Range(events)) /\ Len(Tail(events)) = n - 1
        /\ \A x \in 1 .. n - 1 : Tail(events)[x] = events[x + 1]
    BY HeadTailProperties DEF Consume, ScanInv
  <2> QED BY <2>1, <2>2, LenProperties DEF Consume
<1>3. /\ view' = IF e.kind = "offline" THEN view
                 ELSE [x \in DOMAIN view \cup {e.mac} |->
                         IF x = e.mac THEN e.profile ELSE view[x]]
      /\ UNCHANGED <<outbox, devices, dropped>>
  BY <1>1 DEF Consume
<1> HIDE DEF n
<1>4. \A x : Unsent(x)' = Unsent(x) /\ Queued(x) \subseteq 1 .. n
  BY <1>2, <1>3 DEF Unsent, Queued
<1>5. ASSUME NEW x, NEW y
      PROVE  /\ y \in Queued(x)' => y + 1 \in Queued(x) /\ events'[y] = events[y + 1]
             /\ y \in Queued(x) /\ y # 1 => y - 1 \in Queued(x)'
  <2>1. y \in Queued(x)' => y + 1 \in Queued(x) /\ events'[y] = events[y + 1]
    BY <1>2 DEF Queued
  <2>2. y \in Queued(x) /\ y # 1 => y - 1 \in Queued(x)'
    <3> SUFFICES ASSUME y \in Queued(x), y # 1 PROVE y - 1 \in Queued(x)'
      OBVIOUS
    <3>1. y \in 1 .. n /\ y - 1 \in 1 .. n - 1 /\ (y - 1) + 1 = y
      BY <1>2, <1>4
    <3>2. events'[y - 1] = events[y]
      BY <1>2, <3>1
    <3> QED BY <1>2, <3>1, <3>2 DEF Queued
  <2> QED BY <2>1, <2>2
<1>6. \A x : 1 \in Queued(x) <=> x = e.mac /\ e.kind # "offline"
  BY <1>2 DEF Queued
<1>7. \A x : /\ x \in DOMAIN view' => x \in DOMAIN view \/ 1 \in Queued(x)
             /\ 1 \in Queued(x) => x \in DOMAIN view' /\ view'[x] = events[1].profile
             /\ x \in DOMAIN view /\ 1 \notin Queued(x) =>
                  x \in DOMAIN view' /\ view'[x] = view[x]
  BY <1>2, <1>3, <1>6
<1>8. \A x : \A y \in Queued(x)' : y \in Nat \ {0}
  BY <1>2 DEF Queued
<1>9. AnnouncedOnce'
  <2> SUFFICES ASSUME NEW x \in Known
               PROVE  /\ \A y \in Queued(x)' : events'[y].kind = "discovered" =>
                           x \notin DOMAIN view' /\ \A z \in Queued(x)' : y <= z
                      /\ Unsent(x) /\ outbox[1].kind = "discovered" =>
                           x \notin DOMAIN view' /\ Queued(x)' = {}
    BY <1>3, <1>4 DEF AnnouncedOnce, Known
  <2>0. /\ \A y \in Queued(x) : events[y].kind = "discovered" =>
             x \notin DOMAIN view /\ \A z \in Queued(x) : y <= z
        /\ Unsent(x) /\ outbox[1].kind = "discovered" =>
             x \notin DOMAIN view /\ Queued(x) = {}
    BY DEF AnnounceInv, AnnouncedOnce
  <2>1. ASSUME NEW y \in Queued(x)', events'[y].kind = "discovered"
        PROVE  x \notin DOMAIN view' /\ \A z \in Queued(x)' : y <= z
    <3>1. y + 1 \in Queued(x) /\ events[y + 1].kind = "discovered" /\ y \in Nat \ {0}
      BY <1>5, <1>8, <2>1
    <3>2. x \notin DOMAIN view /\ \A z \in Queued(x) : y + 1 <= z
      BY <2>0, <3>1
    <3>3. 1 \notin Queued(x)
      BY <3>1, <3>2
    <3>4. ASSUME NEW z \in Queued(x)' PROVE y <= z
      <4>1. z + 1 \in Queued(x) /\ z \in Nat
        BY <1>5, <1>8
      <4>2. y + 1 <= z + 1
        BY <3>2, <4>1
      <4> QED BY <3>1, <4>1, <4>2
    <3> QED BY <1>7, <3>2, <3>3, <3>4
  <2>2. ASSUME Unsent(x), outbox[1].kind = "discovered"
        PROVE  x \notin DOMAIN view' /\ Queued(x)' = {}
    <3>1. x \notin DOMAIN view /\ Queued(x) = {}
      BY <2>0, <2>2
    <3>2. x \notin DOMAIN view'
      BY <1>7, <3>1
    <3>3. Queued(x)' = {}
      BY <1>5, <3>1
    <3> QED BY <3>2, <3>3
  <2> QED BY <2>1, <2>2
<1>10. AnnounceInv'
  <2>1. DOMAIN view' \subseteq Known
    <3>1. \A x : 1 \in Queued(x) => x \in Known
      BY DEF Queued, AnnounceInv
    <3> QED BY <1>7, <3>1 DEF AnnounceInv
  <2>2. ASSUME NEW x \in DOMAIN events', events'[x].kind # "offline"
        PROVE  events'[x].mac \in Known
    <3>1. x + 1 \in DOMAIN events /\ events'[x] = events[x + 1]
      BY <1>2
    <3> QED BY <2>2, <3>1 DEF AnnounceInv
  <2> QED BY <1>3, <1>9, <2>1, <2>2 DEF AnnounceInv, Known
<1>11. CatchUpInv'
  <2> SUFFICES ASSUME NEW x \in Known \ dropped PROVE Tells(x, Profile(devices[x]))'
    BY <1>3 DEF CatchUpInv, Known
  <2>0. Tells(x, Profile(devices[x])) /\ Profile(devices[x])' = Profile(devices[x])
    BY <1>3 DEF CatchUpInv, Profile
  <2> DEFINE P == Profile(devices[x])
  <2> HIDE DEF P
  <2>a. Tells(x, P) /\ P' = P
    BY <2>0 DEF P
  <2>1. CASE Unsent(x)
    BY <1>3, <1>4, <2>1, <2>a DEF Tells, P
  <2>2. CASE ~ Unsent(x) /\ Queued(x) # {}
    <3>1. PICK z \in Queued(x) : events[z].profile = P /\ \A y \in Queued(x) : y <= z
      BY <2>2, <2>a DEF Tells
    <3>2. z \in Nat
      BY <1>2, <1>4
    <3>3. CASE z = 1
      <4>1. Queued(x)' = {}
        <5> SUFFICES ASSUME NEW y \in Queued(x)' PROVE FALSE
          OBVIOUS
        <5>1. y + 1 \in Queued(x) /\ y \in Nat \ {0}
          BY <1>5, <1>8
        <5> QED BY <3>1, <3>3, <5>1
      <4>2. x \in DOMAIN view' /\ view'[x] = P
        BY <1>7, <3>1, <3>3
      <4> QED BY <1>4, <2>2, <2>a, <4>1, <4>2 DEF Tells, P
    <3>4. CASE z # 1
      <4>1. z - 1 \in Queued(x)'
        BY <1>5, <3>4
      <4>2. events'[z - 1] = events[z]
        <5>1. z - 1 \in 1 .. n - 1 /\ (z - 1) + 1 = z
          BY <1>2, <1>4, <3>4
        <5> QED BY <1>2, <5>1
      <4>3. ASSUME NEW y \in Queued(x)' PROVE y <= z - 1
        <5>1. y + 1 \in Queued(x) /\ y \in Nat
          BY <1>5, <1>8
        <5> QED BY <3>1, <3>2, <5>1
      <4>4. \E w \in Queued(x)' : events'[w].profile = P' /\ \A y \in Queued(x)' : y <= w
        BY <2>a, <3>1, <4>1, <4>2, <4>3
      <4> QED BY <1>4, <2>2, <4>1, <4>4 DEF Tells, P
    <3> QED BY <3>3, <3>4
  <2>3. CASE ~ Unsent(x) /\ Queued(x) = {}
    <3>1. Queued(x)' = {}
      BY <1>5, <2>3
    <3>2. x \in DOMAIN view /\ view[x] = P
      BY <2>3, <2>a DEF Tells
    <3>3. x \in DOMAIN view' /\ view'[x] = P
      BY <1>7, <2>3, <3>2
    <3> QED BY <1>4, <2>3, <2>a, <3>1, <3>3 DEF Tells, P
  <2> QED BY <2>1, <2>2, <2>3
<1> QED BY <1>10, <1>11

(* Each step keeps the devices in order and the reader able to catch up.    *)
LEMMA DiscoveryStep == DiscoveryInv /\ [Next]_vars => DiscoveryInv'
<1> SUFFICES ASSUME ScanInv, DeviceInv, AnnounceInv, CatchUpInv, [Next]_vars
             PROVE  DeviceInv' /\ AnnounceInv' /\ CatchUpInv'
  BY ScanInvStep DEF DiscoveryInv
<1>a. ASSUME UNCHANGED <<outbox, devices, events, view, dropped>>
      PROVE  AnnounceInv' /\ CatchUpInv'
  <2>1. \A x : Queued(x)' = Queued(x) /\ Unsent(x)' = Unsent(x)
    BY <1>a DEF Queued, Unsent
  <2>2. AnnounceInv'
    BY <1>a, <2>1 DEF AnnounceInv, AnnouncedOnce, Known
  <2>3. ASSUME NEW x \in Known \ dropped PROVE Tells(x, Profile(devices[x]))'
    <3>1. Tells(x, Profile(devices[x])) /\ Profile(devices[x])' = Profile(devices[x])
      BY <1>a DEF CatchUpInv, Profile
    <3> HIDE DEF Profile
    <3> QED BY <1>a, <2>1, <3>1 DEF Tells
  <2> QED BY <1>a, <2>2, <2>3 DEF CatchUpInv, Known
<1>b. ASSUME UNCHANGED devices PROVE CountersAgree'
  BY <1>b DEF DeviceInv, CountersAgree, Known
<1>1. CASE Receive
  <2>1. packet' # <<>> => packet'[1] \in Packets
    BY <1>1 DEF Receive, DeviceInv
  <2>2. DeviceInv'
    BY <1>1, <1>b, <2>1 DEF Receive, DeviceInv, Known
  <2> QED BY <1>1, <1>a, <2>2 DEF Receive
<1>2. CASE UpdateSource
  <2> DEFINE p == packet[1]
             d == Sent(Lookup(p.src), p, packet[2])
  <2>1. p \in Packets /\ packet[2] \in Nat /\ outbox = <<>>
    BY <1>2 DEF UpdateSource, ScanInv, DeviceInv
  <2>2. /\ d \in Device /\ IsFiniteSet(d.ips) /\ Agree(d)
        /\ p.src \in Known => devices[p.src].ips \subseteq d.ips
    BY <2>1, LookupFacts, SentFields
  <2>3. /\ StoreDevice(p.src, d) /\ UNCHANGED <<events, view, dropped>>
        /\ packet' \in {<<>>, packet} /\ stage' # "source"
    BY <1>2 DEF UpdateSource
  <2>4. packet' # <<>> => packet'[1] \in Packets
    BY <2>1, <2>3
  <2> HIDE DEF p, d
  <2>5. /\ \A x \in Known' : devices'[x] \in Device /\ IsFiniteSet(devices'[x].ips)
        /\ CountersAgree' /\ AnnounceInv' /\ CatchUpInv'
    BY <2>1, <2>2, <2>3, StoreTells
  <2> QED BY <2>3, <2>4, <2>5 DEF DeviceInv
<1>3. CASE UpdateDestination
  <2> DEFINE p == packet[1]
             d == Received(Lookup(p.dst), p, packet[2])
  <2>1. p \in Packets /\ packet[2] \in Nat /\ outbox = <<>>
    BY <1>3 DEF UpdateDestination, ScanInv, DeviceInv
  <2>2. /\ d \in Device /\ IsFiniteSet(d.ips) /\ Agree(d)
        /\ p.dst \in Known => devices[p.dst].ips \subseteq d.ips
    BY <2>1, LookupFacts, ReceivedFields
  <2>3. /\ StoreDevice(p.dst, d) /\ UNCHANGED <<events, view, dropped>>
        /\ packet' = <<>> /\ stage' # "source"
    BY <1>3 DEF UpdateDestination
  <2> HIDE DEF p, d
  <2>4. /\ \A x \in Known' : devices'[x] \in Device /\ IsFiniteSet(devices'[x].ips)
        /\ CountersAgree' /\ AnnounceInv' /\ CatchUpInv'
    BY <2>1, <2>2, <2>3, StoreTells
  <2> QED BY <2>3, <2>4 DEF DeviceInv
<1>4. CASE Announce
  <2>1. DeviceInv'
    BY <1>4, <1>b DEF Announce, DeviceInv, Known
  <2> QED BY <1>4, <2>1, AnnounceStep
<1>5. ASSUME NEW m \in Mac, ScanDevice(m) PROVE DeviceInv' /\ AnnounceInv' /\ CatchUpInv'
  <2>1. DeviceInv'
    BY <1>5, <1>b DEF ScanDevice, DeviceInv, Known
  <2>2. /\ UNCHANGED <<outbox, devices, view, dropped>>
        /\ TrySend(Event("offline", m, <<>>)) \/ UNCHANGED events
    BY <1>5 DEF ScanDevice
  <2> QED BY <1>a, <2>1, <2>2, OfflineStep
<1>6. CASE Consume
  <2>1. DeviceInv'
    BY <1>6, <1>b DEF Consume, DeviceInv, Known
  <2> QED BY <1>6, <2>1, ConsumeStep
<1>7. CASE ScanList \/ ScanReadNow \/ Tick \/ UNCHANGED vars
  <2>1. UNCHANGED <<packet, stage, outbox, devices, events, view, dropped>>
    BY <1>7 DEF ScanList, ScanReadNow, Tick, vars
  <2>2. DeviceInv'
    BY <1>b, <2>1 DEF DeviceInv, Known
  <2> QED BY <1>a, <2>1, <2>2
<1> QED BY <1>1, <1>2, <1>3, <1>4, <1>5, <1>6, <1>7 DEF Next

(* The inductive invariant of discovery, for any devices, packets, capacity *)
(* and width of the counters.                                               *)
THEOREM DiscoveryInvariant == Spec => []DiscoveryInv
<1>1. Init => DiscoveryInv
  <2> SUFFICES ASSUME Init PROVE DiscoveryInv
    OBVIOUS
  <2>1. ScanInv
    BY InitScan
  <2>2. /\ DOMAIN events = {} /\ outbox = <<>>
        /\ DOMAIN view = Known /\ \A m \in Known : view[m] = Profile(devices[m])
    BY DEF Init
  <2>3. DeviceInv
    <3>1. \A m \in Known :
            devices[m] \in Device /\ IsFiniteSet(devices[m].ips) /\ Agree(devices[m])
      BY StoredAssumption DEF Init, Known
    <3> QED BY <3>1 DEF Init, DeviceInv, CountersAgree
  <2>4. \A m : ~ Unsent(m) /\ Queued(m) = {}
    BY <2>2 DEF Unsent, Queued
  <2>5. AnnounceInv /\ CatchUpInv
    BY <2>2, <2>4 DEF AnnounceInv, AnnouncedOnce, CatchUpInv, Tells
  <2> QED BY <2>1, <2>3, <2>5 DEF DiscoveryInv
<1> QED BY <1>1, DiscoveryStep, PTL DEF Spec

(* record_sent and record_received: the packet counter is the saturated sum *)
(* of the counters by protocol, whatever the traffic.                       *)
THEOREM CountersConsistent == Spec => []CountersAgree
<1>1. DiscoveryInv => CountersAgree
  BY DEF DiscoveryInv, DeviceInv
<1> QED BY <1>1, DiscoveryInvariant, PTL

(* update_devices: a device is announced as new at most once.               *)
THEOREM NewOnce == Spec => []AnnouncedOnce
<1>1. DiscoveryInv => AnnouncedOnce
  BY DEF DiscoveryInv, AnnounceInv
<1> QED BY <1>1, DiscoveryInvariant, PTL

(* update_devices: leaving out the events of unchanged devices loses        *)
(* nothing; the queued events bring the reader up to the present.           *)
THEOREM CatchesUp == Spec => []ReaderCatchesUp
<1>1. DiscoveryInv => ReaderCatchesUp
  <2> SUFFICES ASSUME DiscoveryInv, NEW m \in Known \ dropped
               PROVE  LastHeard(m) = Profile(devices[m])
    BY DEF ReaderCatchesUp
  <2>1. Tells(m, Profile(devices[m]))
    BY DEF DiscoveryInv, CatchUpInv
  <2>2. CASE Unsent(m) \/ Queued(m) = {}
    BY <2>1, <2>2 DEF LastHeard, Tells
  <2>3. CASE ~ Unsent(m) /\ Queued(m) # {}
    <3>1. PICK x \in Queued(m) : /\ events[x].profile = Profile(devices[m])
                                 /\ \A y \in Queued(m) : y <= x
      BY <2>1, <2>3 DEF Tells
    <3>2. Queued(m) \subseteq Nat
      BY LenProperties DEF DiscoveryInv, ScanInv, Queued
    <3>3. /\ Max(Queued(m)) \in Queued(m)
          /\ \A y \in Queued(m) : Max(Queued(m)) >= y
      <4>1. \E z \in Queued(m) : \A y \in Queued(m) : z >= y
        BY <3>1, <3>2
      <4> HIDE DEF Queued
      <4> QED BY <4>1 DEF Max
    <3>4. Max(Queued(m)) = x
      BY <3>1, <3>2, <3>3
    <3> QED BY <2>3, <3>1, <3>4 DEF LastHeard
  <2> QED BY <2>2, <2>3
<1> QED BY <1>1, DiscoveryInvariant, PTL

=============================================================================
