--------------------------- MODULE RuleEngine_proofs ---------------------------
(***************************************************************************)
(* The rule engine proved right for any rules, devices, events, channel     *)
(* capacities and failures of the store: cooldowns are kept, an             *)
(* acknowledgment lets at most one alert slip, and every alert is accounted *)
(* for.                                                                     *)
(***************************************************************************)
EXTENDS RuleEngine, SequenceTheorems, TLAPS

(* The current event has a known address and the current rule a name.       *)
LEMMA CurrentTyped ==
  ASSUME TypeOK
  PROVE  /\ event # <<>> => Current \in Events /\ Current.mac \in Mac
         /\ i \in Position => Rule.name \in Names
         /\ \A p \in Position : Rules[p].cooldown \in Nat
<1>1. \A e \in Events : e.mac \in Mac
  BY RulesAssumption
<1>2. event # <<>> => Current \in Events
  BY DEF TypeOK, Current
<1>3. \A p \in Position : Rules[p].cooldown \in Nat
  <2> DEFINE R == [name : STRING, enabled : BOOLEAN, condition : Conditions,
                   macs : SUBSET Mac, cooldown : Nat]
  <2>1. \A r \in R : r.cooldown \in Nat
    OBVIOUS
  <2>2. Rules \in Seq(R)
    BY RulesAssumption
  <2> HIDE DEF R
  <2> QED BY <2>1, <2>2, ElementOfSeq DEF Position
<1> QED BY <1>1, <1>2, <1>3 DEF Names, Rule

(* Each step keeps the types.                                               *)
LEMMA TypeStep == TypeOK /\ [Next]_vars => TypeOK'
<1> SUFFICES ASSUME TypeOK, [Next]_vars PROVE TypeOK'
  OBVIOUS
<1>a. /\ event # <<>> => Current \in Events /\ Current.mac \in Mac
      /\ i \in Position => Rule.name \in Names
      /\ i \in Nat /\ i + 1 \in Nat
  BY CurrentTyped DEF TypeOK
<1> USE DEF TypeOK, engineVars, alertVars, historyVars
<1>1. CASE Emit
  <2>1. PICK e \in Events :
          events' = IF Len(events) < EventCap THEN Append(events, e) ELSE events
    BY <1>1 DEF Emit
  <2>2. events' \in Seq(Events)
    BY <2>1, AppendProperties
  <2> QED BY <1>1, <2>2 DEF Emit
<1>2. ASSUME NEW id \in DOMAIN store, Acknowledge(id) PROVE TypeOK'
  <2>1. /\ DOMAIN store' = DOMAIN store
        /\ store' \in [DOMAIN store' -> [name : Names, mac : Mac, acked : BOOLEAN]]
    BY <1>2 DEF Acknowledge
  <2> QED BY <1>2, <2>1 DEF Acknowledge
<1>3. ASSUME NEW id \in DOMAIN store, Delete(id) PROVE TypeOK'
  <2>1. /\ DOMAIN store' \subseteq DOMAIN store
        /\ store' \in [DOMAIN store' -> [name : Names, mac : Mac, acked : BOOLEAN]]
    BY <1>3 DEF Delete, Without
  <2>2. slipped' \in [Names -> [Mac -> Nat]]
    BY <1>3 DEF Delete
  <2> QED BY <1>3, <2>1, <2>2 DEF Delete
<1>4. CASE Take
  <2>1. chan' \in Seq(Nat) /\ left' \in Seq(Nat)
    BY <1>4, HeadTailProperties, AppendProperties DEF Take
  <2> QED BY <1>4, <2>1 DEF Take
<1>5. CASE Tick
  BY <1>5 DEF Tick
<1>6. CASE Recv
  <2>1. Head(events) \in Events /\ Tail(events) \in Seq(Events)
    BY <1>6, HeadTailProperties DEF Recv
  <2> QED BY <1>6, <2>1 DEF Recv
<1>7. CASE SkipRule
  BY <1>7, <1>a DEF SkipRule
<1>8. CASE PassRule
  <2>1. lastFired' \in [Position -> [Mac -> Nat]]
    BY <1>8, <1>a DEF PassRule
  <2> QED BY <1>8, <2>1 DEF PassRule
<1>9. CASE CheckAck
  BY <1>9, <1>a DEF CheckAck
<1>10. CASE CheckAckFails
  <2>1. Range(collected) \subseteq Nat
    BY LenProperties DEF Range
  <2> QED BY <1>10, <2>1 DEF CheckAckFails
<1>11. ASSUME NEW id \in Nat, Collect(id), pc = "insert"
       PROVE  /\ collected' \in Seq(Nat)
              /\ fired' \in [Position -> [Mac -> Nat]]
              /\ slipped' \in [Names -> [Mac -> Nat]]
  <2>1. collected' \in Seq(Nat)
    BY <1>11, AppendProperties DEF Collect
  <2>2. fired' \in [Position -> [Mac -> Nat]]
    <3> DEFINE m == Current.mac
               t == IF Rule.cooldown = 0 THEN clock ELSE lastFired[i][m]
    <3>1. m \in Mac /\ i \in Position /\ t \in Nat
      BY <1>11, <1>a
    <3>2. fired' = [fired EXCEPT ![i][m] = t]
      BY <1>11 DEF Collect
    <3> HIDE DEF m, t
    <3>3. fired[i] \in [Mac -> Nat] /\ [fired[i] EXCEPT ![m] = t] \in [Mac -> Nat]
      BY <3>1
    <3> QED BY <3>1, <3>2, <3>3
  <2>3. slipped' \in [Names -> [Mac -> Nat]]
    <3> DEFINE n == Rule.name
               m == Current.mac
    <3>1. n \in Names /\ m \in Mac
      BY <1>11, <1>a
    <3>2. slipped' = slipped \/ slipped' = [slipped EXCEPT ![n][m] = slipped[n][m] + 1]
      BY <1>11 DEF Collect
    <3> HIDE DEF n, m
    <3>3. slipped[n][m] + 1 \in Nat /\ slipped[n] \in [Mac -> Nat]
      BY <3>1
    <3>4. [slipped[n] EXCEPT ![m] = slipped[n][m] + 1] \in [Mac -> Nat]
      BY <3>1, <3>3
    <3> QED BY <3>1, <3>2, <3>4
  <2> QED BY <2>1, <2>2, <2>3
<1>12. CASE Insert
  <2>1. /\ DOMAIN store' = DOMAIN store \cup {nextId}
        /\ store' \in [DOMAIN store' -> [name : Names, mac : Mac, acked : BOOLEAN]]
    BY <1>12, <1>a DEF Insert
  <2>2. nextId' \in Nat \ {0} /\ DOMAIN store' \subseteq 1 .. nextId' - 1
    BY <1>12, <2>1 DEF Insert
  <2> QED BY <1>12, <1>11, <1>a, <2>1, <2>2 DEF Insert, Collect
<1>13. CASE InsertFails
  BY <1>13, <1>11, <1>a DEF InsertFails, Collect
<1>14. CASE RulesDone
  BY <1>14 DEF RulesDone
<1>15. CASE Send
  <2>1. /\ Head(collected) \in Nat /\ Tail(collected) \in Seq(Nat)
        /\ Append(chan, Head(collected)) \in Seq(Nat)
        /\ Append(left, Head(collected)) \in Seq(Nat)
    BY <1>15, HeadTailProperties, AppendProperties DEF Send
  <2> QED BY <1>15, <2>1 DEF Send
<1>16. CASE SendDone
  BY <1>16 DEF SendDone
<1>17. CASE UNCHANGED vars
  BY <1>17 DEF vars
<1> QED
  BY <1>1, <1>2, <1>3, <1>4, <1>5, <1>6, <1>7, <1>8, <1>9, <1>10, <1>12, <1>13,
     <1>14, <1>15, <1>16, <1>17 DEF Next, EngineStep, Requests

(* Only an acknowledge request makes a pair acknowledged, only a delete     *)
(* request ends it.                                                         *)
LEMMA AcknowledgedStep ==
  ASSUME TypeOK, NEW n \in Names, NEW m \in Mac
  PROVE  /\ \A id \in DOMAIN store : Acknowledge(id) /\ IsAcknowledged(n, m)
              => IsAcknowledged(n, m)'
         /\ Insert => (IsAcknowledged(n, m)' <=> IsAcknowledged(n, m))
         /\ store' = store => (IsAcknowledged(n, m)' <=> IsAcknowledged(n, m))
<1>1. ASSUME NEW id \in DOMAIN store, Acknowledge(id), IsAcknowledged(n, m)
      PROVE  IsAcknowledged(n, m)'
  <2>1. PICK x \in DOMAIN store : store[x].name = n /\ store[x].mac = m /\ store[x].acked
    BY <1>1 DEF IsAcknowledged, Suppresses
  <2>2. /\ x \in DOMAIN store'
        /\ store'[x].name = n /\ store'[x].mac = m /\ store'[x].acked
    BY <1>1, <2>1 DEF Acknowledge, TypeOK
  <2> QED BY <2>2 DEF IsAcknowledged, Suppresses
<1>2. ASSUME Insert PROVE IsAcknowledged(n, m)' <=> IsAcknowledged(n, m)
  <2>1. nextId \notin DOMAIN store
    BY DEF TypeOK
  <2>2. /\ DOMAIN store' = DOMAIN store \cup {nextId}
        /\ \A x \in DOMAIN store : store'[x] = store[x]
        /\ ~store'[nextId].acked
    BY <1>2, <2>1 DEF Insert
  <2> QED BY <2>1, <2>2 DEF IsAcknowledged, Suppresses
<1>3. store' = store => (IsAcknowledged(n, m)' <=> IsAcknowledged(n, m))
  BY DEF IsAcknowledged
<1> QED BY <1>1, <1>2, <1>3

(* Each step keeps SlipInv: what counts is that an evaluation goes from its *)
(* acknowledgment lookup to the insert without producing another alert.     *)
LEMMA SlipStep == TypeOK /\ SlipInv /\ [Next]_vars => SlipInv'
<1> SUFFICES ASSUME TypeOK, SlipInv, [Next]_vars PROVE SlipInv'
  OBVIOUS
<1>a. /\ pc # "recv" => Current \in Events /\ Current.mac \in Mac
      /\ pc \in {"ack", "insert"} => Rule.name \in Names
      /\ slipped \in [Names -> [Mac -> Nat]]
  BY CurrentTyped DEF TypeOK
<1> USE DEF engineVars, alertVars, historyVars
<1>1. ASSUME UNCHANGED <<store, slipped>>,
             pc' = "insert" => pc = "insert" /\ UNCHANGED <<i, event>>
      PROVE  SlipInv'
  BY <1>1 DEF SlipInv, AckSlipsAtMostOne, IsAcknowledged, Rule, Current
<1>2. ASSUME NEW id \in DOMAIN store, Acknowledge(id) PROVE SlipInv'
  <2>1. \A n \in Names, m \in Mac : slipped'[n][m] > 0 => IsAcknowledged(n, m)'
    BY <1>2, AcknowledgedStep DEF SlipInv, Acknowledge
  <2> QED BY <1>2, <2>1 DEF SlipInv, AckSlipsAtMostOne, Acknowledge, Rule, Current
<1>3. ASSUME NEW id \in DOMAIN store, Delete(id) PROVE SlipInv'
  <2>1. \A n \in Names, m \in Mac :
          slipped'[n][m] = IF IsAcknowledged(n, m)' THEN slipped[n][m] ELSE 0
    BY <1>3 DEF Delete, IsAcknowledged
  <2>2. \A n \in Names, m \in Mac :
          /\ slipped'[n][m] > 0 => IsAcknowledged(n, m)'
          /\ slipped'[n][m] \in {0, slipped[n][m]}
    BY <2>1
  <2>3. pc' = "insert" => (slipped[Rule.name][Current.mac])' = 0
    BY <1>3, <1>a, <2>2 DEF Delete, SlipInv, Rule, Current
  <2> QED BY <2>2, <2>3, <1>a DEF SlipInv, AckSlipsAtMostOne
<1>4. ASSUME NEW id, Collect(id), pc = "insert",
             \A n \in Names, m \in Mac : IsAcknowledged(n, m)' <=> IsAcknowledged(n, m)
      PROVE  SlipInv'
  <2> DEFINE n0 == Rule.name
             m0 == Current.mac
  <2>1. n0 \in Names /\ m0 \in Mac /\ slipped[n0][m0] = 0
    BY <1>4, <1>a DEF SlipInv
  <2>2. \/ slipped' = slipped
        \/ IsAcknowledged(n0, m0) /\ slipped' = [slipped EXCEPT ![n0][m0] = slipped[n0][m0] + 1]
    BY <1>4 DEF Collect
  <2> HIDE DEF n0, m0
  <2>3. \A n \in Names, m \in Mac :
          \/ slipped'[n][m] = slipped[n][m]
          \/ IsAcknowledged(n, m) /\ slipped'[n][m] = 1
    BY <2>1, <2>2, <1>a
  <2>4. pc' = "rule"
    BY <1>4 DEF Collect
  <2> QED BY <1>4, <2>3, <2>4 DEF SlipInv, AckSlipsAtMostOne
<1>5. CASE CheckAck
  <2>1. CASE IsAcknowledged(Rule.name, Current.mac)
    BY <1>1, <1>5, <2>1 DEF CheckAck
  <2>2. CASE ~IsAcknowledged(Rule.name, Current.mac)
    <3>1. slipped[Rule.name][Current.mac] = 0
      BY <1>5, <1>a, <2>2 DEF SlipInv, CheckAck
    <3> QED BY <1>5, <2>2, <3>1 DEF SlipInv, AckSlipsAtMostOne, IsAcknowledged,
                                    CheckAck, Rule, Current
  <2> QED BY <2>1, <2>2
<1>6. CASE Insert
  <2>1. pc = "insert" /\ Collect(nextId)
    BY <1>6 DEF Insert
  <2> QED BY <1>4, <1>6, <2>1, AcknowledgedStep
<1>7. CASE InsertFails
  <2>1. pc = "insert" /\ Collect(0) /\ store' = store
    BY <1>7 DEF InsertFails
  <2> QED BY <1>4, <2>1, AcknowledgedStep
<1>8. CASE UNCHANGED vars
  BY <1>1, <1>8 DEF vars
<1> QED
  BY <1>1, <1>2, <1>3, <1>5, <1>6, <1>7, <1>8
     DEF Next, EngineStep, Requests, Emit, Take, Tick, Recv, SkipRule, PassRule,
         CheckAckFails, RulesDone, Send, SendDone

(* Each step keeps CooldownInv, and lets a rule fire for a device only when *)
(* its cooldown has passed since the last time.                             *)
LEMMA CooldownStep ==
  ASSUME TypeOK, CooldownInv, [Next]_vars
  PROVE  CooldownInv' /\ FiresSpaced
<1>a. /\ pc # "recv" => Current.mac \in Mac
      /\ \A p \in Position : Rules[p].cooldown \in Nat
      /\ pc \in {"ack", "insert"} => i \in Position
      /\ clock \in Nat
      /\ lastFired \in [Position -> [Mac -> Nat]]
      /\ fired \in [Position -> [Mac -> Nat]]
  BY CurrentTyped DEF TypeOK
<1>b. \A p \in Position, m \in Mac : lastFired[p][m] \in Nat /\ fired[p][m] \in Nat
  BY <1>a
<1> USE DEF engineVars, alertVars, historyVars
<1>1. ASSUME UNCHANGED <<lastFired, fired>>, clock' \in Nat, clock <= clock',
             pc' \in {"ack", "insert"} => pc \in {"ack", "insert"} /\ UNCHANGED <<i, event>>
      PROVE  CooldownInv' /\ FiresSpaced
  BY <1>1, <1>a, <1>b DEF CooldownInv, Current, FiresSpaced
<1>2. CASE PassRule
  <2> DEFINE m0 == Current.mac
  <2>1. i \in Position /\ m0 \in Mac /\ m0' = m0 /\ UNCHANGED <<clock, i, fired, event>>
    BY <1>2, <1>a DEF PassRule, Current
  <2>2. CASE Rules[i].cooldown = 0
    BY <1>2, <1>a, <2>1, <2>2 DEF PassRule, CooldownInv, Current, Rule, FiresSpaced, Never
  <2>3. CASE Rules[i].cooldown > 0
    <3>1. lastFired' = [lastFired EXCEPT ![i][m0] = clock]
      BY <1>2, <2>3 DEF PassRule, Rule
    <3>2. lastFired[i][m0] = Never \/ clock - lastFired[i][m0] >= Rules[i].cooldown
      BY <1>2, <1>a, <1>b, <2>1, <2>3 DEF PassRule, OnCooldown
    <3>3. fired[i][m0] = Never \/ clock - fired[i][m0] >= Rules[i].cooldown
      BY <3>2, <1>a, <1>b, <2>1, <2>3 DEF CooldownInv, Never
    <3> HIDE DEF m0
    <3>4. \A p \in Position, m \in Mac :
            lastFired'[p][m] = IF p = i /\ m = m0 THEN clock ELSE lastFired[p][m]
      BY <3>1, <1>a, <2>1
    <3>5. m0 = Current.mac
      BY DEF m0
    <3> QED BY <3>3, <3>4, <3>5, <1>a, <1>b, <2>1, <2>3 DEF CooldownInv, Current, FiresSpaced
  <2> QED BY <2>1, <2>2, <2>3, <1>a
<1>3. ASSUME NEW id, Collect(id), pc = "insert", UNCHANGED <<clock, lastFired, event>>
      PROVE  CooldownInv' /\ FiresSpaced
  <2> DEFINE m0 == Current.mac
             t0 == IF Rules[i].cooldown = 0 THEN clock ELSE lastFired[i][m0]
  <2>1. i \in Position /\ m0 \in Mac /\ pc' = "rule"
    BY <1>3, <1>a DEF Collect
  <2>2. fired' = [fired EXCEPT ![i][m0] = t0]
    BY <1>3 DEF Collect, Rule
  <2>3. /\ t0 \in Nat /\ t0 <= clock
        /\ Rules[i].cooldown > 0 => t0 = lastFired[i][m0]
        /\ fired[i][m0] = Never \/ t0 - fired[i][m0] >= Rules[i].cooldown
    BY <1>3, <1>a, <1>b, <2>1 DEF CooldownInv
  <2> HIDE DEF m0, t0
  <2>4. \A p \in Position, m \in Mac :
          fired'[p][m] = IF p = i /\ m = m0 THEN t0 ELSE fired[p][m]
    BY <1>a, <2>1, <2>2
  <2> QED BY <1>3, <1>a, <1>b, <2>1, <2>3, <2>4 DEF CooldownInv, FiresSpaced
<1>4. CASE Insert
  BY <1>3, <1>4 DEF Insert
<1>5. CASE InsertFails
  BY <1>3, <1>5 DEF InsertFails
<1>6. CASE Tick
  BY <1>1, <1>6, <1>a DEF Tick
<1>7. CASE UNCHANGED vars
  BY <1>1, <1>7, <1>a DEF vars
<1>8. clock <= clock
  BY <1>a
<1>9. CASE Emit \/ Take \/ Recv \/ SkipRule \/ CheckAck
  BY <1>1, <1>8, <1>9, <1>a DEF Emit, Take, Recv, SkipRule, CheckAck
<1>10. CASE CheckAckFails \/ RulesDone \/ Send \/ SendDone
  BY <1>1, <1>8, <1>10, <1>a DEF CheckAckFails, RulesDone, Send, SendDone
<1>11. ASSUME NEW id \in DOMAIN store, Acknowledge(id) \/ Delete(id)
       PROVE  CooldownInv' /\ FiresSpaced
  BY <1>1, <1>8, <1>11, <1>a DEF Acknowledge, Delete
<1>12. CASE Requests
  BY <1>11, <1>12 DEF Requests
<1> QED
  BY <1>2, <1>4, <1>5, <1>6, <1>7, <1>9, <1>10, <1>12 DEF Next, EngineStep

(* The head of a queue that moves to the end of the queue before it.        *)
LEMMA HeadMoves ==
  ASSUME NEW S, NEW s \in Seq(S), NEW t \in Seq(S), t # <<>>
  PROVE  Append(s, Head(t)) \o Tail(t) = s \o t
<1> DEFINE u == Append(s, Head(t))
<1>1. /\ Head(t) \in S /\ Head(t) = t[1] /\ Tail(t) \in Seq(S)
      /\ Len(Tail(t)) = Len(t) - 1
      /\ \A k \in 1 .. Len(Tail(t)) : Tail(t)[k] = t[k + 1]
  BY HeadTailProperties
<1>2. /\ u \in Seq(S) /\ Len(u) = Len(s) + 1
      /\ \A k \in 1 .. Len(s) : u[k] = s[k]
      /\ u[Len(s) + 1] = t[1]
  BY <1>1, AppendProperties
<1> HIDE DEF u
<1>3. /\ u \o Tail(t) \in Seq(S)
      /\ Len(u \o Tail(t)) = Len(u) + Len(Tail(t))
      /\ \A k \in 1 .. Len(u) + Len(Tail(t)) :
           (u \o Tail(t))[k] = IF k <= Len(u) THEN u[k] ELSE Tail(t)[k - Len(u)]
  BY <1>1, <1>2, ConcatProperties
<1>4. /\ s \o t \in Seq(S)
      /\ Len(s \o t) = Len(s) + Len(t)
      /\ \A k \in 1 .. Len(s) + Len(t) :
           (s \o t)[k] = IF k <= Len(s) THEN s[k] ELSE t[k - Len(s)]
  BY ConcatProperties
<1>5. Len(s) \in Nat /\ Len(t) \in Nat /\ Len(t) > 0
  BY EmptySeq, LenProperties
<1>6. Len(u \o Tail(t)) = Len(s \o t)
  BY <1>1, <1>2, <1>3, <1>4, <1>5
<1>7. ASSUME NEW k \in 1 .. Len(s \o t) PROVE (u \o Tail(t))[k] = (s \o t)[k]
  <2>0. k \in 1 .. Len(s) + Len(t) /\ k \in 1 .. Len(u) + Len(Tail(t))
    BY <1>1, <1>2, <1>4, <1>5
  <2>a. /\ (u \o Tail(t))[k] = IF k <= Len(s) + 1 THEN u[k] ELSE Tail(t)[k - Len(s) - 1]
        /\ (s \o t)[k] = IF k <= Len(s) THEN s[k] ELSE t[k - Len(s)]
    BY <2>0, <1>2, <1>3, <1>4, <1>5
  <2>1. CASE k <= Len(s)
    BY <2>0, <2>a, <2>1, <1>2, <1>5
  <2>2. CASE k = Len(s) + 1
    BY <2>0, <2>a, <2>2, <1>2, <1>5
  <2>3. CASE k > Len(s) + 1
    <3>1. Tail(t)[k - Len(s) - 1] = t[k - Len(s)]
      BY <2>0, <2>3, <1>1, <1>5
    <3> QED BY <2>0, <2>a, <2>3, <3>1, <1>5
  <2> QED BY <2>0, <2>1, <2>2, <2>3, <1>5
<1>8. u \o Tail(t) = s \o t
  BY <1>3, <1>4, <1>6, <1>7, SeqEqual
<1> QED BY <1>8 DEF u

(* An alert that is taken or sent moves within Outgoing and changes nothing;*)
(* a collected one comes last.                                              *)
LEMMA OutgoingSteps ==
  ASSUME TypeOK
  PROVE  /\ Outgoing \in Seq(Nat)
         /\ Take => Outgoing' = Outgoing
         /\ Send /\ AccountInv => Outgoing' = Outgoing
         /\ \A id \in Nat : Collect(id) /\ chan' = chan => Outgoing' = Append(Outgoing, id)
<1>0. left \in Seq(Nat) /\ chan \in Seq(Nat) /\ collected \in Seq(Nat)
  BY DEF TypeOK
<1>1. Outgoing \in Seq(Nat) /\ left \o chan \in Seq(Nat)
  BY <1>0, ConcatProperties DEF Outgoing
<1>2. ASSUME Take PROVE Outgoing' = Outgoing
  <2>1. left' \o chan' = left \o chan
    BY <1>0, <1>2, HeadMoves DEF Take
  <2> QED BY <1>2, <2>1 DEF Take, Outgoing, engineVars
<1>3. ASSUME Send, AccountInv PROVE Outgoing' = Outgoing
  <2>1. /\ Head(collected) \in Nat /\ Tail(collected) \in Seq(Nat)
        /\ collected # <<>>
    BY <1>0, <1>3, HeadTailProperties DEF Send
  <2>2. CASE hasNotifiers
    <3>1. left' = left /\ chan' = Append(chan, Head(collected)) /\ collected' = Tail(collected)
      BY <1>3, <2>2 DEF Send
    <3>2. left \o Append(chan, Head(collected)) = Append(left \o chan, Head(collected))
      <4>1. /\ Append(chan, Head(collected)) = chan \o <<Head(collected)>>
            /\ Append(left \o chan, Head(collected)) = (left \o chan) \o <<Head(collected)>>
            /\ <<Head(collected)>> \in Seq(Nat)
        BY <1>0, <1>1, <2>1, AppendIsConcat
      <4>2. (left \o chan) \o <<Head(collected)>> = left \o (chan \o <<Head(collected)>>)
        BY <1>0, <4>1, ConcatAssociative, SMTT(30)
      <4> QED BY <4>1, <4>2, Zenon
    <3>3. Append(left \o chan, Head(collected)) \o Tail(collected) = (left \o chan) \o collected
      BY <1>0, <1>1, <2>1, HeadMoves
    <3> QED BY <3>1, <3>2, <3>3 DEF Outgoing
  <2>3. CASE ~hasNotifiers
    <3>1. /\ left' = Append(left, Head(collected)) /\ chan = <<>> /\ chan' = <<>>
          /\ collected' = Tail(collected)
      BY <1>3, <2>3 DEF Send, AccountInv
    <3>2. /\ left \o <<>> = left
          /\ Append(left, Head(collected)) \o <<>> = Append(left, Head(collected))
      BY <1>0, <2>1, AppendProperties, ConcatEmptySeq
    <3>3. Append(left, Head(collected)) \o Tail(collected) = left \o collected
      BY <1>0, <2>1, HeadMoves
    <3> QED BY <3>1, <3>2, <3>3 DEF Outgoing
  <2> QED BY <2>2, <2>3
<1>4. ASSUME NEW id \in Nat, Collect(id), chan' = chan PROVE Outgoing' = Append(Outgoing, id)
  <2>1. /\ Append(collected, id) = collected \o <<id>>
        /\ Append(Outgoing, id) = Outgoing \o <<id>>
    BY <1>0, <1>1, AppendIsConcat
  <2>2. ((left \o chan) \o collected) \o <<id>> = (left \o chan) \o (collected \o <<id>>)
    <3>1. <<id>> \in Seq(Nat)
      OBVIOUS
    <3> QED BY <1>0, <1>1, <3>1, ConcatAssociative, SMTT(30)
  <2>3. left' = left /\ collected' = Append(collected, id)
    BY <1>4 DEF Collect
  <2> QED BY <1>4, <2>1, <2>2, <2>3, Zenon DEF Outgoing
<1> QED BY <1>1, <1>2, <1>3, <1>4

(* An alert with the next id, or with none, may join at the end.            *)
LEMMA AccountedAppend ==
  ASSUME TypeOK, AlertsAccounted, NEW id \in {0, nextId}, lost' = lost,
         Outgoing' = Append(Outgoing, id),
         nextId' = IF id = 0 THEN nextId ELSE nextId + 1
  PROVE  AlertsAccounted'
<1>1. Outgoing \in Seq(Nat) /\ nextId \in Nat \ {0} /\ lost \in SUBSET Nat
  BY OutgoingSteps DEF TypeOK
<1> DEFINE n == Len(Outgoing)
<1>2. /\ n \in Nat /\ DOMAIN Outgoing = 1 .. n
      /\ \A x \in 1 .. n : Outgoing[x] \in Nat
  BY <1>1, LenProperties, ElementOfSeq
<1>3. /\ Outgoing' \in Seq(Nat) /\ Len(Outgoing') = n + 1
      /\ \A x \in 1 .. n : Outgoing'[x] = Outgoing[x]
      /\ Outgoing'[n + 1] = id
  BY <1>1, AppendProperties
<1>4. DOMAIN Outgoing' = 1 .. n + 1
  BY <1>3, LenProperties
<1> HIDE DEF n
<1>5. Range(Outgoing') = Range(Outgoing) \cup {id}
  BY <1>2, <1>3, <1>4 DEF Range
<1>6. \A x \in 1 .. n : Persisted(Outgoing[x]) => Outgoing[x] < nextId
  <2>1. \A x \in 1 .. n : Outgoing[x] \in Range(Outgoing)
    BY <1>2 DEF Range
  <2>2. \A k \in Range(Outgoing) : Persisted(k) => k \in 1 .. nextId - 1
    BY DEF AlertsAccounted
  <2> QED BY <2>1, <2>2, <1>1
<1>7. \A x, y \in DOMAIN Outgoing' :
        x < y /\ Persisted(Outgoing'[x]) /\ Persisted(Outgoing'[y])
          => Outgoing'[x] < Outgoing'[y]
  <2> SUFFICES ASSUME NEW x \in DOMAIN Outgoing', NEW y \in DOMAIN Outgoing', x < y,
                      Persisted(Outgoing'[x]), Persisted(Outgoing'[y])
               PROVE  Outgoing'[x] < Outgoing'[y]
    OBVIOUS
  <2>1. x \in 1 .. n /\ (y \in 1 .. n \/ y = n + 1)
    BY <1>2, <1>4
  <2>2. CASE y \in 1 .. n
    BY <2>1, <2>2, <1>2, <1>3 DEF AlertsAccounted
  <2>3. CASE y = n + 1
    BY <2>1, <2>3, <1>3, <1>6 DEF Persisted
  <2> QED BY <2>1, <2>2, <2>3
<1>8. nextId \notin Range(Outgoing) \cup lost
  BY <1>1 DEF AlertsAccounted, Persisted
<1>9. 1 .. nextId' - 1 = {k \in Range(Outgoing') \cup lost' : Persisted(k)}
  <2>1. CASE id = 0
    BY <2>1, <1>1, <1>5 DEF AlertsAccounted, Persisted
  <2>2. CASE id = nextId
    <3>1. 1 .. nextId' - 1 = (1 .. nextId - 1) \cup {nextId}
      BY <2>2, <1>1
    <3> QED BY <2>2, <3>1, <1>1, <1>5 DEF AlertsAccounted, Persisted
  <2> QED BY <2>1, <2>2
<1>10. \A k \in Range(Outgoing') \cap lost' : ~Persisted(k)
  BY <1>5, <1>8 DEF AlertsAccounted, Persisted
<1> QED BY <1>7, <1>9, <1>10 DEF AlertsAccounted

(* When an evaluation fails, what it had collected is lost and was nowhere  *)
(* else.                                                                    *)
LEMMA AccountedLoss ==
  ASSUME TypeOK, AlertsAccounted, CheckAckFails
  PROVE  AlertsAccounted'
<1>1. /\ left \in Seq(Nat) /\ chan \in Seq(Nat) /\ collected \in Seq(Nat)
      /\ left \o chan \in Seq(Nat)
  BY ConcatProperties DEF TypeOK
<1> DEFINE s == left \o chan
           n == Len(s)
<1>2. /\ Outgoing = s \o collected
      /\ Outgoing' = s
      /\ lost' = lost \cup Range(collected) /\ nextId' = nextId
  BY <1>1, ConcatEmptySeq DEF CheckAckFails, Outgoing, alertVars
<1>3. s \in Seq(Nat)
  BY <1>1
<1> HIDE DEF s
<1>4. /\ Outgoing \in Seq(Nat) /\ Len(Outgoing) = n + Len(collected)
      /\ \A k \in 1 .. n + Len(collected) :
           Outgoing[k] = IF k <= n THEN s[k] ELSE collected[k - n]
  BY <1>1, <1>2, <1>3, ConcatProperties
<1>5. /\ n \in Nat /\ Len(collected) \in Nat
      /\ DOMAIN s = 1 .. n /\ DOMAIN collected = 1 .. Len(collected)
      /\ DOMAIN Outgoing = 1 .. n + Len(collected)
  BY <1>1, <1>3, <1>4, LenProperties
<1> HIDE DEF n
<1>6. /\ \A k \in DOMAIN s : k \in DOMAIN Outgoing /\ Outgoing[k] = s[k]
      /\ \A k \in DOMAIN collected : /\ n + k \in DOMAIN Outgoing
                                      /\ Outgoing[n + k] = collected[k]
                                      /\ \A j \in DOMAIN s : j < n + k
  BY <1>4, <1>5
<1>7. Range(Outgoing) = Range(s) \cup Range(collected)
  <2>1. \A k \in DOMAIN Outgoing :
          k \in DOMAIN s \/ \E j \in DOMAIN collected : k = n + j
    <3> TAKE k \in DOMAIN Outgoing
    <3>1. k \notin DOMAIN s => k - n \in DOMAIN collected /\ k = n + (k - n)
      BY <1>5
    <3> QED BY <3>1
  <2> QED BY <2>1, <1>6 DEF Range
<1>8. \A a \in Range(s), b \in Range(collected) : Persisted(a) /\ Persisted(b) => a < b
  BY <1>6 DEF AlertsAccounted, Range
<1>9. \A a \in Range(s) \cap Range(collected) : ~Persisted(a)
  <2>1. \A a \in Range(s) : a \in Nat
    BY <1>3, <1>5, ElementOfSeq DEF Range
  <2> QED BY <2>1, <1>8
<1>10. \A x, y \in DOMAIN s :
         x < y /\ Persisted(s[x]) /\ Persisted(s[y]) => s[x] < s[y]
  BY <1>6 DEF AlertsAccounted
<1> QED BY <1>2, <1>7, <1>9, <1>10 DEF AlertsAccounted

(* Each step keeps AccountInv.                                              *)
LEMMA AccountStep == TypeOK /\ AccountInv /\ [Next]_vars => AccountInv'
<1> SUFFICES ASSUME TypeOK, AccountInv, [Next]_vars PROVE AccountInv'
  OBVIOUS
<1>0. /\ left \in Seq(Nat) /\ chan \in Seq(Nat) /\ collected \in Seq(Nat)
      /\ nextId \in Nat \ {0}
  BY DEF TypeOK
<1> USE DEF engineVars, alertVars, historyVars
<1>1. ASSUME Outgoing' = Outgoing, UNCHANGED <<lost, nextId>> PROVE AlertsAccounted'
  BY <1>1 DEF AccountInv, AlertsAccounted
<1>2. ASSUME UNCHANGED <<left, chan, collected, lost, nextId, hasNotifiers>>,
             pc' = "recv" => collected = <<>>
      PROVE  AccountInv'
  <2>1. Outgoing' = Outgoing
    BY <1>2 DEF Outgoing
  <2> QED BY <1>1, <1>2, <2>1 DEF AccountInv
<1>3. CASE Take
  <2>1. AlertsAccounted'
    BY <1>1, <1>3, OutgoingSteps DEF Take
  <2> QED BY <1>3, <2>1 DEF Take, AccountInv
<1>4. CASE Recv
  <2>1. UNCHANGED <<left, chan, collected, lost, nextId, hasNotifiers>> /\ pc' = "rule"
    BY <1>4 DEF Recv, AccountInv
  <2> QED BY <1>2, <2>1
<1>5. CASE CheckAckFails
  <2>1. AlertsAccounted'
    BY <1>5, AccountedLoss DEF AccountInv
  <2> QED BY <1>5, <2>1 DEF CheckAckFails, AccountInv
<1>6. CASE Insert
  <2>1. /\ Collect(nextId) /\ chan' = chan /\ lost' = lost /\ nextId' = nextId + 1
        /\ hasNotifiers' = hasNotifiers /\ pc' = "rule"
    BY <1>6 DEF Insert, Collect
  <2>2. Outgoing' = Append(Outgoing, nextId)
    BY <1>0, <2>1, OutgoingSteps
  <2>3. AlertsAccounted'
    BY <1>0, <2>1, <2>2, AccountedAppend DEF AccountInv
  <2> QED BY <2>1, <2>3 DEF AccountInv
<1>7. CASE InsertFails
  <2>1. /\ Collect(0) /\ chan' = chan /\ lost' = lost /\ nextId' = nextId
        /\ hasNotifiers' = hasNotifiers /\ pc' = "rule"
    BY <1>7 DEF InsertFails, Collect
  <2>2. Outgoing' = Append(Outgoing, 0)
    BY <2>1, OutgoingSteps
  <2>3. AlertsAccounted'
    BY <2>1, <2>2, AccountedAppend DEF AccountInv
  <2> QED BY <2>1, <2>3 DEF AccountInv
<1>8. CASE Send
  <2>1. AlertsAccounted'
    BY <1>1, <1>8, OutgoingSteps DEF Send
  <2> QED BY <1>8, <2>1 DEF Send, AccountInv
<1>9. CASE SendDone
  BY <1>2, <1>9 DEF SendDone
<1>10. CASE Emit \/ Tick \/ SkipRule \/ PassRule \/ CheckAck \/ RulesDone
  BY <1>2, <1>10 DEF AccountInv, Emit, Tick, SkipRule, PassRule, CheckAck, RulesDone
<1>11. CASE Requests
  BY <1>2, <1>11 DEF AccountInv, Requests, Acknowledge, Delete
<1>12. CASE UNCHANGED vars
  BY <1>2, <1>12 DEF AccountInv, vars
<1> QED
  BY <1>3, <1>4, <1>5, <1>6, <1>7, <1>8, <1>9, <1>10, <1>11, <1>12
     DEF Next, EngineStep

(* EngineInv holds in every state.                                          *)
THEOREM EngineInvariant == Spec => []EngineInv
<1>1. Init => EngineInv
  <2> SUFFICES ASSUME Init PROVE EngineInv
    OBVIOUS
  <2>1. TypeOK
    <3>1. <<>> \in Seq(Events) /\ <<>> \in Seq(Nat)
      BY EmptySeq
    <3>2. store \in [DOMAIN store -> [name : Names, mac : Mac, acked : BOOLEAN]]
          /\ DOMAIN store = {}
      BY DEF Init
    <3> QED BY <3>1, <3>2 DEF Init, TypeOK, Never
  <2>2. CooldownInv
    BY DEF Init, CooldownInv, Never
  <2>3. SlipInv
    BY DEF Init, SlipInv, AckSlipsAtMostOne
  <2>4. AccountInv
    <3>1. Outgoing = <<>>
      BY ConcatEmptySeq, EmptySeq DEF Init, Outgoing
    <3>2. Range(Outgoing) = {} /\ DOMAIN Outgoing = {}
      BY <3>1 DEF Range
    <3> QED BY <3>2 DEF Init, AccountInv, AlertsAccounted
  <2> QED BY <2>1, <2>2, <2>3, <2>4 DEF EngineInv
<1>2. EngineInv /\ [Next]_vars => EngineInv'
  BY TypeStep, CooldownStep, SlipStep, AccountStep DEF EngineInv
<1> QED BY <1>1, <1>2, PTL DEF Spec

(* "After a rule fires for a given device, it will not fire again for that  *)
(* device until the cooldown elapses", for any rules and any interleaving   *)
(* of check_and_record_cooldown, the store calls and time.                  *)
THEOREM CooldownKept == Spec => CooldownSpacing
<1>1. EngineInv /\ [Next]_vars => [FiresSpaced]_vars
  BY CooldownStep DEF EngineInv
<1> QED BY <1>1, EngineInvariant, PTL DEF Spec, CooldownSpacing

(* After an acknowledgment at most one alert of the pair is still produced, *)
(* whatever number of events is queued and whoever acknowledges or deletes. *)
THEOREM AcknowledgmentHolds == Spec => []AckSlipsAtMostOne
<1>1. EngineInv => AckSlipsAtMostOne
  BY DEF EngineInv, SlipInv
<1> QED BY <1>1, EngineInvariant, PTL

(* Alerts reach the fanout in the order of their ids, each once, and only   *)
(* those are missing that a failing is_acknowledged dropped: for any        *)
(* capacities, with and without notifiers.                                  *)
THEOREM AlertsReachFanout == Spec => []AlertsAccounted
<1>1. EngineInv => AlertsAccounted
  BY DEF EngineInv, AccountInv
<1> QED BY <1>1, EngineInvariant, PTL

=============================================================================
