------------------------------ MODULE RuleEngine ------------------------------
(***************************************************************************)
(* The rule engine (crates/rules/src/engine.rs) between its two channels:   *)
(* it takes one discovery event at a time, evaluates every rule on it       *)
(* (condition, cooldown, acknowledgment, persist), and only then sends the  *)
(* collected alerts to the notifier fanout.  The alert store is shared with *)
(* the API, whose acknowledge and delete requests run at any moment, so the *)
(* two store calls of one evaluation are separate steps.                    *)
(*                                                                          *)
(* An event keeps what the conditions look at: its variant and its device.  *)
(* A rule keeps its name, switch, condition and cooldown; the vendor and    *)
(* prefix filters are given by the set of devices they match.  The          *)
(* after_seconds of a device_offline rule is read nowhere in the engine.    *)
(***************************************************************************)
EXTENDS Integers, Sequences, Functions

CONSTANTS
  Mac,          \* hardware addresses
  Rules,        \* RuleEngine.rules, in evaluation order
  Events,       \* the events discovery and the scanner may emit
  EventCap,     \* capacity of the event channel (1024 in the daemon)
  AlertCap,     \* capacity of the alert channel (256 in the daemon)
  StoreFails,   \* TRUE: a call of the alert store may return an error
  MaxEvents,    \* bound: events emitted
  MaxTime       \* bound: the clock, in seconds

Conditions ==
  {"new_device", "vendor", "prefix", "device_offline", "protocol_change"}

ASSUME RulesAssumption ==
  /\ Rules \in Seq([name : STRING, enabled : BOOLEAN, condition : Conditions,
                    macs : SUBSET Mac, cooldown : Nat])
  /\ Events \subseteq [kind : {"discovered", "updated", "offline"}, mac : Mac]
  /\ StoreFails \in BOOLEAN
  /\ EventCap \in Nat /\ AlertCap \in Nat /\ MaxEvents \in Nat /\ MaxTime \in Nat

VARIABLES
  hasNotifiers, \* some are configured; if not, the daemon drops alert_rx and
                \* sends fail at once
  clock,      \* Instant::now()
  emitted,    \* events emitted so far
  events,     \* the event channel
  pc,         \* "recv", "rule" (loop head), "ack", "insert", "send"
  event,      \* the event being processed, <<>> or <<e>>
  i,          \* position in Rules
  collected,  \* `alerts` of process_event: ids, 0 for an unpersisted alert
  lastFired,  \* Rule.last_fired: position -> device -> time, 0 for none
  store,      \* the alert store: id -> [name, mac, acked]
  nextId,     \* AUTOINCREMENT / next_id
  chan,       \* the alert channel
  fired,      \* history: the last_fired stamp of the latest alert produced
  slipped,    \* history: alerts produced for a pair since it was acknowledged
  left,       \* history: ids received by the fanout or refused by a closed
              \* channel, oldest first
  lost        \* history: ids dropped with an evaluation that failed

engineVars  == <<pc, event, i, collected, lastFired>>
alertVars   == <<hasNotifiers, store, nextId>>
historyVars == <<fired, slipped, left, lost>>
vars == <<hasNotifiers, clock, emitted, events, pc, event, i, collected,
          lastFired, store, nextId, chan, fired, slipped, left, lost>>

Position == 1 .. Len(Rules)
Names    == {Rules[p].name : p \in Position}
Never    == 0

(* AlertStore::is_acknowledged, asked of the alerts s.                      *)
Suppresses(s, name, m) ==
  \E id \in DOMAIN s : s[id].name = name /\ s[id].mac = m /\ s[id].acked

IsAcknowledged(name, m) == Suppresses(store, name, m)

Init ==
  /\ hasNotifiers \in BOOLEAN
  /\ clock = 1
  /\ emitted = 0
  /\ events = <<>>
  /\ pc = "recv"
  /\ event = <<>>
  /\ i = 1
  /\ collected = <<>>
  /\ lastFired = [p \in Position |-> [m \in Mac |-> Never]]
  /\ store = <<>>
  /\ nextId = 1
  /\ chan = <<>>
  /\ fired = [p \in Position |-> [m \in Mac |-> Never]]
  /\ slipped = [n \in Names |-> [m \in Mac |-> 0]]
  /\ left = <<>>
  /\ lost = {}

-----------------------------------------------------------------------------
(* The environment: event senders, the API, the receiver of alerts, time.   *)

(* try_send by discovery or the scanner; into a full channel it is dropped. *)
Emit ==
  /\ emitted < MaxEvents
  /\ emitted' = emitted + 1
  /\ \E e \in Events :
       events' = IF Len(events) < EventCap THEN Append(events, e) ELSE events
  /\ UNCHANGED <<clock, engineVars, alertVars, chan, historyVars>>

(* POST /alerts/:id/acknowledge; an unknown id is an error.                 *)
Acknowledge(id) ==
  /\ id \in DOMAIN store
  /\ store' = [store EXCEPT ![id].acked = TRUE]
  /\ UNCHANGED <<hasNotifiers, clock, emitted, events, engineVars, nextId, chan,
                 historyVars>>

Without(f, id) == [x \in DOMAIN f \ {id} |-> f[x]]

(* DELETE /alerts/:id.  A pair whose last acknowledged alert goes is no     *)
(* longer suppressed, and its history starts anew.                          *)
Delete(id) ==
  /\ id \in DOMAIN store
  /\ store' = Without(store, id)
  /\ slipped' = [n \in Names |-> [m \in Mac |->
       IF Suppresses(store', n, m) THEN slipped[n][m] ELSE 0]]
  /\ UNCHANGED <<hasNotifiers, clock, emitted, events, engineVars, nextId, chan,
                 fired, left, lost>>

(* alert_rx.recv() of the fanout, where there is one.                       *)
Take ==
  /\ hasNotifiers
  /\ chan # <<>>
  /\ chan' = Tail(chan)
  /\ left' = Append(left, Head(chan))
  /\ UNCHANGED <<clock, emitted, events, engineVars, alertVars, fired, slipped, lost>>

Tick ==
  /\ clock < MaxTime
  /\ clock' = clock + 1
  /\ UNCHANGED <<emitted, events, engineVars, alertVars, chan, historyVars>>

-----------------------------------------------------------------------------
(* process_event                                                            *)

Current == event[1]
Rule    == Rules[i]

(* The condition match of evaluate_rule.                                    *)
Matches(r, e) ==
  \/ r.condition = "new_device" /\ e.kind = "discovered"
  \/ r.condition \in {"vendor", "prefix"} /\ e.kind = "discovered" /\ e.mac \in r.macs
  \/ r.condition = "device_offline" /\ e.kind = "offline"
  \/ r.condition = "protocol_change" /\ e.kind = "updated"

(* A mutated cooldown test that lets a rule fire one second early.          *)
OnCooldownShort(p, m) ==
  /\ Rules[p].cooldown > 0
  /\ lastFired[p][m] # Never
  /\ clock - lastFired[p][m] < Rules[p].cooldown - 1

(* The early return of check_and_record_cooldown.                           *)
OnCooldown(p, m) ==
  /\ Rules[p].cooldown > 0
  /\ lastFired[p][m] # Never
  /\ clock - lastFired[p][m] < Rules[p].cooldown

(* event_rx.recv() returns the oldest event.                                *)
Recv ==
  /\ pc = "recv"
  /\ events # <<>>
  /\ event' = <<Head(events)>>
  /\ events' = Tail(events)
  /\ i' = 1
  /\ collected' = <<>>
  /\ pc' = "rule"
  /\ UNCHANGED <<clock, emitted, lastFired, alertVars, chan, historyVars>>

(* A disabled rule, one that does not match, one that is on cooldown.       *)
SkipRule ==
  /\ pc = "rule"
  /\ i \in Position
  /\ ~Rule.enabled \/ ~Matches(Rule, Current) \/ OnCooldown(i, Current.mac)
  /\ i' = i + 1
  /\ UNCHANGED <<clock, emitted, events, pc, event, collected, lastFired,
                 alertVars, chan, historyVars>>

(* The rule matches and its cooldown has elapsed; the time is recorded      *)
(* before the acknowledgment is looked up.                                  *)
PassRule ==
  /\ pc = "rule"
  /\ i \in Position
  /\ Rule.enabled /\ Matches(Rule, Current) /\ ~OnCooldown(i, Current.mac)
  /\ lastFired' = IF Rule.cooldown = 0 THEN lastFired
                  ELSE [lastFired EXCEPT ![i][Current.mac] = clock]
  /\ pc' = "ack"
  /\ UNCHANGED <<clock, emitted, events, event, i, collected, alertVars, chan,
                 historyVars>>

(* A mutated acknowledgment lookup that suppresses nothing.                 *)
CheckAckNever ==
  /\ pc = "ack"
  /\ pc' = "insert"
  /\ UNCHANGED <<clock, emitted, events, event, i, collected, lastFired,
                 alertVars, chan, historyVars>>

(* is_acknowledged: suppress this alert, or go on to persist it.            *)
CheckAck ==
  /\ pc = "ack"
  /\ IF IsAcknowledged(Rule.name, Current.mac)
     THEN pc' = "rule" /\ i' = i + 1
     ELSE pc' = "insert" /\ UNCHANGED i
  /\ UNCHANGED <<clock, emitted, events, event, collected, lastFired,
                 alertVars, chan, historyVars>>

(* is_acknowledged fails: `?` leaves process_event with what it collected.  *)
CheckAckFails ==
  /\ StoreFails
  /\ pc = "ack"
  /\ pc' = "recv"
  /\ event' = <<>>
  /\ collected' = <<>>
  /\ lost' = lost \cup Range(collected)
  /\ UNCHANGED <<clock, emitted, events, i, lastFired, alertVars, chan, fired,
                 slipped, left>>

(* The alert joins the collected ones; the history notes it.                *)
Collect(id) ==
  /\ collected' = Append(collected, id)
  /\ fired' = [fired EXCEPT ![i][Current.mac] =
                 IF Rule.cooldown = 0 THEN clock ELSE lastFired[i][Current.mac]]
  /\ slipped' = IF IsAcknowledged(Rule.name, Current.mac)
                THEN [slipped EXCEPT ![Rule.name][Current.mac] = @ + 1]
                ELSE slipped
  /\ i' = i + 1
  /\ pc' = "rule"
  /\ UNCHANGED <<left, lost>>

(* insert_alert returns the new id.                                         *)
Insert ==
  /\ pc = "insert"
  /\ store' = [id \in DOMAIN store \cup {nextId} |->
                 IF id = nextId
                 THEN [name |-> Rule.name, mac |-> Current.mac, acked |-> FALSE]
                 ELSE store[id]]
  /\ nextId' = nextId + 1
  /\ Collect(nextId)
  /\ UNCHANGED <<hasNotifiers, clock, emitted, events, event, lastFired, chan>>

(* insert_alert fails: "delivering unpersisted", with id 0.                 *)
InsertFails ==
  /\ StoreFails
  /\ pc = "insert"
  /\ Collect(0)
  /\ UNCHANGED <<clock, emitted, events, event, lastFired, alertVars, chan>>

(* All rules are evaluated: fire what was collected.                        *)
RulesDone ==
  /\ pc = "rule"
  /\ i \notin Position
  /\ pc' = "send"
  /\ UNCHANGED <<clock, emitted, events, event, i, collected, lastFired,
                 alertVars, chan, historyVars>>

(* A mutated send that waits for capacity even when nobody will ever read.  *)
SendWaits ==
  /\ pc = "send"
  /\ collected # <<>>
  /\ Len(chan) < AlertCap
  /\ chan' = Append(chan, Head(collected))
  /\ collected' = Tail(collected)
  /\ UNCHANGED <<clock, emitted, events, pc, event, i, lastFired, alertVars,
                 historyVars>>

(* A mutated send that delivers the newest alert of an event first.         *)
SendNewestFirst ==
  /\ pc = "send"
  /\ collected # <<>>
  /\ IF hasNotifiers
     THEN Len(chan) < AlertCap /\ chan' = Append(chan, collected[Len(collected)]) /\ UNCHANGED left
     ELSE left' = Append(left, collected[Len(collected)]) /\ UNCHANGED chan
  /\ collected' = SubSeq(collected, 1, Len(collected) - 1)
  /\ UNCHANGED <<clock, emitted, events, pc, event, i, lastFired, alertVars,
                 fired, slipped, lost>>

(* fire_alert: send().await waits while the channel is full; a closed one   *)
(* only earns a warning.                                                    *)
Send ==
  /\ pc = "send"
  /\ collected # <<>>
  /\ IF hasNotifiers
     THEN Len(chan) < AlertCap /\ chan' = Append(chan, Head(collected)) /\ UNCHANGED left
     ELSE left' = Append(left, Head(collected)) /\ UNCHANGED chan
  /\ collected' = Tail(collected)
  /\ UNCHANGED <<clock, emitted, events, pc, event, i, lastFired, alertVars,
                 fired, slipped, lost>>

(* process_event returns Ok.                                                *)
SendDone ==
  /\ pc = "send"
  /\ collected = <<>>
  /\ pc' = "recv"
  /\ event' = <<>>
  /\ UNCHANGED <<clock, emitted, events, i, collected, lastFired, alertVars,
                 chan, historyVars>>

EngineStep ==
  \/ Recv \/ SkipRule \/ PassRule \/ CheckAck \/ CheckAckFails
  \/ Insert \/ InsertFails \/ RulesDone \/ Send \/ SendDone

Requests == \E id \in DOMAIN store : Acknowledge(id) \/ Delete(id)

Next == Emit \/ EngineStep \/ Requests \/ Take \/ Tick

Spec == Init /\ [][Next]_vars

(* The engine's task is scheduled, and the fanout goes on receiving.        *)
FairSpec == Spec /\ WF_vars(EngineStep) /\ WF_vars(Take)

-----------------------------------------------------------------------------
(* Properties.                                                              *)

(* Header of engine.rs: "After a rule fires for a given device, it will not *)
(* fire again for that device until the cooldown elapses", whatever happens *)
(* between the check and the alert.                                         *)
FiresSpaced ==
  \A p \in Position, m \in Mac :
    fired[p][m] # Never /\ fired'[p][m] # fired[p][m]
      => fired'[p][m] - fired[p][m] >= Rules[p].cooldown

CooldownSpacing == [][FiresSpaced]_vars

(* Acknowledging an alert of a rule and device stops that pair: of all      *)
(* events queued or in evaluation at that moment at most one, already past  *)
(* its is_acknowledged call, still produces an alert.                       *)
AckSlipsAtMostOne == \A n \in Names, m \in Mac : slipped[n][m] <= 1

(* Every alert, oldest first: gone, on its way to the notifiers, collected. *)
Outgoing == left \o chan \o collected

Persisted(id) == id # 0

(* alert.rs 13-14: an alert "is persisted to the AlertStore" and then "is   *)
(* sent to all notifiers via the fanout".  Alerts leave in the order of     *)
(* their ids, each once, and of all that were persisted only those are      *)
(* missing that a failing is_acknowledged of a later rule dropped.          *)
AlertsAccounted ==
  /\ \A x, y \in DOMAIN Outgoing :
       x < y /\ Persisted(Outgoing[x]) /\ Persisted(Outgoing[y])
         => Outgoing[x] < Outgoing[y]
  /\ 1 .. nextId - 1 = {id \in Range(Outgoing) \cup lost : Persisted(id)}
  /\ \A id \in Range(Outgoing) \cap lost : ~Persisted(id)

(* The engine always comes back for the next event: with notifiers, which   *)
(* keep receiving, and without, when daemon.rs drops the receiver "to avoid *)
(* the rule engine blocking on send".                                       *)
EngineReturns ==
  /\ events # <<>> ~> pc = "rule"
  /\ pc # "recv" ~> pc = "recv"

-----------------------------------------------------------------------------
(* Inductive invariants behind the safety properties.                       *)

TypeOK ==
  /\ hasNotifiers \in BOOLEAN
  /\ clock \in Nat
  /\ events \in Seq(Events)
  /\ pc \in {"recv", "rule", "ack", "insert", "send"}
  /\ event \in {<<>>} \cup {<<e>> : e \in Events}
  /\ pc # "recv" => event # <<>>
  /\ i \in Nat
  /\ pc \in {"ack", "insert"} => i \in Position
  /\ collected \in Seq(Nat) /\ chan \in Seq(Nat) /\ left \in Seq(Nat)
  /\ lost \in SUBSET Nat
  /\ lastFired \in [Position -> [Mac -> Nat]]
  /\ fired \in [Position -> [Mac -> Nat]]
  /\ slipped \in [Names -> [Mac -> Nat]]
  /\ nextId \in Nat \ {0}
  /\ DOMAIN store \subseteq 1 .. nextId - 1
  /\ store \in [DOMAIN store -> [name : Names, mac : Mac, acked : BOOLEAN]]

(* An evaluation past its cooldown test has stamped the rule at least one   *)
(* cooldown after the stamp of the last alert; no stamp is ahead of the     *)
(* clock.                                                                   *)
CooldownInv ==
  \A p \in Position, m \in Mac :
    /\ fired[p][m] <= clock /\ lastFired[p][m] <= clock
    /\ Rules[p].cooldown > 0 =>
         /\ fired[p][m] <= lastFired[p][m]
         /\ pc \in {"ack", "insert"} /\ i = p /\ Current.mac = m =>
              \/ fired[p][m] = Never
              \/ lastFired[p][m] - fired[p][m] >= Rules[p].cooldown

(* An alert slips only while its pair is acknowledged, and none has when an *)
(* evaluation passes is_acknowledged.                                       *)
SlipInv ==
  /\ \A n \in Names, m \in Mac : slipped[n][m] > 0 => IsAcknowledged(n, m)
  /\ pc = "insert" => slipped[Rule.name][Current.mac] = 0
  /\ AckSlipsAtMostOne

AccountInv ==
  /\ ~hasNotifiers => chan = <<>>
  /\ pc = "recv" => collected = <<>>
  /\ AlertsAccounted

EngineInv == TypeOK /\ CooldownInv /\ SlipInv /\ AccountInv
=============================================================================
