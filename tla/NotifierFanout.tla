---------------------------- MODULE NotifierFanout ----------------------------
(***************************************************************************)
(* Alert delivery (crates/notify): the fanout task takes alerts from the    *)
(* channel the rule engine sends into and calls `deliver` on one notifier   *)
(* after the other, in the order in which daemon.rs pushed them.  A failed  *)
(* delivery is logged and not retried.                                      *)
(*                                                                          *)
(* What a delivery waits for differs.  Webhook and email have a timeout, so *)
(* they always come back.  The ntfy client is built without one and waits   *)
(* as long as its server keeps the request open.  An MQTT publish only puts *)
(* the message into rumqttc's request queue, which a task empties while     *)
(* the broker is connected; it waits for room in that queue.  Module Daemon *)
(* has these steps taken by the tasks that take them.                       *)
(***************************************************************************)
EXTENDS Naturals, Sequences

CONSTANTS
  Notifiers,    \* the configured notifiers in fanout order
  AlertCap,     \* capacity of the alert channel (256 in the daemon)
  MqttCap,      \* capacity of rumqttc's request queue (10)
  MaxAlerts     \* bound: alerts the rule engine fires, numbered in order

Kinds == {"ntfy", "mqtt", "webhook", "email"}

FanoutAssumption ==
  /\ Notifiers \in Seq(Kinds) \ {<<>>}
  /\ \A p, q \in 1 .. Len(Notifiers) : Notifiers[p] = Notifiers[q] => p = q
  /\ AlertCap \in Nat \ {0} /\ MqttCap \in Nat \ {0} /\ MaxAlerts \in Nat

VARIABLES
  fired,      \* alerts the rule engine has begun to send
  offer,      \* the alert the rule engine is inside send().await with: <<>> or <<a>>
  chan,       \* the alert channel
  alert,      \* the alert the fanout is delivering: <<>> or <<a>>
  at,         \* position in Notifiers
  tried,      \* notifier -> alerts its deliver returned for, in order
  mqttQueue,  \* messages in rumqttc's request queue
  outage      \* services that do not answer: an ntfy server, the MQTT broker

vars == <<fired, offer, chan, alert, at, tried, mqttQueue, outage>>

Position   == 1 .. Len(Notifiers)
Configured == {Notifiers[p] : p \in Position}

Init ==
  /\ fired = 0
  /\ offer = <<>>
  /\ chan = <<>>
  /\ alert = <<>>
  /\ at = 1
  /\ tried = [n \in Configured |-> <<>>]
  /\ mqttQueue = 0
  /\ outage = {}

-----------------------------------------------------------------------------
(* The rule engine's fire_alert, the services.                              *)

Fire ==
  /\ offer = <<>>
  /\ fired < MaxAlerts
  /\ fired' = fired + 1
  /\ offer' = <<fired + 1>>
  /\ UNCHANGED <<chan, alert, at, tried, mqttQueue, outage>>

(* A mutated send that drops the alert when the channel is full.            *)
Mut_Accept ==
  /\ offer # <<>>
  /\ chan' = IF Len(chan) < AlertCap THEN chan \o offer ELSE chan
  /\ offer' = <<>>
  /\ UNCHANGED <<fired, alert, at, tried, mqttQueue, outage>>

(* send().await completes when the channel has room.                        *)
Accept ==
  /\ offer # <<>>
  /\ Len(chan) < AlertCap
  /\ chan' = chan \o offer
  /\ offer' = <<>>
  /\ UNCHANGED <<fired, alert, at, tried, mqttQueue, outage>>

Fail(s) ==
  /\ s \in Configured \ outage
  /\ outage' = outage \cup {s}
  /\ UNCHANGED <<fired, offer, chan, alert, at, tried, mqttQueue>>

Recover(s) ==
  /\ s \in outage
  /\ outage' = outage \ {s}
  /\ UNCHANGED <<fired, offer, chan, alert, at, tried, mqttQueue>>

(* rumqttc's connection.poll() writes a queued message to the broker.       *)
MqttPoll ==
  /\ mqttQueue > 0
  /\ "mqtt" \notin outage
  /\ mqttQueue' = mqttQueue - 1
  /\ UNCHANGED <<fired, offer, chan, alert, at, tried, outage>>

-----------------------------------------------------------------------------
(* The fanout task.                                                         *)

(* alert_rx.recv()                                                          *)
Recv ==
  /\ alert = <<>>
  /\ chan # <<>>
  /\ alert' = <<Head(chan)>>
  /\ chan' = Tail(chan)
  /\ at' = 1
  /\ UNCHANGED <<fired, offer, tried, mqttQueue, outage>>

(* deliver has returned, Ok or Err: go on with the next notifier, or with   *)
(* the next alert after the last.                                           *)
Advance(n) ==
  /\ tried' = [tried EXCEPT ![n] = @ \o alert]
  /\ at' = at + 1
  /\ alert' = IF at = Len(Notifiers) THEN <<>> ELSE alert

(* NtfyNotifier::deliver: the client has no timeout, and the call returns   *)
(* when the server answers or the connection fails.                         *)
DeliverNtfy ==
  /\ alert # <<>>
  /\ Notifiers[at] = "ntfy"
  /\ "ntfy" \notin outage
  /\ Advance("ntfy")
  /\ UNCHANGED <<fired, offer, chan, mqttQueue, outage>>

(* WebhookNotifier::deliver and EmailNotifier::deliver, each ended by its   *)
(* timeout at the latest.                                                   *)
DeliverTimed(n) ==
  /\ alert # <<>>
  /\ Notifiers[at] = n
  /\ Advance(n)
  /\ UNCHANGED <<fired, offer, chan, mqttQueue, outage>>

(* A mutated MQTT delivery whose failure leaves the loop over the notifiers.*)
DeliverMqttGivesUp ==
  /\ alert # <<>>
  /\ Notifiers[at] = "mqtt"
  /\ \/ /\ mqttQueue < MqttCap
        /\ mqttQueue' = mqttQueue + 1
        /\ Advance("mqtt")
     \/ /\ mqttQueue = MqttCap
        /\ tried' = [tried EXCEPT !["mqtt"] = @ \o alert]
        /\ alert' = <<>>
        /\ UNCHANGED <<at, mqttQueue>>
  /\ UNCHANGED <<fired, offer, chan, outage>>

(* client.publish().await: waits for room in the request queue.             *)
DeliverMqtt ==
  /\ alert # <<>>
  /\ Notifiers[at] = "mqtt"
  /\ mqttQueue < MqttCap
  /\ mqttQueue' = mqttQueue + 1
  /\ Advance("mqtt")
  /\ UNCHANGED <<fired, offer, chan, outage>>

Deliver ==
  \/ DeliverNtfy \/ DeliverMqtt
  \/ \E n \in {"webhook", "email"} : DeliverTimed(n)

-----------------------------------------------------------------------------
(* The fanout loses, repeats and reorders nothing: what a notifier was given*)
(* followed by what is still ahead of it is every alert fired, in order.    *)
(* It holds for each notifier on its own, whatever the ones before it did   *)
(* with the alert.                                                          *)
NothingSkipped ==
  \A p \in Position :
    LET pending == IF p >= at THEN alert ELSE <<>>
    IN  tried[Notifiers[p]] \o pending \o chan \o offer
          = [x \in 1 .. fired |-> x]
=============================================================================
