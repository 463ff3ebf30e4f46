-------------------------------- MODULE Daemon --------------------------------
(***************************************************************************)
(* The path of a packet through the running daemon, and its orderly end     *)
(* (crates/daemon/src/daemon.rs): capture thread and pipeline (module       *)
(* CapturePipeline), the event channel, the rule engine, the alert channel  *)
(* and the fanout (module NotifierFanout).                                  *)
(*                                                                          *)
(* Every stage is a task of its own.  The pipeline announces without        *)
(* waiting, the rule engine waits for room in the alert channel, the fanout *)
(* for the services.  main stops the capture, waits for the pipeline,       *)
(* aborts the other tasks and flushes the store once more.  An abort takes  *)
(* effect at the task's next await, so a task may get a little further.     *)
(* A packet announces one event and an event raises one alert, numbered in  *)
(* this order; what else the stages do with them is modules Discovery's and *)
(* RuleEngine's.                                                            *)
(***************************************************************************)
EXTENDS CapturePipeline, SequencesExt

CONSTANTS
  EventCap,     \* capacity of the event channel (1024)
  Notifiers,    \* the configured notifiers in fanout order
  AlertCap,     \* capacity of the alert channel (256)
  MqttCap       \* capacity of rumqttc's request queue (10)

VARIABLES
  events,       \* the event channel
  announced,    \* history: packets whose event entered the channel
  aborted,      \* tasks main has aborted: "engine", "fanout"
  gone,         \* tasks whose abort has taken effect
  flushed,      \* what the final flush found handled, <<>> before it
  fired, offer, alerts, alert, at, tried, mqttQueue, outage

F == INSTANCE NotifierFanout WITH chan <- alerts, MaxAlerts <- MaxPackets

captureVars == <<link, thread, errors, seen, chan, accepted, pipeline, handled, stopSent>>
fanoutVars == <<fired, offer, alerts, alert, at, tried, mqttQueue, outage>>
allVars == <<vars, events, announced, aborted, gone, flushed, fanoutVars>>

ASSUME DaemonAssumption == EventCap \in Nat \ {0} /\ F!FanoutAssumption

DaemonInit ==
  /\ Init
  /\ F!Init
  /\ events = <<>>
  /\ announced = <<>>
  /\ aborted = {}
  /\ gone = {}
  /\ flushed = <<>>

-----------------------------------------------------------------------------
(* Capture and pipeline.                                                    *)

Elsewhere == UNCHANGED <<events, announced, aborted, gone, flushed, fanoutVars>>

(* The thread, and the interface under it, as in module CapturePipeline.    *)
ThreadMoves == ThreadStep /\ Elsewhere
PacketComes == ReadPacket /\ Elsewhere
LinkMoves   == LinkChanges /\ Elsewhere

(* process_packet announces with try_send: a full channel, or one whose     *)
(* reader is gone, drops the event.                                         *)
Process ==
  /\ ProcessPacket
  /\ IF Len(events) < EventCap /\ "engine" \notin gone
     THEN /\ events' = Append(events, Head(chan))
          /\ announced' = Append(announced, Head(chan))
     ELSE UNCHANGED <<events, announced>>
  /\ UNCHANGED <<aborted, gone, flushed, fanoutVars>>

Finishes == PipelineFinishes /\ Elsewhere

(* process_packet panics: the task ends and its end of the packet channel   *)
(* goes with it.  Nothing watches the task, so the daemon goes on.          *)
Panics ==
  /\ pipeline = "running"
  /\ chan # <<>>
  /\ pipeline' = "panicked"
  /\ chan' = <<>>
  /\ UNCHANGED <<link, threadVars, handled, main, stopSent>>
  /\ Elsewhere

-----------------------------------------------------------------------------
(* Rule engine, fanout and services.                                        *)

Untouched == UNCHANGED <<vars, aborted, gone, flushed>>

(* event_rx.recv() and process_event up to the send.                        *)
EngineTakes ==
  /\ "engine" \notin gone
  /\ events # <<>>
  /\ events' = Tail(events)
  /\ F!Fire
  /\ UNCHANGED announced
  /\ Untouched

(* fire_alert's send().await returns: there is room, or the fanout is gone. *)
EngineSent ==
  /\ "engine" \notin gone
  /\ IF "fanout" \in gone
     THEN offer # <<>> /\ offer' = <<>>
          /\ UNCHANGED <<fired, alerts, alert, at, tried, mqttQueue, outage>>
     ELSE F!Accept
  /\ UNCHANGED <<events, announced>>
  /\ Untouched

FanoutReceives ==
  /\ "fanout" \notin gone
  /\ F!Recv
  /\ UNCHANGED <<events, announced>>
  /\ Untouched

FanoutDelivers ==
  /\ "fanout" \notin gone
  /\ F!Deliver
  /\ UNCHANGED <<events, announced>>
  /\ Untouched

MqttSends == F!MqttPoll /\ UNCHANGED <<events, announced>> /\ Untouched

ServiceChanges ==
  /\ \E s \in F!Configured \cap {"ntfy", "mqtt"} : F!Fail(s) \/ F!Recover(s)
  /\ UNCHANGED <<events, announced>>
  /\ Untouched

(* An aborted task reaches an await and is dropped.                         *)
Dropped(task) ==
  /\ task \in aborted \ gone
  /\ gone' = gone \cup {task}
  /\ UNCHANGED <<vars, events, announced, aborted, flushed, fanoutVars>>
-----------------------------------------------------------------------------
(* main, from the signal to its return.                                     *)

SignalArrives == Signal /\ Elsewhere
CaptureJoined == Joined /\ Elsewhere

(* pipeline_handle.await?: a panicked task is an error main returns with.   *)
PipelineAwaited ==
  /\ main = "awaiting"
  /\ pipeline # "running"
  /\ main' = IF pipeline = "finished" THEN "drained" ELSE "failed"
  /\ UNCHANGED captureVars
  /\ Elsewhere

(* A mutated end that waits for the rule engine to finish its work.         *)
Mut_AbortsEngine ==
  /\ main = "drained"
  /\ events = <<>> /\ offer = <<>>
  /\ main' = "aborting"
  /\ aborted' = {"engine"}
  /\ UNCHANGED <<captureVars, events, announced, gone, flushed, fanoutVars>>

(* The tasks are aborted one after the other; the ones left out here touch  *)
(* nothing of this module.                                                  *)
AbortsEngine ==
  /\ main = "drained"
  /\ main' = "aborting"
  /\ aborted' = {"engine"}
  /\ UNCHANGED <<captureVars, events, announced, gone, flushed, fanoutVars>>

AbortsFanout ==
  /\ main = "aborting"
  /\ main' = "aborted"
  /\ aborted' = {"engine", "fanout"}
  /\ UNCHANGED <<captureVars, events, announced, gone, flushed, fanoutVars>>

(* The last flush, after which main returns and the process ends.           *)
FinalFlush ==
  /\ main = "aborted"
  /\ main' = "stopped"
  /\ flushed' = handled
  /\ UNCHANGED <<captureVars, events, announced, aborted, gone, fanoutVars>>

Shuts == CaptureJoined \/ PipelineAwaited \/ AbortsEngine \/ AbortsFanout \/ FinalFlush

Running == main \notin {"stopped", "failed"}

DaemonNext ==
  /\ Running
  /\ \/ ThreadMoves \/ PacketComes \/ LinkMoves \/ Process \/ Finishes \/ Panics
     \/ EngineTakes \/ EngineSent \/ FanoutReceives \/ FanoutDelivers
     \/ MqttSends \/ ServiceChanges
     \/ \E t \in {"engine", "fanout"} : Dropped(t)
     \/ SignalArrives \/ Shuts

(* Threads and tasks are scheduled, and deliveries end while the service    *)
(* they wait for is up again and again.  Nothing makes packets or signals   *)
(* come, the interface work, or a service answer.                           *)
DaemonSpec ==
  /\ DaemonInit
  /\ [][DaemonNext]_allVars
  /\ WF_allVars(Running /\ ThreadMoves)
  /\ WF_allVars(Running /\ Process) /\ WF_allVars(Running /\ Finishes)
  /\ WF_allVars(Running /\ Shuts)
  /\ WF_allVars(Running /\ EngineTakes) /\ WF_allVars(Running /\ EngineSent)
  /\ WF_allVars(Running /\ FanoutReceives)
  /\ SF_allVars(Running /\ FanoutDelivers) /\ SF_allVars(Running /\ MqttSends)

-----------------------------------------------------------------------------
(* Properties.                                                              *)

(* The final flush comes when every packet that entered the channel was     *)
(* processed, once and in order, and nothing can touch the store any more;  *)
(* flush_task's doc comment relies on "after the pipeline task has          *)
(* drained".                                                                *)
FinalFlushSeesAll ==
  main = "stopped" => /\ flushed = accepted
                      /\ handled = flushed
                      /\ thread = "done" /\ pipeline = "finished"

(* The types of the state of capture, pipeline and main.                    *)
DaemonTypeOK ==
  /\ thread \in {"top", "open", "sleep", "read", "poll", "done"}
  /\ errors \in Nat /\ seen \in Nat
  /\ chan \in Seq(Nat) /\ accepted \in Seq(Nat) /\ handled \in Seq(Nat)
  /\ pipeline \in {"running", "finished", "panicked"}
  /\ main \in {"waiting", "joining", "awaiting", "drained", "aborting", "aborted",
               "stopped", "failed"}
  /\ stopSent \in BOOLEAN

(* The order of the shutdown, inductively.  The thread gives up at its      *)
(* limit.  Until a panic, what was accepted is what was handled and what is *)
(* queued.  The pipeline ends after the thread and with an empty queue;     *)
(* main waits for the thread, then for the pipeline, and only then goes on  *)
(* to the final flush.                                                      *)
DaemonInv ==
  /\ DaemonTypeOK
  /\ GivesUpAtLimit
  /\ pipeline # "panicked" => accepted = handled \o chan
  /\ pipeline = "finished" => thread = "done" /\ chan = <<>>
  /\ stopSent <=> main # "waiting"
  /\ main \notin {"waiting", "joining"} => thread = "done"
  /\ main \in {"drained", "aborting", "aborted", "stopped"} => pipeline = "finished"
  /\ main = "failed" => pipeline = "panicked"
  /\ main = "stopped" => flushed = handled

(* A signal always ends the process: from every state of the thread, with   *)
(* packets queued, and with the rule engine and the fanout stuck behind a   *)
(* service that never answers.  Only a panic of the pipeline costs the final*)
(* flush (daemon.rs, pipeline_handle.await?).                               *)
SignalEndsDaemon ==
  main = "joining" ~> \/ main = "stopped"
                      \/ main = "failed" /\ pipeline = "panicked"

(* No stage loses, repeats or reorders what it was given: the packets are   *)
(* announced in order, the event channel holds what the rule engine has not *)
(* taken, and as long as the fanout lives, what a notifier got, followed by *)
(* what is on its way to it, is every announced packet in order.  What an   *)
(* abort cuts off is a suffix.                                              *)
InOrderToAll ==
  /\ \A i, j \in DOMAIN announced : i < j => announced[i] < announced[j]
  /\ events = SubSeq(announced, fired + 1, Len(announced))
  /\ "fanout" \notin gone => F!NothingSkipped
  /\ \A n \in F!Configured : IsPrefix(tried[n], [x \in 1 .. fired |-> x])

(* The numbers a + 1 .. a + b in order, and how many alerts the fanout has  *)
(* taken from its channel.                                                  *)
Run(a, b) == [x \in 1 .. b |-> a + x]
Taken == fired - Len(alerts) - Len(offer)

(* The way to the rule engine, inductively: packets stand in order in the   *)
(* packet channel, behind all the announced ones, and the events wait in    *)
(* the order in which they were announced.                                  *)
AnnouncedInv ==
  /\ announced \in Seq(Nat) /\ events \in Seq(Nat) /\ fired \in Nat
  /\ Len(announced) = fired + Len(events)
  /\ \A x \in 1 .. Len(events) : events[x] = announced[fired + x]
  /\ \A i, j \in 1 .. Len(announced) : i < j => announced[i] < announced[j]
  /\ \A i \in 1 .. Len(announced) : announced[i] <= seen
  /\ \A i, j \in 1 .. Len(chan) : i < j => chan[i] < chan[j]
  /\ \A i \in 1 .. Len(chan) :
       chan[i] <= seen /\ \A j \in 1 .. Len(announced) : announced[j] < chan[i]

(* The way to the notifiers, inductively: each has got the alerts up to the *)
(* one at work, or up to the one before it when its turn is still to come;  *)
(* the alert channel and the engine's offer go on from there.  After the    *)
(* fanout's abort what each got remains.                                    *)
DeliveryInv ==
  /\ DOMAIN tried = F!Configured
  /\ \A n \in F!Configured : \E k \in 0 .. fired : tried[n] = Run(0, k)
  /\ "fanout" \notin gone =>
       /\ alerts \in Seq(Nat) /\ offer \in {<<>>, <<fired>>}
       /\ Taken \in Nat /\ alerts = Run(Taken, Len(alerts))
       /\ alert # <<>> => alert = <<Taken>> /\ Taken > 0 /\ at \in F!Position
       /\ \A p \in F!Position :
            tried[Notifiers[p]]
              = Run(0, IF alert # <<>> /\ p >= at THEN Taken - 1 ELSE Taken)

PathInv == DaemonInv /\ AnnouncedInv /\ DeliveryInv

(* If no service stays away for ever, every announced packet's alert is     *)
(* brought to every notifier, unless the daemon is shut down first.         *)
AllDelivered ==
  (\A s \in {"ntfy", "mqtt"} : []<>(s \notin outage)) =>
    \A a \in 1 .. MaxPackets :
      Len(announced) >= a ~> \/ \A n \in F!Configured : Contains(tried[n], a)
                             \/ aborted # {} \/ main = "failed"
=============================================================================
