--------------------------- MODULE CapturePipeline ---------------------------
(***************************************************************************)
(* Packet capture: the pcap thread of crates/packet/src/capture.rs, the     *)
(* pipeline task that reads its channel, and the steps of main in           *)
(* crates/daemon/src/daemon.rs that stop and join the thread.  Module       *)
(* Daemon puts them together with the tasks behind the pipeline.            *)
(*                                                                          *)
(* Packets are numbered in the order in which pcap returns them.  The       *)
(* interface is "up" (opens and delivers), "faulty" (opens, every read      *)
(* fails) or "gone" (does not open).                                        *)
(***************************************************************************)
EXTENDS Naturals, Sequences

CONSTANTS
  ChannelSize,        \* capture_buffer of the configuration
  MaxCaptureErrors,   \* MAX_CAPTURE_ERRORS (10)
  MaxPackets          \* bound: packets pcap returns

ASSUME CaptureAssumption ==
  /\ ChannelSize \in Nat \ {0}
  /\ MaxCaptureErrors \in Nat \ {0}
  /\ MaxPackets \in Nat

VARIABLES
  link,        \* the interface
  thread,      \* "top" of the outer loop, "open", "sleep", "read" (top of the
               \* inner loop), "poll" (inside next_packet), "done"
  errors,      \* consecutive_errors
  seen,        \* packets next_packet has returned
  chan,        \* the packet channel
  accepted,    \* history: packets try_send has put into the channel
  pipeline,    \* "running", "finished"; "panicked" in module Daemon
  handled,     \* packets process_packet has returned for, in order
  main,        \* "waiting" (for a signal), "joining", "awaiting" the pipeline,
               \* and what module Daemon adds
  stopSent     \* stop_tx has sent, or is gone

threadVars == <<thread, errors, seen, accepted>>
vars == <<link, thread, errors, seen, chan, accepted, pipeline, handled, main,
          stopSent>>

Init ==
  /\ link \in {"up", "gone"}
  /\ thread = "top"
  /\ errors = 0
  /\ seen = 0
  /\ chan = <<>>
  /\ accepted = <<>>
  /\ pipeline = "running"
  /\ handled = <<>>
  /\ main = "waiting"
  /\ stopSent = FALSE

(* The interface changes by itself.                                         *)
LinkChanges ==
  /\ link' \in {"up", "faulty", "gone"} \ {link}
  /\ UNCHANGED <<threadVars, chan, pipeline, handled, main, stopSent>>

-----------------------------------------------------------------------------
(* capture_loop                                                             *)

(* stop_rx.try_recv().is_ok(), in either loop: the thread returns and drops *)
(* the sender of the packet channel.                                        *)
ThreadStops ==
  /\ thread \in {"top", "read"}
  /\ stopSent
  /\ thread' = "done"
  /\ UNCHANGED <<link, errors, seen, chan, accepted, pipeline, handled, main,
                 stopSent>>

(* No stop message yet: on to open_capture, or into next_packet.  A stop    *)
(* sent from now on is seen at the next check.                              *)
PassesCheck ==
  /\ thread \in {"top", "read"}
  /\ ~stopSent
  /\ thread' = IF thread = "top" THEN "open" ELSE "poll"
  /\ UNCHANGED <<link, errors, seen, chan, accepted, pipeline, handled, main,
                 stopSent>>

(* open_capture succeeds.                                                   *)
Opens ==
  /\ thread = "open"
  /\ link # "gone"
  /\ errors' = 0
  /\ thread' = "read"
  /\ UNCHANGED <<link, seen, chan, accepted, pipeline, handled, main, stopSent>>

(* A mutated failure path that gives up one attempt too late.               *)
OpenFailsLate ==
  /\ thread = "open"
  /\ link = "gone"
  /\ errors' = errors + 1
  /\ thread' = IF errors' > MaxCaptureErrors THEN "done" ELSE "sleep"
  /\ UNCHANGED <<link, seen, chan, accepted, pipeline, handled, main, stopSent>>

(* open_capture fails: give up, or sleep RECONNECT_DELAY_MS.                *)
OpenFails ==
  /\ thread = "open"
  /\ link = "gone"
  /\ errors' = errors + 1
  /\ thread' = IF errors' >= MaxCaptureErrors THEN "done" ELSE "sleep"
  /\ UNCHANGED <<link, seen, chan, accepted, pipeline, handled, main, stopSent>>

Wakes ==
  /\ thread = "sleep"
  /\ thread' = "top"
  /\ UNCHANGED <<link, errors, seen, chan, accepted, pipeline, handled, main,
                 stopSent>>

(* next_packet returns a packet; try_send drops it when the channel is full *)
(* or the pipeline is gone.                                                 *)
ReadPacket ==
  /\ thread = "poll"
  /\ link = "up"
  /\ seen < MaxPackets
  /\ seen' = seen + 1
  /\ errors' = 0
  /\ IF Len(chan) < ChannelSize /\ pipeline = "running"
     THEN chan' = Append(chan, seen') /\ accepted' = Append(accepted, seen')
     ELSE UNCHANGED <<chan, accepted>>
  /\ thread' = "read"
  /\ UNCHANGED <<link, pipeline, handled, main, stopSent>>

(* TimeoutExpired after 500 ms without a packet.                            *)
ReadTimeout ==
  /\ thread = "poll"
  /\ link = "up"
  /\ thread' = "read"
  /\ UNCHANGED <<link, errors, seen, chan, accepted, pipeline, handled, main,
                 stopSent>>

(* Any error but a timeout breaks to the outer loop, without sleeping and   *)
(* without counting.                                                        *)
ReadFails ==
  /\ thread = "poll"
  /\ link # "up"
  /\ thread' = "top"
  /\ UNCHANGED <<link, errors, seen, chan, accepted, pipeline, handled, main,
                 stopSent>>

-----------------------------------------------------------------------------
(* The pipeline task.                                                       *)

ProcessPacket ==
  /\ pipeline = "running"
  /\ chan # <<>>
  /\ handled' = Append(handled, Head(chan))
  /\ chan' = Tail(chan)
  /\ UNCHANGED <<link, threadVars, pipeline, main, stopSent>>

(* A mutated receive loop that ends with the sender, queued packets or not. *)
PipelineAbandons ==
  /\ pipeline = "running"
  /\ thread = "done"
  /\ pipeline' = "finished"
  /\ UNCHANGED <<link, threadVars, chan, handled, main, stopSent>>

(* recv() returns None once the sender is dropped and the channel is empty. *)
PipelineFinishes ==
  /\ pipeline = "running"
  /\ thread = "done"
  /\ chan = <<>>
  /\ pipeline' = "finished"
  /\ UNCHANGED <<link, threadVars, chan, handled, main, stopSent>>

-----------------------------------------------------------------------------
(* Graceful shutdown in main.                                               *)

(* SIGINT or SIGTERM; capture.stop() sends the stop message and joins.      *)
Signal ==
  /\ main = "waiting"
  /\ stopSent' = TRUE
  /\ main' = "joining"
  /\ UNCHANGED <<link, threadVars, chan, pipeline, handled>>

Joined ==
  /\ main = "joining"
  /\ thread = "done"
  /\ main' = "awaiting"
  /\ UNCHANGED <<link, threadVars, chan, pipeline, handled, stopSent>>

ThreadStep ==
  \/ ThreadStops \/ PassesCheck \/ Opens \/ OpenFails \/ Wakes
  \/ ReadTimeout \/ ReadFails

-----------------------------------------------------------------------------
(* While the thread lives, fewer than MAX_CAPTURE_ERRORS opens in a row have*)
(* failed; it gives up at the tenth, neither before nor after, and never    *)
(* unless told to stop or out of attempts.                                  *)
GivesUpAtLimit ==
  IF thread = "done" THEN stopSent \/ errors = MaxCaptureErrors
                     ELSE errors < MaxCaptureErrors
=============================================================================
