------------------------------- MODULE MCDaemon -------------------------------
(* Three notifiers, in the order daemon.rs builds them: one that waits for its 
   service without limit, one with a queue, and one with a timeout.         *)
EXTENDS Daemon

ThreeNotifiers == <<"ntfy", "mqtt", "webhook">>
=============================================================================
