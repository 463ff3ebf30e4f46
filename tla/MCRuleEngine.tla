---------------------------- MODULE MCRuleEngine ----------------------------
(* Rule sets and event sets for TLC.                                         *)
EXTENDS RuleEngine

ARule(name, enabled, condition, macs, cooldown) ==
  [name |-> name, enabled |-> enabled, condition |-> condition, macs |-> macs,
   cooldown |-> cooldown]

(* Two rules match the same events, one with a cooldown and one without, the *)
(* second for some devices only; a switched-off rule.                        *)
MixedRules == <<ARule("new", TRUE, "new_device", {}, 2),
                ARule("off", FALSE, "new_device", {}, 0),
                ARule("vendor", TRUE, "vendor", {"m1"}, 0)>>

Discovered == [kind : {"discovered"}, mac : Mac]
=============================================================================
