--------------------------- MODULE MCAlertStores ---------------------------
(* Filters for TLC: the newest alert, everything, the open alerts of a rule. *)
EXTENDS AlertStores

SomeFilters ==
  {[rules |-> Rule, acked |-> BOOLEAN, limit |-> 1],
   [rules |-> {"a"}, acked |-> {FALSE}, limit |-> MaxInserts]}
=============================================================================
