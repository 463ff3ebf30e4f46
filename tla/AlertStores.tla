----------------------------- MODULE AlertStores -----------------------------
(***************************************************************************)
(* The two implementations of the AlertStore trait: SqliteAlertStore, where *)
(* every call holds one mutex from start to end, and InMemoryAlertStore, a  *)
(* DashMap and an atomic counter, where list_alerts and is_acknowledged walk*)
(* the map shard by shard while other calls go on and insert_alert takes its*)
(* id before the alert is in the map.  The daemon picks one at start.       *)
(*                                                                          *)
(* The rule engine is the only inserter and asks is_acknowledged between    *)
(* its inserts.  The API lists, acknowledges and deletes from other threads;*)
(* a client keeps an alert it was shown, over restarts of the daemon.  Reads*)
(* leave the store alone, so one read in progress at a time is enough.      *)
(*                                                                          *)
(* An alert keeps what the calls look at.  Severity and rule filters both   *)
(* select by a fixed attribute, so a filter is the set of rules it lets     *)
(* through, the acknowledged states it lets through, and a limit.  A call   *)
(* that returns an error changes nothing and is not a step.                 *)
(***************************************************************************)
EXTENDS Naturals, Sequences, FiniteSetsExt

CONSTANTS
  Rule, Mac,    \* names of rules, hardware addresses
  Backends,     \* a subset of {"sqlite", "memory"}
  Filters,      \* the filters a client asks for; limit MaxInserts is none
  MaxInserts,   \* bound: alerts raised over all starts
  MaxTime,      \* bound: the wall clock, which does not step back
  MaxStarts     \* bound: starts of the daemon

ASSUME StoresAssumption ==
  /\ Backends \subseteq {"sqlite", "memory"}
  /\ Filters \subseteq [rules : SUBSET Rule, acked : SUBSET BOOLEAN, limit : Nat]
  /\ MaxInserts \in Nat /\ MaxTime \in Nat /\ MaxStarts \in Nat

Id == 1 .. MaxInserts

VARIABLES
  backend,   \* which store the daemon opened
  order,     \* where the shard of each id stands in a walk of the map
  clock,     \* Timestamp::now()
  starts,    \* how often the daemon was started
  raised,    \* history: alerts raised so far; numbers them
  alerts,    \* the stored alerts: id -> alert
  nextId,    \* sqlite_sequence / next_id
  inserting, \* memory insert between fetch_add and the map: <<>> or <<alert>>
  call,      \* the read in progress: is_acknowledged or list_alerts
  shown      \* an alert of the list a client was shown last

storeVars  == <<alerts, nextId, inserting>>
daemonVars == <<backend, order, clock, starts, raised>>
vars == <<backend, order, clock, starts, raised, alerts, nextId, inserting,
          call, shown>>

Alert  == [id : Id, rule : Rule, mac : Mac, at : Nat, acked : BOOLEAN, serial : Nat]

(* The rules and acknowledged parts of an AlertFilter.                      *)
Matches(a, f) == a.rule \in f.rules /\ a.acked \in f.acked

(* The rows is_acknowledged counts.                                         *)
Suppressing(s, r, m) == {id \in DOMAIN s : s[id].rule = r /\ s[id].mac = m /\ s[id].acked}

Idle    == [kind |-> "none", pc |-> "done"]
Nothing == [id |-> 0, serial |-> 0, start |-> 0]
Running(kind) == call.kind = kind /\ call.pc = "scan"

Init ==
  /\ backend \in Backends
  /\ order \in {f \in [Id -> Id] : IsInjective(f)}
  /\ backend = "sqlite" => \A id \in Id : order[id] = id
  /\ clock = 1
  /\ starts = 1
  /\ raised = 0
  /\ alerts = <<>>
  /\ nextId = 1
  /\ inserting = <<>>
  /\ call = Idle
  /\ shown = Nothing

-----------------------------------------------------------------------------
(* What the read in progress lives through when the alerts become `new`:    *)
(* whether the pair was suppressed at some moment and at every moment, and  *)
(* which alerts were there and matched at every moment.                     *)
Witness(new, deleted) ==
  call' =
    IF Running("check")
    THEN LET now == Suppressing(new, call.rule, call.mac) # {}
         IN  [call EXCEPT !.ever = @ \/ now, !.always = @ /\ now,
                          !.deleted = @ \/ deleted]
    ELSE IF Running("list")
    THEN [call EXCEPT !.stayed =
            {id \in @ : id \in DOMAIN new /\ Matches(new[id], call.filter)}]
    ELSE call

Store(id, a) == [x \in DOMAIN alerts \cup {id} |-> IF x = id THEN a ELSE alerts[x]]

(* Alert::new for a rule and a device.                                      *)
NewAlert(r, m) ==
  [id |-> nextId, rule |-> r, mac |-> m, at |-> clock, acked |-> FALSE,
   serial |-> raised + 1]

(* A mutated insert without AUTOINCREMENT: one above the largest id in use. *)
InsertSqliteReusing(r, m) ==
  LET id == 1 + Max(DOMAIN alerts \cup {0}) IN
  /\ backend = "sqlite" /\ ~Running("check")
  /\ raised < MaxInserts
  /\ raised' = raised + 1
  /\ alerts' = Store(id, [NewAlert(r, m) EXCEPT !.id = id])
  /\ nextId' = id + 1
  /\ Witness(alerts', FALSE)
  /\ UNCHANGED <<backend, order, clock, starts, inserting, shown>>

(* SqliteAlertStore::insert_alert                                           *)
InsertSqlite(r, m) ==
  /\ backend = "sqlite" /\ ~Running("check")
  /\ raised < MaxInserts
  /\ raised' = raised + 1
  /\ alerts' = Store(nextId, NewAlert(r, m))
  /\ nextId' = nextId + 1
  /\ Witness(alerts', FALSE)
  /\ UNCHANGED <<backend, order, clock, starts, inserting, shown>>

(* InMemoryAlertStore::insert_alert: next_id.fetch_add                      *)
InsertAllocates(r, m) ==
  /\ backend = "memory" /\ ~Running("check") /\ inserting = <<>>
  /\ raised < MaxInserts
  /\ raised' = raised + 1
  /\ inserting' = <<NewAlert(r, m)>>
  /\ nextId' = nextId + 1
  /\ UNCHANGED <<backend, order, clock, starts, alerts, call, shown>>

(* ... and alerts.insert                                                    *)
InsertStores ==
  /\ inserting # <<>>
  /\ alerts' = Store(inserting[1].id, inserting[1])
  /\ inserting' = <<>>
  /\ Witness(alerts', FALSE)
  /\ UNCHANGED <<daemonVars, nextId, shown>>

(* What the stores make of the alerts in acknowledge_alert and delete_alert.*)
Acknowledged(id) == [alerts EXCEPT ![id].acked = TRUE]
Deleted(id) == [x \in DOMAIN alerts \ {id} |-> alerts[x]]

(* POST /alerts/{id}/acknowledge; an unknown id is an error, nothing changes.*)
Acknowledge(id) ==
  /\ id \in DOMAIN alerts
  /\ alerts' = Acknowledged(id)
  /\ Witness(alerts', FALSE)
  /\ UNCHANGED <<daemonVars, nextId, inserting, shown>>

(* DELETE /alerts/{id}; deleting an unknown id succeeds, nothing changes.   *)
Delete(id) ==
  /\ id \in DOMAIN alerts
  /\ alerts' = Deleted(id)
  /\ Witness(alerts', TRUE)
  /\ UNCHANGED <<daemonVars, nextId, inserting, shown>>

-----------------------------------------------------------------------------
(* is_acknowledged, asked by the engine between its inserts.                *)

CheckBegin(r, m) ==
  /\ call = Idle /\ inserting = <<>>
  /\ LET now == Suppressing(alerts, r, m) # {} IN
     call' = [kind |-> "check", pc |-> "scan", rule |-> r, mac |-> m, pos |-> 1,
              found |-> FALSE, ever |-> now, always |-> now, deleted |-> FALSE]
  /\ UNCHANGED <<daemonVars, storeVars, shown>>

(* SELECT COUNT over the rows of the pair that are acknowledged.            *)
CheckSqlite ==
  /\ backend = "sqlite" /\ Running("check")
  /\ call' = [call EXCEPT !.pc = "done",
       !.found = Cardinality(Suppressing(alerts, call.rule, call.mac)) > 0]
  /\ UNCHANGED <<daemonVars, storeVars, shown>>

(* A mutated predicate of any() that forgets the rule.                      *)
CheckVisitAnyRule ==
  /\ backend = "memory" /\ Running("check")
  /\ call.pos \in Id /\ ~call.found
  /\ call' = [call EXCEPT !.pos = @ + 1,
       !.found = \E r \in Rule : \E id \in Suppressing(alerts, r, call.mac) :
                    order[id] = call.pos]
  /\ UNCHANGED <<daemonVars, storeVars, shown>>

(* alerts.iter().any: the alerts of the next shard.                         *)
CheckVisit ==
  /\ backend = "memory" /\ Running("check")
  /\ call.pos \in Id /\ ~call.found
  /\ call' = [call EXCEPT !.pos = @ + 1,
       !.found = \E id \in Suppressing(alerts, call.rule, call.mac) :
                    order[id] = call.pos]
  /\ UNCHANGED <<daemonVars, storeVars, shown>>

CheckEnd ==
  /\ backend = "memory" /\ Running("check")
  /\ call.pos \notin Id \/ call.found
  /\ call' = [call EXCEPT !.pc = "done"]
  /\ UNCHANGED <<daemonVars, storeVars, shown>>

(* The engine goes on with the answer (module RuleEngine).                  *)
CheckReturns ==
  /\ call.kind = "check" /\ call.pc = "done"
  /\ call' = Idle
  /\ UNCHANGED <<daemonVars, storeVars, shown>>

-----------------------------------------------------------------------------
(* list_alerts, called by the API for a client.                             *)

Truncated(s, n) == SubSeq(s, 1, IF n < Len(s) THEN n ELSE Len(s))
Selected(f) == {alerts[id] : id \in {x \in DOMAIN alerts : Matches(alerts[x], f)}}

(* The elements of S one after the other; `ahead` are the pairs of one and a*)
(* later one.                                                               *)
Ranked(S, ahead) ==
  [k \in 1 .. Cardinality(S) |->
     CHOOSE a \in S : Cardinality({b \in S : <<b, a>> \in ahead}) = k - 1]

(* ORDER BY id DESC, and sort_by_key(Reverse(timestamp)) of what the walk   *)
(* found, which is stable.                                                  *)
ById(S) == {e \in S \X S : e[1].id > e[2].id}
ByTime(S) ==
  {e \in S \X S : \/ e[1].at > e[2].at
                  \/ e[1].at = e[2].at /\ order[e[1].id] < order[e[2].id]}

(* The list a call returns; `stayed` becomes the alerts themselves.         *)
Listed(s, stayed, limit) ==
  call' = [kind |-> "list", pc |-> "done", result |-> Truncated(s, limit),
           stayed |-> {alerts[id] : id \in stayed}, limit |-> limit]

(* A mutated query without DESC.                                            *)
ListSqliteAscending(f) ==
  /\ backend = "sqlite" /\ call = Idle
  /\ Listed(Ranked(Selected(f), {e \in Selected(f) \X Selected(f) : e[1].id < e[2].id}),
            {a.id : a \in Selected(f)}, f.limit)
  /\ UNCHANGED <<daemonVars, storeVars, shown>>

(* SELECT ... WHERE ... ORDER BY id DESC LIMIT                              *)
ListSqlite(f) ==
  /\ backend = "sqlite" /\ call = Idle
  /\ Listed(Ranked(Selected(f), ById(Selected(f))), {a.id : a \in Selected(f)}, f.limit)
  /\ UNCHANGED <<daemonVars, storeVars, shown>>

ListBegin(f) ==
  /\ backend = "memory" /\ call = Idle
  /\ call' = [kind |-> "list", pc |-> "scan", filter |-> f, pos |-> 1, got |-> {},
              stayed |-> {a.id : a \in Selected(f)}]
  /\ UNCHANGED <<daemonVars, storeVars, shown>>

(* alerts.iter().map().filter(): the alerts of the next shard.              *)
ListVisit ==
  /\ Running("list") /\ call.pos \in Id
  /\ call' = [call EXCEPT !.pos = @ + 1,
       !.got = @ \cup {a \in Selected(call.filter) : order[a.id] = call.pos}]
  /\ UNCHANGED <<daemonVars, storeVars, shown>>

(* sort_by_key and truncate.                                                *)
ListEnd ==
  /\ Running("list") /\ call.pos \notin Id
  /\ Listed(Ranked(call.got, ByTime(call.got)), call.stayed, call.filter.limit)
  /\ UNCHANGED <<daemonVars, storeVars, shown>>

(* The client has the list, and an alert of it in mind, if it has any.      *)
ListReturns ==
  /\ call.kind = "list" /\ call.pc = "done"
  /\ \/ call.result = <<>> /\ shown' = Nothing
     \/ \E k \in DOMAIN call.result :
          shown' = [id |-> call.result[k].id, serial |-> call.result[k].serial,
                    start |-> starts]
  /\ call' = Idle
  /\ UNCHANGED <<daemonVars, storeVars>>

-----------------------------------------------------------------------------
Tick ==
  /\ clock < MaxTime
  /\ clock' = clock + 1
  /\ UNCHANGED <<backend, order, starts, raised, storeVars, call, shown>>

(* The daemon ends, in any way, and is started again with the same backend. *)
Restart ==
  /\ starts < MaxStarts
  /\ starts' = starts + 1
  /\ alerts' = IF backend = "sqlite" THEN alerts ELSE <<>>
  /\ nextId' = IF backend = "sqlite" THEN nextId ELSE 1
  /\ inserting' = <<>>
  /\ call' = Idle
  /\ UNCHANGED <<backend, order, clock, raised, shown>>

Next ==
  \/ \E r \in Rule, m \in Mac :
       InsertSqlite(r, m) \/ InsertAllocates(r, m) \/ CheckBegin(r, m)
  \/ InsertStores
  \/ \E id \in Id : Acknowledge(id) \/ Delete(id)
  \/ CheckSqlite \/ CheckVisit \/ CheckEnd \/ CheckReturns
  \/ \E f \in Filters : ListSqlite(f) \/ ListBegin(f)
  \/ ListVisit \/ ListEnd \/ ListReturns
  \/ Tick \/ Restart

Spec == Init /\ [][Next]_vars

-----------------------------------------------------------------------------
(* An answer of is_acknowledged was true of the store at some moment of the *)
(* call: "yes" if some acknowledged alert of the pair was there, "no" if at *)
(* some moment none was.  The walk of the in-memory map has one exception:  *)
(* it may miss an alert acknowledged behind it when the one ahead is deleted*)
(* before it gets there, so "no" may also mean that an alert was deleted    *)
(* during the call.                                                         *)
AnswerWasTrue ==
  call.kind = "check" /\ call.pc = "done" =>
    /\ call.found => call.ever
    /\ ~call.found => ~call.always \/ (backend = "memory" /\ call.deleted)

(* An id a client was shown names the alert it was shown, or none: deleting *)
(* alerts and, with SQLite, restarting the daemon never hands the id to     *)
(* another alert, so a late acknowledge or delete cannot hit a wrong one.   *)
(* The in-memory store counts from 1 again in every start.                  *)
IdsKeepTheirMeaning ==
  /\ shown.id \in DOMAIN alerts
  /\ backend = "sqlite" \/ shown.start = starts
  => alerts[shown.id].serial = shown.serial

(* A list is most-recent first, and what is missing from it was cut by the  *)
(* limit: an alert that was stored and matched during the whole call is in  *)
(* it, or the list is full of alerts at least as recent.                    *)
ListShowsMostRecent ==
  call.kind = "list" /\ call.pc = "done" =>
    LET s == call.result IN
    /\ \A j, k \in DOMAIN s : j < k => s[j].at >= s[k].at
    /\ \A a \in call.stayed :
         \/ \E k \in DOMAIN s : s[k].id = a.id
         \/ Len(s) = call.limit /\ \A k \in DOMAIN s : s[k].at >= a.at

-----------------------------------------------------------------------------
(* Why they hold, inductively.                                              *)

TypeOK ==
  /\ backend \in {"sqlite", "memory"}
  /\ order \in [Id -> Id] /\ IsInjective(order)
  /\ clock \in Nat /\ starts \in Nat \ {0}
  /\ raised \in 0 .. MaxInserts /\ nextId \in 1 .. raised + 1
  /\ \A id \in DOMAIN alerts : alerts[id] \in Alert
  /\ inserting # <<>> => inserting[1] \in Alert /\ backend = "memory"

CheckCall ==
  [kind : {"check"}, pc : {"scan", "done"}, rule : Rule, mac : Mac,
   pos : 1 .. MaxInserts + 1, found : BOOLEAN, ever : BOOLEAN, always : BOOLEAN,
   deleted : BOOLEAN]
ListCall ==
  [kind : {"list"}, pc : {"scan"}, filter : Filters, pos : 1 .. MaxInserts + 1,
   got : SUBSET Alert, stayed : SUBSET Id]
ListDone ==
  [kind : {"list"}, pc : {"done"}, result : Seq(Alert), stayed : SUBSET Alert,
   limit : Nat]

CallOK ==
  /\ call \in {Idle} \cup CheckCall \cup ListCall \cup ListDone
  /\ shown \in [id : Nat, serial : Nat, start : 0 .. starts]

(* The lowest id that no stored alert, and so no client, can have seen.     *)
Fresh == IF inserting = <<>> THEN nextId ELSE nextId - 1

(* The stored alerts are below it, filed under their ids and numbered in    *)
(* the order of their times; the one being inserted is next.                *)
StoreInv ==
  /\ \A id \in DOMAIN alerts :
       id \in 1 .. Fresh - 1 /\ alerts[id].id = id /\ alerts[id].at <= clock
  /\ \A i, j \in DOMAIN alerts : i < j => alerts[i].at <= alerts[j].at
  /\ inserting # <<>> =>
       /\ inserting[1].id = Fresh /\ inserting[1].at <= clock
       /\ \A id \in DOMAIN alerts : alerts[id].at <= inserting[1].at

(* An id that was given out means the alert of that serial number, or none. *)
Means(id, serial) ==
  id < Fresh /\ (id \in DOMAIN alerts => alerts[id].serial = serial)

MeaningInv ==
  /\ backend = "sqlite" \/ shown.start = starts => Means(shown.id, shown.serial)
  /\ call \in ListCall => \A a \in call.got : Means(a.id, a.serial)
  /\ call \in ListDone =>
       \A k \in DOMAIN call.result : Means(call.result[k].id, call.result[k].serial)

(* A walk that has found nothing although the pair was suppressed all the   *)
(* time, and no alert was deleted, has such an alert ahead of it.           *)
CheckInv ==
  /\ call \in CheckCall /\ call.pc = "scan" =>
       LET now == Suppressing(alerts, call.rule, call.mac) IN
       /\ call.found => call.ever
       /\ now # {} => call.ever
       /\ call.always => now # {}
       /\ backend = "memory" /\ call.always /\ ~call.found /\ ~call.deleted =>
            \E id \in now : order[id] >= call.pos
  /\ AnswerWasTrue

(* A walk has copied what stayed behind it, each alert once.                *)
ListInv ==
  /\ call \in ListCall =>
       /\ \A a, b \in call.got : a.id = b.id => a = b
       /\ \A a \in call.got :
            /\ order[a.id] < call.pos
            /\ a.id \in DOMAIN alerts => alerts[a.id].at = a.at
       /\ \A id \in call.stayed :
            /\ id \in DOMAIN alerts /\ Matches(alerts[id], call.filter)
            /\ order[id] < call.pos => \E a \in call.got : a.id = id
  /\ ListShowsMostRecent

StoresInv == TypeOK /\ CallOK /\ StoreInv /\ MeaningInv /\ CheckInv /\ ListInv
=============================================================================
