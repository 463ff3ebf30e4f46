------------------------------ MODULE Dashboard ------------------------------
(***************************************************************************)
(* The terminal dashboard (crates/tui) beside the daemon it watches.  A    *)
(* poller task fetches four endpoints in parallel and replaces the shared  *)
(* Snapshot; the UI task draws it, handles one key at a time and, for an   *)
(* acknowledgment, fetches and replaces the Snapshot itself.  Answers and  *)
(* waits for the lock are steps of their own.                              *)
(*                                                                         *)
(* An alert is its id, a device its MAC; a list of alerts is a set, since  *)
(* the daemon lists the newest, that is the largest, id first, and fewer   *)
(* than the hundred it lists at most.  The devices were found before the   *)
(* dashboard started.  App.flash, a line of text, is left out.             *)
(***************************************************************************)
EXTENDS Integers, FiniteSets, SequencesExt

CONSTANTS
  MaxAlerts,     \* bound: alerts the daemon raises
  Macs,          \* devices the daemon lists
  Replaced,      \* marks a frame older than the snapshot
  None,          \* no alert, no device, no error
  MaxDeletes,    \* bound: alerts other clients delete
  MaxFaults      \* bound: requests that fail or lose their answer

ASSUME DashboardAssumption ==
  MaxAlerts \in Nat /\ MaxDeletes \in Nat /\ MaxFaults \in Nat

VARIABLES
  alerts, acked,                \* the daemon: alerts kept, acknowledged
  raised,                       \* the daemon: ids given out
  snapshot,                     \* Arc<RwLock<Snapshot>>
  writing,                      \* the poller holds the write lock
  poller,                       \* "tick", "fetch"
  ui,                           \* where the UI task is
  fetched,                      \* answers of a fetch under way, per task
  target,                       \* id or MAC the handler under way works on
  view, deviceRow, alertRow,    \* App.view, devices.selected, alerts.selected
  detail, quit,                 \* App.detail, App.quit
  faults,
  highlight,                    \* observer: alert highlighted on the screen, or
                                \* Replaced: the snapshot is newer than the frame
  confirmed,                    \* observer: acks whose refresh is done
  known, behind                 \* observers: confirmed when the poll under way
                                \* began; confirmed during the poll now shown

daemon == <<alerts, acked, raised>>
app == <<view, deviceRow, alertRow, detail, quit>>
observer == <<highlight, confirmed, known>>
vars == <<daemon, snapshot, writing, poller, ui, fetched, target, app, faults,
          observer, behind>>

Ids == 1..MaxAlerts
Endpoints == <<"health", "devices", "alerts", "metrics">>
Tasks == {"poller", "ui"}
Views == <<"Devices", "Alerts", "Metrics", "Health">>

(* Snapshot::empty: no field fetched, and no error either.                 *)
EmptySnapshot == [missing |-> ToSet(Endpoints), last_error |-> None,
                  alerts |-> {}, acked |-> {}, devices |-> <<>>]

(* A fetch under way, before GET /alerts is answered.                      *)
NotFetched == [waiting |-> TRUE, missing |-> {}, alerts |-> {}, acked |-> {}]

device_count(s) == IF "devices" \in s.missing THEN 0 ELSE Len(s.devices)
alert_count(s) == IF "alerts" \in s.missing THEN 0 ELSE Cardinality(s.alerts)

(* selected_alert_id: the id at a row, rows being numbered from 0 and the  *)
(* newest alert first.                                                     *)
selected_alert_id(s, row) ==
  LET Newer(a) == {b \in s.alerts : b > a}
      At == {a \in s.alerts : Cardinality(Newer(a)) = row}
  IN  IF "alerts" \in s.missing \/ At = {} THEN None ELSE CHOOSE a \in At : TRUE

selected_mac(s, row) ==
  IF "devices" \in s.missing \/ row >= Len(s.devices) THEN None
  ELSE s.devices[row + 1]
-----------------------------------------------------------------------------
Init ==
  /\ alerts = {} /\ acked = {} /\ raised = 0
  /\ snapshot = EmptySnapshot /\ writing = FALSE
  /\ poller = "tick" /\ ui = "draw"
  /\ fetched = [t \in Tasks |-> NotFetched]
  /\ target = None
  /\ view = "Devices" /\ deviceRow = 0 /\ alertRow = 0
  /\ detail = None /\ quit = FALSE
  /\ faults = 0
  /\ highlight = None /\ confirmed = {}
  /\ known = {} /\ behind = {}

(* The daemon raises alerts meanwhile, and other clients delete some.      *)
Daemon ==
  /\ ui # "done"
  /\ \/ /\ raised < MaxAlerts
        /\ raised' = raised + 1 /\ alerts' = alerts \union {raised + 1}
        /\ UNCHANGED acked
     \/ /\ raised - Cardinality(alerts) < MaxDeletes
        /\ \E a \in alerts : alerts' = alerts \ {a} /\ acked' = acked \ {a}
        /\ UNCHANGED raised
  /\ UNCHANGED <<snapshot, writing, poller, ui, fetched, target, app, faults,
                 observer, behind>>

(* Mutant of Answer: the client answers from what it fetched before.       *)
Mut_Answer(t) ==
  /\ IF t = "poller" THEN poller = "fetch" /\ ui # "done" ELSE ui = "refresh"
  /\ fetched[t].waiting
  /\ fetched' = [fetched EXCEPT ![t] =
       [waiting |-> FALSE, missing |-> {},
        alerts |-> IF snapshot.alerts = {} THEN alerts ELSE snapshot.alerts,
        acked |-> IF snapshot.alerts = {} THEN acked ELSE snapshot.acked]]
  /\ UNCHANGED <<daemon, snapshot, writing, poller, ui, target, app, faults,
                 observer, behind>>

(* GET /alerts is answered to task t, with the daemon's state at this      *)
(* moment, or fails.                                                       *)
Answer(t) ==
  /\ IF t = "poller" THEN poller = "fetch" /\ ui # "done" ELSE ui = "refresh"
  /\ fetched[t].waiting
  /\ \/ /\ fetched' = [fetched EXCEPT ![t] =
             [waiting |-> FALSE, missing |-> {}, alerts |-> alerts, acked |-> acked]]
        /\ UNCHANGED faults
     \/ /\ faults < MaxFaults /\ faults' = faults + 1
        /\ fetched' = [fetched EXCEPT ![t] =
             [NotFetched EXCEPT !.waiting = FALSE, !.missing = {"alerts"}]]
  /\ UNCHANGED <<daemon, snapshot, writing, poller, ui, target, app, observer,
                 behind>>

(* Client::snapshot after the join.  The other three answers do not depend *)
(* on when they are given: health and metrics succeed or fail, and the     *)
(* devices come in any order, since the daemon lists a hash map.           *)
(* last_error is the first endpoint, in the order of the match statements, *)
(* that failed.                                                            *)
FirstError(missing) ==
  IF missing = {} THEN None
  ELSE SelectSeq(Endpoints, LAMBDA e : e \in missing)[1]

Write(t) ==
  \E lost \in SUBSET {"health", "devices", "metrics"}, order \in SetToSeqs(Macs) :
    LET missing == fetched[t].missing \union lost IN
    /\ faults' = faults + Cardinality(lost) /\ faults' <= MaxFaults
    /\ snapshot' = [missing |-> missing, last_error |-> FirstError(missing),
                    alerts |-> fetched[t].alerts, acked |-> fetched[t].acked,
                    devices |-> IF "devices" \in lost THEN <<>> ELSE order]
    /\ fetched' = [fetched EXCEPT ![t] = NotFetched]
-----------------------------------------------------------------------------
(* poll_loop: tick, fetch, take the lock, replace the snapshot.            *)
PollTick ==
  /\ poller = "tick" /\ ui # "done"
  /\ poller' = "fetch"
  /\ known' = confirmed
  /\ UNCHANGED <<daemon, snapshot, writing, ui, fetched, target, app, faults,
                 highlight, confirmed, behind>>

PollLock ==
  /\ poller = "fetch" /\ ui # "done" /\ ~writing
  /\ ~fetched["poller"].waiting
  /\ writing' = TRUE
  /\ UNCHANGED <<daemon, snapshot, poller, ui, fetched, target, app, faults,
                 observer, behind>>

(* Mutant of PollWrite: the poller ends when a fetch fails.                *)
Mut_PollWrite ==
  /\ writing /\ ui # "done"
  /\ Write("poller")
  /\ writing' = FALSE
  /\ poller' = IF snapshot'.missing = {} THEN "tick" ELSE "stopped"
  /\ highlight' = Replaced /\ behind' = confirmed \ known /\ known' = {}
  /\ UNCHANGED <<daemon, ui, target, app, confirmed>>

PollWrite ==
  /\ writing /\ ui # "done"
  /\ Write("poller")
  /\ writing' = FALSE /\ poller' = "tick"
  /\ highlight' = Replaced /\ behind' = confirmed \ known /\ known' = {}
  /\ UNCHANGED <<daemon, ui, target, app, confirmed>>
-----------------------------------------------------------------------------
(* What the drawn frame highlights: a row of the alerts view, unless the   *)
(* overlay covers it.  The list widget takes the last row for one behind   *)
(* the end.                                                                *)
Highlighted ==
  LET last == alert_count(snapshot) - 1
  IN  IF view = "Alerts" /\ detail = None
      THEN selected_alert_id(snapshot, IF alertRow > last THEN last ELSE alertRow)
      ELSE None

(* terminal.draw(render) and the test of quit.  While the poller writes,   *)
(* try_read fails and nothing is drawn.                                    *)
Draw ==
  /\ ui = "draw"
  /\ ui' = IF quit THEN "done" ELSE "input"
  /\ highlight' = IF writing THEN Replaced ELSE Highlighted
  /\ UNCHANGED <<daemon, snapshot, writing, poller, fetched, target, app, faults,
                 confirmed, known, behind>>

(* event::poll runs into its 250 ms.                                       *)
NoKey ==
  /\ ui = "input"
  /\ ui' = "draw"
  /\ UNCHANGED <<daemon, snapshot, writing, poller, fetched, target, app, faults,
                 observer, behind>>

Position(v) == CHOOSE i \in 1..4 : Views[i] = v
next_view(v) == Views[(Position(v) % 4) + 1]
prev_view(v) == Views[((Position(v) + 2) % 4) + 1]

up(row, len) == IF len = 0 THEN 0 ELSE Min({Max({row - 1, 0}), len - 1})
down(row, len) == IF len = 0 THEN 0 ELSE Min({row + 1, len - 1})

current_list_len ==
  CASE writing -> 0
    [] ~writing /\ view = "Devices" -> device_count(snapshot)
    [] ~writing /\ view = "Alerts" -> alert_count(snapshot)
    [] OTHER -> 0

(* Keys handled without waiting, with the overlay closed.                  *)
QuitKey == quit' = TRUE /\ UNCHANGED <<view, deviceRow, alertRow, detail>>

ViewKey ==
  /\ view' \in {next_view(view), prev_view(view)} \union ToSet(Views)
  /\ UNCHANGED <<deviceRow, alertRow, detail, quit>>

MovesTo(row) == {up(row, current_list_len), down(row, current_list_len)}

MoveKey ==
  /\ deviceRow' \in IF view = "Devices" THEN MovesTo(deviceRow) ELSE {deviceRow}
  /\ alertRow' \in IF view = "Alerts" THEN MovesTo(alertRow) ELSE {alertRow}
  /\ UNCHANGED <<view, detail, quit>>

(* handle_event for such a key.                                            *)
PlainKey ==
  /\ ui = "input" /\ detail = None
  /\ QuitKey \/ ViewKey \/ MoveKey
  /\ ui' = "draw"
  /\ UNCHANGED <<daemon, snapshot, writing, poller, fetched, target, faults,
                 observer, behind>>

(* handle_event with the overlay open: Esc and Backspace close it, q quits,*)
(* everything else is swallowed.                                           *)
OverlayKey ==
  /\ ui = "input" /\ detail # None
  /\ \/ detail' = None /\ UNCHANGED quit
     \/ quit' = TRUE /\ UNCHANGED detail
     \/ UNCHANGED <<detail, quit>>
  /\ ui' = "draw"
  /\ UNCHANGED <<daemon, snapshot, writing, poller, fetched, target, view,
                 deviceRow, alertRow, faults, observer, behind>>
-----------------------------------------------------------------------------
(* Mutant of AckKey: the row selected among the devices is used.           *)
Mut_AckKey ==
  /\ ui = "input" /\ detail = None /\ ~writing
  /\ LET id == selected_alert_id(snapshot, deviceRow) IN
       /\ target' = id
       /\ ui' = IF id = None THEN "draw" ELSE "post"
  /\ UNCHANGED <<daemon, snapshot, writing, poller, fetched, view, deviceRow,
                 alertRow, detail, quit, faults, observer, behind>>

(* ack_selected, entered by `a` in every view: read the id under the lock, *)
AckKey ==
  /\ ui = "input" /\ detail = None /\ ~writing
  /\ LET id == selected_alert_id(snapshot, alertRow) IN
       /\ target' = id
       /\ ui' = IF id = None THEN "draw" ELSE "post"
  /\ UNCHANGED <<daemon, snapshot, writing, poller, fetched, view, deviceRow,
                 alertRow, detail, quit, faults, observer, behind>>

(* let the daemon handle the POST (an unknown id is refused),              *)
PostHandled ==
  /\ ui = "post"
  /\ \/ /\ target \in alerts
        /\ acked' = acked \union {target} /\ ui' = "posted"
        /\ UNCHANGED faults
     \/ /\ target \notin alerts
        /\ ui' = "refused" /\ UNCHANGED <<acked, faults>>
     \/ /\ faults < MaxFaults /\ faults' = faults + 1
        /\ ui' = "refused" /\ UNCHANGED acked
  /\ UNCHANGED <<alerts, raised, snapshot, writing, poller, fetched, target,
                 app, observer, behind>>

(* receive its answer, which may be lost although the POST was handled,    *)
PostAnswered ==
  /\ \/ /\ ui = "posted"
        /\ ui' = "refresh" /\ UNCHANGED <<target, faults>>
     \/ /\ ui = "posted" /\ faults < MaxFaults /\ faults' = faults + 1
        /\ ui' = "draw" /\ target' = None
     \/ /\ ui = "refused"
        /\ ui' = "draw" /\ target' = None /\ UNCHANGED faults
  /\ UNCHANGED <<daemon, snapshot, writing, poller, fetched, view, deviceRow,
                 alertRow, detail, quit, observer, behind>>

(* and, after a fetch of its own, replace the snapshot.                    *)
RefreshWrite ==
  /\ ui = "refresh" /\ ~fetched["ui"].waiting /\ ~writing
  /\ Write("ui")
  /\ ui' = "draw" /\ highlight' = Replaced /\ behind' = {}
  /\ confirmed' = confirmed \union {target}
  /\ target' = None
  /\ UNCHANGED <<daemon, writing, poller, app, known>>
-----------------------------------------------------------------------------
(* open_device_detail, entered by Enter in every view: read the MAC,       *)
EnterKey ==
  /\ ui = "input" /\ detail = None /\ ~writing
  /\ LET mac == selected_mac(snapshot, deviceRow) IN
       /\ target' = mac
       /\ ui' = IF mac = None THEN "draw" ELSE "history"
  /\ UNCHANGED <<daemon, snapshot, writing, poller, fetched, view, deviceRow,
                 alertRow, detail, quit, faults, observer, behind>>

(* fetch that device's history (an error leaves it empty),                 *)
HistoryAnswered ==
  /\ ui = "history"
  /\ ui' \in {"device", "deviceNoHistory"}
  /\ faults' = faults + (IF ui' = "device" THEN 0 ELSE 1)
  /\ faults' <= MaxFaults
  /\ UNCHANGED <<daemon, snapshot, writing, poller, fetched, target, app, observer,
                 behind>>

(* then look the record up, by MAC, in the snapshot of that later moment.  *)
RecordOf(s, mac) ==
  IF "devices" \notin s.missing /\ mac \in ToSet(s.devices) THEN mac ELSE None

OpenOverlay ==
  /\ ui \in {"device", "deviceNoHistory"} /\ ~writing
  /\ detail' = [mac |-> target, device |-> RecordOf(snapshot, target),
                history |-> IF ui = "device" THEN target ELSE None]
  /\ ui' = "draw" /\ target' = None
  /\ UNCHANGED <<daemon, snapshot, writing, poller, fetched, view, deviceRow,
                 alertRow, quit, faults, observer, behind>>
-----------------------------------------------------------------------------
Poll == PollTick \/ Answer("poller") \/ PollLock \/ PollWrite

Handler == PostHandled \/ PostAnswered \/ RefreshWrite \/ HistoryAnswered
           \/ OpenOverlay \/ Answer("ui")

Key == PlainKey \/ OverlayKey \/ AckKey \/ EnterKey

Next == Daemon \/ Poll \/ Draw \/ NoKey \/ Key \/ Handler

Spec == Init /\ [][Next]_vars

(* The client's timeouts answer every request; the runtime schedules both  *)
(* tasks; event::poll returns.  No key is ever promised.                   *)
FairSpec == Spec /\ WF_vars(Poll) /\ WF_vars(Draw) /\ WF_vars(NoKey)
                 /\ WF_vars(Handler)
-----------------------------------------------------------------------------
Stale(a) ==
  /\ a \in snapshot.alerts \ snapshot.acked
  /\ "alerts" \notin snapshot.missing

(* The acknowledgment sent for the `a` key names the alert highlighted in  *)
(* the last frame, unless the poller replaced the snapshot after that      *)
(* frame, or another view than Alerts was shown: selection is by row, and  *)
(* the row is looked up in the newest snapshot (app.rs, ack_selected).     *)
AckHitsHighlighted ==
  [][ui = "input" /\ ui' = "post" =>
       target' = highlight \/ highlight = Replaced \/ view # "Alerts"]_vars

(* After ack_selected has refreshed the snapshot, the alert is shown as    *)
(* acknowledged; only the poll that was under way during the refresh can   *)
(* put the older state back (poll_loop and ack_selected both write).       *)
StaleOnlyByOverlap == \A a \in confirmed : Stale(a) => a \in behind

(* An acknowledgment the user saw confirmed is in the end shown for good:  *)
(* the next complete poll repairs what an overlapping one put back.        *)
AckStaysShown ==
  \A a \in Ids : a \in confirmed ~> [](~Stale(a) \/ ui = "done")
=============================================================================
