# TLA+ specifications of EdgeShield

EdgeShield is a passive network monitor. It captures packets, keeps an
inventory of the devices it sees, evaluates rules on changes of that inventory,
stores alerts and sends them to notifiers, and serves all of it through an HTTP
API and a terminal UI. This directory holds TLA+ models of its concurrent
parts and of the conversions between them, configurations for TLC, and proofs
for TLAPS. Line numbers below refer to the files under `src/crates/`.

## The system

```
 pcap thread --chan--> pipeline task --events(1024)--> rule engine --alerts(256)--> fanout
 (packet)              (discovery)                      (rules)                    (notify)
                           |   ^                          |                     ntfy mqtt
                        upsert get                 insert / is_acknowledged     webhook email
                           v   |                          v
  flush task (5 s) --> device store               alert store <-- API (acknowledge, delete)
  final flush          (storage)                               <-- auth + limiter (api)
  scanner, history task read it
```

State that several threads or tasks share, and who changes it:

| state | owner | changed by |
|---|---|---|
| packet channel, stop message | `CaptureSession` | pcap thread, pipeline task, main |
| device cache, dirty set, rows | `SqliteStore` | pipeline task, flush task, main at shutdown |
| event channel | `DiscoveryEngine` | pipeline task, offline scanner, rule engine |
| `last_fired` of each rule | `Rule` | rule engine |
| alert store | `SqliteAlertStore` or `InMemoryAlertStore` | rule engine, API requests |
| alert channel | daemon | rule engine, fanout |
| rumqttc's request queue | `MqttNotifier` | fanout, the connection task |
| failed attempts per client | `RateLimiter` | API requests |
| audit log file | `AuditLogger` | one task per answered request |
| PID file, configuration files | the machine | `edgeshield run`, `edgeshield setup` |
| history rows | `SqliteHistoryStore` | history task |
| snapshot shown by the UI | `tui::App` | poll task, key handling |

## Modules

| module | models | how state and actions correspond |
|---|---|---|
| `CapturePipeline` | `packet/src/capture.rs`, pipeline task and join in `daemon.rs` | `thread` is the position in `capture_loop`; between a check for stop and the call after it a signal may arrive |
| `NotifierFanout` | `notify/src/fanout.rs` and what a `deliver` waits for | `alert` and `at` are the two loops; outages decide which delivery returns |
| `Daemon` | the tasks of `daemon/src/daemon.rs` from capture to fanout, and its shutdown | extends `CapturePipeline`, instantiates `NotifierFanout` over its alert channel, adds event channel, rule engine and the steps of main; an aborted task is `Dropped` later, at an await; `MCDaemon` holds notifiers |
| `Daemon_proofs` | | proofs about `Daemon` |
| `DurableInventory` | what the device store promises | abstract: a live and a saved inventory, `Start`, `Record`, `Save`, `Stop` |
| `SqliteStore` | `storage/src/sqlite.rs`, flush task and final flush | `cache`, `dirty`, `db` are the fields of the struct and the table; each access of `upsert` and `flush` to one of them is an action; `Crash` may come anywhere |
| `SqliteStore_proofs` | | proofs about `SqliteStore` |
| `Records` | row converters of the three SQLite stores, `common/src/types.rs`, `time.rs`, `alert.rs`, migration | a device goes through packets, rows, JSON and back; `Create`, `AddVendorClass`, `AddStats` and `Load` are the statements of `open`, `Stop` may come between; `MCRecords` holds packets |
| `Discovery` | `discovery/src/discovery.rs`, counters of `common/src/types.rs`, offline scanner of `daemon.rs` | storing the source, storing the destination and announcing either are actions; the scanner copies the store, reads the clock and visits the copy in between; `MCDiscovery` holds packets |
| `Discovery_proofs` | | proofs about `Discovery` |
| `Ingest` | `packet/src/decode.rs`, `protocol/src`, the start of `process_packet` | pure operators with the names of the functions, on sequences of bytes |
| `Traffic` | the senders (external) | builds well-formed messages step by step and encodes them; shares nothing with `Ingest` but its results; `MCTraffic` holds frames, options and records |
| `RuleEngine` | `rules/src/engine.rs` | `pc` walks through `process_event` and `evaluate_rule`; the two store calls are separate steps, API requests come between; `MCRuleEngine` holds rule sets |
| `RuleEngine_proofs` | | proofs about `RuleEngine` |
| `AlertStores` | `storage/src/alert_sqlite.rs`, `rules/src/store.rs`, the alert routes of the API | SQLite calls are one action each, under the store's mutex; in the in-memory store an insert takes its id first, and `list_alerts` and `is_acknowledged` walk the map shard by shard while other calls go on; `MCAlertStores` holds filters |
| `AlertStores_proofs` | | proofs about `AlertStores` |
| `HistoryTask` | history task in `daemon.rs`, `storage/src/history_sqlite.rs` | `pc` walks through one cycle of the task, `copies`, `today` and `cutoff` are its locals; packets, flushes, midnight, failing statements and restarts come between |
| `HistoryTask_proofs` | | proofs about `HistoryTask` |
| `ApiAuth` | `api/src/auth.rs`, `api/src/audit.rs` | a request asks the limiter, verifies, then records with the time it read before taking the entry's lock; every answer passes the audit middleware, whose task writes later; `MCApiAuth` adds symmetry |
| `ApiAuth_proofs` | | proofs about `ApiAuth` |
| `Dashboard` | `tui/src` | the poller's and the UI's fetches, answers and writes of the snapshot are steps; keys act on what was drawn |
| `Configuration` | `config/src/config.rs`, rendering and prompts of `cli/src/setup.rs`, `rules/src/config_bridge.rs`, startup in `daemon.rs` | pure operators from inputs to a document, from a document to a configuration, from that to what runs |
| `Launch` | `edgeshield run` and `edgeshield setup` in `cli/src` | each access to the PID file or a configuration file is a step; processes are killed and process ids reused; `MCLaunch` holds requests and files |
| `Launch_proofs` | | proofs about `Launch` and the operators of `Configuration` |

Definitions called "mutated" in a comment, many of them named `Mut_...`, are
deliberately wrong variants of the definition that follows them. No
specification uses them; they serve to confirm that a property notices the
corresponding mistake.

### How the modules fit together

`Ingest` makes of a frame what `Discovery` takes as a packet. `Discovery` makes
the events that `RuleEngine` takes, and the records `SqliteStore` saves, whose
contents `Records` follows through the tables. `Daemon` reduces a packet to its
number and follows the numbers through all tasks: there the channels, the
waiting and the order of the shutdown are composed. `SqliteStore` has the same
shutdown with the store in full and the tasks reduced to upserts. What
`Configuration` writes is what `Launch` starts a daemon from.

### What the models abstract from

* A packet in `Daemon` announces one event and an event raises one alert.
  `Discovery` and `RuleEngine` have the cases with none and with several.
* A device record in `SqliteStore` is `first` (the start in which it was first
  seen) and `count` (its packet counter, which is also its version).
* A packet in `Discovery` is what decoding, classification and the DHCP and
  mDNS parsers make of it. An event keeps the part of the device rules may look
  at, the scanner's copy keeps `last_seen`. The daemon starts with the devices
  `SqliteStore::open` loaded, or none.
* `Ingest` is checked on well-formed messages only: lengths agree with contents,
  options carry the values they need, pointers lead back to names. Where the
  source would panic on others, the operators have no value. A short frame is
  read as it was sent and as Ethernet fills it up.
* A text in `Records` and `Configuration` is a tuple or a short sequence of
  words, with quotes, backslashes, blanks and line ends of its own where they
  matter. TOML and JSON libraries are modelled by what the code relies on.
* A rule's vendor or prefix filter in `RuleEngine` is the set of devices it
  matches; severities, messages and device snapshots of alerts are left out.
* A header in `ApiAuth` is the outcome of comparing hashes, the client whatever
  address `auth_middleware` found, or none. An audit entry is its answer's
  status.
* A filter in `AlertStores` is the rules and acknowledged states it lets through
  and a limit. One read is in progress at a time; reads do not change the store.
  The wall clock does not step back.
* In `HistoryTask` dates are numbers, a cycle may start at any time, a flush
  saves one device at a time, and `packet_count` stands for the columns that are
  copied and replaced like it.
* In `Dashboard` a list of alerts is a set of ids, newest first; drawing is the
  choice of a highlighted entry.
* Time is a counter where a comparison depends on it, and absent elsewhere.

## Runs

| run | configuration | shows |
|---|---|---|
| `sqlite_store` | `SqliteStore.cfg` | `TrackLostOnlyByStaleClear`: an unsaved change is lost sight of only by the clear loop of a flush that overlapped an upsert of the same device. `ImplementsInventory`: refinement of `DurableInventory`, so rows are states their devices were in, also after a kill in the middle of a flush. `SettledMarkIsFlushed`: other marks lead to a write |
| `daemon` | `Daemon.cfg` | `FinalFlushSeesAll`: the last flush finds every accepted packet processed. `DaemonInv`: the order of the shutdown and the limit of capture errors. `InOrderToAll`: no stage loses, repeats or reorders; an abort cuts off a suffix. `SignalEndsDaemon`: also behind a service that never answers. `AllDelivered`: if no outage lasts, every announced packet's alert reaches every notifier |
| `rule_engine` | `RuleEngine.cfg` | `CooldownSpacing`; `AckSlipsAtMostOne`: one alert at most slips out after an acknowledgment; `AlertsAccounted`: persisted alerts leave once, in the order of their ids, but for those of an event whose later rule met a store error; `EngineReturns`: every event is finished, with and without notifiers |
| `discovery` | `Discovery.cfg` | `CountersAgree`, also when saturated; `ReaderCatchesUp`: announcing changes only loses nothing; `AnnouncedOnce`: not again after a restart, if it was saved; `FalseReportsOnlyByRace`: a device reported offline is silent, unless it was heard of after the scanner copied it |
| `ingest` | `Traffic.cfg` | `ServicesRecognised`: addresses and service of every frame, in both directions, filled up or not, but for one exception, and the fields of NTP messages. `DhcpNamesFound`, `MdnsNamesFound`: parsers read what independent encoders wrote |
| `dhcp_layout` | `TrafficDhcp.cfg` | counterexample: a DHCP message with the layout of the diagram in `dhcp.rs` is not recognised |
| `records` | `Records.cfg` | `ReadsBack`: devices, snapshots and alerts read back as written, times to the millisecond. `PacketsAccounted`: per-protocol statistics add up, also for rows older than the column. `AlwaysOpens`: a migration cut short is completed by the next start |
| `alert_stores` | `AlertStores.cfg` | `AnswerWasTrue`: an answer of `is_acknowledged` was true at some moment of the call, but for one exception below. `IdsKeepTheirMeaning`: an id shown to a client never names another alert later, in memory only until the next start. `ListShowsMostRecent` |
| `history` | `HistoryTask.cfg` | `RowsKeepToTheirDate`, `KeptForRetention`, `PagesAreOldestFirst`; `SavedGetsSnapshot` and `OldRowsGo`: failures and restarts only delay a snapshot or a deletion |
| `api_auth` | `ApiAuth.cfg` | `BlocksAreEarned`, `LateTriesBounded`; `AuditComplete`: every answer has one audit entry, whichever layer gave it |
| `dashboard` | `Dashboard.cfg` | `AckHitsHighlighted`: `a` acknowledges what the frame highlighted, unless the snapshot was replaced since. `StaleOnlyByOverlap`: a confirmed acknowledgment is shown as open only after an overlapping poll. `AckStaysShown`: in the end it is shown for good |
| `launch` | `Launch.cfg` | `OneDaemonUnlessRaced`, `StaleFileExplained`: what the PID file does and does not prevent. `RunsAsEntered`: a daemon started from a file of setup runs with every setting entered. `PrintedKeyOpens`: the printed key is the key of the file |

To repeat one: `tlc -config SqliteStore.cfg SqliteStore`; `Traffic.cfg`,
`TrafficDhcp.cfg` and the others with an `MC` module are run through that module. Deadlock is checked
for `HistoryTask`, whose task never ends. Elsewhere it is not: the bounds on
packets, events, requests and time make those models stop, and the daemon itself
stops on a signal.

### Bounds

* `SqliteStore`: two addresses, three updates each, three starts. Two addresses
  let a flush overlap an upsert of a device it has copied and of another one;
  three updates put one before, one during and one after a flush; the third
  start reads rows written by two different processes.
* `Daemon`: three packets, every channel and queue of capacity one, giving up
  after two failures, notifiers of the three kinds of waiting. Three packets fill
  two stages behind one another; with one place each, every stage meets a full
  channel. The proofs cover every capacity and every list of notifiers.
* `RuleEngine`: three events on one device, three seconds, a cooldown of two.
  A third event is needed for a second alert after an acknowledgment, the third
  second for a rule to fire again. The event channel holds two and overflows,
  the alert channel holds one and blocks.
* `Discovery`: two devices, three packets, counters that saturate at two, an
  event channel of two, a threshold of one second, three clock values, one scan.
  A scan starts from a new copy, so one that may start anywhere is enough. The
  store is empty, holds a device with a name, or both devices, one of them with
  its counters at the limit; the proofs cover any number of packets and any store.
* `Traffic`: every HTTP banner alone, with text behind it, cut and altered; every
  well-formed first byte of an NTP header; IP and TCP headers with and without
  options; frames as sent and filled up to 60 bytes; up to four options out of
  eight and four records out of six, which allows a name before, between and
  after other options or records, repeated, empty and as a pointer to a pointer.
* `Records`: two packets, three starts, a clock of two units to the millisecond,
  so that two times may fall into one; the third start meets the rows of a
  migration the second one was stopped in.
* `AlertStores`: two rules on one device, three alerts, two times, two starts,
  every order of the shards. Three alerts let one be acknowledged behind a walk
  and one be deleted ahead of it; equal and different times exercise the sort.
* `HistoryTask`: one device with two packets, three dates, a retention of one
  day, pages of one row by default, two starts. The third date puts a row out of
  its retention time; devices do not interact in the task, and the proofs cover
  any number of them.
* `ApiAuth`: one client and a request of unknown origin, two requests in flight,
  three failures in two seconds block for two seconds, five arrivals over four
  seconds, one write of the audit log that fails. Three failures let a late one
  with an older time be dropped from the middle of an entry; entries of
  different clients share nothing, and the proofs cover any number of them.
* `Dashboard`: two alerts, one device, one deletion by another client, one
  request that fails. Two alerts are enough for an index to mean another one.
* `Launch`: two daemons, two setups with six kinds of input, two paths, three
  files written by hand. Two of each are needed for a race and for a setup that
  overlaps another; the proofs cover any number.

Safety of `RuleEngine`, `Discovery` and `AlertStores` is proved for any bounds too.

### Fairness

* `SqliteStore`: the flush task's timer fires again and again, a flush and an
  upsert that have begun go on (weak), and a write that is tried again and
  again does not fail for ever (strong). Without the last, nothing can be saved.
* `Daemon`: threads, tasks and main are scheduled (weak), `next_packet` returns
  after its 500 ms timeout; a delivery whose service is up again and again ends
  (strong). Nothing makes packets or signals come or services answer;
  `AllDelivered` names that as its condition.
* `RuleEngine`: the engine's task is scheduled and the fanout goes on receiving.
* `HistoryTask`: the task is scheduled when its tick is due (weak); an insert or
  a delete that is tried again and again does not fail for ever (strong).
* `Dashboard`: poller and UI tasks are scheduled and requests end, by an answer
  or an error (weak); nobody need press a key.

## Proofs

`SqliteStore_proofs` proves, for any set of addresses and any natural bounds
(`BoundsAssumption`, the only assumption):

* `TypeCorrect`: `TypeOK` is invariant.
* `StoreInvariant`: `StoreInv` is invariant.
* `RowsAreEarlierStates`: `SavedIsEarlier`, from `StoreInv`.
* `OnlyStaleClearLosesTrack`: the action property `TrackLostOnlyByStaleClear`.
* `StoreImplementsInventory`: every step of the store is a step of
  `DurableInventory` or leaves its variables unchanged.

`SavedIsEarlier` is not inductive: a flush writes the copy it took earlier,
which could be anything. `StoreInv` adds that the copy lies between the row and
the cached record, that a flush only holds devices that are dirty and cached,
that at most one device is between its two upsert steps, and that no flush
outlives the process. `StoreInvStep` goes through the actions one by one;
`FlushExec` uses the bounds on the copy, `UpsertCache` that records only grow,
`Open` that the cache starts as the rows.

`HistoryTask_proofs` proves, for any set of addresses, any retention time and any
natural bounds (`HistoryAssumption`, the only assumption):

* `HistoryInvariant`: `HistoryInv` is invariant.
* `RowsDated`, `RetentionKept`, `LastWins`: `RowsKeepToTheirDate`,
  `KeptForRetention` and `LastSnapshotWins`, from `HistoryInv`.
* `PagesOldestFirst`: `PagesAreOldestFirst`, and the same for every range and
  every limit a client can ask for. It needs no invariant: whatever the table
  holds, dates are told apart by how many are before them (`DateRanks`), and the
  first of them by that count are the oldest (`OldestOf`).

None of the first three is inductive: they depend on what the task remembers. So
`HistoryInv` adds that the device records, saved or not, tell nothing from after
today and the task's copies nothing from after the date it read (`Records`), and
that a packet's `now`, the task's date and its cutoff can only be too old
(`Locals`). `HistoryInvStep` has one step per action; `Insert` uses that copies
were made before the date was read, `DeleteBefore` that the cutoff is at most
today's.

`Daemon_proofs` proves, for any natural capacities and limits greater than zero
(`CaptureAssumption`, `DaemonAssumption`) and any notifiers:

* `DaemonInvariant`: `DaemonInv` is invariant.
* `FinalFlushComplete`: `FinalFlushSeesAll`, from `DaemonInv`.
* `PathInvariant`: `PathInv` is invariant.
* `OrderKept`: `InOrderToAll`, from `PathInv`.

`FinalFlushSeesAll` only speaks of the last state. `DaemonInv` says how it comes
about: what was accepted is what was handled followed by what is queued, the
pipeline ends behind the thread with nothing queued, and main passes each wait
only after the task it waited for. `BehindThePipeline` disposes of the steps of
rule engine, fanout and services at once; `QueueFacts` are the two facts about
sequences that a packet entering and leaving the channel needs.

`InOrderToAll` compares what was announced with what each notifier got and says
nothing of what is under way. `PathInv` adds it: packets stand in the channel in
order and behind all announced ones, events wait as they were announced
(`AnnouncedInv`); the fanout has taken the first `Taken` alerts, the channel and
the engine's offer go on from there, and each notifier has them up to the one at
work or the one before it, depending on whose turn it is (`DeliveryInv`).

`Discovery_proofs` proves, for any devices, packets and channel capacity, any
natural threshold and any positive limit of the counters (`DiscoveryAssumption`,
which also says that there are finitely many protocols, and finitely many
addresses in a packet), and for any stored devices that look as packets make them
and whose counters agree (`StoredAssumption`: rows written by this version):

* `ReportsSound`: the action property `FalseReportsOnlyByRace`.
* `DiscoveryInvariant`: `DiscoveryInv` is invariant.
* `CountersConsistent`, `NewOnce`, `CatchesUp`: `CountersAgree`, `AnnouncedOnce`
  and `ReaderCatchesUp`, from `DiscoveryInv`.

The scanner compares two values it read earlier, so the property needs to know
what has become of them. `ScanInv` says it: a device on the scanner's list is
still known, and was heard of since or has the `last_seen` it was listed with;
the time the scanner read is not ahead of the clock. It also says that what the
pipeline announces is never an offline event, so that the last event is the
scanner's. `StoreKeeps` covers both blocks of `update_devices`, `TrySendAppends`
both senders on the channel. `ScanInv` rests on the wall clock not stepping back.

`DeviceInv` has the types that the sums of `CountersAgree` need, `AnnounceInv`
that only known devices are announced, and `CatchUpInv` that the last event of a
device still to be read, or else the reader's view, shows the device as it is.
The last is what makes `ReaderCatchesUp`, which speaks of an empty channel,
inductive.

`RuleEngine_proofs` proves, for any rules, events, capacities and store failures
(`RulesAssumption`, the only assumption):

* `EngineInvariant`: `EngineInv` is invariant.
* `CooldownKept`: the action property `CooldownSpacing`.
* `AcknowledgmentHolds`, `AlertsReachFanout`: `AckSlipsAtMostOne` and
  `AlertsAccounted`.

An evaluation stamps its rule and inserts its alert two store calls later, so
`CooldownInv` says that between the two the stamp is a cooldown past that of the
last alert. `SlipInv` says that a pair that let an alert slip is acknowledged, and
that none has slipped when an evaluation is past `is_acknowledged`. `AccountInv` adds where alerts can be.

`ApiAuth_proofs` proves, for any clients, any finite set of requests in flight
and any settings of the limiter (`AuthAssumption`, the only assumption):

* `AuthInvariant`: `AuthInv` is invariant.
* `BlocksEarned`, `FewLateTries`, `EveryAnswerAudited`: `BlocksAreEarned`,
  `LateTriesBounded` and `AuditComplete`.

A block must be traced to failures although an entry keeps only some of them.
`LimiterInv` says that the times in an entry that is not blocked are failures of
the log, each one there once (`Logged`), and that the block of one that is was
earned by the log up to then (`Earned`). Requests record times they read before
taking the entry's lock, so the times are in no order, and what `retain` keeps
is followed element by element. `LateInv` counts the requests that may still try
a key.

`AlertStores_proofs` proves, for any rules, devices, filters, numbers of alerts
and starts and any order of the shards (`StoresAssumption`, the only assumption):

* `StoresInvariant`: `StoresInv` is invariant.
* `AnswersTrue`, `IdsStable`, `RecentFirst`: `AnswerWasTrue`,
  `IdsKeepTheirMeaning` and `ListShowsMostRecent`.

`StoreInv` says that the ids in use are below `Fresh`, the first that no client
can have seen, and grow with the times of the alerts; `MeaningInv` that an id
below `Fresh` means the alert it was shown for or none, also in a list that is
still being walked; `CheckInv` and `ListInv` what a walk of the map has behind
and ahead of it. `Ranks` and `RankedSorts` show that the sort of the model lists
every alert once, in order.

`Launch_proofs` proves, for any numbers of daemons, setups, paths and requests
and any texts entered (`LaunchAssumption`, the only assumption: requests hold
texts where texts are asked for, and different setups generate different keys):

* `LaunchInvariant`: `LaunchInv` is invariant.
* `SecondKeptOut`, `StaleExplained`: `OneDaemonUnlessRaced` and
  `StaleFileExplained`, from `GuardInv`.
* `PrintedKeyValid`: `PrintedKeyOpens`, from `FilesInv`.
* `WizardObeyed`: `RunsAsEntered`, from `RunInv`.

As long as no two daemons were at the guard together, `GuardInv` says, the PID
file names the daemon past it, and whoever has read the file has read that name.
`FilesInv` says what a file holds: what its last writer rendered, or nothing yet,
if that setup met no other (`WriterInv`); that setups writing to one path have
met, or the later one was forced (`MeetInv`); and that a file stays as a setup
left it unless one of those came after it (`OwnInv`).
`RunInv` says that a daemon from loading to running has what the setup rendered
or, later, every setting as it was entered there. The data part is `LoadedAsEntered`: rendering,
quoting, reading, defaults, validation and the stripped slash give back what was
entered. It rests on `RoundTrip`, that `Unquoted` inverts `toml_string` for every
text or reports it as unreadable. Both are recursive functions; what they compute
is shown by induction over the length, for sets of naturals, which `SetInduction`
derives from the pigeonhole principle of finite sets.

Only model-checked:

* `StaleOnlyByOverlap` and `AckHitsHighlighted` of `Dashboard`, `ReadsBack`,
  `PacketsAccounted` and `AlwaysOpens` of `Records`. They are invariants and
  action properties of small systems, and no proof has been written.
* `ServicesRecognised`, `DhcpNamesFound` and `MdnsNamesFound`: what the parsers of
  `Ingest` compute takes induction over the bytes of a message, and `Traffic`
  encodes names with a recursive operator, which TLAPS does not reason about.
* liveness throughout (`SettledMarkIsFlushed`, `EngineReturns`,
  `SignalEndsDaemon`, `AllDelivered`, `SavedGetsSnapshot`, `OldRowsGo`,
  `AckStaysShown`), since TLAPS does not reason about fairness.

## Where code and comments disagree

The run `dhcp_layout` ends in a counterexample to what a comment and a diagram
say; `PROJECT.json` quotes the lines. Others were met while modelling. Some take
several steps, and a property states exactly how far they go:

* `storage/src/sqlite.rs:219`: an upsert between a flush's copy of the device and
  its clear loop loses its mark, and even the final flush leaves an old row,
  against lines 170-171 and `daemon/src/daemon.rs:307-308`
  (`TrackLostOnlyByStaleClear`).
* `rules/src/engine.rs:185`: a store error for a later rule discards alerts of
  earlier ones that are already persisted, against `common/src/alert.rs:13-14`
  (`AlertsAccounted`, the set `lost`).
* `notify/src/fanout.rs:79`: notifiers are called one after the other, so one that
  waits holds up the rest, against lines 4-6 (`AllDelivered` needs every service).
* `packet/src/capture.rs:211`: an interface that opens but fails each read is
  reopened for ever, without a pause, against lines 81-83 (`DaemonInv` counts
  failed opens only).
* `cli/src/cli.rs:166`: the "single-instance guard" lets two daemons in that
  start at the same time (`OneDaemonUnlessRaced`).
* `tui/src/app.rs:307` and `tui/src/lib.rs:46`: the poller is not "the only
  writer" of the snapshot, an acknowledgment writes it too, and an older poll may
  come after it (`StaleOnlyByOverlap`).

The others are plain from the text:

* `rules/src/engine.rs:246`: `after_seconds` of a `device_offline` rule is read
  nowhere; any silence the scanner reports (more than 60 s) fires the rule,
  against lines 59-60.
* `rules/src/engine.rs:249`: `protocol_change` fires on every `DeviceUpdated`,
  also one for a new address or hostname, against lines 63-64.
* `rules/src/engine.rs:259`: a match that is then suppressed by an
  acknowledgment starts a cooldown, although nothing fired, against lines 24
  and 31.
* `rules/src/store.rs:104`: an `is_acknowledged` that walks the in-memory map
  while one alert is acknowledged behind it and another deleted ahead of it
  answers no, although the pair was suppressed all the time, against
  `common/src/alert_store.rs:35-37`.
* `daemon/src/daemon.rs:357`: every silence of more than 60 s is reported again
  with each scan, against lines 323-326, which speak of the rules' thresholds.
* `storage/src/history_sqlite.rs:239`: the upsert of a snapshot leaves
  `first_seen` at the day's first value, against `common/src/history_store.rs:97-99`.
* `discovery/src/discovery.rs:202`: an mDNS hostname that came first is kept
  when DHCP later provides one, against lines 119-121.
* `discovery/src/discovery.rs:239`: a new device's announcement is dropped when
  the channel is full, against line 157.
* `rules/src/engine.rs:206`: with a hanging fanout the engine waits in `send`,
  against `notify/src/fanout.rs:16-18`.
* `api/src/auth.rs:295`: expired limiter entries are not removed on access,
  against lines 260-261.
* `api/src/audit.rs:136`: the key prefix is taken from any Bearer token, so a
  failed attempt has one too, against line 19.
* `protocol/src/ntp.rs:45`: nothing calls `parse_ntp`, against
  `ARCHITECTURE.md:53`. UDP on port 123 counts as NTP whatever its header,
  against lines 22-24, which say that other payloads are rejected.
* `protocol/src/dhcp.rs:135`: the first byte of option 53 is taken without asking
  for one, and an option of length zero makes it panic. Line 134 says that the
  bounds check guarantees a length of at least one; it does not.
* `packet/src/decode.rs:124-125`: a header length or data offset that leads behind
  the end of the frame makes the slice panic, against lines 107-110, which promise
  `Truncated`.
* `api/src/api.rs:121`: the server is started without `ConnectInfo`, which
  `auth.rs:387` asks for, so a client without `X-Forwarded-For` has no address and
  is not limited, against `docs/api/rest.md:30`. In `ApiAuth` it is the request of
  unknown origin.
* `storage/src/sqlite.rs:322`: statistics are stored as an array of pairs, against
  lines 317 and 326 and `common/src/types.rs:170`, which speak of an object.
* `common/src/time.rs:73`: for a text with more than milliseconds
  serialize(deserialize(x)) is the truncated text, not x.
* `cli/src/setup.rs:191`: the key stands in a comment of the file, against lines
  47-48.
* `cli/src/setup.rs:142`: "this is a bug" is also reported for inputs that
  validation rejects, such as a line end in the interface's name.
* `tui/src/app.rs:113`: `a` acknowledges in every view, against line 108.
* `tui/src/app.rs:194`: with the length 0 of a busy lock `down` moves the
  selection to the top, it does not stay put.
* `tui/src/app.rs:124`: the message of a failed acknowledgment stays until one
  succeeds or another message replaces it, against lines 50-51.

Not against any comment, but worth knowing:

* `daemon/src/daemon.rs:291`: nothing watches the pipeline task. After a panic the
  daemon runs on without processing, and at the signal it returns before the
  final flush (`SignalEndsDaemon`, `DaemonInv`).
* `cli/src/cli.rs:361`: a configuration that cannot be loaded leaves the PID file
  behind; `release_pid_file` removes the file of whichever daemon wrote it last.
* `cli/src/cli.rs:197`: an invalid file at the given path is passed over for a
  fallback; only the fallback's path is reported.
* `packet/src/decode.rs`: the padding of a short frame counts as payload. Since
  `is_http_banner` asks for five bytes (`protocol/src/classifier.rs:130`), "GET "
  and "PUT " alone are HTTP with padding and TCP without it
  (`ServicesRecognised`, the exception `NoFifthByte`).
* `tui/src/views/alerts.rs:99-101`: when the list has become shorter than the
  selection, its last row is highlighted, but `a` finds no alert selected.
* `api/src/audit.rs:159`: entries whose tasks have not run are lost when the
  process ends.
* `discovery/src/discovery.rs:132`: a packet's `now` is read before `Device::new`
  reads the clock, so `first_seen` of a new device may be later than `last_seen`;
  with midnight between the two even their dates differ. `HistoryTask` models
  both reads, and its properties do not order the two.
* `api/src/routes.rs`: history is listed oldest first with a default limit of
  90, while a retention of 90 days keeps 91 dates.
* `rules/src/store.rs:29`: ids of the in-memory store start from 1 in every start.

## Not modelled

* OUI lookup and telemetry: a generated table and the set-up of logging, without
  state that changes.
* Payloads and texts of the notifiers, drawing code of the views, the read-only
  API handlers that return what a store holds: formatting.
* The commands that install a service, print a status or a default
  configuration: they call other programs or print.
* Serving HTTP and TLS, SQLite, serde, TOML, pcap and rumqttc: libraries, modelled
  by what the code relies on.
* Messages that are not well formed.
* A PID file left behind that holds the starting process's own PID, as in a
  container that gives out the same one each time. `acquire_pid_file` then refuses
  to start, which no property speaks against.
* Rows from before the migration in `Discovery`: their counters by protocol are
  empty, so that `CountersAgree` does not hold for them. `Records` has them.
* Devices, alerts and acknowledgments across a restart in one model: `SqliteStore`
  and `AlertStores` each have their restarts, `Discovery` starts from any store. A device announced but not saved
  before a kill is announced as new again, which follows from both.
* Growth of the limiter's map over unboundedly many clients.
