------------------------------- MODULE ApiAuth -------------------------------
(***************************************************************************)
(* A request's way through the API (crates/api/src): the audit middleware   *)
(* around the authentication middleware around the handlers, for several    *)
(* requests at once.                                                        *)
(*                                                                          *)
(* A request asks the limiter of failed authentications first; when its key *)
(* is rejected it reads the time, and then records the failure under the    *)
(* lock of its client's entry.  Other requests and the clock come between   *)
(* these steps.  On the way back the audit middleware starts a task that    *)
(* writes a line of the audit log after the answer is out.  A header is     *)
(* what the comparisons of hashes tell of it, an answer the status that     *)
(* decides it, or what the handler made of the request.  An audit entry is  *)
(* its answer; method, path, duration and key prefix are copied into it.    *)
(* An audit log is configured; without one nothing is written.              *)
(***************************************************************************)
EXTENDS Integers, Sequences, FiniteSets, Bags

CONSTANTS
  Clients,       \* client addresses
  NoIp,          \* stands for a request whose address is not known
  Requests,      \* slots: how many requests may be in flight at once
  Modes,         \* configurations: "open", "one_key", "two_keys"
  MaxFailures, WindowSeconds, BlockSeconds,   \* RateLimiter's settings
  MaxTime,       \* bound: the clock, in seconds
  MaxArrivals,   \* bound: requests that arrive
  MaxWriteErrors \* bound: audit lines that cannot be written

ASSUME AuthAssumption ==
  /\ NoIp \notin Clients
  /\ Modes \subseteq {"open", "one_key", "two_keys"}
  /\ MaxFailures \in Nat /\ WindowSeconds \in Nat /\ BlockSeconds \in Nat
  /\ MaxTime \in Nat /\ MaxArrivals \in Nat /\ MaxWriteErrors \in Nat
  /\ IsFiniteSet(Requests) /\ Requests # {}

(* The Authorization header: no Bearer token in it, one of the two keys,    *)
(* another key.                                                             *)
Headers == {"unusable", "read", "admin", "wrong"}
Methods == {"GET", "POST"}   \* POST stands for the methods that change things

VARIABLES
  mode,      \* the configured keys
  clock,     \* Instant::now()
  failures,  \* RateLimiter.failures: client -> [timestamps, blocked_until]
  request,   \* per slot: the step it is at, client, header, method, now
  arrived,   \* requests so far
  pending,   \* entries whose audit task has not written yet, a bag
  lines,     \* entries the audit log's file has accepted, a bag
  unwritten, \* entries whose write failed, a bag
  log,       \* history: client -> the failures counted since its last block,
             \* in the order they were recorded
  late,      \* history: client -> wrong keys tried since its block began
  answers    \* history: answers given on audited paths, a bag

limiter == <<failures, log, late>>
audit == <<pending, lines, unwritten, answers>>
vars == <<mode, clock, request, arrived, limiter, audit>>

NotBlocked == 0   \* blocked_until = None; the clock starts at 1
Free == [at |-> "free"]
One(entry) == SetToBag({entry})
Allowed == [at |-> "handle"]   \* on to the handler, whoever sent it

Init ==
  /\ mode \in Modes
  /\ clock = 1
  /\ failures = <<>>
  /\ request = [s \in Requests |-> Free]
  /\ arrived = 0
  /\ pending = EmptyBag /\ lines = EmptyBag /\ unwritten = EmptyBag
  /\ log = [c \in Clients |-> <<>>]
  /\ late = [c \in Clients |-> 0]
  /\ answers = EmptyBag

is_enabled == mode # "open"

(* verify_token: what a header's key grants, the read key everything when   *)
(* it is the only one.                                                      *)
Granted(h) ==
  CASE h = "read" -> IF mode = "two_keys" THEN "Read" ELSE "Admin"
    [] h = "admin" /\ mode = "two_keys" -> "Admin"
    [] OTHER -> "InvalidKey"

required_permission(method) == IF method = "POST" THEN "Admin" ELSE "Read"

(* The permission check that follows verify_token.                          *)
Suffices(r) == ~(required_permission(r.method) = "Admin" /\ Granted(r.header) = "Read")

(* RateLimiter::is_blocked                                                  *)
IsBlocked(c) ==
  /\ MaxFailures > 0
  /\ c \in DOMAIN failures
  /\ clock < failures[c].blocked_until

-----------------------------------------------------------------------------
(* record_failure                                                           *)

(* A mutated clean-up that keeps failures older than the window.            *)
RecentAll(timestamps, now) == timestamps

(* Instant::duration_since, which is zero for a later time.                 *)
DurationSince(now, t) == IF now < t THEN 0 ELSE now - t

(* timestamps.retain(|t| now.duration_since(t) < window): what is kept of   *)
(* the first k.                                                             *)
Recent(timestamps, now) ==
  LET kept[k \in 0 .. Len(timestamps)] ==
        IF k = 0 THEN <<>>
        ELSE IF DurationSince(now, timestamps[k]) < WindowSeconds
        THEN Append(kept[k - 1], timestamps[k]) ELSE kept[k - 1]
  IN  kept[Len(timestamps)]

(* failures.entry(ip).or_insert(...)                                        *)
EntryOf(c) ==
  IF c \in DOMAIN failures THEN failures[c]
  ELSE [timestamps |-> <<>>, blocked_until |-> NotBlocked]

(* The update of the entry: a running block is left alone, the failure that *)
(* fills the window begins one.                                             *)
Recorded(e, now) ==
  LET kept == Append(Recent(e.timestamps, now), now)
  IN  CASE now < e.blocked_until -> e
        [] now >= e.blocked_until /\ Len(kept) >= MaxFailures ->
             [timestamps |-> <<>>, blocked_until |-> now + BlockSeconds]
        [] OTHER -> [timestamps |-> kept, blocked_until |-> NotBlocked]

-----------------------------------------------------------------------------
Tick ==
  /\ clock < MaxTime
  /\ clock' = clock + 1
  /\ UNCHANGED <<mode, request, arrived, limiter, audit>>

(* A mutated stack whose audit layer lies inside the authentication layer.  *)
Mut_Answer(s, status) ==
  /\ request' = [request EXCEPT ![s] = Free]
  /\ answers' = answers (+) One(status)
  /\ pending' = IF status \in {"done", "failed"}
                 THEN pending (+) One(status) ELSE pending
  /\ UNCHANGED <<lines, unwritten>>

(* The response passes the audit middleware, which spawns the task that     *)
(* writes its entry, and leaves.                                            *)
Answer(s, status) ==
  /\ request' = [request EXCEPT ![s] = Free]
  /\ answers' = answers (+) One(status)
  /\ pending' = pending (+) One(status)
  /\ UNCHANGED <<lines, unwritten>>

(* A mutated check that does not ask the limiter.                           *)
ArriveUnasked(s) ==
  /\ request[s] = Free
  /\ arrived < MaxArrivals
  /\ arrived' = arrived + 1
  /\ \E c \in Clients \cup {NoIp}, h \in Headers, m \in Methods :
       request' = [request EXCEPT
         ![s] = [at |-> "verify", client |-> c, header |-> h, method |-> m]]
  /\ UNCHANGED <<mode, clock, limiter, audit>>

(* Both middlewares up to the limiter: with authentication disabled the     *)
(* request goes to its handler, from a blocked client it is answered.       *)
Arrive(s) ==
  /\ request[s] = Free
  /\ arrived < MaxArrivals
  /\ arrived' = arrived + 1
  /\ \E c \in Clients \cup {NoIp}, h \in Headers, m \in Methods :
       IF is_enabled /\ IsBlocked(c) THEN Answer(s, "429")
       ELSE /\ request' = [request EXCEPT ![s] =
                 IF is_enabled
                 THEN [at |-> "verify", client |-> c, header |-> h, method |-> m]
                 ELSE Allowed]
            /\ UNCHANGED audit
  /\ UNCHANGED <<mode, clock, limiter>>

(* GET /health passes both middlewares unseen.                              *)
Health ==
  /\ arrived < MaxArrivals
  /\ arrived' = arrived + 1
  /\ UNCHANGED <<mode, clock, request, limiter, audit>>

(* extract_bearer_token, verify_token and the permission.  Only a rejected  *)
(* key goes on to record_failure, which does nothing for a disabled limiter *)
(* and otherwise begins by reading the time.                                *)
Verify(s) ==
  LET r == request[s]
      Goes(next) == request' = [request EXCEPT ![s] = next] /\ UNCHANGED audit
  IN  /\ r.at = "verify"
      /\ CASE r.header = "unusable" -> Answer(s, "401")
           [] Granted(r.header) = "InvalidKey" ->
                IF r.client # NoIp /\ MaxFailures > 0
                THEN Goes([at |-> "record", client |-> r.client, now |-> clock])
                ELSE Answer(s, "401")
           [] OTHER -> IF Suffices(r) THEN Goes(Allowed)
                       ELSE Answer(s, "403")
      /\ UNCHANGED <<mode, clock, arrived, limiter>>

(* The rest of record_failure, holding the entry.                           *)
Record(s) ==
  /\ request[s].at = "record"
  /\ LET c == request[s].client
         now == request[s].now
     IN  /\ failures' = [x \in DOMAIN failures \cup {c} |->
              IF x = c THEN Recorded(EntryOf(c), now) ELSE failures[x]]
         /\ log' = IF now < EntryOf(c).blocked_until THEN log
                   ELSE [log EXCEPT ![c] =
                     Append(IF EntryOf(c).blocked_until = NotBlocked THEN @ ELSE <<>>, now)]
         /\ late' = [late EXCEPT ![c] = IF IsBlocked(c) THEN @ + 1 ELSE 0]
  /\ Answer(s, "401")
  /\ UNCHANGED <<mode, clock, arrived>>

(* The handler: an answer from the stores, or one of its errors.            *)
Handle(s) ==
  /\ request[s].at = "handle"
  /\ \E status \in {"done", "failed"} : Answer(s, status)
  /\ UNCHANGED <<mode, clock, arrived, limiter>>

(* AuditLogger::write by one of the tasks, which take the file's lock in    *)
(* any order; an error is reported and the entry is gone.                   *)
WriteLine(e) ==
  /\ BagIn(e, pending)
  /\ pending' = pending (-) One(e)
  /\ \/ lines' = lines (+) One(e) /\ UNCHANGED unwritten
     \/ /\ BagCardinality(unwritten) < MaxWriteErrors
        /\ unwritten' = unwritten (+) One(e)
        /\ UNCHANGED lines
  /\ UNCHANGED <<mode, clock, request, arrived, limiter, answers>>

Next ==
  \/ Tick \/ Health
  \/ \E s \in Requests : Arrive(s) \/ Verify(s) \/ Record(s) \/ Handle(s)
  \/ \E e \in DOMAIN pending : WriteLine(e)

Spec == Init /\ [][Next]_vars

-----------------------------------------------------------------------------
(* Properties.                                                              *)

(* auth.rs 253-256: a client is blocked only by MaxFailures failures within *)
(* a window of WindowSeconds, for BlockSeconds from the one that completes  *)
(* them, and "after the block expires, the counter resets": no failure      *)
(* counts towards two blocks.  Requests that were in flight may record      *)
(* theirs late and with an older time, so the failures that earn a block    *)
(* need not be the last ones recorded.                                      *)
BlocksAreEarned ==
  \A c \in Clients : IsBlocked(c) =>
    LET n == Len(log[c])
        start == failures[c].blocked_until - BlockSeconds
    IN  /\ n > 0 /\ log[c][n] = start
        /\ Cardinality({k \in 1 .. n - 1 : start - log[c][k] < WindowSeconds})
             >= MaxFailures - 1

(* check asks the limiter "before consuming an attempt": once a client is   *)
(* blocked only requests that had asked before can still try a key, so at   *)
(* most all others in flight.                                               *)
LateTriesBounded == \A c \in Clients : late[c] < Cardinality(Requests)

(* audit.rs 3: "Logs every API request (except `/health`)": every answer,   *)
(* of whichever layer, is handed to the log's file once, is on its way      *)
(* there, or its write was refused, whatever order the tasks write in.      *)
AuditComplete == answers = lines (+) pending (+) unwritten

-----------------------------------------------------------------------------
(* Inductive invariants behind the properties.                              *)

InFlight ==
  [at : {"verify"}, client : Clients \cup {NoIp}, header : Headers, method : Methods]
    \cup [at : {"record"}, client : Clients, now : Nat]

Entries == [timestamps : Seq(Nat), blocked_until : Nat]

TypeOK ==
  /\ clock \in Nat \ {0}
  /\ DOMAIN failures \subseteq Clients
  /\ failures \in [DOMAIN failures -> Entries]
  /\ request \in [Requests -> {Free, Allowed} \cup InFlight]
  /\ \A s \in Requests : request[s].at = "record" =>
       request[s].now \in 1 .. clock /\ MaxFailures > 0
  /\ log \in [Clients -> Seq(Nat)]
  /\ late \in [Clients -> Nat]

(* The timestamps ts are failures of the log l, each one there once.        *)
Logged(ts, l) ==
  \E f \in [1 .. Len(ts) -> 1 .. Len(l)] :
    /\ \A j, k \in 1 .. Len(ts) : f[j] = f[k] => j = k
    /\ \A k \in 1 .. Len(ts) : ts[k] = l[f[k]]

(* The failures of the log l before its last, at start, fill the window.    *)
Earned(l, start) ==
  /\ Len(l) > 0 /\ l[Len(l)] = start
  /\ Cardinality({k \in 1 .. Len(l) - 1 : start - l[k] < WindowSeconds})
       >= MaxFailures - 1

(* An entry that is not blocked holds logged failures; one that is, or was, *)
(* holds none, and its block was earned.                                    *)
EntryOK(e, l) ==
  IF e.blocked_until = NotBlocked THEN Logged(e.timestamps, l)
  ELSE e.timestamps = <<>> /\ Earned(l, e.blocked_until - BlockSeconds)

LimiterInv == \A c \in Clients : EntryOK(EntryOf(c), log[c])

(* Requests of c that have asked the limiter.                               *)
Asked(c) ==
  {s \in Requests : request[s].at \in {"verify", "record"} /\ request[s].client = c}

LateInv ==
  \A c \in Clients :
    /\ late[c] < Cardinality(Requests)
    /\ IsBlocked(c) => late[c] + Cardinality(Asked(c)) < Cardinality(Requests)

AuditInv ==
  /\ IsABag(answers) /\ IsABag(lines) /\ IsABag(pending) /\ IsABag(unwritten)
  /\ AuditComplete

AuthInv == TypeOK /\ LimiterInv /\ LateInv /\ AuditInv
=============================================================================
