------------------------------- MODULE Launch -------------------------------
(***************************************************************************)
(* Processes of the command line (cli/src/cli.rs): `edgeshield setup`      *)
(* writing configuration files while `edgeshield run` starts daemons that  *)
(* share the PID file. Every access to a file is a step; fs::write         *)
(* truncates the file and then fills it, and either may fail. A process    *)
(* may be killed at any step, and a process ID may be used again.          *)
(***************************************************************************)
EXTENDS Configuration, FiniteSets

CONSTANTS
    Daemons,     \* processes running `edgeshield run`, named by their PID
    Setups,      \* processes running `edgeshield setup`
    Requests,    \* what a setup may be called with
    HandWritten, \* documents found in configuration files at the beginning
    Paths,       \* places of configuration files
    Given,       \* the path daemons are given
    Fallbacks,   \* sequence of paths load_config falls back to
    Nets,        \* sets of interfaces of the machine
    KeyOf,       \* the key a setup process would generate
    Empty        \* contents of a truncated PID file

ASSUME LaunchAssumption ==
    /\ Given \in Paths
    /\ Fallbacks \in Seq(Paths)
    /\ \A r \in Requests : r.path \in Paths /\ IsRequest(r)
    /\ Daemons \cap Setups = {}
    /\ {None, Empty} \cap Daemons = {}
    /\ None \notin Setups \union Requests
    /\ \A s, t \in Setups : KeyOf[s] = KeyOf[t] => s = t
    /\ \A s \in Setups : KeyOf[s] \notin {None, Backslash, Quote}

VARIABLES
    files,    \* by path: <<>> (no such file) or <<document>>
    writer,   \* by path: the setup that wrote the file last (history)
    pidfile,  \* None: no file, Empty, or a PID
    pc,       \* where each process is
    seen,     \* PID a daemon read from the file
    tries,    \* paths load_config has still to read
    running,  \* what the daemon was started with
    req,      \* request of a setup, None before it and when it was refused
    raced,    \* two daemons were between reading and writing the PID file
    mixed,    \* pairs of setups that overlapped on a path (history)
    misread   \* daemons that could not load a configuration (history)

vars == <<files, writer, pidfile, pc, seen, tries, running, req, raced, mixed,
          misread>>
pidVars   == <<pidfile, seen, raced>>
setupVars == <<req, mixed, writer>>

AtGuard == {"check", "truncate", "write"}
Live    == AtGuard \union {"load", "stores", "capture", "run", "release", "exit"}

(***************************************************************************)
(* The order in which load_config reads paths; the given path comes last   *)
(* once more, for its error message.                                       *)
(***************************************************************************)
Candidates ==
    <<Given>> \o Without(Fallbacks, Given) \o <<Given>>

Init ==
    /\ files \in [Paths -> {<<>>} \union {<<d>> : d \in HandWritten}]
    /\ writer = [p \in Paths |-> None]
    /\ pidfile = None
    /\ pc = [x \in Daemons \union Setups |-> "new"]
    /\ seen = [d \in Daemons |-> None]
    /\ tries = [d \in Daemons |-> <<>>]
    /\ running = [d \in Daemons |-> None]
    /\ req = [s \in Setups |-> None]
    /\ raced = FALSE
    /\ mixed = {}
    /\ misread = {}

(***************************************************************************)
(* edgeshield run                                                          *)
(***************************************************************************)
\* A PID names a live process: one of ours, or an unrelated one ("other").
Alive(d) == pc[d] \in Live \union {"other"}

ReadPidFile(d) ==
    /\ pc[d] = "new"
    /\ pc' = [pc EXCEPT ![d] = "check"]
    /\ seen' = [seen EXCEPT ![d] = pidfile]
    /\ raced' = (raced \/ \E e \in Daemons : pc[e] \in AtGuard)
    /\ UNCHANGED <<files, pidfile, tries, running, misread, setupVars>>

\* Mutated: any readable PID file is taken for a stale one.
Mut_CheckPid(d) ==
    /\ pc[d] = "check"
    /\ pc' = [pc EXCEPT ![d] = "truncate"]
    /\ seen' = [seen EXCEPT ![d] = None]
    /\ UNCHANGED <<files, pidfile, raced, tries, running, misread, setupVars>>

\* kill(pid, 0), after the file was read. It also fails for a live process of
\* another user; daemons are started by one.
CheckPid(d) ==
    /\ pc[d] = "check"
    /\ \/ /\ seen[d] \in Daemons /\ Alive(seen[d])
          /\ pc' = [pc EXCEPT ![d] = "gone"]
       \/ /\ ~(seen[d] \in Daemons /\ pc[seen[d]] \in Live)
          /\ pc' = [pc EXCEPT ![d] = "truncate"]
    /\ seen' = [seen EXCEPT ![d] = None]
    /\ UNCHANGED <<files, pidfile, raced, tries, running, misread, setupVars>>

TruncatePid(d) ==
    /\ pc[d] = "truncate"
    /\ \/ pidfile' = Empty /\ pc' = [pc EXCEPT ![d] = "write"]
       \/ UNCHANGED pidfile /\ pc' = [pc EXCEPT ![d] = "gone"]
    /\ UNCHANGED <<files, seen, raced, tries, running, misread, setupVars>>

WritePid(d) ==
    /\ pc[d] = "write"
    /\ \/ /\ pidfile' = d
          /\ pc' = [pc EXCEPT ![d] = "load"]
          /\ tries' = [tries EXCEPT ![d] = Candidates]
       \/ /\ pc' = [pc EXCEPT ![d] = "gone"]
          /\ UNCHANGED <<pidfile, tries>>
    /\ UNCHANGED <<files, seen, raced, running, misread, setupVars>>

FromFile(p) == IF files[p] = <<>> THEN None ELSE FromStr(files[p][1])

\* One from_file. A failure of the last one returns before release_pid_file.
LoadConfig(d) ==
    /\ pc[d] = "load"
    /\ LET p == Head(tries[d])
           c == FromFile(p)
       IN  IF c # None
           THEN /\ running' = [running EXCEPT ![d] = [config |-> c, by |-> writer[p]]]
                /\ tries' = [tries EXCEPT ![d] = <<>>]
                /\ pc' = [pc EXCEPT ![d] = "stores"]
                /\ UNCHANGED misread
           ELSE /\ tries' = [tries EXCEPT ![d] = Tail(@)]
                /\ pc' = [pc EXCEPT ![d] = IF Len(tries[d]) = 1 THEN "gone" ELSE @]
                /\ misread' = IF Len(tries[d]) = 1 THEN misread \union {d} ELSE misread
                /\ UNCHANGED running
    /\ UNCHANGED <<files, pidVars, setupVars>>

\* daemon::run up to the API task. Opening one of the configured stores may
\* fail; a notifier that cannot be built is left out.
StartTasks(d) ==
    /\ pc[d] = "stores"
    /\ LET c == running[d].config
       IN  \/ /\ Stores(c) # {}
              /\ pc' = [pc EXCEPT ![d] = "release"]
              /\ running' = [running EXCEPT ![d] = None]
           \/ \E broken \in SUBSET (DOMAIN c \cap {"ntfy", "webhook", "email"}) :
                LET made == (DOMAIN c \cap NotifierKinds) \ broken
                IN  /\ pc' = [pc EXCEPT ![d] = "capture"]
                    /\ running' = [running EXCEPT ![d] =
                          [top |-> c.top, stores |-> Stores(c),
                           rules |-> RulesInForce(c), broken |-> broken,
                           notifiers |-> Restrict(c, made), tasks |-> Tasks(c, made),
                           read_key_hash |-> IF "auth" \in DOMAIN c
                                             THEN c.auth.read_key_hash ELSE None,
                           by |-> @.by]]
    /\ UNCHANGED <<files, pidVars, tries, misread, setupVars>>

StartCapture(d) ==
    /\ pc[d] = "capture"
    /\ \/ /\ pc' = [pc EXCEPT ![d] = "run"]
          /\ UNCHANGED running
       \/ /\ pc' = [pc EXCEPT ![d] = "release"]
          /\ running' = [running EXCEPT ![d] = None]
    /\ UNCHANGED <<files, pidVars, tries, misread, setupVars>>

\* SIGINT or SIGTERM and the graceful shutdown
Shutdown(d) ==
    /\ pc[d] = "run"
    /\ pc' = [pc EXCEPT ![d] = "release"]
    /\ running' = [running EXCEPT ![d] = None]
    /\ UNCHANGED <<files, pidVars, tries, misread, setupVars>>

\* Mutated: the PID file is left where it is.
Mut_ReleasePid(d) ==
    /\ pc[d] = "release"
    /\ pc' = [pc EXCEPT ![d] = "exit"]
    /\ UNCHANGED <<files, pidVars, tries, running, misread, setupVars>>

\* Removes the file whoever it names.
ReleasePid(d) ==
    /\ pc[d] = "release"
    /\ pidfile' = None
    /\ pc' = [pc EXCEPT ![d] = "exit"]
    /\ UNCHANGED <<files, seen, raced, tries, running, misread, setupVars>>

Exit(d) ==
    /\ pc[d] = "exit"
    /\ pc' = [pc EXCEPT ![d] = "gone"]
    /\ UNCHANGED <<files, pidVars, tries, running, misread, setupVars>>

Kill(d) ==
    /\ pc[d] \in Live
    /\ pc' = [pc EXCEPT ![d] = "killed"]
    /\ seen' = [seen EXCEPT ![d] = None]
    /\ tries' = [tries EXCEPT ![d] = <<>>]
    /\ running' = [running EXCEPT ![d] = None]
    /\ UNCHANGED <<files, pidfile, raced, misread, setupVars>>

\* An unrelated process gets the PID of a daemon that was killed.
PidUsedAgain(d) ==
    /\ pc[d] = "killed"
    /\ pc' = [pc EXCEPT ![d] = "other"]
    /\ UNCHANGED <<files, pidVars, tries, running, misread, setupVars>>

(***************************************************************************)
(* edgeshield setup                                                        *)
(***************************************************************************)
daemonVars == <<pidVars, tries, running, misread>>

WritingTo(p) == {s \in Setups : pc[s] \in {"fresh", "emptied"} /\ req[s].path = p}

\* run_setup up to setup::run. An interface is picked from a list when the
\* machine has any.
CollectAnswers(s) ==
    /\ pc[s] = "new"
    /\ \E r \in Requests, net \in Nets :
         /\ detect_interfaces(net) # {} =>
                r.answers.interface \in {<<i>> : i \in detect_interfaces(net)}
         /\ IF CollectInputs(r) = None
            THEN pc' = [pc EXCEPT ![s] = "gone"] /\ UNCHANGED req
            ELSE /\ pc' = [pc EXCEPT ![s] = "asked"]
                 /\ req' = [req EXCEPT ![s] = r]
    /\ UNCHANGED <<files, daemonVars, mixed, writer>>

\* The key is generated once, for the answer and for the file.
PlaintextOf(s) == IF CollectInputs(req[s]).generate_api_key THEN KeyOf[s] ELSE None
Rendered(s)    == render_toml(CollectInputs(req[s]), PlaintextOf(s))

\* Mutated: an existing file is overwritten without --force.
Mut_SetupRun(s) ==
    /\ pc[s] = "asked"
    /\ IF FromStr(Rendered(s)) = None
       THEN /\ pc' = [pc EXCEPT ![s] = "gone"]
            /\ req' = [req EXCEPT ![s] = None]
            /\ UNCHANGED mixed
       ELSE /\ pc' = [pc EXCEPT ![s] = "fresh"]
            /\ mixed' = mixed \union {{s, t} : t \in WritingTo(req[s].path)}
            /\ UNCHANGED req
    /\ UNCHANGED <<files, daemonVars, writer>>

\* setup::run up to fs::write: refuse to clobber, render, read back.
SetupRun(s) ==
    /\ pc[s] = "asked"
    /\ IF \/ files[req[s].path] # <<>> /\ ~req[s].force
          \/ FromStr(Rendered(s)) = None
       THEN /\ pc' = [pc EXCEPT ![s] = "gone"]
            /\ req' = [req EXCEPT ![s] = None]
            /\ UNCHANGED mixed
       ELSE /\ pc' = [pc EXCEPT ![s] = "fresh"]
            /\ mixed' = mixed \union {{s, t} : t \in WritingTo(req[s].path)}
            /\ UNCHANGED req
    /\ UNCHANGED <<files, daemonVars, writer>>

SetupTruncate(s) ==
    /\ pc[s] = "fresh"
    /\ \/ /\ files' = [files EXCEPT ![req[s].path] = <<EmptyTable>>]
          /\ writer' = [writer EXCEPT ![req[s].path] = s]
          /\ pc' = [pc EXCEPT ![s] = "emptied"]
       \/ pc' = [pc EXCEPT ![s] = "gone"] /\ UNCHANGED <<files, writer>>
    /\ UNCHANGED <<daemonVars, req, mixed>>

\* A document that is not TOML.
Garbled == [top |-> [interface |-> <<Quote>>]]

\* The text is written over what another setup wrote since the truncation. If
\* that was longer its tail remains: no TOML, keys that nobody reads, or whole
\* sections and rules more.
WrittenOver(s, old) ==
    IF old = EmptyTable THEN {Rendered(s)}
    ELSE {Rendered(s), Garbled,
          [Completed(Rendered(s), old) EXCEPT !["rules"] = @ \o RulesOf(old)]}

\* The key is printed only when the write succeeded ("done").
SetupWrite(s) ==
    /\ pc[s] = "emptied"
    /\ \/ /\ \E d \in WrittenOver(s, files[req[s].path][1]) :
                files' = [files EXCEPT ![req[s].path] = <<d>>]
          /\ writer' = [writer EXCEPT ![req[s].path] = s]
          /\ pc' = [pc EXCEPT ![s] = "done"]
       \/ pc' = [pc EXCEPT ![s] = "gone"] /\ UNCHANGED <<files, writer>>
    /\ UNCHANGED <<daemonVars, req, mixed>>

Next ==
    \/ \E d \in Daemons :
         \/ ReadPidFile(d) \/ CheckPid(d) \/ TruncatePid(d) \/ WritePid(d)
         \/ LoadConfig(d) \/ StartTasks(d) \/ StartCapture(d) \/ Shutdown(d)
         \/ ReleasePid(d) \/ Exit(d) \/ Kill(d) \/ PidUsedAgain(d)
    \/ \E s \in Setups :
         CollectAnswers(s) \/ SetupRun(s) \/ SetupTruncate(s) \/ SetupWrite(s)

Spec == Init /\ [][Next]_vars

(***************************************************************************)
(* Properties                                                              *)
(***************************************************************************)
\* The PID file keeps a second daemon out: two run at the same time only after
\* two of them were between reading the PID file and writing their own PID
\* (acquire_pid_file). Kills, stale files, files left by a failed start, failed
\* writes and the unconditional removal at exit do not suffice for it.
OneDaemonUnlessRaced ==
    ~raced => Cardinality({d \in Daemons : pc[d] = "run"}) <= 1

\* A PID file that names a daemon that has ended is left only by a daemon that
\* was killed or found no configuration: every other way out of
\* Command::Run passes release_pid_file, and nothing brings a removed PID back.
StaleFileExplained ==
    \A d \in Daemons :
        pidfile = d /\ ~(pc[d] \in Live) => pc[d] \in {"killed", "other"} \/ d \in misread

\* What was entered for a notifier is what it is configured with, except for
\* one trailing slash of ntfy's base URL.
SameNotifier(n, entered, configured) ==
    \A k \in DOMAIN entered :
        IF n = "ntfy" /\ k = "base_url"
        THEN entered[k] \in {configured[k], Append(configured[k], "/")}
        ELSE entered[k] = configured[k]

\* The daemon r does what was entered in the setup s.
AsEntered(r, s) ==
    LET i == CollectInputs(req[s])
    IN  /\ \A k \in DOMAIN i.top : r.top[k] = i.top[k]
        /\ r.stores = IF i.top.database_path = <<>> THEN {}
                      ELSE {"devices", "alerts", "history"}
        /\ r.rules = <<DefaultRule>>
        /\ DOMAIN r.notifiers = DOMAIN i.notifiers \ r.broken
        /\ ("fanout" \in r.tasks) = (DOMAIN r.notifiers # {})
        /\ \A n \in DOMAIN r.notifiers :
              SameNotifier(n, i.notifiers[n], r.notifiers[n])
        /\ r.read_key_hash = IF i.generate_api_key
                             THEN sha256_hex(KeyOf[s]) ELSE None

\* No other setup was writing to the same path meanwhile.
Unmixed(s) == \A t \in Setups : {t, s} \notin mixed

\* A daemon that runs from a file the wizard wrote does what the user entered:
\* it captures on that interface, serves the API at that address and port, logs
\* at that level, keeps its data where asked, sends alerts through the chosen
\* notifiers with the entered settings (those that could be built), fires on
\* every new device, and asks for the printed key, if any.
\* Rendering, quoting, parsing, defaults, validation, normalisation and the
\* startup of daemon::run lie between the two. Two setups that overlap on one
\* path may leave a mixture.
RunsAsEntered ==
    \A d \in Daemons :
        pc[d] = "run" /\ running[d].by # None /\ Unmixed(running[d].by) =>
            AsEntered(running[d], running[d].by)

\* The key that setup printed is the key of the file it wrote, as long as no
\* setup with --force, and none that ran at the same time, used the same path:
\* setup::run refuses to clobber an existing file.
PrintedKeyOpens ==
    \A s \in Setups :
        pc[s] = "done" /\ CollectInputs(req[s]).generate_api_key =>
            \/ /\ files[req[s].path] # <<>>
               /\ TableOf(files[req[s].path][1], "auth")
                    = [read_key_hash |-> sha256_hex(KeyOf[s])]
            \/ \E t \in Setups \ {s} : /\ req[t] # None
                                       /\ req[t].path = req[s].path
                                       /\ req[t].force \/ {s, t} \in mixed

(***************************************************************************)
(* Why they hold, inductively.                                             *)
(***************************************************************************)
Owning  == {"load", "stores", "capture", "run", "release"}
Writing == {"fresh", "emptied"}

TypeOK ==
    /\ pc \in [Daemons \union Setups ->
                  Live \union {"new", "gone", "killed", "other", "asked", "done"} \union Writing]
    /\ pidfile \in Daemons \union {None, Empty}
    /\ seen \in [Daemons -> Daemons \union {None, Empty}]
    /\ req \in [Setups -> Requests \union {None}]
    /\ writer \in [Paths -> Setups \union {None}]
    /\ files = [p \in Paths |-> files[p]]
    /\ running = [d \in Daemons |-> running[d]]
    /\ tries \in [Daemons -> Seq(Paths)]
    /\ \A d \in Daemons : pc[d] = "load" => tries[d] # <<>>
    /\ \A s \in Setups :
         /\ pc[s] \in {"asked", "done"} \union Writing => req[s] # None
         /\ req[s] # None => CollectInputs(req[s]) # None

\* Without a race one daemon at a time is between reading and writing the PID
\* file, and past that point its PID stays in the file: whoever starts now has
\* read it or will. And a PID comes into the file only at that point.
GuardInv ==
    /\ ~raced =>
         /\ \A d, e \in Daemons : pc[d] \in AtGuard /\ pc[e] \in AtGuard => d = e
         /\ \A d \in Daemons : pc[d] \in Owning =>
              /\ pidfile = d
              /\ \A e \in Daemons : /\ pc[e] \notin {"truncate", "write"}
                                    /\ pc[e] = "check" => seen[e] = d
    /\ \A d \in Daemons : pidfile = d =>
         \/ pc[d] \in Owning \union {"killed", "other"}
         \/ pc[d] = "gone" /\ d \in misread

\* t used the path of s: over it, or at the same time.
Overwrites(t, s) ==
    /\ pc[t] \notin {"new", "asked"} /\ req[t] # None
    /\ req[t].path = req[s].path
    /\ req[t].force \/ {s, t} \in mixed

\* Setups that met use the same path.
MixedInv ==
    \A s, t \in Setups : {s, t} \in mixed =>
        /\ s # t /\ pc[s] \notin {"new", "asked"} /\ req[s] # None
        /\ req[s].path = req[t].path

\* What a setup that met no other wrote last is in the file.
WriterInv ==
    \A p \in Paths : writer[p] # None =>
        /\ files[p] # <<>>
        /\ pc[writer[p]] \in {"emptied", "done", "gone"} /\ req[writer[p]] # None
        /\ Unmixed(writer[p]) => files[p] \in {<<EmptyTable>>, <<Rendered(writer[p])>>}

\* A setup that is about to write has met every other one that is, and was
\* forced if another is done with the same path.
MeetInv ==
    \A s, t \in Setups :
        /\ s # t /\ pc[s] \in Writing \union {"done"} /\ pc[t] \in Writing
        /\ req[s].path = req[t].path
        => \/ {s, t} \in mixed
           \/ pc[s] = "done" /\ req[t].force

\* So the file of a setup is as it left it, unless one of those came after it.
OwnInv ==
    \A s \in Setups :
        /\ pc[s] \in {"emptied", "done"} => writer[req[s].path] # None
        /\ pc[s] = "emptied" /\ Unmixed(s) => files[req[s].path] = <<EmptyTable>>
        /\ pc[s] = "done" =>
             \/ files[req[s].path] = <<Rendered(s)>>
             \/ \E t \in Setups \ {s} : Overwrites(t, s)

FilesInv == MixedInv /\ WriterInv /\ MeetInv /\ OwnInv

\* A daemon has read what its writer rendered, and does what was entered in it.
RunInv ==
    \A d \in Daemons :
        pc[d] \in {"stores", "capture", "run"} /\ running[d].by # None =>
           LET w == running[d].by
           IN  /\ w \in Setups /\ req[w] # None
               /\ pc[w] \in {"emptied", "done", "gone"}
               /\ Unmixed(w) =>
                    IF pc[d] = "stores"
                    THEN /\ running[d].config = FromStr(Rendered(w))
                         /\ running[d].config # None
                    ELSE AsEntered(running[d], w)

LaunchInv == TypeOK /\ GuardInv /\ FilesInv /\ RunInv
=============================================================================
