------------------------------ MODULE MCLaunch ------------------------------
(***************************************************************************)
(* Requests and files for Launch: texts with quotes, backslashes, blanks   *)
(* and newlines, every notifier, flags and answers, files that are valid,  *)
(* incomplete or refused by validation.                                    *)
(***************************************************************************)
EXTENDS Launch, TLC

CONSTANTS s1, s2

\* Daemons differ in their PID only.
Symmetry == Permutations(Daemons)

MCKeyOf == s1 :> "key1" @@ s2 :> "key2"
MCPaths == {"given", "etc"}
MCFallbacks == <<"etc", "given">>
MCNets == {{"lo", "eth0"}, {"lo"}}

NoFlags == [top |-> EmptyTable, generate_api_key |-> FALSE, notifiers |-> EmptyTable]
NoAnswers == [interface |-> <<"eth0">>, api_port |-> 8080, bind_all |-> TRUE,
              database_path |-> <<>>, generate_api_key |-> FALSE,
              notifiers |-> EmptyTable]
Request(flags, answers, interactive, force, path) ==
    [flags |-> flags, answers |-> answers, non_interactive |-> ~interactive,
     force |-> force, path |-> path]

MCRequests ==
    { \* flags only: a key, ntfy with a trailing slash, a topic to be quoted
      Request([top |-> [interface |-> <<"eth0">>], generate_api_key |-> TRUE,
               notifiers |-> [ntfy |-> [base_url |-> <<"ntfy", "/">>,
                                        topic |-> <<Quote, "a", Backslash>>]]],
              NoAnswers, FALSE, FALSE, "given"),
      \* the same place, overwriting
      Request([top |-> [interface |-> <<"wlan0">>, api_port |-> 9090,
                        log_level |-> <<"debug">>,
                        database_path |-> <<"db", Backslash, Quote>>],
               generate_api_key |-> TRUE,
               notifiers |-> [webhook |-> [url |-> <<"hook">>],
                              email |-> [host |-> <<"smtp">>, from |-> <<"a">>]]],
              NoAnswers, FALSE, TRUE, "given"),
      \* prompts: an interface, a database, a broker with a user name only
      Request([NoFlags EXCEPT !.generate_api_key = TRUE],
              [NoAnswers EXCEPT !.database_path = <<"db">>, !.bind_all = FALSE,
                  !.notifiers = [mqtt |-> [host |-> <<"broker">>, port |-> 1883,
                                           topic |-> <<"t">>, username |-> <<"u">>,
                                           password |-> <<>>]]],
              TRUE, FALSE, "etc"),
      \* a blank interface: refused by run_setup without prompts
      Request([NoFlags EXCEPT !.top = [interface |-> <<" ">>]],
              NoAnswers, FALSE, TRUE, "given"),
      \* refused by the validation of what was rendered: a newline, no host
      Request([NoFlags EXCEPT !.top = [interface |-> <<"eth0", Newline>>]],
              NoAnswers, TRUE, TRUE, "given"),
      Request([NoFlags EXCEPT !.top = [interface |-> <<"eth0">>],
                              !.notifiers = [mqtt |-> EmptyTable]],
              NoAnswers, FALSE, TRUE, "given") }

\* A minimal file, one with settings the wizard does not write, one whose
\* admin key hash is not a hash. (A truncated file lacks the required interface.)
MCHandWritten ==
    { [top |-> [interface |-> <<"eth1">>]],
      [top |-> [interface |-> <<"eth1">>, database_path |-> <<"db">>],
       storage |-> [history_snapshot_hours |-> 0],
       scanner |-> [interval_seconds |-> 0],
       tls |-> [cert_path |-> <<"c">>, key_path |-> <<"k">>],
       rules |-> <<[name |-> <<"odd">>,
                    condition |-> [kind |-> "Simple", value |-> <<"oddity">>]],
                   [name |-> <<"quiet">>, severity |-> <<"WARN">>,
                    condition |-> [kind |-> "DeviceOffline", value |-> 60]]>>],
      [top |-> [interface |-> <<"eth1">>],
       auth |-> [read_key_hash |-> <<"sha256", "old">>, admin_key_hash |-> <<"beef">>]] }
=============================================================================
