--------------------------- MODULE Configuration ---------------------------
(***************************************************************************)
(* The configuration file: what `edgeshield setup` writes                  *)
(* (cli/src/setup.rs), what Config::from_str makes of a file               *)
(* (config/src/config.rs), and what the daemon starts from it              *)
(* (daemon/src/daemon.rs, rules/src/config_bridge.rs).                     *)
(*                                                                         *)
(* A text is a sequence of words and special characters. A document maps   *)
(* the sections that occur in the file to tables, a table maps the keys    *)
(* that occur to values; a key that is missing is not in the domain. In a  *)
(* document texts are as they stand between the quotes of the file; a      *)
(* configuration has the same shape with the texts they stand for and the  *)
(* defaults filled in. Numbers, booleans and conditions of rules need no   *)
(* quotes (Verbatim).                                                      *)
(***************************************************************************)
EXTENDS Naturals, Sequences, Functions

CONSTANT None   \* no value: an error of a function that returns a Result

EmptyTable == [k \in {} |-> k]

\* A table with the entries of another for the keys it lacks.
Completed(table, other) ==
    [k \in DOMAIN table \union DOMAIN other |->
        IF k \in DOMAIN table THEN table[k] ELSE other[k]]

\* The elements of a sequence other than x.
Without(seq, x) ==
    LET upto[i \in 0 .. Len(seq)] ==
          IF i = 0 THEN <<>>
          ELSE IF seq[i] = x THEN upto[i - 1] ELSE Append(upto[i - 1], seq[i])
    IN  upto[Len(seq)]

Quote     == "\""
Backslash == "\\"
Newline   == "\n"
\* Stands in a text for something that is not a TOML basic string.
Unreadable == "unreadable"

(***************************************************************************)
(* Sections: the keys that must occur and the defaults of others. Keys     *)
(* that are neither are Option fields.                                     *)
(***************************************************************************)
Config == [required |-> {"interface"},
           default  |-> [api_port |-> 8080, api_bind_address |-> <<"0.0.0.0">>,
                         log_level |-> <<"info">>, capture_buffer |-> 4096,
                         database_path |-> <<>>]]

MqttConfig == [required |-> {"host"},
               default  |-> [port |-> 1883, topic |-> <<"edgeshield/devices/new">>,
                             client_id |-> <<"edgeshield">>, qos |-> 1]]

NtfyConfig == [required |-> {"base_url", "topic"}, default |-> EmptyTable]

WebhookConfig == [required |-> {"url"}, default |-> [timeout_seconds |-> 10]]

EmailConfig == [required |-> {"host", "username", "password", "from", "to"},
                default  |-> [port |-> 587, starttls |-> TRUE,
                              subject_prefix |-> <<"[EdgeShield]">>]]

RuleConfig == [required |-> {"name", "condition"},
               default  |-> [enabled |-> TRUE, severity |-> <<"info">>,
                             cooldown_seconds |-> 0]]

ScannerConfig == [required |-> {}, default |-> [interval_seconds |-> 60]]

StorageConfig == [required |-> {},
                  default  |-> [history_snapshot_hours |-> 24,
                                history_retention_days |-> 90]]

ApiAuthConfig == [required |-> {"read_key_hash"},
                  default  |-> [max_failures |-> 10, window_seconds |-> 60,
                                block_seconds |-> 300]]

ApiTlsConfig == [required |-> {"cert_path", "key_path"}, default |-> EmptyTable]

ApiAuditConfig == [required |-> {"log_path"}, default |-> EmptyTable]

\* The sections other than [[rules]]; the first three are never absent.
Sections == [top |-> Config, scanner |-> ScannerConfig, storage |-> StorageConfig,
             mqtt |-> MqttConfig, ntfy |-> NtfyConfig, webhook |-> WebhookConfig,
             email |-> EmailConfig, auth |-> ApiAuthConfig, tls |-> ApiTlsConfig,
             audit |-> ApiAuditConfig]
Always == {"top", "scanner", "storage"}
NotifierKinds == {"ntfy", "mqtt", "webhook", "email"}

Verbatim == {"api_port", "capture_buffer", "port", "qos", "timeout_seconds",
             "starttls", "enabled", "cooldown_seconds", "condition",
             "interval_seconds", "history_snapshot_hours",
             "history_retention_days", "max_failures", "window_seconds",
             "block_seconds"}

(***************************************************************************)
(* Quoting, and the toml crate's reading of a quoted text.                 *)
(***************************************************************************)
Escaped(ch) == IF ch \in {Backslash, Quote} THEN <<Backslash, ch>> ELSE <<ch>>
toml_string(t) ==
    LET upto[i \in 0 .. Len(t)] ==
          IF i = 0 THEN <<>> ELSE upto[i - 1] \o Escaped(t[i])
    IN  upto[Len(t)]

\* The text between two quotes of the file; last[n] is what its last n
\* characters stand for. A bare quote ends the string too early, a newline may
\* not occur in it; other escapes are never written.
Unquoted(q) ==
    LET last[n \in 0 .. Len(q)] ==
          LET i == Len(q) - n + 1
          IN  IF n = 0 THEN <<>>
              ELSE IF q[i] \in {Quote, Newline} THEN <<Unreadable>>
              ELSE IF q[i] # Backslash THEN <<q[i]>> \o last[n - 1]
              ELSE IF n > 1 /\ q[i + 1] \in {Backslash, Quote}
                   THEN <<q[i + 1]>> \o last[n - 2]
              ELSE <<Unreadable>>
    IN  last[Len(q)]

ReadValue(k, v) == IF k \in Verbatim THEN v ELSE Unquoted(v)

Parses(table, schema) ==
    /\ schema.required \subseteq DOMAIN table
    /\ \A k \in DOMAIN table \ Verbatim : Unreadable \notin Range(Unquoted(table[k]))

ReadTable(table, schema) ==
    Completed([k \in DOMAIN table |-> ReadValue(k, table[k])], schema.default)

TableOf(doc, s) == IF s \in DOMAIN doc THEN doc[s] ELSE EmptyTable
RulesOf(doc)    == IF "rules" \in DOMAIN doc THEN doc["rules"] ELSE <<>>
Present(doc)    == Always \union (DOMAIN doc \ {"rules"})

\* toml::from_str: a configuration, not yet validated.
Deserialized(doc) ==
    [s \in Present(doc) \union {"rules"} |->
        IF s = "rules"
        THEN [i \in DOMAIN RulesOf(doc) |-> ReadTable(RulesOf(doc)[i], RuleConfig)]
        ELSE ReadTable(TableOf(doc, s), Sections[s])]

WellFormed(doc) ==
    /\ \A s \in Present(doc) : Parses(TableOf(doc, s), Sections[s])
    /\ \A i \in DOMAIN RulesOf(doc) : Parses(RulesOf(doc)[i], RuleConfig)

(***************************************************************************)
(* Validation.                                                             *)
(***************************************************************************)
\* t.trim().is_empty()
Blank(t) == \A i \in DOMAIN t : t[i] \in {" ", Newline}

\* Lower case is what to_ascii_lowercase gives.
SeverityNames == [info |-> {<<"info">>, <<"INFO">>},
                  warning |-> {<<"warning">>, <<"warn">>, <<"WARN">>},
                  critical |-> {<<"critical">>, <<"CRITICAL">>}]
SeverityFromStr(t) ==
    IF \E s \in DOMAIN SeverityNames : t \in SeverityNames[s]
    THEN CHOOSE s \in DOMAIN SeverityNames : t \in SeverityNames[s]
    ELSE None

\* A hash is a text of two words, so that the key it comes from is known.
sha256_hex(key) == <<"sha256", key>>
IsHexHash(t)    == Len(t) = 2 /\ t[1] = "sha256"

ValidSection(c, s) ==
    CASE s = "top"  -> ~Blank(c.top.interface)
      [] s = "mqtt" -> ~Blank(c.mqtt.host) /\ c.mqtt.qos <= 2
      [] s = "ntfy" -> ~Blank(c.ntfy.base_url) /\ ~Blank(c.ntfy.topic)
      [] s = "auth" -> /\ IsHexHash(c.auth.read_key_hash)
                       /\ "admin_key_hash" \in DOMAIN c.auth
                             => IsHexHash(c.auth.admin_key_hash)
      [] s = "tls"  -> ~Blank(c.tls.cert_path) /\ ~Blank(c.tls.key_path)
      [] s = "rules" -> \A i \in DOMAIN c.rules :
                           /\ ~Blank(c.rules[i].name)
                           /\ SeverityFromStr(c.rules[i].severity) # None
      [] OTHER -> TRUE

\* One trailing slash is stripped, not all.
StripSlash(t) == IF t # <<>> /\ t[Len(t)] = "/" THEN SubSeq(t, 1, Len(t) - 1) ELSE t

FromStr(doc) ==
    LET c == Deserialized(doc)
    IN  IF ~WellFormed(doc) \/ \E s \in DOMAIN c : ~ValidSection(c, s) THEN None
        ELSE IF "ntfy" \in DOMAIN c
             THEN [c EXCEPT !.ntfy.base_url = StripSlash(@)]
             ELSE c

(***************************************************************************)
(* The setup wizard: flags, prompts, the document it writes.               *)
(* Inputs are [top, generate_api_key, notifiers]; notifiers maps the       *)
(* chosen kinds to what was entered for them.                              *)
(***************************************************************************)
FlagDefaults == [mqtt    |-> [host |-> <<>>, port |-> 1883,
                              topic |-> <<"edgeshield/devices/new">>],
                 ntfy    |-> [base_url |-> <<>>, topic |-> <<>>],
                 webhook |-> [url |-> <<>>],
                 email   |-> [host |-> <<>>, port |-> 587, username |-> <<>>,
                              password |-> <<>>, from |-> <<>>, to |-> <<>>]]

\* SetupInputs from the flags given; notifiers that are not enabled are None
\* whatever their other flags say.
InputsOf(flags) ==
    [top |-> Completed(flags.top,
                 [interface |-> <<>>, api_port |-> 8080,
                  api_bind_address |-> <<"0.0.0.0">>,
                  log_level |-> <<"info">>, database_path |-> <<>>]),
     generate_api_key |-> flags.generate_api_key,
     notifiers |-> [n \in DOMAIN flags.notifiers |->
                       Completed(flags.notifiers[n], FlagDefaults[n])]]

detect_interfaces(net) == net \ {"lo"}

\* An optional answer that is left empty is None.
Entered(table) == Restrict(table, {k \in DOMAIN table :
    k \in {"username", "password", "token"} => table[k] # <<>>})

\* Answers are used only for what the flags left open. At most one notifier
\* is asked for, and only when no flag enabled one.
prompt_interactively(inputs, answers) ==
    LET t == inputs.top
    IN [top |-> [t EXCEPT
           !.interface = IF @ = <<>> THEN answers.interface ELSE @,
           !.api_port  = IF @ = 0 THEN answers.api_port ELSE @,
           !.api_bind_address =
               IF @ # <<>> THEN @
               ELSE IF answers.bind_all THEN <<"0.0.0.0">> ELSE <<"127.0.0.1">>,
           !.database_path = IF @ = <<>> THEN answers.database_path ELSE @],
        generate_api_key |-> inputs.generate_api_key \/ answers.generate_api_key,
        notifiers |-> IF DOMAIN inputs.notifiers # {} THEN inputs.notifiers
                      ELSE [n \in DOMAIN answers.notifiers |->
                               IF n = "email" THEN answers.notifiers[n]
                               ELSE Entered(answers.notifiers[n])]]

\* What the command line and the prompts can give: texts, except where a number
\* or a truth value is asked for.
IsText(t)     == t \in Seq(Range(t))
IsTable(t)    == \A k \in DOMAIN t \ Verbatim : IsText(t[k])
IsNotifiers(m) == DOMAIN m \subseteq NotifierKinds /\ \A n \in DOMAIN m : IsTable(m[n])
IsRequest(r)  ==
    /\ IsTable(r.flags.top) /\ IsNotifiers(r.flags.notifiers)
    /\ IsText(r.answers.interface) /\ IsText(r.answers.database_path)
    /\ IsNotifiers(r.answers.notifiers)

\* The inputs of one invocation, None when it stops before setup::run.
CollectInputs(request) ==
    LET inputs == InputsOf(request.flags)
    IN  IF ~request.non_interactive
        THEN prompt_interactively(inputs, request.answers)
        ELSE IF Blank(inputs.top.interface) THEN None ELSE inputs

QuotedTable(table) ==
    [k \in DOMAIN table |-> IF k \in Verbatim THEN table[k] ELSE toml_string(table[k])]

Literals == [mqtt |-> [qos |-> 1], ntfy |-> EmptyTable,
             webhook |-> [timeout_seconds |-> 10],
             email |-> [starttls |-> TRUE, subject_prefix |-> <<"[EdgeShield]">>]]

WrittenRule == [name |-> <<"new_device">>,
                condition |-> [kind |-> "Simple", value |-> <<"new_device">>],
                severity |-> <<"info">>, cooldown_seconds |-> 0]

\* Mutated: another key is generated for the hash.
Mut_render_toml(inputs, key) ==
    [s \in {"top", "rules"} \union DOMAIN inputs.notifiers
              \union (IF key = None THEN {} ELSE {"auth"}) |->
        CASE s = "top"   -> Completed(QuotedTable(inputs.top), [capture_buffer |-> 4096])
          [] s = "rules" -> <<WrittenRule>>
          [] s = "auth"  -> QuotedTable([read_key_hash |-> sha256_hex("another")])
          [] OTHER       -> Completed(QuotedTable(inputs.notifiers[s]), Literals[s])]

render_toml(inputs, key) ==
    [s \in {"top", "rules"} \union DOMAIN inputs.notifiers
              \union (IF key = None THEN {} ELSE {"auth"}) |->
        CASE s = "top"   -> Completed(QuotedTable(inputs.top), [capture_buffer |-> 4096])
          [] s = "rules" -> <<WrittenRule>>
          [] s = "auth"  -> QuotedTable([read_key_hash |-> sha256_hex(key)])
          [] OTHER       -> Completed(QuotedTable(inputs.notifiers[s]), Literals[s])]

(***************************************************************************)
(* What the daemon makes of a configuration.                               *)
(***************************************************************************)
\* None for an unknown word, which deserializes because the enum is untagged.
convert_condition(cond) ==
    IF cond.kind # "Simple" THEN cond
    ELSE CASE cond.value = <<"new_device">>      -> [kind |-> "NewDevice"]
           [] cond.value = <<"protocol_change">> -> [kind |-> "ProtocolChange"]
           [] OTHER                              -> None

TryFrom(rc) ==
    LET condition == convert_condition(rc.condition)
        severity  == SeverityFromStr(rc.severity)
    IN  IF condition = None \/ severity = None THEN None
        ELSE [name |-> rc.name, enabled |-> rc.enabled, condition |-> condition,
              severity |-> severity, cooldown_seconds |-> rc.cooldown_seconds]

DefaultRule == [name |-> <<"new_device">>, enabled |-> TRUE,
                condition |-> [kind |-> "NewDevice"], severity |-> "info",
                cooldown_seconds |-> 0]

\* Rules that do not convert are skipped; the default replaces an empty list.
RulesInForce(c) ==
    LET converted == Without([i \in DOMAIN c.rules |-> TryFrom(c.rules[i])], None)
    IN  IF converted = <<>> THEN <<DefaultRule>> ELSE converted

Persists(c) == c.top.database_path # <<>>
Stores(c) ==
    IF ~Persists(c) THEN {}
    ELSE {"devices", "alerts"}
         \union (IF c.storage.history_snapshot_hours > 0 THEN {"history"} ELSE {})

\* The tasks the daemon spawns; `made` are the notifiers that could be built.
Tasks(c, made) ==
    {"rule_engine", "api", "pipeline"}
    \union (IF made # {} THEN {"fanout"} ELSE {})
    \union (IF c.scanner.interval_seconds > 0 THEN {"scanner"} ELSE {})
    \union (IF "history" \in Stores(c) THEN {"history"} ELSE {})
    \union (IF Persists(c) THEN {"flush"} ELSE {})
=============================================================================
