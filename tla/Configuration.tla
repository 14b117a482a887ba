------------------------------- MODULE Configuration -------------------------------
(* The configuration that a server starts with: the process environment, the .env file of the        *)
(* installation, the configuration file and the compiled defaults, and over them what the settings   *)
(* of the database say of tracing.  Operators edit the sources, administrators save settings on this *)
(* server or on another one, and the server is started again.                                        *)
EXTENDS Naturals, Sequences, FiniteSets, Functions, TLC
CONSTANTS
    Installed,      \* what the configuration file says in the beginning
    Edits,          \* what an operator may write: [source, key, value]
    ExplicitConfig, ExplicitEnvFile,     \* the path of the file is given: then it must be there
    Replicas,       \* other servers save settings while this one is down or starting
    MaxEdits, MaxSaves
VARIABLES
    env, dotenv, yaml,      \* the sources: values; [exists, private, id, values]; [exists, values]
    rows,           \* the settings of the database
    server,         \* the start: [at, env, id, dotenv, yaml, config, next, reached, fresh]
    blame,          \* why a start may be refused
    edits, saves
vars == <<env, dotenv, yaml, rows, server, blame, edits, saves>>

Off == "off"  On == "on"  Blank == ""  Given == "given"
Bad == "bad"          \* does not fit its key: no number, no duration, outside its range
Sealed == "sealed"    \* a secret as the database holds it, an envelope
Nothing == <<>>       \* no key

Default ==
    [k \in {"server.addr", "database.driver", "file.root", "tenant.default_id", "install.state_dir"} |-> Given]
    @@ [k \in {"file.enabled", "tenant.enabled"} |-> On]
    @@ [k \in {"database.enabled", "redis.enabled", "auth.enabled", "mail.enabled", "tracing.enabled"} |-> Off]
    @@ [k \in {"database.dsn", "redis.addr", "auth.jwt_secret", "mail.host", "tracing.endpoint", "tracing.api_key"} |-> Blank]
    @@ [k \in {"tracing.sample_rate"} |-> Off]
Keys == DOMAIN Default
(* The settings that the database may give, in the order in which they are read. *)
observabilitySettingKeys == <<"tracing.enabled", "tracing.endpoint", "tracing.sample_rate", "tracing.api_key">>
Dynamic == Range(observabilitySettingKeys)
Secret == "tracing.api_key"

ConfigurationAssumption ==
    /\ {ExplicitConfig, ExplicitEnvFile, Replicas} \subseteq BOOLEAN /\ {MaxEdits, MaxSaves} \subseteq Nat
    /\ \A e \in Edits : e.source \in {"env", "dotenv", "yaml"} /\ e.key \in Keys

-------------------------------------------------------------------------------------
(* The sources, the strongest first. *)

\* an empty variable of the process counts as none
FromProcess(e) == {k \in DOMAIN e : e[k] # Blank}
\* but hides the line of the file, as every variable of the process does
applyDotEnvOverrides(e, d) == Restrict(d, DOMAIN d \ DOMAIN e)
newViper(e, d, y) ==
    LET file == applyDotEnvOverrides(e, d)
        process == FromProcess(e)
    IN  [k \in Keys |-> CASE k \in DOMAIN file -> file[k]
                          [] k \in process -> e[k]
                          [] k \in DOMAIN y /\ k \notin DOMAIN file \cup process -> y[k]
                          [] OTHER -> Default[k]]
(* A setting that a source names, be it with an empty value, is not for the database. *)
explicitObservabilitySettings(e, d, y) == Dynamic \cap (DOMAIN e \cup DOMAIN d \cup DOMAIN y)

databaseValid(c) == c["database.enabled"] = On => c["database.dsn"] = Given /\ c["database.driver"] = Given
redisValid(c)    == c["redis.enabled"] = On => c["redis.addr"] = Given
authValid(c)     == c["auth.enabled"] = On => c["auth.jwt_secret"] = Given
mailValid(c)     == c["mail.enabled"] = On => c["mail.host"] = Given
fileValid(c)     == c["file.enabled"] = On => c["file.root"] = Given
installValid(c)  == c["install.state_dir"] = Given
tenantValid(c)   == c["tenant.enabled"] = On => c["tenant.default_id"] = Given
observabilityValid(c) ==
    c["tracing.sample_rate"] # Bad /\ (c["tracing.enabled"] = On => c["tracing.endpoint"] = Given)
Validate(c) ==
    /\ c["server.addr"] = Given
    /\ databaseValid(c) /\ redisValid(c) /\ authValid(c) /\ mailValid(c) /\ fileValid(c) /\ installValid(c) /\ tenantValid(c)
    /\ observabilityValid(c)

-------------------------------------------------------------------------------------
NoServer == [at |-> "down", env |-> Nothing, id |-> 0, dotenv |-> Nothing, yaml |-> Nothing, config |-> Default,
             next |-> 1, reached |-> FALSE, fresh |-> TRUE]
Init ==
    /\ env = Nothing /\ rows = Nothing /\ server = NoServer /\ blame = {} /\ edits = 0 /\ saves = 0
    /\ dotenv = [exists |-> FALSE, private |-> TRUE, id |-> 0, values |-> Nothing]
    /\ yaml = [exists |-> TRUE, values |-> Installed]

Sources == <<env, dotenv, yaml, rows, edits, saves>>
Goto(s) == server' = s /\ UNCHANGED <<env, dotenv, yaml, rows, blame, edits, saves>>
Refuse == Goto([server EXCEPT !.at = "refused"])

\* a named configuration file must be there
ReadInConfig ==
    /\ server.at = "down"
    /\ IF ~yaml.exists /\ ExplicitConfig THEN Refuse
       ELSE Goto([NoServer EXCEPT !.at = "lstat", !.env = env, !.yaml = yaml.values])
\* the .env file must be regular and private
LstatDotEnv ==
    /\ server.at = "lstat"
    /\ CASE ~dotenv.exists /\ ~ExplicitEnvFile -> Goto([server EXCEPT !.at = "decode"])
         [] dotenv.exists /\ dotenv.private -> Goto([server EXCEPT !.at = "open", !.id = dotenv.id])
         [] OTHER -> Refuse
\* and the file that is opened the one that was looked at
OpenDotEnv ==
    /\ server.at = "open"
    /\ IF dotenv.exists /\ dotenv.id = server.id
       THEN Goto([server EXCEPT !.at = "decode", !.dotenv = dotenv.values]) ELSE Refuse
Load ==
    /\ server.at = "decode"
    /\ LET c == newViper(server.env, server.dotenv, server.yaml)
       IN  IF Validate(c) /\ \A k \in Keys : c[k] # Bad THEN Goto([server EXCEPT !.at = "ping", !.config = c]) ELSE Refuse

(* With a database that answers the settings are read, one after the other; one that does not is no *)
(* reason not to start.                                                                              *)
preparePersistedObservability ==
    /\ server.at = "ping"
    /\ \/ Goto([server EXCEPT !.at = "up"])
       \/ server.config["database.enabled"] = On /\ Goto([server EXCEPT !.at = "overlay", !.reached = TRUE])
Locked == explicitObservabilitySettings(server.env, server.dotenv, server.yaml)
applyObservabilitySetting ==
    /\ server.at = "overlay" /\ server.next <= Len(observabilitySettingKeys)
    /\ LET k == observabilitySettingKeys[server.next]
           c == IF k \in DOMAIN rows \ Locked THEN [server.config EXCEPT ![k] = rows[k]] ELSE server.config
       IN  \* an envelope is no text
           IF c[k] = Sealed THEN Refuse ELSE Goto([server EXCEPT !.config = c, !.next = @ + 1])
ResolveObservabilityConfig ==
    /\ server.at = "overlay" /\ server.next > Len(observabilitySettingKeys)
    /\ IF observabilityValid(server.config) THEN Goto([server EXCEPT !.at = "up"]) ELSE Refuse

\* what was edited before this start, when the start has read all that there is to read
Settled == IF server.at = "up" /\ server.fresh /\ (server.reached \/ server.config["database.enabled"] = Off)
           THEN {"edited"} ELSE {}
Stop ==
    /\ server.at \in {"up", "refused"}
    /\ server' = NoServer /\ blame' = blame \ Settled
    /\ UNCHANGED Sources

(* An operator edits a source; the files are replaced by new ones. *)
Edit ==
    /\ edits < MaxEdits /\ edits' = edits + 1 /\ blame' = blame \cup {"edited"}
    /\ \/ \E e \in Edits :
           LET write(values) == [k \in DOMAIN values \cup {e.key} |-> IF k = e.key THEN e.value ELSE values[k]] IN
           CASE e.source = "env" -> env' = write(env) /\ UNCHANGED <<dotenv, yaml>>
             [] e.source = "dotenv" -> \E private \in BOOLEAN :
                  /\ dotenv' = [exists |-> TRUE, private |-> private, id |-> dotenv.id + 1, values |-> write(dotenv.values)]
                  /\ UNCHANGED <<env, yaml>>
             [] e.source = "yaml" -> yaml' = [exists |-> TRUE, values |-> write(yaml.values)] /\ UNCHANGED <<env, dotenv>>
       \/ dotenv' = [dotenv EXCEPT !.exists = FALSE, !.values = Nothing] /\ UNCHANGED <<env, yaml>>
    /\ server' = [server EXCEPT !.fresh = server.at = "down"] /\ UNCHANGED <<rows, saves>>

(* What the settings show of a key: the variable of the process, the row, the default. *)
Effective(k) == IF k \in DOMAIN env THEN env[k] ELSE IF k \in DOMAIN rows THEN rows[k] ELSE Default[k]
\* secrets are sealed with the key of the installation
Stored(k, v) == IF k = Secret THEN Sealed ELSE v
Saving == saves < MaxSaves /\ saves' = saves + 1 /\ (Replicas \/ (server.at = "up" /\ server.config["database.enabled"] = On))
Torn == IF server.at = "overlay" THEN {"torn"} ELSE {}
Write(changes) ==
    rows' = [k \in DOMAIN rows \cup DOMAIN changes |-> IF k \in DOMAIN changes THEN Stored(k, changes[k]) ELSE rows[k]]
\* a file locks what the settings take for free
Unseen == IF Dynamic \cap (DOMAIN dotenv.values \cup DOMAIN yaml.values) # {} THEN {"file"} ELSE {}

Changes == {c \in UNION {[S -> {On, Off, Given, Blank}] : S \in (SUBSET {"tracing.enabled", "tracing.endpoint"}) \ {{}}} :
              \A k \in DOMAIN c : IF k = "tracing.enabled" THEN c[k] \in {On, Off} ELSE c[k] \in {Given, Blank}}
(* The settings of the module are saved together, as far as the result is valid. *)
SaveModule ==
    /\ Saving
    /\ \E c \in Changes :
         /\ DOMAIN c \cap DOMAIN env = {}
         /\ observabilityValid([k \in Dynamic |-> IF k \in DOMAIN c THEN c[k] ELSE Effective(k)])
         /\ Write(c)
    /\ blame' = blame \cup Torn \cup Unseen /\ UNCHANGED <<env, dotenv, yaml, server, edits>>
(* One key by itself: only its own value is checked. *)
Update ==
    /\ Saving
    /\ \E k \in Dynamic \ DOMAIN env, v \in {On, Off, Given, Blank, Bad} :
         /\ CASE k = "tracing.enabled" -> v \in {On, Off}
              [] k = "tracing.sample_rate" -> v \in {Off, Bad}
              [] k = "tracing.endpoint" -> v \in {Given, Blank}
              [] OTHER -> v = Given
         /\ Write([x \in {k} |-> v])
         /\ blame' = blame \cup Torn \cup Unseen \cup {IF k = Secret THEN "secret" ELSE "single"}
    /\ UNCHANGED <<env, dotenv, yaml, server, edits>>

Next ==
    \/ ReadInConfig \/ LstatDotEnv \/ OpenDotEnv \/ Load \/ preparePersistedObservability \/ applyObservabilitySetting
    \/ ResolveObservabilityConfig \/ Stop \/ Edit \/ SaveModule \/ Update

-------------------------------------------------------------------------------------
(* A server that is up runs with a configuration that is valid as a whole, wherever its parts come *)
(* from (Load, ResolveObservabilityConfig).                                                         *)
UpIsValid == server.at = "up" => Validate(server.config) /\ \A k \in Keys : server.config[k] \notin {Bad, Sealed}
(* What a source of the deployment says stays, whatever the database says (DynamicObservabilityAllowed); *)
(* an empty variable of the process takes a key away from the .env file and from the database alike.     *)
DeploymentFirst ==
    server.at = "up" => \A k \in Keys :
        /\ k \in DOMAIN server.env /\ server.env[k] # Blank => server.config[k] = server.env[k]
        /\ k \in DOMAIN server.dotenv \ DOMAIN server.env => server.config[k] = server.dotenv[k]
        /\ k \in DOMAIN server.yaml \ (DOMAIN server.env \cup DOMAIN server.dotenv) => server.config[k] = server.yaml[k]
(* A start is refused for a reason: an operator has edited a source since the last one, a setting was *)
(* written by itself, a secret was stored, or a save fell into the start or next to a file that locks *)
(* some of its keys.  Settings that are saved together are never in the way of a start.               *)
RefusedForAReason == server.at = "refused" => blame # {} \/ ExplicitConfig \/ ExplicitEnvFile
(* No value of the .env file is from a file that others may read, or that was swapped after the check. *)
PrivateFile == server.at \notin {"down", "refused"} /\ server.dotenv # Nothing /\ dotenv.id = server.id => dotenv.private
ConfigurationHolds == UpIsValid /\ DeploymentFirst /\ RefusedForAReason /\ PrivateFile
=====================================================================================
