------------------------------- MODULE MCOperators -------------------------------
(* What operators do from outside the server: choosing and preparing the interface, with faults *)
(* (choose) or with a crash, a pull and requests to the server (serve), the report of a failure,  *)
(* the migrations of the database, and the sources of the configuration (configure).  And what    *)
(* the server does for whoever operates it: it delivers mail (mail), measures itself for a page    *)
(* (monitor) or for the dashboard (dashboard), and lists access codes (codes) and users (users).   *)
(* A behaviour is one of these, the others are at rest.                                           *)
EXTENDS Naturals, Sequences, TLC
CONSTANTS antd, ele, r1, None, Unknown, LogPath
VARIABLES
    part,
    files, packages, modules, marker, apply, lease, run, job, active, closed, returned, request, faults, crashes, pulls,
    action, details, progress, shown,
    dialect, db, catalog, op, answer, commands, dbfaults, blind,
    env, dotenv, yaml, rows, server, blame, edits, saves,
    now, sequence, failed, send, cancelled, accepted, unheard, result,
    gone, waiter, measurer, measured, output, since, got, todo, page, summary, crashed,
    policy, permission, assigned, inactive, call, codes,
    table, walk, lasting, created, deleted

uiVars == <<files, packages, modules, marker, apply, lease, run, job, active, closed, returned, request, faults, crashes,
            pulls>>
reportVars == <<action, details, progress, shown>>
dbVars == <<dialect, db, catalog, op, answer, commands, dbfaults, blind>>
configVars == <<env, dotenv, yaml, rows, server, blame, saves>>
mailVars == <<sequence, failed, send, cancelled, accepted, unheard, result>>
monitorVars == <<gone, waiter, measurer, measured, output, since, got, todo, page, summary, crashed>>
codeVars == <<policy, permission, assigned, inactive, call, codes>>
userVars == <<table, walk, lasting, created, deleted>>
\* the parts share a clock and a bound
sharedVars == <<now, edits>>

C == INSTANCE UIPreparation WITH
        UIs <- {antd, ele}, Requests <- {r1}, MaxRuns <- 2, Kept <- 1, MaxFaults <- 1, MaxCrashes <- 0, MaxPulls <- 0,
        PullsAnyTime <- FALSE, lock <- packages
U == INSTANCE UIPreparation WITH
        UIs <- {antd, ele}, Requests <- {r1}, MaxRuns <- 2, Kept <- 1, MaxFaults <- 0, MaxCrashes <- 1, MaxPulls <- 1,
        PullsAnyTime <- FALSE, lock <- packages
F == INSTANCE UIFailures WITH KnownPath <- LogPath
\* the lists of codes, scopes and operations, two of them at a time
TwoLists == details'.code = "" \/ details'.scope = "" \/ details'.operation = ""
Routes == {<<"GET", "settings">>, <<"PUT", "settings">>, <<"PUT", "observability">>, <<"GET", "mail">>}
AuditEvents ==
    << [event |-> "settings.mail", mentions |-> FALSE], [event |-> "settings.saved", mentions |-> TRUE],
       [event |-> "settings.mail", mentions |-> TRUE], [event |-> "settings.saved", mentions |-> FALSE],
       [event |-> "mail.sent", mentions |-> TRUE] >>
M == INSTANCE Migrations WITH
        Events <- AuditEvents, Batch <- 2, Policies <- Routes, MaxCommands <- 4, MaxFaults <- 1, MaxBlind <- 0,
        cache <- catalog, faults <- dbfaults

Says(source, key, value) == [source |-> source, key |-> key, value |-> value]
Written == [k \in {"database.enabled"} |-> "on"] @@ [k \in {"database.dsn"} |-> "given"]
Sources ==
    {Says("dotenv", "database.dsn", ""), Says("dotenv", "tracing.enabled", "on"), Says("env", "tracing.endpoint", ""),
     Says("yaml", "tracing.endpoint", ""), Says("env", "redis.enabled", "on")}
G == INSTANCE Configuration WITH
        Installed <- Written, Edits <- Sources, ExplicitConfig <- FALSE, ExplicitEnvFile <- FALSE, Replicas <- TRUE,
        MaxEdits <- 2, MaxSaves <- 2

Account(i, s, u) == [implicit |-> i, submission |-> s, user |-> u]
S == INSTANCE Smtp WITH
        Senders <- {"s1", "s2"}, Pool <- <<Account(TRUE, FALSE, TRUE), Account(FALSE, TRUE, TRUE), Account(FALSE, FALSE, FALSE)>>,
        RoundRobin <- TRUE, MaxAttempts <- 2, Cooldown <- 1, MaxTime <- 1

\* the page: Redis is switched off, and its probe a pointer to nothing
O == INSTANCE Monitor WITH
        OverviewOrder <- <<"cpu", "database", "redis", "tasks">>, SummaryOrder <- <<"users", "overview">>,
        Dashboard <- FALSE, Live <- {"database"}, NilPointers <- {"redis"}, Places <- 1, Timeout <- 1, MaxTime <- 1,
        result <- measured, shown <- page
B == INSTANCE Monitor WITH
        OverviewOrder <- <<"database", "redis">>, SummaryOrder <- <<"users", "overview">>,
        Dashboard <- TRUE, Live <- {"database", "users"}, NilPointers <- {}, Places <- 1, Timeout <- 1, MaxTime <- 1,
        result <- measured, shown <- page

Grant(role, org, method, path, effect) ==
    [role |-> role, org |-> org, method |-> method, path |-> path, effect |-> effect]
Row(code, org, method, path, on) == [code |-> code, org |-> org, method |-> method, path |-> path, active |-> on]
A == INSTANCE AccessCodes WITH
        Orgs <- {"o1", "o2"}, NoOrg <- "none", Roles <- {"r1", "r2"},
        RoleOrg <- [r \in {"r1", "r2"} |-> IF r = "r2" THEN "o1" ELSE "none"], Nobody <- "nobody",
        Catalog <- [c \in {"media", "files", "manage", "test"} |->
                      CASE c = "media" -> [method |-> "GET", path |-> <<"media", "*">>]
                        [] c = "files" -> [method |-> "GET", path |-> <<"files", "*">>]
                        [] c = "manage" -> [method |-> "ANY", path |-> <<"mail", "*">>]
                        [] c = "test" -> [method |-> "POST", path |-> <<"mail", ":", "test">>]],
        PermissionRows <- {Row("media", "o1", "GET", <<"media", "*">>, FALSE), Row("manage", "none", "ANY", <<"*">>, TRUE),
                           Row("test", "none", "POST", <<"mail", "media">>, FALSE)},
        Aliases <- [c \in {"media"} |-> {"files"}], Legacy <- <<"files">>, Canonical <- <<"media">>,
        Policies <- {Grant("r1", "none", "GET", <<"files", "*">>, "allow"), Grant("r2", "o1", "ANY", <<"mail", "*">>, "allow"),
                     Grant("r1", "none", "POST", <<"mail", ":">>, "allow"),
                     Grant("nobody", "o2", "POST", <<"mail", ":", "test">>, "deny"),
                     Grant("nobody", "none", "ANY", <<"*">>, "allow"), Grant("r2", "none", "GET", <<"media">>, "deny")},
        Methods <- {"GET", "POST", "HEAD"}, Names <- {"media", "files", "mail", "test"}, Scope <- "scope", MaxEdits <- 3

Wanted(p, n, org, status, down) == [page |-> p, size |-> n, org |-> org, status |-> status, descending |-> down]
L == INSTANCE UserPages WITH
        Users <- 1..4, Orgs <- {"o1"}, NoOrg <- "none", OrgOf <- [u \in 1..4 |-> IF u = 4 THEN "none" ELSE "o1"],
        ActiveUsers <- 1..3, SortKey <- [u \in 1..4 |-> u \div 2], MaxInt <- 15, Database <- TRUE, MaxWrites <- 2,
        Queries <- {Wanted(1, 2, "none", "", TRUE), Wanted(0, 1, "none", "", FALSE), Wanted(1, 2, "none", "disabled", FALSE),
                    Wanted(1, 1, "o1", "active", TRUE), Wanted(6, 2, "none", "", TRUE), Wanted(12, 2, "none", "", TRUE)}

ASSUME MCAssumption ==
    /\ C!PreparationAssumption /\ U!PreparationAssumption /\ M!MigrationsAssumption /\ G!ConfigurationAssumption
    /\ S!SmtpAssumption /\ O!MonitorAssumption /\ B!MonitorAssumption /\ A!CodesAssumption /\ L!PagesAssumption

InterfaceRest == C!Init /\ F!Init /\ action = "prepare" /\ M!Init /\ dialect = "mysql" /\ db = M!Empty
ServerRest == G!Init /\ S!Init /\ O!Init /\ A!Init /\ L!Init /\ table = 1..4
MCInit ==
    \/ part = "choose" /\ InterfaceRest /\ ServerRest
    \/ part = "serve" /\ U!Init /\ InterfaceRest /\ ServerRest
    \/ part = "report" /\ C!Init /\ F!Init /\ M!Init /\ dialect = "mysql" /\ db = M!Empty /\ ServerRest
    \/ part = "migrate" /\ C!Init /\ F!Init /\ action = "prepare" /\ M!Init /\ ServerRest
    \/ part \in {"configure", "mail", "monitor", "codes"} /\ InterfaceRest /\ ServerRest
    \/ part = "dashboard" /\ InterfaceRest /\ G!Init /\ S!Init /\ B!Init /\ A!Init /\ L!Init /\ table = 1..4
    \/ part = "users" /\ InterfaceRest /\ G!Init /\ S!Init /\ O!Init /\ A!Init /\ L!Init
InterfaceStill == UNCHANGED <<part, uiVars, reportVars, dbVars>>
ServerStill == UNCHANGED <<part, configVars, mailVars, monitorVars, codeVars, userVars, sharedVars>>
MCNext ==
    \/ part = "choose" /\ C!Next /\ ServerStill /\ UNCHANGED <<reportVars, dbVars>>
    \/ part = "serve" /\ U!Next /\ ServerStill /\ UNCHANGED <<reportVars, dbVars>>
    \/ part = "report" /\ F!Next /\ TwoLists /\ ServerStill /\ UNCHANGED <<uiVars, dbVars>>
    \/ part = "migrate" /\ M!Next /\ ServerStill /\ UNCHANGED <<uiVars, reportVars>>
    \/ part = "configure" /\ G!Next /\ InterfaceStill /\ UNCHANGED <<now, mailVars, monitorVars, codeVars, userVars>>
    \/ part = "mail" /\ S!Next /\ InterfaceStill /\ UNCHANGED <<edits, configVars, monitorVars, codeVars, userVars>>
    \/ part = "monitor" /\ O!Next /\ InterfaceStill /\ UNCHANGED <<edits, configVars, mailVars, codeVars, userVars>>
    \/ part = "dashboard" /\ B!Next /\ InterfaceStill /\ UNCHANGED <<edits, configVars, mailVars, codeVars, userVars>>
    \/ part = "codes" /\ A!Next /\ InterfaceStill /\ UNCHANGED <<now, configVars, mailVars, monitorVars, userVars>>
    \/ part = "users" /\ L!Next /\ InterfaceStill /\ UNCHANGED <<sharedVars, configVars, mailVars, monitorVars, codeVars>>
MCSpec ==
    MCInit /\ [][MCNext]_<<part, uiVars, reportVars, dbVars, configVars, mailVars, monitorVars, codeVars, userVars, sharedVars>>

(* What operators do from outside ends well or can be done again: the interface that was chosen is  *)
(* the one that is installed, the jobs of the server end with it, what it understood of a failure    *)
(* reaches the browser; a migration that reports success has done its work, one that failed can be   *)
(* run again, the cleanup leaves alone what is in use; and a server runs with a configuration that   *)
(* is valid as a whole, in which no setting of the database overrides the deployment.                *)
OperatorsHold ==
    /\ part = "choose" => C!TypeOK /\ C!ChosenIsInstalled /\ C!JobsHold
    /\ part = "serve" => U!TypeOK /\ U!ChosenIsInstalled /\ U!JobsHold
    /\ part = "report" => F!FailureReported
    /\ part = "migrate" => M!TypeOK /\ M!AnsweredDone /\ M!SafeToRetry /\ M!OthersKept
    /\ part = "configure" => G!ConfigurationHolds
(* A message that the caller was told is delivered was taken once, and no login went over a line in  *)
(* the clear; a page shows what was measured for it and nobody waits for ever for a probe; the       *)
(* listed codes are what the evaluator grants; and a walk through the users misses and repeats none. *)
ServicesHold ==
    /\ part = "mail" => S!DeliveredOnce /\ S!LoginSecure
    /\ part = "monitor" => O!MonitorHolds
    /\ part = "dashboard" => B!MonitorHolds
    /\ part = "codes" => A!CodesHold
    /\ part = "users" => L!PagesHold
(* While an installation has a journal the interface is not changed. *)
ChoiceFixed == C!ChoiceFixed /\ U!ChoiceFixed
=============================================================================
