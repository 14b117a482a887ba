------------------------------ MODULE Migrations ------------------------------
(***************************************************************************)
(* The schema and its versioned upgrades (migrations/schema.go,            *)
(* migrations/versions/admin), run by hand one command at a time           *)
(* (cmd/migrate, platform/migration/runner.go).  A command is a list of    *)
(* statements inside one transaction; MySQL commits at every statement     *)
(* that changes the schema, so that what a failure leaves behind differs   *)
(* from PostgreSQL.                                                        *)
(***************************************************************************)
EXTENDS Naturals, Sequences, SequencesExt

CONSTANTS
    None,
    Events,         \* audit events by id: a sequence of [event, mentions]
    Batch,          \* audit rows looked at in one query (500 in the code)
    Policies,       \* routes with a policy at first
    MaxCommands, MaxFaults,
    MaxBlind        \* bound on catalog reads that fail inside HasTable

MigrationsAssumption ==
    /\ {MaxCommands, MaxFaults, MaxBlind} \subseteq Nat /\ Batch \in Nat \ {0}
    /\ \A i \in DOMAIN Events : Events[i].mentions \in BOOLEAN

VARIABLES
    dialect,
    db,
    cache,          \* whether Redis still holds a retired settings key
    op,             \* the command under way
    answer,         \* what the last one printed
    commands, faults, blind

vars == <<dialect, db, cache, op, answer, commands, faults, blind>>

-----------------------------------------------------------------------------
(* The schema: one table or column stands for each that needs a step of    *)
(* its own.                                                                *)

OldTables  == {"files", "messages", "definitions", "runs", "menus", "permissions"}
Legacy     == {"files", "messages"}              \* what v002 requires
NewTables  == <<"categories", "locales">>        \* created by v002
Registry   == <<"definitions", "runs", "files", "messages", "menus", "permissions", "categories", "locales">>

V002Columns == <<<<"files", "category">>, <<"files", "metadata">>, <<"messages", "relay">>>>
V004Columns == <<<<"locales", "format">>, <<"messages", "format">>>>
V005Columns == <<<<"definitions", "executor">>, <<"runs", "trigger">>>>
V002Indexes == <<[name |-> "files by category", table |-> "files"], [name |-> "messages by relay", table |-> "messages"]>>
Columns(t)  == {c \in ToSet(V002Columns \o V004Columns \o V005Columns) : c[1] = t}
Indexes(t)  == {i \in ToSet(V002Indexes) : i.table = t}

(* Permissions that the settings centre no longer uses, with their routes. *)
Retired == [parameters |-> <<"GET", "settings">>, observability |-> <<"PUT", "observability">>]

LegacyAudit(e) ==
    \/ e.event = "settings.mail"
    \/ e.event = "settings.saved" /\ e.mentions

Empty ==
    [ tables |-> {}, columns |-> {}, indexes |-> {}, notnull |-> FALSE, metadata |-> None, relay |-> None, status |-> None,
      executor |-> None, menu |-> None, settings |-> FALSE, audit |-> {}, permissions |-> {}, policies |-> {} ]
Version1(s) ==
    [Empty EXCEPT !.tables = OldTables, !.status = s, !.menu = "operations", !.settings = TRUE,
                  !.audit = DOMAIN Events, !.permissions = DOMAIN Retired, !.policies = Policies]

-----------------------------------------------------------------------------
(* The statements. *)

Do(what, on) == [do |-> what, on |-> on]
Each(what, s) == [i \in DOMAIN s |-> Do(what, s[i])]

(* Mutant of UpV002: the column is tightened before it is filled. *)
UpV002Early ==
    <<Do("require", Legacy)>> \o Each("create", NewTables)
    \o Each("add", SubSeq(V002Columns, 1, 2)) \o <<Do("tighten", "metadata"), Do("fill", "metadata")>>
    \o Each("add", SubSeq(V002Columns, 3, 3)) \o <<Do("fill", "relay")>>
    \o Each("index", V002Indexes)
(* The column metadata comes without a constraint, is filled and then      *)
(* tightened.                                                              *)
UpV002 ==
    <<Do("require", Legacy)>> \o Each("create", NewTables)
    \o Each("add", SubSeq(V002Columns, 1, 2)) \o <<Do("fill", "metadata"), Do("tighten", "metadata")>>
    \o Each("add", SubSeq(V002Columns, 3, 3)) \o <<Do("fill", "relay")>>
    \o Each("index", V002Indexes)
DownV002 ==
    <<Do("require", Legacy)>> \o Each("drop", Reverse(NewTables)) \o Each("drop index", Reverse(V002Indexes))
    \o Each("remove", Reverse(V002Columns))
UpV003   == <<Do("delete", "settings"), Do("audit", 0), Do("routes", 0), Do("delete", "policies"), Do("delete", "permissions")>>
UpV004   == Each("add", V004Columns)
DownV004 == Each("remove", V004Columns)
UpV005   == Each("add", V005Columns) \o <<Do("fill", "executor"), Do("menu", "config")>>
DownV005 == Each("remove", Reverse(V005Columns)) \o <<Do("menu", "operations")>>
CreateSchema == Each("create", Registry)
DropSchema   == Each("drop", Reverse(Registry))

Program ==
    [up |-> CreateSchema, down |-> DropSchema, up2 |-> UpV002, down2 |-> DownV002, up3 |-> UpV003,
     up4 |-> UpV004, down4 |-> DownV004, up5 |-> UpV005, down5 |-> DownV005]

Without(d, t) ==
    [d EXCEPT !.tables = @ \ {t}, !.columns = @ \ Columns(t), !.indexes = @ \ Indexes(t),
              !.notnull = @ /\ t # "files", !.metadata = IF t = "files" THEN None ELSE @,
              !.relay = IF t = "messages" THEN None ELSE @, !.status = IF t = "messages" THEN None ELSE @,
              !.executor = IF t = "definitions" THEN None ELSE @, !.menu = IF t = "menus" THEN None ELSE @]

(* A new column gets its default in the rows that exist. *)
WithColumn(d, c) ==
    [d EXCEPT !.columns = @ \cup {c},
              !.metadata = IF c = <<"files", "metadata">> THEN "null" ELSE @,
              !.relay = IF c = <<"messages", "relay">> /\ d.status # None THEN "pending" ELSE @,
              !.executor = IF c = <<"definitions", "executor">> THEN "method" ELSE @]
WithoutColumn(d, c) ==
    [d EXCEPT !.columns = @ \ {c},
              !.metadata = IF c = <<"files", "metadata">> THEN None ELSE @,
              !.notnull = @ /\ c # <<"files", "metadata">>,
              !.relay = IF c = <<"messages", "relay">> THEN None ELSE @,
              !.executor = IF c = <<"definitions", "executor">> THEN None ELSE @]

Changes(d, s) ==
    \/ s.do = "create" /\ s.on \notin d.tables
    \/ s.do = "drop" /\ s.on \in d.tables
    \/ s.do = "add" /\ s.on[1] \in d.tables /\ s.on \notin d.columns
    \/ s.do = "remove" /\ s.on \in d.columns
    \/ s.do = "tighten" /\ ~d.notnull
    \/ s.do = "index" /\ s.on \notin d.indexes
    \/ s.do = "drop index" /\ s.on \in d.indexes

RoutePredicate(p, routes) == \E r \in routes : p = r

Filled(d, on) ==
    CASE on = "metadata" -> [d EXCEPT !.metadata = IF @ = "null" THEN "{}" ELSE @]
      [] on = "relay"    -> [d EXCEPT !.relay = IF d.status \in {"sent", "failed"} /\ @ = "pending" THEN d.status ELSE @]
      [] on = "executor" -> [d EXCEPT !.executor = IF @ = "method" THEN "http" ELSE @]

Deleted(d, on, routes) ==
    CASE on = "settings"    -> [d EXCEPT !.settings = FALSE]
      [] on = "policies"    -> [d EXCEPT !.policies = {p \in @ : ~RoutePredicate(p, routes)}]
      [] on = "permissions" -> [d EXCEPT !.permissions = @ \ DOMAIN Retired]

Effect(d, s, routes) ==
    CASE s.do = "create" /\ Changes(d, s) ->
             [d EXCEPT !.tables = @ \cup {s.on}, !.columns = @ \cup Columns(s.on), !.indexes = @ \cup Indexes(s.on),
                       !.notnull = IF s.on = "files" THEN TRUE ELSE @]
      [] s.do = "drop" /\ Changes(d, s) -> Without(d, s.on)
      [] s.do = "add" /\ Changes(d, s) -> WithColumn(d, s.on)
      [] s.do = "remove" /\ Changes(d, s) -> WithoutColumn(d, s.on)
      [] s.do = "tighten" -> [d EXCEPT !.notnull = TRUE]
      [] s.do = "index" -> [d EXCEPT !.indexes = @ \cup {s.on}]
      [] s.do = "drop index" -> [d EXCEPT !.indexes = @ \ {s.on}]
      [] s.do = "fill" -> Filled(d, s.on)
      [] s.do = "menu" -> [d EXCEPT !.menu = IF @ = None THEN None ELSE s.on]
      [] s.do = "delete" -> Deleted(d, s.on, routes)
      [] OTHER -> d

(* What the database itself refuses, and what a precondition does. *)
Fails(d, s) ==
    \/ s.do = "require" /\ ~(s.on \subseteq d.tables)
    \/ s.do = "tighten" /\ d.metadata = "null"

-----------------------------------------------------------------------------
(* A command. *)

NoOp == [name |-> None, pc |-> 0, saved |-> Empty, open |-> FALSE, faulted |-> FALSE, cursor |-> 0, routes |-> {}]

Init ==
    /\ dialect \in {"mysql", "postgres"}
    /\ db \in {Empty} \cup {Version1(s) : s \in {"queued", "sent", "failed"}}
    /\ cache = (db # Empty)
    /\ op = NoOp /\ answer = [name |-> None, ok |-> FALSE, faulted |-> FALSE]
    /\ commands = 0 /\ faults = 0 /\ blind = 0

Statements == Program[op.name]
Now == Statements[op.pc]
Running == op.name # None

Begin(name) ==
    /\ ~Running /\ commands < MaxCommands /\ commands' = commands + 1
    /\ op' = [NoOp EXCEPT !.name = name, !.pc = 1, !.saved = db, !.open = name # "down"]
    /\ answer' = [name |-> None, ok |-> FALSE, faulted |-> FALSE]
    /\ UNCHANGED <<dialect, db, cache, faults, blind>>

Stop(ok, faulted) ==
    /\ answer' = [name |-> op.name, ok |-> ok, faulted |-> faulted]
    /\ op' = NoOp

(* The rows behind the last one that was looked at, in order of their id:  *)
(* rows of an earlier batch may be gone.                                   *)
NextRows(d, after) ==
    LET rest == SetToSortSeq({i \in d.audit : i > after}, <)
    IN ToSet(SubSeq(rest, 1, IF Len(rest) < Batch THEN Len(rest) ELSE Batch))

AuditBatch ==
    LET rows == NextRows(db, op.cursor)
        last == Len(SetToSeq(rows)) < Batch
    IN /\ db' = [db EXCEPT !.audit = @ \ {i \in rows : LegacyAudit(Events[i])}]
       /\ op' = IF last THEN [op EXCEPT !.pc = @ + 1]
                ELSE [op EXCEPT !.cursor = CHOOSE i \in rows : \A j \in rows : j <= i]

Statement ==
    /\ Running /\ op.pc <= Len(Statements) /\ ~Fails(db, Now)
    /\ \/ Now.do = "audit" /\ AuditBatch
       \/ /\ Now.do = "routes" /\ UNCHANGED db
          /\ op' = [op EXCEPT !.pc = @ + 1, !.routes = {Retired[p] : p \in db.permissions}]
       \/ /\ Now.do \notin {"audit", "routes"}
          /\ db' = Effect(db, Now, op.routes)
          /\ op' = [op EXCEPT !.pc = @ + 1, !.open = @ /\ ~(dialect = "mysql" /\ Changes(db, Now))]
    /\ UNCHANGED <<dialect, cache, answer, commands, faults, blind>>

RolledBack == IF op.open THEN op.saved ELSE db

Refused ==
    /\ Running /\ op.pc <= Len(Statements) /\ Fails(db, Now)
    /\ db' = RolledBack /\ Stop(FALSE, op.faulted)
    /\ UNCHANGED <<dialect, cache, commands, faults, blind>>

(* A statement, the commit or the process fails. *)
Fault ==
    /\ Running /\ faults < MaxFaults /\ faults' = faults + 1
    /\ db' = (IF op.pc <= Len(Statements) + 1 THEN RolledBack ELSE db) /\ Stop(FALSE, TRUE)
    /\ UNCHANGED <<dialect, cache, commands, blind>>

(* HasTable, which v004 and v005 use, answers "no" when its query fails;   *)
(* PostgreSQL refuses every later statement of the transaction.            *)
Blind ==
    /\ Running /\ op.name \in {"up4", "up5"} /\ op.pc <= Len(Statements) /\ blind < MaxBlind /\ blind' = blind + 1
    /\ IF dialect = "postgres" THEN db' = RolledBack /\ Stop(FALSE, TRUE)
       ELSE op' = [op EXCEPT !.pc = @ + 1] /\ UNCHANGED <<db, answer>>
    /\ UNCHANGED <<dialect, cache, commands, faults>>

Commit ==
    /\ Running /\ op.pc = Len(Statements) + 1
    /\ IF op.name = "up3" THEN op' = [op EXCEPT !.pc = @ + 1] /\ UNCHANGED answer ELSE Stop(TRUE, op.faulted)
    /\ UNCHANGED <<dialect, db, cache, commands, faults, blind>>

(* After the transaction the cleanup removes the retired keys from Redis,  *)
(* if the deployment has one.                                              *)
DeleteLegacyMailSettings ==
    /\ Running /\ op.pc = Len(Statements) + 2
    /\ cache' = FALSE /\ Stop(TRUE, op.faulted)
    /\ UNCHANGED <<dialect, db, commands, faults, blind>>

Next ==
    \/ \E name \in DOMAIN Program : Begin(name)
    \/ Statement \/ Refused \/ Fault \/ Blind \/ Commit \/ DeleteLegacyMailSettings

Spec == Init /\ [][Next]_vars

-----------------------------------------------------------------------------
(* Properties. *)

(* Every variable has its type. *)
TypeOK ==
    /\ dialect \in {"mysql", "postgres"} /\ cache \in BOOLEAN
    /\ db.tables \subseteq OldTables \cup ToSet(NewTables) /\ db.audit \subseteq DOMAIN Events
    /\ op.name \in DOMAIN Program \cup {None} /\ answer.ok \in BOOLEAN

Has(columns) == \A c \in ToSet(columns) : c[1] \in db.tables => c \in db.columns
Goal(name) ==
    CASE name = "up"    -> ToSet(Registry) \subseteq db.tables
      [] name = "down"  -> db.tables = {}
      [] name = "up2"   -> /\ ToSet(NewTables) \cup Legacy \subseteq db.tables /\ ToSet(V002Columns) \subseteq db.columns
                           /\ ToSet(V002Indexes) \subseteq db.indexes /\ db.notnull
                           /\ db.status \in {"sent", "failed"} => db.relay = db.status
      [] name = "down2" -> ToSet(NewTables) \cap db.tables = {} /\ ToSet(V002Columns) \cap db.columns = {}
      [] name = "up3"   -> /\ ~db.settings /\ ~cache /\ db.permissions = {}
                           /\ \A i \in db.audit : ~LegacyAudit(Events[i])
                           /\ \A p \in DOMAIN Retired : Retired[p] \notin db.policies
      [] name = "up4"   -> Has(V004Columns)
      [] name = "up5"   -> Has(V005Columns) /\ db.executor \in {None, "http"} /\ db.menu \in {None, "config"}
      [] OTHER          -> TRUE

(* A command that reports success has reached its goal, whatever earlier   *)
(* commands were broken off: no message that was delivered waits for a     *)
(* relay, no file is without metadata, no retired permission, policy,      *)
(* setting or audit event is left.                                         *)
AnsweredDone == answer.ok => Goal(answer.name)

(* "修复缺失前置条件或冲突后可安全重试": a command during which nothing broke     *)
(* fails for a missing table of version 1 only, not for what an earlier    *)
(* one left behind.                                                        *)
SafeToRetry ==
    answer.name # None /\ ~answer.ok /\ ~answer.faulted => answer.name \in {"up2", "down2"} /\ ~(Legacy \subseteq db.tables)

(* The cleanup removes nothing that is still in use: other audit events,   *)
(* policies on other routes.                                               *)
OthersKept ==
    answer.name = "up3" /\ answer.ok /\ commands = 1 /\ db.tables # {} =>
        /\ \A i \in DOMAIN Events : ~LegacyAudit(Events[i]) => i \in db.audit
        /\ \A p \in Policies : (\A r \in DOMAIN Retired : Retired[r] # p) => p \in db.policies
=============================================================================
