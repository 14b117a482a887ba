------------------------------- MODULE MCServer -------------------------------
(* What the server does with what it stores and holds open: module settings, uploaded files, *)
(* imports and exports, backups, the export of spans, and its own start and end.  A behaviour *)
(* is one of one of them, the others are at rest.                                             *)
EXTENDS Settings, TLC
CONSTANTS
    None, NoUpload, MaxFaults, BackupFaults,
    Uploads, Editors, Deleters, Cleaners, Keyed, Limit,                                     \* of Files
    ImportServers, Imported, Operators, Asked, Server, Tenant, ImportKey, Kind, Rows, LongErrors, NoFields, MaxAttempts,  \* of Imports
    BackupJobs, Restores, Paths, Dest, Drivers, DriverOf, BackupKeys, KeyOf,                      \* of Backups
    Spans, Flushers, Reloads, Closer, QueueSize, MaxRefused,                                \* of Observability
    Configs, HttpRequests,                                                                      \* of Lifecycle
    s1, s2, c1, c2, u1, u2, e1, d1, m1, i1, i2, i3, o1, o2, q1, q2, j1, j2, j3, r1
VARIABLES
    part,
    row, order, staged, object, used, old, fpc, floc, mpc, mloc, idemMu, idem, returned, overtaken, forced, late, left,
    ffaults,
    jobs, rows, artifacts, tasks, req, work, op, ifaults,
    envelope, metadata, temp, job, reader, bfaults,
    runtimes, manager, lock, opc, held, seen, fate, before, ofailures,
    config, lpc, open, closers, handle, loops, served, prepared, cancelled, stopped, outcome

settingsVars == vars
filesVars == <<row, order, staged, object, used, old, fpc, floc, mpc, mloc, idemMu, idem, returned, overtaken, forced,
               late, left, ffaults>>
importsVars == <<jobs, rows, artifacts, tasks, req, work, op, ifaults>>
backupsVars == <<envelope, metadata, temp, job, reader, bfaults>>
spansVars == <<runtimes, manager, lock, opc, held, seen, fate, before, ofailures>>
processVars == <<config, lpc, open, closers, handle, loops, served, prepared, cancelled, stopped, outcome>>

F == INSTANCE Files WITH pc <- fpc, loc <- floc, faults <- ffaults
I == INSTANCE Imports WITH Servers <- ImportServers, Requests <- Imported, Key <- ImportKey, table <- rows, faults <- ifaults
B == INSTANCE Backups WITH Jobs <- BackupJobs, Keys <- BackupKeys, Nothing <- None, MaxFaults <- BackupFaults, faults <- bfaults
O == INSTANCE Observability WITH
        Requests <- Spans, MaxFailures <- MaxRefused, Silent <- FALSE, pc <- opc, failures <- ofailures
L == INSTANCE Lifecycle WITH Requests <- HttpRequests, pc <- lpc, requests <- served, forced <- stopped

(* Values of the constants in the runs. *)
\* a limit and a quota that it must not exceed
Limits     == [{"max_size", "quota"} -> 1..2]
AtMost     == {m \in Limits : m["max_size"] <= m["quota"]}
Compiled   == [k \in {"max_size", "quota"} |-> IF k = "quota" THEN 2 ELSE 1]
StorePoints == {"idle", "read", "check", "begin", "commit", "current", "append", "notify"}
Requesters == Permutations(Clients)
\* i1 and i2 are imports under one key, i3 is an export; o1 cancels, o2 retries
MCKind == [r \in {i1, i2, i3} |-> IF r = i3 THEN "export" ELSE "import"]
MCKey == [r \in {i1, i2, i3} |-> IF r = i3 THEN "other" ELSE "same"]
MCTenant == [r \in {i1, i2, i3} |-> "one"]
MCRows == [r \in {i1, i2, i3} |-> 1]
MCAsked == [o \in {o1, o2} |-> IF o = o1 THEN "cancel" ELSE "retry"]
MCServed == [x \in {i1, i2, i3, o1, o2} |-> s1]
\* two backups to one place, one of another database and key to another
MCDest == [j \in BackupJobs |-> IF j = j3 THEN "p2" ELSE "p1"]
MCDriverOf == [c \in BackupJobs \cup Restores |-> IF c = j3 THEN "mysql" ELSE "postgres"]
MCKeyOf == [c \in BackupJobs \cup Restores |-> IF c = j3 THEN "k2" ELSE "k"]
\* every kind of database with and without Redis; a source tree where there is Redis; files in every other one
Configurations ==
    {[database |-> d, redis |-> r, files |-> (r # (d = "single")), source |-> r] :
        d \in {"off", "single", "read_write"}, r \in BOOLEAN}

ASSUME MCAssumption ==
    /\ SettingsAssumption /\ F!FilesAssumption /\ I!ImportsAssumption /\ B!BackupsAssumption
    /\ O!ObservabilityAssumption /\ L!LifecycleAssumption

\* one upload beside every other actor; two uploads under one key without the maintenance
FilesInit == F!Start({u1, e1, d1}, {m1}) \/ F!Start({u1, u2}, {})
FilesRest == F!Start({}, {})
\* a key that is used twice; an import and an export that fails, cancelled and retried; either of them
\* beside the worker of a second server
ImportsInit ==
    \/ \E active \in {{i1, i2}, {i1, o1, o2}, {i3, o1, o2}} : I!Start(active, {s1})
    \/ \E active \in {{i1, o1}, {i3, o1}} : I!Start(active, {s1, s2})
ImportsRest == I!Start({}, {})
ProcessRest == L!Init /\ config = [database |-> "off", redis |-> FALSE, files |-> FALSE, source |-> FALSE]
MCInit ==
    /\ Init /\ B!Init /\ O!Init
    /\ \/ part \in {"settings", "backups", "spans"} /\ FilesRest /\ ImportsRest /\ ProcessRest
       \/ part = "files" /\ FilesInit /\ ImportsRest /\ ProcessRest
       \/ part = "imports" /\ FilesRest /\ ImportsInit /\ ProcessRest
       \/ part = "process" /\ FilesRest /\ ImportsRest /\ L!Init
MCNext ==
    /\ UNCHANGED part
    /\ \/ part = "settings" /\ Next /\ UNCHANGED <<filesVars, importsVars, backupsVars, spansVars, processVars>>
       \/ part = "files" /\ F!Next /\ UNCHANGED <<settingsVars, importsVars, backupsVars, spansVars, processVars>>
       \/ part = "imports" /\ I!Next /\ UNCHANGED <<settingsVars, filesVars, backupsVars, spansVars, processVars>>
       \/ part = "backups" /\ B!Next /\ UNCHANGED <<settingsVars, filesVars, importsVars, spansVars, processVars>>
       \/ part = "spans" /\ O!Next /\ UNCHANGED <<settingsVars, filesVars, importsVars, backupsVars, processVars>>
       \/ part = "process" /\ L!Next /\ UNCHANGED <<settingsVars, filesVars, importsVars, backupsVars, spansVars>>
(* Fairness of Settings, Files, Imports, Observability and Lifecycle, each while it is its turn. *)
SettingsFair ==
    /\ \A c \in Clients : WF_settingsVars(part = "settings" /\ Work(c))
    /\ \A s \in Servers : WF_settingsVars(part = "settings" /\ Reconcile(s))
FilesFair ==
    /\ \A m \in Cleaners : WF_filesVars(part = "files" /\ F!Maintenance(m))
    /\ WF_filesVars(part = "files" /\ \E f \in Uploads : F!Age(f))
ImportsFair ==
    /\ \A r \in Imported : WF_importsVars(part = "imports" /\ I!RequestStep(r))
    /\ \A o \in Operators : WF_importsVars(part = "imports" /\ I!OpStep(o))
    /\ \A s \in ImportServers : WF_importsVars(part = "imports" /\ I!WorkStep(s))
SpansFair ==
    /\ \A r \in Spans : WF_spansVars(part = "spans" /\ (O!Count(r) \/ O!Skip(r) \/ O!Send(r)))
    /\ \A i \in O!Ids : WF_spansVars(part = "spans" /\ i \in O!Made /\ (O!Take(i) \/ O!CompletePending(i) \/ O!WorkerEnds(i)))
    /\ \A i \in O!Ids : WF_spansVars(part = "spans" /\ i \in O!Made /\ (O!Answered(i) \/ O!Refused(i)))
    /\ \A f \in Flushers : WF_spansVars(part = "spans" /\ (O!Look(f) \/ O!Signal(f)))
    /\ \A c \in Reloads \cup {Closer} :
          WF_spansVars(part = "spans" /\ (O!Lock(c) \/ O!Swap(c) \/ O!CloseQueue(c) \/ O!CloseExporter(c)))
ProcessFair ==
    WF_processVars(part = "process" /\ L!Main) /\ WF_processVars(part = "process" /\ L!ShutdownExpires)
MCSpec ==
    /\ MCInit /\ [][MCNext]_<<part, settingsVars, filesVars, importsVars, backupsVars, spansVars, processVars>>
    /\ SettingsFair /\ FilesFair /\ ImportsFair /\ SpansFair /\ ProcessFair

(* A file that is ready or in use has its object, a deleted one leaves none, a key has one file. *)
FilesHold == part = "files" => F!FilesHold
(* Nothing is used that is closed, spans are conserved, and a restore is of the backup it reports. *)
ServerHolds ==
    /\ part = "imports" => I!TypeOK
    /\ part = "backups" => B!TypeOK /\ B!ArtifactsHold
    /\ part = "spans" => O!TypeOK /\ O!SpansHold
    /\ part = "process" => L!TypeOK /\ L!ClosersHold /\ L!RequestsServed
(* A deletion and a cancellation hold. *)
KeptForGood == F!DeletionHolds /\ I!CancelHolds
(* Snapshots serve what is stored, files and imports settle, Reload, Close and the process end. *)
Settles ==
    []<>( /\ Served /\ F!RowsSettled /\ I!JobsSettled /\ O!CallsReturned /\ L!NotStopping )
=============================================================================
