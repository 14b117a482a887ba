----------------------------- MODULE Installer -----------------------------
(* The first installation: apply jobs (job.go) run ApplyService (apply.go), which       *)
(* migrates the schema, inserts the administrator, publishes .env and the installed      *)
(* marker, journals every intent before its effect, compensates what a failed step did,    *)
(* and recovers the journal an earlier process left behind.  Several server processes      *)
(* share the state directory and the database; a lease lets one of them apply at a time.     *)
(* The lease's files are in ProcessLease.                                                      *)
EXTENDS Naturals, Sequences, FiniteSets, SequencesExt

CONSTANTS
    Tx,          \* transaction ids, which tag what a transaction wrote
    None,        \* no file, no row
    Foreign,     \* another installer's: its identity row, or menus and permissions equal to the seeds
    Clash,       \* menus or permissions under a seed's id, path or method that differ from the seed
    Procs,       \* server processes
    Databases,   \* database targets an operator may enter
    Contents,    \* what the user may have put in .env
    Free, Stale, \* the lease: nobody's; of a process that is gone
    Seeds,       \* what the databases may hold under the ids of the seeded menus
    JobsKept,    \* finished jobs a process remembers (8 in the code)
    PlanReadsJournal, \* whether the profile behind the plan is FileProfileProvider's
    MaxFaults, MaxCrashes, MaxEdits

InstallerAssumption ==
    /\ JobsKept \in Nat \ {0} /\ {MaxFaults, MaxCrashes, MaxEdits} \subseteq Nat
    /\ PlanReadsJournal \in BOOLEAN
    /\ {None, Foreign, Clash} \cap (Tx \cup Contents) = {} /\ Tx \cap Contents = {} /\ None # Foreign
    /\ None \notin Databases /\ "none" \notin {None} \cup Tx \cup Contents /\ {Free, Stale} \cap Procs = {}
    /\ Seeds \subseteq {None, Foreign, Clash}

VARIABLES
    lease,     \* apply.lock
    node,      \* the Node initializer: "gone" (not run), "running", "ended", "left" its journal envelope behind
    journal, env, marker, identity,
    backups,   \* whether ui-backup holds what the Node initializer moved away
    mem,       \* what a process is in the middle of
    pending,   \* ApplyService.pending
    known,     \* IdentityInstaller.pending: references it can roll back by itself
    jobs,      \* ApplyJobService.jobs, oldest first
    user,      \* the last contents the user gave .env
    faults, crashes, edits

stores == <<journal, env, marker, identity>>
vars == <<lease, node, backups, stores, mem, pending, known, jobs, user, faults, crashes, edits>>

-----------------------------------------------------------------------------
(* What the stores do with the one thing each of them owns: .env and its backups            *)
(* (env_file.go), the installed marker (marker.go), the transaction journal                  *)
(* (transaction_journal.go) and the installation identity (identity_gorm.go).  An operation is *)
(* the set of its outcomes: what is there afterwards, whether the caller gets an error, and      *)
(* whether an input/output error is to blame.  An operation that fails may have done nothing,     *)
(* a part, or all of its work.                                                                     *)

Did(now) == [now |-> now, err |-> FALSE, fault |-> FALSE]
Refused(now) == [now |-> now, err |-> TRUE, fault |-> FALSE]
Broke(now) == [now |-> now, err |-> TRUE, fault |-> TRUE]
Effect(old, new) == {Did(new), Broke(old), Broke(new)}

-----------------------------------------------------------------------------
(* .env: dotenv.file is its contents, a transaction's id when that transaction wrote it   *)
(* (the id stands for the tag and for the digest of what was rendered), dotenv.backup[t]    *)
(* the file .env.previous-t.  A receipt is the previous contents, None when the file     *)
(* was created.                                                                          *)

Publish(dotenv, contents) == [dotenv EXCEPT !.file = contents]
DropBackup(dotenv, t) == [dotenv EXCEPT !.backup[t] = None]
Restore(dotenv, t) == DropBackup(Publish(dotenv, dotenv.backup[t]), t)
Restoring(dotenv, t) == Effect(dotenv, Restore(dotenv, t)) \cup {Broke(Publish(dotenv, dotenv.backup[t]))}

WritePrepared(dotenv, t) ==
    LET saved == IF dotenv.file = None THEN dotenv ELSE [dotenv EXCEPT !.backup[t] = dotenv.file]
    IN  IF dotenv.file # None /\ dotenv.backup[t] # None
        THEN {Refused(dotenv)}
        ELSE Effect(dotenv, Publish(saved, t)) \cup {Broke(saved)}

(* EnvironmentInstaller.PublishWithReference: an outcome brings the receipt of what was there. *)
PublishWithReference(dotenv, t) ==
    {[now |-> o.now, err |-> o.err, fault |-> o.fault, receipt |-> dotenv.file] : o \in WritePrepared(dotenv, t)}
    \cup {[now |-> dotenv, err |-> TRUE, fault |-> TRUE, receipt |-> dotenv.file]}

RecoverPrepared(dotenv, t) ==
    LET backup == dotenv.backup[t] IN
    CASE backup # None /\ dotenv.file \in {None, t} -> Restoring(dotenv, t)
      [] backup \notin {None, t} /\ dotenv.file = backup -> Effect(dotenv, DropBackup(dotenv, t))
      [] backup # None /\ dotenv.file \notin {None, t, backup} -> {Refused(dotenv)}
      [] backup = None /\ dotenv.file = t -> Effect(dotenv, Publish(dotenv, None))
      [] OTHER -> {Did(dotenv), Broke(dotenv)}

Rollback(dotenv, t, previous) ==
    LET restored == dotenv.file \in {None, previous} IN
    CASE previous = None /\ dotenv.file = None -> {Did(dotenv), Broke(dotenv)}
      [] previous # None /\ dotenv.backup[t] # previous ->
            IF dotenv.backup[t] = None /\ dotenv.file = previous THEN {Did(dotenv), Broke(dotenv)} ELSE {Refused(dotenv)}
      [] previous # None /\ restored /\ dotenv.backup[t] = previous -> Restoring(dotenv, t)
      [] ~restored /\ dotenv.file # t -> {Refused(dotenv)}
      [] previous = None /\ dotenv.file = t -> Effect(dotenv, Publish(dotenv, None))
      [] OTHER -> Restoring(dotenv, t)

Finalize(dotenv, t, previous) ==
    IF previous = None \/ dotenv.backup[t] = None THEN {Did(dotenv), Broke(dotenv)}
    ELSE IF dotenv.backup[t] # previous THEN {Refused(dotenv)} ELSE Effect(dotenv, DropBackup(dotenv, t))

-----------------------------------------------------------------------------
(* The marker file: the transaction whose marker it is, or None.                        *)

MarkerCreate(owner, t) == IF owner # None THEN {Refused(owner)} ELSE Effect(owner, t)
MarkerRemove(owner, t) ==
    CASE owner = None -> {Did(owner), Broke(owner)}
      [] owner = t -> Effect(owner, None)
      [] OTHER -> {Refused(owner)}

(* The journal: a transaction's record, or one without an id when there is no file.     *)

JournalCreate(record, tx) == IF record.id # None THEN {Refused(record)} ELSE Effect(record, tx)
JournalUpdate(record, tx) == IF record.id # tx.id THEN {Refused(record)} ELSE Effect(record, tx)
JournalRemove(record, t, gone) ==
    CASE record.id = None -> {Did(record), Broke(record)}
      [] record.id = t -> Effect(record, gone)
      [] OTHER -> {Refused(record)}

(* What a database holds of an installation: db.row, the singleton of gvba_sys_app_metadata *)
(* that names the transaction whose administrator, role and policy were inserted with it, and *)
(* db.nav, the seeded menus and permissions.  Rows that are there and equal to the seeds are    *)
(* left out of the receipt, and so stay when it is rolled back; others are a conflict.           *)

SchemaMigrate == {Did("migrated"), Broke("migrated")}
Conflicting(nav) == nav = Clash
seedInitialNavigation(nav, t) == IF nav = None THEN t ELSE nav
IdentityInsert(db, t) ==
    IF db.row # None \/ Conflicting(db.nav) THEN {Refused(db)}
    ELSE Effect(db, [row |-> t, nav |-> seedInitialNavigation(db.nav, t)])

IdentityDelete(db, t) ==
    CASE db.row = None -> {Did(db), Broke(db)}
      [] db.row = t -> Effect(db, [row |-> None, nav |-> IF db.nav = t THEN None ELSE db.nav])
      [] OTHER -> {Refused(db), Broke(db)}
NotOwned(db, t) == db.row # None /\ db.row # t

-----------------------------------------------------------------------------
(* A new journal record; "done" counts the completed steps, of which plan, database and  *)
(* redis are there from the start.  "env" is the receipt of the publication: NoReceipt, or *)
(* what the file held before.                                                              *)
NoReceipt == "none"
NewTransaction(t, db) ==
    [id |-> t, db |-> db, phase |-> "applying", step |-> "schema", done |-> 3, identity |-> FALSE,
     intent |-> FALSE, env |-> NoReceipt, marker |-> FALSE]
Cleared(tx) == [NewTransaction(tx.id, tx.db) EXCEPT !.phase = "retryable", !.step = "failed"]
NoJournal == NewTransaction(None, None)
SideEffectFree(tx) ==
    tx.phase = "retryable" /\ ~tx.identity /\ ~tx.intent /\ tx.env = NoReceipt /\ ~tx.marker

(* "then" says what the undoing is for: a recovered journal, a failed step, a rollback.   *)
Idle == [pc |-> "idle", call |-> "apply", db |-> None, tx |-> NoJournal, todo |-> <<>>, then |-> "fail",
         bad |-> FALSE, err |-> "none"]

Spend(fault) == IF fault THEN faults < MaxFaults /\ faults' = faults + 1 ELSE UNCHANGED faults
At(p, pc) == mem[p].pc = pc
Mem(p, new) == mem' = [mem EXCEPT ![p] = new]
Goto(p, pc) == Mem(p, [mem[p] EXCEPT !.pc = pc])
Fail(p, why) == Mem(p, [mem[p] EXCEPT !.pc = "release", !.err = why])
Pend(p, new) == pending' = [pending EXCEPT ![p] = new]
Forget(p, t) == known' = [known EXCEPT ![p] = @ \ {t}]
world == <<node, backups, user, crashes, edits>>
aside == <<known, jobs, world>>

-----------------------------------------------------------------------------
(* Jobs. *)

Running(p) == \E j \in DOMAIN jobs[p] : jobs[p][j].state = "running"
Prune(s) == IF Len(s) > JobsKept THEN Tail(s) ELSE s

Start(p, db) ==
    /\ At(p, "idle") /\ ~Running(p)
    /\ jobs' = [jobs EXCEPT ![p] = Prune(Append(@, [state |-> "running", canRetry |-> FALSE, canRollback |-> FALSE]))]
    /\ Mem(p, [Idle EXCEPT !.pc = "acquire", !.db = db])
    /\ UNCHANGED <<lease, stores, pending, known, faults, world>>

Retry(p, db) == (\E j \in DOMAIN jobs[p] : jobs[p][j].state = "failed" /\ jobs[p][j].canRetry) /\ Start(p, db)

(* The end of ApplyJobService.run: publicJobError decides whether a retry is offered, and *)
(* a rollback is offered when one failed and ApplyService still holds what it would undo.   *)
FinishJob(p) ==
    /\ At(p, "end") /\ mem[p].call = "apply"
    /\ LET err == mem[p].err
           ended == [state |-> IF err = "none" THEN "completed" ELSE "failed",
                     canRetry |-> err \notin {"none", "installed"},
                     canRollback |-> err = "rollback" /\ pending[p].id # None]
       IN jobs' = [jobs EXCEPT ![p][Len(jobs[p])] = ended]
    /\ Mem(p, Idle)
    /\ UNCHANGED <<lease, stores, pending, known, faults, world>>

(* A rollback the operator confirmed, of a job that offers one. *)
StartRollback(p) ==
    /\ At(p, "idle") /\ pending[p].id # None /\ \E j \in DOMAIN jobs[p] : jobs[p][j].canRollback
    /\ Mem(p, [Idle EXCEPT !.pc = "acquire", !.call = "rollback"])
    /\ UNCHANGED <<lease, stores, pending, faults, aside>>
FinishRollback(p) ==
    /\ At(p, "end") /\ mem[p].call = "rollback"
    /\ \E j \in {i \in DOMAIN jobs[p] : jobs[p][i].canRollback} :
          jobs' = IF mem[p].err # "none" THEN jobs
                  ELSE [jobs EXCEPT ![p][j].canRollback = FALSE, ![p][j].canRetry = TRUE]
    /\ Mem(p, Idle)
    /\ UNCHANGED <<lease, stores, pending, known, faults, world>>

(* ReconcileCompleted at startup and from the status route: a pristine server is left be. *)
Reconcile(p) ==
    /\ At(p, "idle") /\ marker # None /\ (journal.id # None \/ backups)
    /\ Mem(p, [Idle EXCEPT !.pc = "acquire", !.call = "reconcile"])
    /\ UNCHANGED <<lease, stores, pending, faults, aside>>
FinishReconcile(p) ==
    /\ At(p, "end") /\ mem[p].call = "reconcile" /\ Mem(p, Idle)
    /\ UNCHANGED <<lease, stores, pending, faults, aside>>

-----------------------------------------------------------------------------
(* The lease of the whole orchestration.  It excludes the Node initializer too, whose own *)
(* lease is checked after apply.lock was published.                                         *)

Acquire(p) ==
    /\ At(p, "acquire")
    /\ IF lease \in {Free, Stale} /\ node # "running"
       THEN lease' = p /\ Goto(p, "check")
       ELSE UNCHANGED lease /\ Mem(p, [mem[p] EXCEPT !.pc = "end", !.err = "busy"])
    /\ UNCHANGED <<stores, pending, faults, aside>>

(* Removing the lease is tried three times; when that fails the process keeps it, and its *)
(* caller gets ErrPreflightFailed whatever was achieved.                                    *)
Release(p) ==
    /\ At(p, "release")
    /\ \/ lease' = Free /\ Goto(p, "end") /\ UNCHANGED faults
       \/ /\ Spend(TRUE) /\ UNCHANGED lease
          /\ Mem(p, [mem[p] EXCEPT !.pc = "end", !.err = IF @ \in {"none", "failed"} THEN "preflight" ELSE @])
    /\ UNCHANGED <<stores, pending, aside>>

(* The dependency-free initializer of the admin workspace: its journal envelope shares    *)
(* transaction.json with the server's, stays when it dies, and goes when it is run again.  *)
NodeStart ==
    /\ node \in {"gone", "left"} /\ lease = Free /\ journal.id = None /\ marker = None
    /\ node' = "running"
    /\ UNCHANGED <<lease, stores, backups, mem, pending, known, jobs, user, faults, crashes, edits>>
NodeStop ==
    /\ node = "running"
    /\ \/ node' = "ended" /\ backups' = TRUE /\ UNCHANGED crashes
       \/ node' = "left" /\ crashes < MaxCrashes /\ crashes' = crashes + 1 /\ UNCHANGED backups
    /\ UNCHANGED <<lease, stores, mem, pending, known, jobs, user, faults, edits>>

-----------------------------------------------------------------------------
(* Before anything is written. *)

(* completedTransactionMatchesMarker.  Mutant of the next: the lock step is expected to be  *)
(* counted as well.                                                                          *)
MatchesAfterLock(tx) ==
    /\ tx.phase = "applying" /\ tx.step = "lock" /\ tx.done = 7
    /\ tx.identity /\ tx.env # NoReceipt /\ tx.intent /\ tx.marker /\ marker = tx.id
CompletedMatches(tx) ==
    /\ tx.phase = "applying" /\ tx.step = "lock" /\ tx.done = 6
    /\ tx.identity /\ tx.env # NoReceipt /\ tx.intent /\ tx.marker /\ marker = tx.id

(* The lease is held.  An installed application is left as it is; a completed journal     *)
(* next to the marker is cleaned up, by a second apply and by ReconcileCompleted alike.     *)
CheckInstalled(p) ==
    /\ At(p, "check") /\ mem[p].call # "rollback" /\ marker # None
    /\ Mem(p, [mem[p] EXCEPT !.err = IF mem[p].call = "apply" THEN "installed" ELSE "none", !.tx = journal,
                  !.pc = CASE node # "left" /\ journal.id = None -> "cleanup"
                           [] node # "left" /\ CompletedMatches(journal) -> "finalize"
                           [] OTHER -> "release"])
    /\ UNCHANGED <<lease, stores, pending, faults, aside>>

OtherTarget(tx, db) == tx.id # None /\ tx.db # db

LoadJournal(p) ==
    /\ At(p, "check") /\ mem[p].call = "apply" /\ marker = None
    /\ IF journal.id # None /\ SideEffectFree(journal)
       THEN \E o \in JournalRemove(journal, journal.id, NoJournal) :
              /\ Spend(o.fault) /\ journal' = o.now
              /\ IF o.err THEN Fail(p, "busy") ELSE Goto(p, "plan")
       ELSE /\ CASE node = "left" -> Fail(p, "busy")
                 [] node # "left" /\ OtherTarget(journal, mem[p].db) -> Fail(p, "preflight")
                 [] OTHER -> Mem(p, [mem[p] EXCEPT !.pc = "plan", !.tx = journal])
            /\ UNCHANGED <<journal, faults>>
    /\ UNCHANGED <<lease, env, marker, identity, pending, aside>>

(* The plan needs a UI profile that is not "installing".  FileProfileProvider reports any  *)
(* server journal as installing.                                                            *)
ProfileReady == ~(PlanReadsJournal /\ journal.id # None)

(* What a transaction's receipts ask to be taken back, in recoverInterrupted's order.      *)
UndoEnv(tx) == CASE tx.env # NoReceipt -> <<"env">>
                 [] tx.env = NoReceipt /\ tx.intent -> <<"prepared">>
                 [] OTHER -> <<>>
RecoverList(tx) == (IF tx.marker THEN <<"marker">> ELSE <<>>) \o UndoEnv(tx)
                   \o (IF tx.identity THEN <<"recover">> ELSE <<>>)

(* The plan, the database and the redis probe; then an interrupted transaction is undone. *)
Preflight(p) ==
    /\ At(p, "plan")
    /\ \/ ~ProfileReady /\ Fail(p, "preflight") /\ UNCHANGED faults
       \/ Spend(TRUE) /\ Fail(p, "preflight")
       \/ /\ ProfileReady /\ UNCHANGED faults
          /\ IF mem[p].tx.id = None THEN Goto(p, "create")
             ELSE Mem(p, [mem[p] EXCEPT !.pc = "undo", !.then = "recover", !.todo = RecoverList(mem[p].tx)])
    /\ UNCHANGED <<lease, stores, pending, aside>>

-----------------------------------------------------------------------------
(* Forward: every effect after the journal record that names it. *)

FailWith(p, tx, todo) ==
    Mem(p, [mem[p] EXCEPT !.pc = "undo", !.then = "fail", !.tx = tx, !.todo = todo, !.bad = FALSE])
Journaled(p, tx, pc, todo) ==
    \E o \in JournalUpdate(journal, tx) :
        /\ Spend(o.fault) /\ journal' = o.now
        /\ IF o.err THEN FailWith(p, tx, todo) ELSE Mem(p, [mem[p] EXCEPT !.pc = pc, !.tx = tx])
        /\ UNCHANGED <<lease, env, marker, identity, aside>>
Advanced(tx, step) == [tx EXCEPT !.step = step, !.done = @ + 1]

(* Ids are random: one is fresh when nothing that outlives its transaction carries it.    *)
Mentioned ==
    {journal.id, env.file, marker} \cup {t \in Tx : env.backup[t] # None} \cup {identity[d].row : d \in Databases}
    \cup {pending[p].id : p \in Procs} \cup {mem[p].tx.id : p \in Procs} \cup UNION {known[p] : p \in Procs}

CreateTransaction(p) ==
    /\ At(p, "create") /\ Tx \ Mentioned # {}
    /\ LET tx == NewTransaction(CHOOSE t \in Tx : t \notin Mentioned, mem[p].db) IN
       \E o \in JournalCreate(journal, tx) :
          /\ Spend(o.fault) /\ journal' = o.now
          /\ IF o.err THEN Fail(p, IF o.fault THEN "failed" ELSE "busy")
             ELSE Mem(p, [mem[p] EXCEPT !.pc = "schema", !.tx = tx])
    /\ UNCHANGED <<lease, env, marker, identity, pending, aside>>

NoPending == [id |-> None, db |-> None, identity |-> FALSE, intent |-> FALSE, env |-> NoReceipt, marker |-> FALSE]

SchemaUp(p) ==
    /\ At(p, "schema")
    /\ \/ /\ (\E o \in SchemaMigrate : o.err /\ Spend(o.fault)) /\ FailWith(p, mem[p].tx, <<>>)
          /\ UNCHANGED <<lease, stores, pending, aside>>
       \/ /\ Journaled(p, Advanced(mem[p].tx, "identity"), "prepare_identity", <<>>)
          /\ IF mem'[p].pc = "undo" THEN UNCHANGED pending
             ELSE Pend(p, [NoPending EXCEPT !.id = mem[p].tx.id, !.db = mem[p].db])

PrepareIdentity(p) ==
    /\ At(p, "prepare_identity")
    /\ Journaled(p, [mem[p].tx EXCEPT !.identity = TRUE], "identity", <<>>)
    /\ Pend(p, [pending[p] EXCEPT !.identity = mem'[p].pc # "undo"])

(* InitializeWithReference: the database transaction, then "known" in memory, then Close. *)
InitializeIdentity(p) ==
    /\ At(p, "identity")
    /\ LET t == mem[p].tx.id
           db == mem[p].db
       IN \E o \in IdentityInsert(identity[db], t) :
            /\ Spend(o.fault) /\ identity' = [identity EXCEPT ![db] = o.now]
            /\ IF o.err THEN FailWith(p, mem[p].tx, <<"recover">>) ELSE Goto(p, "advance_environment")
            /\ \/ o.now.row = t /\ known' = [known EXCEPT ![p] = @ \cup {t}]
               \/ o.err /\ UNCHANGED known
    /\ UNCHANGED <<lease, journal, env, marker, pending, jobs, world>>

AdvanceEnvironment(p) ==
    /\ At(p, "advance_environment") /\ UNCHANGED pending
    /\ Journaled(p, Advanced(mem[p].tx, "environment"), "prepare_environment", <<"identity">>)

PrepareEnvironment(p) ==
    /\ At(p, "prepare_environment")
    /\ Journaled(p, [mem[p].tx EXCEPT !.intent = TRUE], "environment", <<"identity">>)
    /\ Pend(p, [pending[p] EXCEPT !.intent = mem'[p].pc # "undo"])

PublishEnvironment(p) ==
    /\ At(p, "environment")
    /\ \E o \in PublishWithReference(env, mem[p].tx.id) :
          /\ Spend(o.fault) /\ env' = o.now
          /\ IF o.err THEN FailWith(p, mem[p].tx, <<"prepared", "identity">>) /\ UNCHANGED pending
             ELSE /\ Mem(p, [mem[p] EXCEPT !.pc = "advance_lock", !.tx.env = o.receipt])
                  /\ Pend(p, [pending[p] EXCEPT !.env = o.receipt])
    /\ UNCHANGED <<lease, journal, marker, identity, aside>>

AdvanceLock(p) ==
    /\ At(p, "advance_lock") /\ UNCHANGED pending
    /\ Journaled(p, Advanced(mem[p].tx, "lock"), "prepare_marker", <<"env", "identity">>)

PrepareMarker(p) ==
    /\ At(p, "prepare_marker")
    /\ Journaled(p, [mem[p].tx EXCEPT !.marker = TRUE], "marker", <<"env", "identity">>)
    /\ Pend(p, [pending[p] EXCEPT !.marker = TRUE])

(* Mutant of the next: the marker is not taken back when its creation reports an error.    *)
CreateMarkerOnce(p) ==
    /\ At(p, "marker")
    /\ \E o \in MarkerCreate(marker, mem[p].tx.id) :
          /\ Spend(o.fault) /\ marker' = o.now
          /\ IF o.err THEN FailWith(p, mem[p].tx, <<"env", "identity">>) /\ UNCHANGED pending
             ELSE Goto(p, "finalize") /\ Pend(p, NoPending)
    /\ UNCHANGED <<lease, journal, env, identity, aside>>

CreateMarker(p) ==
    /\ At(p, "marker")
    /\ \E o \in MarkerCreate(marker, mem[p].tx.id) :
          /\ Spend(o.fault) /\ marker' = o.now
          /\ IF o.err THEN FailWith(p, mem[p].tx, <<"marker", "env", "identity">>) /\ UNCHANGED pending
             ELSE Goto(p, "finalize") /\ Pend(p, NoPending)
    /\ UNCHANGED <<lease, journal, env, identity, aside>>

-----------------------------------------------------------------------------
(* Completion: the backup of the old .env goes, then that of the UI, then the journal; what *)
(* fails leaves the journal for ReconcileCompleted, which stops at its first error.         *)

Reconciling(p) == mem[p].call = "reconcile" \/ mem[p].err = "installed"
FinalizeStores(p) ==
    /\ At(p, "finalize")
    /\ \E o \in Finalize(env, mem[p].tx.id, mem[p].tx.env) :
          /\ Spend(o.fault) /\ env' = o.now
          /\ Mem(p, [mem[p] EXCEPT !.pc = IF o.err /\ Reconciling(p) THEN "release" ELSE "cleanup", !.bad = o.err])
          /\ IF o.err /\ Reconciling(p) THEN UNCHANGED known ELSE Forget(p, mem[p].tx.id)
    /\ UNCHANGED <<lease, journal, marker, identity, pending, jobs, world>>
CleanupCompleted(p) ==
    /\ At(p, "cleanup")
    /\ \E o \in IF backups THEN Effect(TRUE, FALSE) ELSE {Did(FALSE)} :
          /\ Spend(o.fault) /\ backups' = o.now
          /\ Goto(p, IF o.err \/ mem[p].bad \/ mem[p].tx.id = None THEN "release" ELSE "forget")
    /\ UNCHANGED <<lease, stores, pending, known, jobs, node, user, crashes, edits>>
RemoveJournal(p) ==
    /\ At(p, "forget") /\ Goto(p, "release")
    /\ \E o \in JournalRemove(journal, mem[p].tx.id, NoJournal) : Spend(o.fault) /\ journal' = o.now
    /\ UNCHANGED <<lease, env, marker, identity, pending, aside>>

-----------------------------------------------------------------------------
(* Compensation: "todo" lists what is left to take back, "bad" remembers a failure.       *)

Doing(p, what) == At(p, "undo") /\ mem[p].todo # <<>> /\ Head(mem[p].todo) = what
Undone(p, o) == Spend(o.fault) /\ Mem(p, [mem[p] EXCEPT !.todo = Tail(@), !.bad = @ \/ o.err])

(* ApplyService.Rollback: the receipts are those of the failed apply, and the marker comes *)
(* last, after everything else was taken back.                                              *)
BeginRollback(p) ==
    /\ At(p, "check") /\ mem[p].call = "rollback"
    /\ LET q == pending[p]
           tx == [NewTransaction(q.id, q.db) EXCEPT
                     !.identity = q.identity, !.intent = q.intent, !.env = q.env, !.marker = q.marker]
       IN Mem(p, [mem[p] EXCEPT !.pc = "undo", !.then = "rollback", !.tx = tx, !.todo =
              UndoEnv(tx) \o (IF tx.identity THEN <<"identity">> ELSE <<>>)
              \o (IF tx.marker THEN <<"marker">> ELSE <<>>)])
    /\ UNCHANGED <<lease, stores, pending, faults, aside>>

UndoMarker(p) ==
    /\ Doing(p, "marker")
    /\ IF mem[p].then = "rollback" /\ mem[p].bad
       THEN Undone(p, Refused(marker)) /\ UNCHANGED marker
       ELSE \E o \in MarkerRemove(marker, mem[p].tx.id) : marker' = o.now /\ Undone(p, o)
    /\ UNCHANGED <<lease, journal, env, identity, pending, aside>>

UndoEnvironment(p) ==
    /\ Doing(p, "env")
    /\ \E o \in Rollback(env, mem[p].tx.id, mem[p].tx.env) : env' = o.now /\ Undone(p, o)
    /\ UNCHANGED <<lease, journal, marker, identity, pending, aside>>

UndoPrepared(p) ==
    /\ Doing(p, "prepared")
    /\ \E o \in RecoverPrepared(env, mem[p].tx.id) : env' = o.now /\ Undone(p, o)
    /\ UNCHANGED <<lease, journal, marker, identity, pending, aside>>

(* RecoverRollback, with the connection the request brought: another's row is no error.    *)
RecoverIdentity(p) ==
    /\ Doing(p, "recover")
    /\ LET t == mem[p].tx.id
           row == identity[mem[p].db]
       IN \E o \in IdentityDelete(row, t) :
            LET fine == ~o.err \/ (NotOwned(row, t) /\ ~o.fault) IN
            /\ identity' = [identity EXCEPT ![mem[p].db] = o.now]
            /\ Undone(p, [o EXCEPT !.err = ~fine])
            /\ IF fine THEN Forget(p, t) ELSE UNCHANGED known
    /\ UNCHANGED <<lease, journal, env, marker, pending, jobs, world>>

(* IdentityInstaller.Rollback: it has the connection of what it inserted itself, and takes *)
(* a reference it does not know for one it has rolled back already.                          *)
UndoIdentity(p) ==
    /\ Doing(p, "identity")
    /\ LET t == mem[p].tx.id
           row == identity[mem[p].tx.db]
       IN IF t \notin known[p] THEN Undone(p, Did(row)) /\ UNCHANGED <<identity, known>>
          ELSE \E o \in IdentityDelete(row, t) :
                 /\ identity' = [identity EXCEPT ![mem[p].tx.db] = o.now]
                 /\ Undone(p, o)
                 /\ IF ~o.err \/ (NotOwned(row, t) /\ ~o.fault) THEN Forget(p, t) ELSE UNCHANGED known
    /\ UNCHANGED <<lease, journal, env, marker, pending, jobs, world>>

AllUndone(p, then) == At(p, "undo") /\ mem[p].todo = <<>> /\ mem[p].then = then
Pended(tx) == [tx EXCEPT !.phase = "compensation_pending", !.step = "failed"]

(* The end of recoverInterrupted: the journal goes and the apply goes on, or it is kept.   *)
EndRecovery(p) ==
    /\ AllUndone(p, "recover")
    /\ \E o \in IF mem[p].bad THEN JournalUpdate(journal, Pended(mem[p].tx))
                ELSE JournalRemove(journal, mem[p].tx.id, NoJournal) :
          /\ Spend(o.fault) /\ journal' = o.now
          /\ CASE mem[p].bad -> Fail(p, "rollback")
               [] ~mem[p].bad /\ o.err -> Fail(p, "busy")
               [] OTHER -> Mem(p, [mem[p] EXCEPT !.pc = "create", !.tx = NoJournal])
    /\ UNCHANGED <<lease, env, marker, identity, pending, aside>>

(* persistFailure, whose own error is dropped.  Mutant of the next: the receipts are       *)
(* cleared whether or not the effects were taken back.                                      *)
PersistCleared(p) ==
    /\ AllUndone(p, "fail")
    /\ \E o \in JournalUpdate(journal, Cleared(mem[p].tx)) : Spend(o.fault) /\ journal' = o.now
    /\ Fail(p, IF mem[p].bad THEN "rollback" ELSE "failed")
    /\ IF mem[p].bad \/ pending[p].id # mem[p].tx.id THEN UNCHANGED pending ELSE Pend(p, NoPending)
    /\ UNCHANGED <<lease, env, marker, identity, aside>>

PersistFailure(p) ==
    /\ AllUndone(p, "fail")
    /\ LET tx == IF mem[p].bad THEN Pended(mem[p].tx) ELSE Cleared(mem[p].tx) IN
       \E o \in JournalUpdate(journal, tx) : Spend(o.fault) /\ journal' = o.now
    /\ Fail(p, IF mem[p].bad THEN "rollback" ELSE "failed")
    /\ IF mem[p].bad \/ pending[p].id # mem[p].tx.id THEN UNCHANGED pending ELSE Pend(p, NoPending)
    /\ UNCHANGED <<lease, env, marker, identity, aside>>

EndRollback(p) ==
    /\ AllUndone(p, "rollback")
    /\ IF mem[p].bad THEN Fail(p, "rollback") /\ UNCHANGED <<journal, pending, faults>>
       ELSE \E o \in JournalUpdate(journal, Cleared(mem[p].tx)) :
              /\ Spend(o.fault) /\ journal' = o.now
              /\ IF o.err THEN Fail(p, "rollback") /\ UNCHANGED pending
                 ELSE Goto(p, "release") /\ Pend(p, NoPending)
    /\ UNCHANGED <<lease, env, marker, identity, aside>>

-----------------------------------------------------------------------------
(* What happens to the installer: a process dies (and is started again), another installer *)
(* commits its identity in the database, the user edits .env.                               *)

Crash(p) ==
    /\ crashes < MaxCrashes /\ crashes' = crashes + 1
    /\ (mem[p].pc # "idle" \/ pending[p].id # None \/ lease = p)
    /\ lease' = IF lease = p THEN Stale ELSE lease
    /\ Mem(p, Idle) /\ Pend(p, NoPending)
    /\ known' = [known EXCEPT ![p] = {}] /\ jobs' = [jobs EXCEPT ![p] = <<>>]
    /\ UNCHANGED <<stores, node, backups, user, faults, edits>>
ForeignInstall(db) ==
    /\ identity[db].row = None /\ identity' = [identity EXCEPT ![db].row = Foreign]
    /\ edits < MaxEdits /\ edits' = edits + 1
    /\ UNCHANGED <<lease, journal, env, marker, mem, pending, known, jobs, node, backups, user, faults, crashes>>
UserEdits(contents) ==
    /\ edits < MaxEdits /\ edits' = edits + 1
    /\ contents # env.file /\ env' = Publish(env, contents) /\ user' = contents
    /\ UNCHANGED <<lease, journal, marker, identity, mem, pending, known, jobs, node, backups, faults, crashes>>

Init ==
    /\ lease = Free /\ node = "gone" /\ journal = NoJournal /\ marker = None
    /\ user \in {None} \cup Contents
    /\ env = [file |-> user, backup |-> [t \in Tx |-> None]]
    /\ identity \in [Databases -> {[row |-> None, nav |-> nav] : nav \in Seeds}] /\ backups = FALSE
    /\ mem = [p \in Procs |-> Idle] /\ pending = [p \in Procs |-> NoPending]
    /\ known = [p \in Procs |-> {}] /\ jobs = [p \in Procs |-> <<>>]
    /\ faults = 0 /\ crashes = 0 /\ edits = 0

Step(p) ==
    \/ FinishJob(p) \/ FinishRollback(p) \/ FinishReconcile(p) \/ Acquire(p) \/ Release(p)
    \/ CheckInstalled(p) \/ LoadJournal(p) \/ Preflight(p) \/ CreateTransaction(p) \/ SchemaUp(p)
    \/ PrepareIdentity(p) \/ InitializeIdentity(p) \/ AdvanceEnvironment(p) \/ PrepareEnvironment(p)
    \/ PublishEnvironment(p) \/ AdvanceLock(p) \/ PrepareMarker(p) \/ CreateMarker(p)
    \/ FinalizeStores(p) \/ CleanupCompleted(p) \/ RemoveJournal(p) \/ BeginRollback(p) \/ UndoMarker(p) \/ UndoEnvironment(p)
    \/ UndoPrepared(p) \/ RecoverIdentity(p) \/ UndoIdentity(p) \/ EndRecovery(p) \/ PersistFailure(p)
    \/ EndRollback(p)
Asked(p) == StartRollback(p) \/ Reconcile(p) \/ \E db \in Databases : Start(p, db) \/ Retry(p, db)

Next ==
    \/ \E p \in Procs : Step(p) \/ Asked(p) \/ Crash(p)
    \/ NodeStart \/ NodeStop
    \/ (\E db \in Databases : ForeignInstall(db)) \/ \E c \in Contents : UserEdits(c)

(* A process goes on with what it is doing, every request reads the status and so makes it   *)
(* reconcile, an operator who sees no installation asks for one, and the Node initializer ends, *)
(* and is run again, in the end while nobody applies, when it died.                             *)
Fairness ==
    /\ \A p \in Procs : WF_vars(Step(p)) /\ WF_vars(Reconcile(p)) /\ \A db \in Databases : WF_vars(Start(p, db))
    /\ WF_vars(NodeStop) /\ SF_vars(node = "left" /\ NodeStart)

Spec == Init /\ [][Next]_vars /\ Fairness
-----------------------------------------------------------------------------
(* InstallationGate lets a business request through when Status says installed; a journal   *)
(* next to the marker still says installing.                                                *)
Open == marker # None /\ journal.id = None

Receipts == {NoReceipt, None} \cup Contents \cup Tx
Transactions ==
    [id : Tx \cup {None}, db : Databases \cup {None}, phase : {"applying", "retryable", "compensation_pending"},
     step : {"schema", "identity", "environment", "lock", "failed"}, done : 3 .. 6, identity : BOOLEAN,
     intent : BOOLEAN, env : Receipts, marker : BOOLEAN]

TypeOK ==
    /\ lease \in Procs \cup {Free, Stale} /\ node \in {"gone", "running", "ended", "left"}
    /\ journal \in Transactions /\ marker \in Tx \cup {None}
    /\ env \in [file : {None} \cup Contents \cup Tx, backup : [Tx -> {None} \cup Contents \cup Tx]]
    /\ identity \in [Databases -> [row : {None, Foreign} \cup Tx, nav : {None} \cup Seeds \cup Tx]] /\ backups \in BOOLEAN
    /\ \A p \in Procs :
         /\ mem[p].tx \in Transactions /\ known[p] \subseteq Tx /\ Len(jobs[p]) <= JobsKept
         /\ pending[p] \in [id : Tx \cup {None}, db : Databases \cup {None}, identity : BOOLEAN, intent : BOOLEAN,
                            env : Receipts, marker : BOOLEAN]
    /\ user \in {None} \cup Contents /\ faults <= MaxFaults /\ crashes <= MaxCrashes /\ edits <= MaxEdits

(* Whatever a transaction has left in the database or on disk without becoming the          *)
(* installation is named in the journal, with the target it was done to: whoever installs    *)
(* next finds it.  (apply.go writes the intent before, and clears it only after, the effect.) *)
(* For the administrator it takes two failing calls to break this: when an insertion that     *)
(* reported an error was committed, and taking it back failed too, a rollback that the operator *)
(* confirms takes it for one that was undone (identity_installer.go:134) and clears the journal. *)
EffectsJournaled ==
    \A t \in Tx : marker # t =>
        /\ env.file = t \/ env.backup[t] # None => journal.id = t /\ journal.intent
        /\ faults < 2 => \A d \in Databases :
              t \in {identity[d].row, identity[d].nav} => journal.id = t /\ journal.identity /\ journal.db = d

(* A marker is never there without the administrator and the .env of its transaction, and   *)
(* a job that completed has its marker ("can never expose installed before prior steps").     *)
(* Here too it takes two failing calls: a marker that is there although its creation reported  *)
(* an error, and that cannot be taken back, while the rest is.                                   *)
InstalledIsComplete ==
    /\ marker # None /\ faults < 2 => (\E d \in Databases : identity[d].row = marker) /\ (env.file = marker \/ edits > 0)
    /\ (\E p \in Procs : \E j \in DOMAIN jobs[p] : jobs[p][j].state = "completed") => marker # None

(* What the user last put in .env is still there, or in a backup, until the installation    *)
(* has replaced it for good; an edit made meanwhile is not overwritten by a compensation.     *)
UserContentsKept ==
    marker = None => user = None \/ env.file = user \/ \E t \in Tx : env.backup[t] = user

(* Once faults and crashes are over, an operator who keeps asking gets the installation, the *)
(* gate opens and no backup is left, unless a process that lives could not release the lease.  *)
Installed == (Open /\ ~backups) \/ \E p \in Procs : lease = p /\ mem[p].pc = "idle"
InstalledInTheEnd == <>Installed

(* The same of the program as it is wired, whose plan refuses as long as there is a journal *)
(* (plan.go:86), while at most one call fails: every attempt ends, and the installation is    *)
(* reached unless a journal that is not known to be without effects stays for ever.  Only two *)
(* things leave one: the death of a process before the marker is there, and a journal whose   *)
(* creation reported an error although the record is there.                                     *)
Interrupted ==
    /\ marker = None /\ journal.id # None /\ ~SideEffectFree(journal)
    /\ crashes > 0 \/ (faults = 1 /\ journal = NewTransaction(journal.id, journal.db))
InstalledOrInterrupted ==
    /\ <>(Installed \/ faults > 1) \/ <>[]Interrupted
    /\ \A p \in Procs : []<>At(p, "idle")
=============================================================================
