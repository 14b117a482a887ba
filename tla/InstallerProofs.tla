--------------------------- MODULE InstallerProofs ---------------------------
(***************************************************************************)
(* What the installation keeps for any number of processes, transactions,  *)
(* databases, failing calls, crashes and edits: what a transaction has     *)
(* left on disk or in a database is named in the journal until its marker  *)
(* is there, what the user wrote into .env is never lost, and a marker     *)
(* means a whole installation.                                             *)
(***************************************************************************)
EXTENDS Installer, SequenceTheorems, TLAPS

-----------------------------------------------------------------------------
(* The parts of the invariant. *)

Words == {"marker", "env", "prepared", "recover", "identity"}
BeforeIdentity == {"schema", "prepare_identity", "identity"}
BeforeEnv == BeforeIdentity \cup {"advance_environment", "prepare_environment", "environment"}
WithEnv == {"advance_lock", "prepare_marker", "marker"}
WithIdentity == {"advance_environment", "prepare_environment", "environment"} \cup WithEnv
Forward == BeforeEnv \cup WithEnv
Outside == {"idle", "acquire", "end"}
Inside == {"check", "plan", "create", "undo", "finalize", "cleanup", "forget", "release"} \cup Forward

Memory ==
    [pc : Outside \cup Inside, call : {"apply", "rollback", "reconcile"}, db : Databases \cup {None},
     tx : Transactions, todo : Seq(Words), then : {"fail", "recover", "rollback"}, bad : BOOLEAN,
     err : {"none", "busy", "preflight", "installed", "failed", "rollback"}]
PendingRecord ==
    [id : Tx \cup {None}, db : Databases \cup {None}, identity : BOOLEAN, intent : BOOLEAN, env : Receipts,
     marker : BOOLEAN]
Job == [state : {"running", "failed", "completed"}, canRetry : BOOLEAN, canRollback : BOOLEAN]

Types ==
    /\ TypeOK /\ {faults, crashes, edits} \subseteq Nat
    /\ mem \in [Procs -> Memory] /\ pending \in [Procs -> PendingRecord]
    /\ known \in [Procs -> SUBSET Tx] /\ jobs \in [Procs -> Seq(Job)]

(* What a transaction has done to the databases i and to the files e. *)
Inserted(i, t, d) == t \in {i[d].row, i[d].nav}
Nowhere(i, t) == \A d \in Databases : ~Inserted(i, t, d)
Written(e, t) == e.file = t \/ e.backup[t] # None

(* Every record x of a transaction, be it the journal, what a process is about or what it   *)
(* holds to roll back, tells what the transaction may have done, while the databases are i,   *)
(* the files e, the marker k, the user's contents u, and f calls have failed.                  *)
ReceiptOf(t, previous, e, u) ==
    previous # NoReceipt =>
        /\ previous \in {None} \cup Contents /\ e.backup[t] \in {None, previous}
        /\ e.file = t => previous = u
Tells(x, e, i, k, u, f) ==
    x.id # None =>
        /\ x.db \in Databases /\ \A d \in Databases : Inserted(i, x.id, d) => d = x.db
        /\ ~x.identity => f >= 2 \/ Nowhere(i, x.id)
        /\ ~x.intent => ~Written(e, x.id)
        /\ ~x.marker => k # x.id
        /\ x.marker => x.env # NoReceipt
        /\ ReceiptOf(x.id, x.env, e, u)
Told(x) == Tells(x, env, identity, marker, user, faults)
Records ==
    /\ Told(journal) /\ (journal.id = None => journal = NoJournal)
    /\ \A p \in Procs : Told(pending[p]) /\ Told(mem[p].tx)

(* The journal names the transaction that has done something and is not the installation. *)
Named ==
    \A t \in Tx : marker # t =>
        /\ Written(env, t) => journal.id = t
        /\ faults < 2 /\ ~Nowhere(identity, t) => journal.id = t

(* What .env and its backups hold is what the user put there, or a transaction's file; the  *)
(* seeded menus a transaction inserted stand beside its row.                                  *)
EnvGood(e, u, k) ==
    /\ e \in [file : {None} \cup Contents \cup Tx, backup : [Tx -> {None} \cup Contents]]
    /\ e.file \in Contents => e.file = u
    /\ e.file = None => u = None
    /\ \A t \in Tx :
         /\ e.backup[t] # None => u # None
         /\ e.file = t /\ e.backup[t] # None => e.backup[t] = u
         /\ e.file = t /\ e.backup[t] = None => u = None \/ k = t
StoresInv ==
    /\ EnvGood(env, user, marker)
    /\ \A d \in Databases : identity[d].nav \in Tx => identity[d].row = identity[d].nav

LeaseKept == \A p \in Procs : mem[p].pc \in Inside => lease = p

(* Where a process is tells what its transaction has come to. *)
Stage(pc, tx) ==
    /\ tx.phase = "applying"
    /\ tx.identity <=> pc \notin {"schema", "prepare_identity"}
    /\ tx.intent <=> pc \in {"environment"} \cup WithEnv
    /\ tx.env # NoReceipt <=> pc \in WithEnv
    /\ tx.marker <=> pc = "marker"
    /\ tx.done = IF pc = "schema" THEN 3
                 ELSE IF pc \in {"prepare_identity", "identity", "advance_environment"} THEN 4
                 ELSE IF pc \in {"prepare_environment", "environment", "advance_lock"} THEN 5 ELSE 6
OfTx(tx) == [id |-> tx.id, db |-> tx.db, identity |-> tx.identity, intent |-> tx.intent, env |-> tx.env,
             marker |-> tx.marker]

Applying(p) ==
    LET m == mem[p]
        t == m.tx.id
    IN m.pc \in Forward =>
        /\ m.call = "apply" /\ m.err = "none" /\ marker = None
        /\ t # None /\ m.tx.db = m.db /\ m.db # None /\ Stage(m.pc, m.tx)
        /\ journal = IF m.pc = "advance_lock" THEN [m.tx EXCEPT !.env = NoReceipt] ELSE m.tx
        /\ m.pc # "schema" => pending[p] = OfTx(m.tx)
        /\ m.pc \in BeforeIdentity => Nowhere(identity, t)
        /\ m.pc \in BeforeEnv => ~Written(env, t)
        /\ m.pc \in WithIdentity => identity[m.db].row = t /\ t \in known[p]
        /\ m.pc \in WithEnv => env.file = t \/ edits > 0
        /\ \A q \in Procs \ {p} : pending[q].id # t /\ mem[q].tx.id # t /\ t \notin known[q]

Preparing(p) ==
    LET m == mem[p] IN
    /\ m.pc \in {"acquire", "check"} /\ m.call = "rollback" => pending[p].id # None
    /\ m.pc \in {"acquire", "check"} /\ m.call = "apply" => m.tx = NoJournal /\ m.db # None /\ m.err = "none"
    /\ m.pc \in {"acquire", "check"} /\ m.call = "reconcile" => m.err = "none"
    /\ m.pc = "plan" => /\ m.call = "apply" /\ m.err = "none" /\ marker = None /\ m.tx = journal /\ m.db # None
                        /\ m.tx.id # None => m.tx.db = m.db
    /\ m.pc = "create" => m.call = "apply" /\ m.err = "none" /\ marker = None /\ journal.id = None /\ m.db # None

(* "rest" is what is still to be taken back. *)
Undoing(p) ==
    LET m == mem[p]
        t == m.tx.id
        rest == ToSet(m.todo)
    IN m.pc = "undo" =>
        /\ t # None
        /\ rest \cap {"env", "prepared"} = {} /\ ~m.bad => ~Written(env, t)
        /\ rest \cap {"identity", "recover"} = {} /\ ~m.bad => faults >= 2 \/ Nowhere(identity, t)
        /\ "marker" \notin rest /\ ~m.bad => marker # t
        /\ "env" \in rest => m.tx.env # NoReceipt
        /\ "prepared" \in rest => marker # t
        /\ "identity" \in rest => t \in known[p] \/ faults >= 2 \/ Nowhere(identity, t)
        /\ "recover" \in rest => m.then # "rollback"
        /\ m.then = "fail" =>
             /\ m.call = "apply" /\ journal.id = t /\ m.tx.db = m.db /\ marker \in {None, t} /\ m.err = "none"
             /\ "marker" \in rest =>
                  /\ m.todo = <<"marker", "env", "identity">> /\ pending[p].id = t /\ faults >= 1
                  /\ env.file = t /\ env.backup[t] = None => user = None
             /\ "marker" \notin rest => marker = None \/ faults >= 2
        /\ m.then = "recover" => m.call = "apply" /\ journal = m.tx /\ m.tx.db = m.db /\ marker = None /\ m.err = "none"
        /\ m.then = "rollback" =>
             /\ m.call = "rollback" /\ OfTx(m.tx) = pending[p] /\ m.tx.phase = "applying"
             /\ \A i \in DOMAIN m.todo : m.todo[i] = "marker" => i = Len(m.todo)

Ending(p) ==
    LET m == mem[p] IN
    /\ m.pc \in {"finalize", "forget"} => m.tx.id # None
    /\ m.pc \in {"finalize", "cleanup", "forget"} /\ m.tx.id # None => marker = m.tx.id
    /\ m.pc \in {"finalize", "cleanup", "forget"} => m.call # "rollback"

(* What a process would roll back: it knows the administrator it may have inserted, and      *)
(* it has no marker to take away, unless two calls have failed or it is just undoing.          *)
UndoingFailed(p, what) ==
    mem[p].pc = "undo" /\ mem[p].then = "fail" /\ mem[p].tx.id = pending[p].id /\ what \in ToSet(mem[p].todo)
    /\ faults >= 1
Holds(p) ==
    pending[p].id # None =>
        /\ \/ faults >= 2 \/ Nowhere(identity, pending[p].id) \/ pending[p].id \in known[p] \/ UndoingFailed(p, "recover")
        /\ marker = pending[p].id => faults >= 2 \/ UndoingFailed(p, "marker")

Whole ==
    marker # None /\ faults < 2 => (\E d \in Databases : identity[d].row = marker) /\ (env.file = marker \/ edits > 0)

(* A job that completed, or is about to, has its marker, which nobody would take away. *)
Achieved(p) ==
    \/ \E j \in DOMAIN jobs[p] : jobs[p][j].state = "completed"
    \/ /\ mem[p].call = "apply" /\ mem[p].err = "none"
       /\ mem[p].pc \in {"finalize", "cleanup", "forget", "release", "end"}
Committed == (\E p \in Procs : Achieved(p)) => marker # None /\ \A p \in Procs : pending[p].id # marker

InstallInv ==
    /\ Types /\ Records /\ Named /\ StoresInv /\ LeaseKept /\ Whole /\ Committed
    /\ \A p \in Procs : Applying(p) /\ Preparing(p) /\ Undoing(p) /\ Ending(p) /\ Holds(p)
-----------------------------------------------------------------------------
(* The stores: what an outcome leaves of .env. *)

Outcome(o) == o.err \in BOOLEAN /\ o.fault \in BOOLEAN /\ (o.fault => o.err)
Fewer(e, e2) == \A s \in Tx : (e2.file = s => e.file = s) /\ e2.backup[s] \in {None, e.backup[s]}
OfOthers(e, e2, t) == \A s \in Tx \ {t} : e.file = s => e2.file = s
(* e2 is e with some of what t wrote taken back. *)
TakenBack(e, e2, t) == Fewer(e, e2) /\ OfOthers(e, e2, t)

LEMMA Outcomes ==
    ASSUME NEW x
    PROVE  /\ Outcome(Did(x)) /\ Did(x).now = x /\ ~Did(x).err /\ ~Did(x).fault
           /\ Outcome(Broke(x)) /\ Broke(x).now = x /\ Broke(x).err /\ Broke(x).fault
           /\ Outcome(Refused(x)) /\ Refused(x).now = x /\ Refused(x).err /\ ~Refused(x).fault
<1>1. Outcome(Did(x)) /\ Did(x).now = x /\ ~Did(x).err /\ ~Did(x).fault
  BY DEF Did, Outcome
<1>2. Outcome(Broke(x)) /\ Broke(x).now = x /\ Broke(x).err /\ Broke(x).fault
  BY DEF Broke, Outcome
<1>3. Outcome(Refused(x)) /\ Refused(x).now = x /\ Refused(x).err /\ ~Refused(x).fault
  BY DEF Refused, Outcome
<1> QED BY <1>1, <1>2, <1>3

LEMMA BackToBackup ==
    ASSUME InstallerAssumption, NEW u \in {None} \cup Contents, NEW k, NEW e, EnvGood(e, u, k), NEW t \in Tx,
           e.backup[t] # None, e.file \in {None, t, e.backup[t]}
    PROVE  LET e2 == Publish(e, e.backup[t]) IN
           EnvGood(e2, u, k) /\ TakenBack(e, e2, t) /\ e2.backup = e.backup /\ e2.file = e.backup[t] /\ e2.file \notin Tx
<1> DEFINE e2 == Publish(e, e.backup[t])
<1>1. e.backup[t] \in Contents /\ e.backup[t] = u
  BY DEF EnvGood, InstallerAssumption
<1>2. e2 = [file |-> u, backup |-> e.backup]
  BY <1>1 DEF Publish, EnvGood
<1> HIDE DEF e2
<1>3. EnvGood(e2, u, k)
  BY <1>1, <1>2 DEF EnvGood, InstallerAssumption
<1>4. TakenBack(e, e2, t)
  BY <1>1, <1>2 DEF EnvGood, TakenBack, Fewer, OfOthers, InstallerAssumption
<1> QED BY <1>1, <1>2, <1>3, <1>4 DEF e2, InstallerAssumption

LEMMA BackupDropped ==
    ASSUME InstallerAssumption, NEW u \in {None} \cup Contents, NEW k, NEW e, EnvGood(e, u, k), NEW t \in Tx,
           e.file # t \/ k = t
    PROVE  LET e2 == DropBackup(e, t) IN
           /\ EnvGood(e2, u, k) /\ TakenBack(e, e2, t) /\ e2.file = e.file /\ e2.backup[t] = None
<1> DEFINE e2 == DropBackup(e, t)
<1>1. e2 = [file |-> e.file, backup |-> [e.backup EXCEPT ![t] = None]]
  BY DEF DropBackup, EnvGood
<1> HIDE DEF e2
<1>2. e2.file = e.file /\ \A s \in Tx : e2.backup[s] = IF s = t THEN None ELSE e.backup[s]
  BY <1>1 DEF EnvGood
<1>3. EnvGood(e2, u, k)
  <2>1. e2 \in [file : {None} \cup Contents \cup Tx, backup : [Tx -> {None} \cup Contents]]
    BY <1>1 DEF EnvGood
  <2> QED BY <2>1, <1>2 DEF EnvGood
<1>4. TakenBack(e, e2, t)
  BY <1>2 DEF TakenBack, Fewer, OfOthers
<1> QED BY <1>2, <1>3, <1>4 DEF e2

LEMMA FileRemoved ==
    ASSUME InstallerAssumption, NEW k, NEW e, EnvGood(e, None, k), NEW t \in Tx, e.file = t
    PROVE  LET e2 == Publish(e, None) IN
           /\ EnvGood(e2, None, k) /\ TakenBack(e, e2, t) /\ e2.file = None /\ e2.backup = e.backup
<1> DEFINE e2 == Publish(e, None)
<1>1. e2 = [file |-> None, backup |-> e.backup]
  BY DEF Publish, EnvGood
<1> HIDE DEF e2
<1>2. EnvGood(e2, None, k)
  BY <1>1 DEF EnvGood, InstallerAssumption
<1>3. TakenBack(e, e2, t)
  BY <1>1 DEF EnvGood, TakenBack, Fewer, OfOthers, InstallerAssumption
<1> QED BY <1>1, <1>2, <1>3 DEF e2

LEMMA Untouched == ASSUME NEW e, NEW t PROVE TakenBack(e, e, t)
  BY DEF TakenBack, Fewer, OfOthers

LEMMA ThenTaken ==
    ASSUME NEW e, NEW e2, NEW e3, NEW t \in Tx, TakenBack(e, e2, t), TakenBack(e2, e3, t) PROVE TakenBack(e, e3, t)
  BY DEF TakenBack, Fewer, OfOthers

(* Putting the backup back, whichever part of it was done. *)
LEMMA Restored ==
    ASSUME InstallerAssumption, NEW u \in {None} \cup Contents, NEW k, NEW e, EnvGood(e, u, k), NEW t \in Tx,
           e.backup[t] # None, e.file \in {None, t, e.backup[t]}, NEW o \in Restoring(e, t)
    PROVE  EnvGood(o.now, u, k) /\ TakenBack(e, o.now, t) /\ Outcome(o) /\ (~o.err => ~Written(o.now, t))
<1> DEFINE e2 == Publish(e, e.backup[t])
           e3 == DropBackup(e2, t)
<1>1. EnvGood(e2, u, k) /\ TakenBack(e, e2, t) /\ e2.file \notin Tx
  BY BackToBackup
<1>2. EnvGood(e3, u, k) /\ TakenBack(e2, e3, t) /\ e3.file = e2.file /\ e3.backup[t] = None
  <2> HIDE DEF e2
  <2> QED BY <1>1, BackupDropped
<1>3. TakenBack(e, e3, t)
  BY <1>1, <1>2, ThenTaken
<1>4. o \in {Did(e3), Broke(e), Broke(e3), Broke(e2)}
  BY DEF Restoring, Effect, Restore
<1>5. ~Written(e3, t)
  BY <1>1, <1>2 DEF Written
<1> HIDE DEF e2, e3
<1> QED BY <1>1, <1>2, <1>3, <1>4, <1>5, Untouched, Outcomes

LEMMA RollbackOutcome ==
    ASSUME InstallerAssumption, NEW u \in {None} \cup Contents, NEW k, NEW e, EnvGood(e, u, k), NEW t \in Tx,
           NEW r, r # NoReceipt, ReceiptOf(t, r, e, u), NEW o \in Rollback(e, t, r)
    PROVE  EnvGood(o.now, u, k) /\ TakenBack(e, o.now, t) /\ Outcome(o) /\ (~o.err => ~Written(o.now, t))
<1>1. r \in {None} \cup Contents /\ e.backup[t] \in {None, r} /\ (e.file = t => r = u) /\ r \notin Tx
  BY DEF ReceiptOf, InstallerAssumption
<1>2. CASE o \in {Did(e), Broke(e), Refused(e)}
  <2>1. ~o.err => ~Written(e, t)
    <3> SUFFICES ASSUME o = Did(e) PROVE ~Written(e, t)
      BY <1>2 DEF Did, Broke, Refused
    <3>1. \/ r = None /\ e.file = None
          \/ r # None /\ e.backup[t] = None /\ e.file = r
          \/ e.backup[t] # None /\ e.file \in {None, t, e.backup[t]} /\ o \in Restoring(e, t)
          \/ r = None /\ e.file = t /\ o \in Effect(e, Publish(e, None))
      BY <1>1 DEF Rollback, Did, Broke, Refused, EnvGood, InstallerAssumption
    <3>2. CASE r = None /\ e.file = None
      BY <3>2, <1>1 DEF Written, InstallerAssumption
    <3>3. CASE r # None /\ e.backup[t] = None /\ e.file = r
      BY <3>3, <1>1 DEF Written
    <3>4. CASE e.backup[t] # None /\ e.file \in {None, t, e.backup[t]} /\ o \in Restoring(e, t)
      BY <3>4, Restored DEF Did
    <3>5. CASE r = None /\ e.file = t /\ o \in Effect(e, Publish(e, None))
      <4>1. e = Publish(e, None)
        BY <3>5 DEF Effect, Did, Broke
      <4>2. e.file = None
        BY <4>1 DEF Publish, EnvGood
      <4> QED BY <3>5, <4>2 DEF InstallerAssumption
    <3> QED BY <3>1, <3>2, <3>3, <3>4, <3>5
  <2> QED BY <1>2, <2>1, Untouched, Outcomes
<1>3. CASE o \notin {Did(e), Broke(e), Refused(e)}
  <2>1. \/ e.backup[t] # None /\ e.file \in {None, t, e.backup[t]} /\ o \in Restoring(e, t)
        \/ r = None /\ e.file = t /\ o \in Effect(e, Publish(e, None))
    BY <1>1, <1>3 DEF Rollback, EnvGood, InstallerAssumption
  <2>2. CASE e.backup[t] # None /\ e.file \in {None, t, e.backup[t]} /\ o \in Restoring(e, t)
    BY <2>2, Restored
  <2>3. CASE r = None /\ e.file = t /\ o \in Effect(e, Publish(e, None))
    <3>1. o \in {Did(Publish(e, None)), Broke(Publish(e, None))}
      BY <2>3, <1>3 DEF Effect
    <3>2. u = None /\ e.backup[t] = None
      BY <2>3, <1>1
    <3>3. EnvGood(Publish(e, None), u, k) /\ TakenBack(e, Publish(e, None), t) /\ ~Written(Publish(e, None), t)
      BY <2>3, <3>2, FileRemoved DEF Written, InstallerAssumption
    <3> QED BY <3>1, <3>3, Outcomes
  <2> QED BY <2>1, <2>2, <2>3
<1> QED BY <1>2, <1>3

LEMMA PreparedOutcome ==
    ASSUME InstallerAssumption, NEW u \in {None} \cup Contents, NEW k, NEW e, EnvGood(e, u, k), NEW t \in Tx,
           k # t, NEW o \in RecoverPrepared(e, t)
    PROVE  EnvGood(o.now, u, k) /\ TakenBack(e, o.now, t) /\ Outcome(o) /\ (~o.err => ~Written(o.now, t))
<1>1. e.backup[t] \in {None} \cup Contents /\ e.file \in {None} \cup Contents \cup Tx /\ Contents \cap Tx = {} /\ None \notin Tx
  BY DEF EnvGood, InstallerAssumption
<1>2. CASE e.backup[t] # None /\ e.file \in {None, t}
  <2>1. o \in Restoring(e, t)
    BY <1>2 DEF RecoverPrepared
  <2> QED BY <1>2, <2>1, Restored
<1>3. CASE e.backup[t] # None /\ e.file = e.backup[t]
  <2>1. o \in Effect(e, DropBackup(e, t))
    BY <1>1, <1>3 DEF RecoverPrepared
  <2>2. LET e2 == DropBackup(e, t) IN EnvGood(e2, u, k) /\ TakenBack(e, e2, t) /\ ~Written(e2, t)
    BY <1>1, <1>3, BackupDropped DEF Written
  <2> QED BY <2>1, <2>2, Untouched, Outcomes DEF Effect
<1>4. CASE e.backup[t] # None /\ e.file \notin {None, t, e.backup[t]}
  <2>1. o = Refused(e)
    BY <1>1, <1>4 DEF RecoverPrepared
  <2> QED BY <2>1, Untouched DEF Outcome, Refused
<1>5. CASE e.backup[t] = None /\ e.file = t
  <2>1. o \in Effect(e, Publish(e, None))
    BY <1>1, <1>5 DEF RecoverPrepared
  <2>2. u = None
    BY <1>5 DEF EnvGood
  <2>3. LET e2 == Publish(e, None) IN EnvGood(e2, u, k) /\ TakenBack(e, e2, t) /\ ~Written(e2, t)
    BY <1>1, <1>5, <2>2, FileRemoved DEF Written
  <2> QED BY <2>1, <2>3, Untouched, Outcomes DEF Effect
<1>6. CASE e.backup[t] = None /\ e.file # t
  <2>1. o \in {Did(e), Broke(e)}
    BY <1>1, <1>6 DEF RecoverPrepared
  <2> QED BY <2>1, <1>6, Untouched, Outcomes DEF Written
<1> QED BY <1>2, <1>3, <1>4, <1>5, <1>6

LEMMA FinalizeOutcome ==
    ASSUME InstallerAssumption, NEW u \in {None} \cup Contents, NEW e, NEW t \in Tx, EnvGood(e, u, t),
           NEW r, NEW o \in Finalize(e, t, r)
    PROVE  EnvGood(o.now, u, t) /\ TakenBack(e, o.now, t) /\ Outcome(o) /\ o.now.file = e.file
<1>1. LET e2 == DropBackup(e, t) IN EnvGood(e2, u, t) /\ TakenBack(e, e2, t) /\ e2.file = e.file
  BY BackupDropped
<1>2. o \in {Did(e), Broke(e), Refused(e), Did(DropBackup(e, t)), Broke(DropBackup(e, t))}
  BY DEF Finalize, Effect
<1> QED BY <1>1, <1>2, Untouched, Outcomes

(* The publication: the transaction's file is there, beside a backup of what was there. *)
LEMMA PublishOutcome ==
    ASSUME InstallerAssumption, NEW u \in {None} \cup Contents, NEW k, NEW e, EnvGood(e, u, k), NEW t \in Tx,
           ~Written(e, t), e.file \notin Tx, NEW o \in PublishWithReference(e, t)
    PROVE  /\ EnvGood(o.now, u, k) /\ Outcome(o) /\ (o.err => o.fault)
           /\ \A s \in Tx \ {t} : (o.now.file = s => e.file = s) /\ o.now.backup[s] = e.backup[s]
           /\ o.receipt # NoReceipt /\ ReceiptOf(t, o.receipt, o.now, u)
           /\ ~o.err => o.now.file = t
<1> DEFINE saved == IF e.file = None THEN e ELSE [e EXCEPT !.backup[t] = e.file]
           done == Publish(saved, t)
<1>1. e.file \in {None} \cup Contents /\ e.file = u /\ e.backup[t] = None /\ None \notin Tx /\ Contents \cap Tx = {}
      /\ None \notin Contents /\ NoReceipt \notin {None} \cup Contents
  BY DEF EnvGood, Written, InstallerAssumption, NoReceipt
<1>2. saved = [file |-> e.file, backup |-> [e.backup EXCEPT ![t] = e.file]]
  <2>1. CASE e.file = None
    <3>1. [e.backup EXCEPT ![t] = None] = e.backup
      BY <1>1 DEF EnvGood
    <3> QED BY <2>1, <3>1 DEF EnvGood
  <2> QED BY <2>1 DEF EnvGood
<1>3. done = [file |-> t, backup |-> [e.backup EXCEPT ![t] = e.file]]
  <2> HIDE DEF saved
  <2> QED BY <1>2 DEF Publish
<1>4. o.receipt = e.file /\ Outcome(o) /\ (o.err => o.fault) /\ o.now \in {e, saved, done} /\ (~o.err => o.now = done)
  <2>1. WritePrepared(e, t) = Effect(e, done) \cup {Broke(saved)}
    BY <1>1 DEF WritePrepared
  <2> HIDE DEF saved, done
  <2>2. CASE o \in {[now |-> w.now, err |-> w.err, fault |-> w.fault, receipt |-> e.file] : w \in WritePrepared(e, t)}
    <3>1. PICK w \in WritePrepared(e, t) : o = [now |-> w.now, err |-> w.err, fault |-> w.fault, receipt |-> e.file]
      BY <2>2
    <3>2. Outcome(w) /\ (w.err => w.fault) /\ w.now \in {e, saved, done} /\ (~w.err => w.now = done)
      BY <2>1, Outcomes DEF Effect
    <3> QED BY <3>1, <3>2 DEF Outcome
  <2>3. CASE o = [now |-> e, err |-> TRUE, fault |-> TRUE, receipt |-> e.file]
    BY <2>3 DEF Outcome
  <2> QED BY <2>2, <2>3 DEF PublishWithReference
<1> HIDE DEF saved, done
<1>5. \A s \in Tx : saved.backup[s] = (IF s = t THEN e.file ELSE e.backup[s]) /\ done.backup[s] = saved.backup[s]
  BY <1>2, <1>3 DEF EnvGood
<1>6. saved.file = e.file /\ done.file = t
  BY <1>2, <1>3
<1>7. {saved, done} \subseteq [file : {None} \cup Contents \cup Tx, backup : [Tx -> {None} \cup Contents]]
  BY <1>1, <1>2, <1>3 DEF EnvGood
<1>8. EnvGood(saved, u, k) /\ EnvGood(done, u, k)
  BY <1>1, <1>5, <1>6, <1>7 DEF EnvGood
<1> QED BY <1>1, <1>4, <1>5, <1>6, <1>8 DEF ReceiptOf, Written
(* The databases, the marker and the journal. *)
LEMMA InsertOutcome ==
    ASSUME InstallerAssumption, NEW t \in Tx, NEW db \in [row : {None, Foreign} \cup Tx, nav : {None} \cup Seeds \cup Tx],
           db.nav \in Tx => db.row = db.nav, NEW o \in IdentityInsert(db, t)
    PROVE  /\ Outcome(o)
           /\ \/ o.now = db /\ o.err
              \/ db.row = None /\ o.now.row = t /\ o.now.nav \in {db.nav, t} /\ o.now.nav \in {None} \cup Seeds \cup Tx
           /\ o.now \in [row : {None, Foreign} \cup Tx, nav : {None} \cup Seeds \cup Tx]
           /\ o.now.nav \in Tx => o.now.row = o.now.nav
           /\ o.err /\ o.now # db => o.fault
<1> DEFINE new == [row |-> t, nav |-> seedInitialNavigation(db.nav, t)]
<1>1. new.row = t /\ new.nav \in {db.nav, t} /\ new \in [row : {None, Foreign} \cup Tx, nav : {None} \cup Seeds \cup Tx]
  BY DEF seedInitialNavigation
<1>2. \/ o \in {Refused(db), Broke(db)}
      \/ db.row = None /\ o \in {Did(new), Broke(new)}
  BY DEF IdentityInsert, Effect
<1> HIDE DEF new
<1>3. CASE o \in {Refused(db), Broke(db)}
  BY <1>3, Outcomes
<1>4. CASE db.row = None /\ o \in {Did(new), Broke(new)}
  <2>1. db.nav \notin Tx
    BY <1>4 DEF InstallerAssumption
  <2>2. Outcome(o) /\ o.now = new /\ (o.err => o.fault)
    BY <1>4, Outcomes
  <2> QED BY <1>1, <1>4, <2>1, <2>2
<1> QED BY <1>2, <1>3, <1>4

LEMMA DeleteOutcome ==
    ASSUME InstallerAssumption, NEW t \in Tx, NEW db \in [row : {None, Foreign} \cup Tx, nav : {None} \cup Seeds \cup Tx],
           db.nav \in Tx => db.row = db.nav, NEW o \in IdentityDelete(db, t)
    PROVE  /\ Outcome(o)
           /\ o.now = db \/ (db.row = t /\ o.now.row = None /\ o.now.nav \notin Tx)
           /\ o.now \in [row : {None, Foreign} \cup Tx, nav : {None} \cup Seeds \cup Tx]
           /\ ~o.err \/ (NotOwned(db, t) /\ ~o.fault) => o.now.row # t /\ o.now.nav # t
           /\ o.err /\ ~(NotOwned(db, t) /\ ~o.fault) => o.fault
<1> DEFINE new == [row |-> None, nav |-> IF db.nav = t THEN None ELSE db.nav]
<1>1. new.row = None /\ new \in [row : {None, Foreign} \cup Tx, nav : {None} \cup Seeds \cup Tx]
  OBVIOUS
<1>2. None \notin Tx
  BY DEF InstallerAssumption
<1>3. \/ db.row = None /\ o \in {Did(db), Broke(db)}
      \/ db.row = t /\ o \in {Did(new), Broke(db), Broke(new)}
      \/ db.row \notin {None, t} /\ o \in {Refused(db), Broke(db)}
  BY <1>2 DEF IdentityDelete, Effect
<1>4. new.nav \in {None, db.nav} /\ (new.nav # t)
  BY <1>2
<1> HIDE DEF new
<1>5. CASE db.row = None /\ o \in {Did(db), Broke(db)}
  BY <1>2, <1>5, Outcomes
<1>6. CASE db.row = t /\ o \in {Did(new), Broke(db), Broke(new)}
  <2>1. new.nav \notin Tx
    BY <1>2, <1>4, <1>6
  <2> QED BY <1>1, <1>2, <1>4, <1>6, <2>1, Outcomes DEF NotOwned
<1>7. CASE db.row \notin {None, t} /\ o \in {Refused(db), Broke(db)}
  <2>1. NotOwned(db, t) /\ db.row # t /\ db.nav # t
    BY <1>7 DEF NotOwned
  <2> QED BY <1>7, <2>1, Outcomes
<1> QED BY <1>3, <1>5, <1>6, <1>7

LEMMA MarkerRemoved ==
    ASSUME NEW k, NEW t, NEW o \in MarkerRemove(k, t)
    PROVE  /\ Outcome(o) /\ (o.now = k \/ (k = t /\ o.now = None))
           /\ ~o.err => o.now = None
           /\ o.err => o.fault \/ k \notin {None, t}
  BY Outcomes DEF MarkerRemove, Effect

LEMMA MarkerCreated ==
    ASSUME NEW t, NEW o \in MarkerCreate(None, t)
    PROVE  Outcome(o) /\ o.now \in {None, t} /\ (~o.err => o.now = t) /\ (o.err => o.fault)
  BY Outcomes DEF MarkerCreate, Effect

LEMMA JournalUpdated ==
    ASSUME NEW j, NEW tx, NEW o \in JournalUpdate(j, tx)
    PROVE  /\ Outcome(o) /\ (o.now = j \/ (o.now = tx /\ tx.id = j.id))
           /\ ~o.err => o.now = tx
  BY Outcomes DEF JournalUpdate, Effect

LEMMA JournalCreated ==
    ASSUME NEW j, NEW tx, NEW o \in JournalCreate(j, tx)
    PROVE  /\ Outcome(o) /\ (o.now = j \/ (o.now = tx /\ j.id = None))
           /\ ~o.err => o.now = tx
  BY Outcomes DEF JournalCreate, Effect

LEMMA JournalRemoved ==
    ASSUME NEW j, NEW t, NEW o \in JournalRemove(j, t, NoJournal)
    PROVE  /\ Outcome(o) /\ (o.now = j \/ (o.now = NoJournal /\ t = j.id))
           /\ ~o.err => o.now = NoJournal \/ (o.now = j /\ j.id = None)
  BY Outcomes DEF JournalRemove, Effect

-----------------------------------------------------------------------------
(* What a step leaves as it is. *)

(* Of what t has done there may be less afterwards, not more. *)
Quiet(t, e, i, k, u, f, e2, i2, k2, u2, f2) ==
    /\ e2.file = t => e.file = t /\ u2 = u
    /\ e2.backup[t] \in {None, e.backup[t]}
    /\ \A d \in Databases : Inserted(i2, t, d) => Inserted(i, t, d)
    /\ k2 = t => k = t
    /\ f \in Nat /\ f2 \in Nat /\ f2 >= f
Still(t) == Quiet(t, env, identity, marker, user, faults, env', identity', marker', user', faults')

LEMMA TellsOn ==
    ASSUME NEW x, NEW e, NEW i, NEW k, NEW u, NEW f, NEW e2, NEW i2, NEW k2, NEW u2, NEW f2,
           Tells(x, e, i, k, u, f), x.id # None => Quiet(x.id, e, i, k, u, f, e2, i2, k2, u2, f2)
    PROVE  Tells(x, e2, i2, k2, u2, f2)
<1> SUFFICES ASSUME x.id # None PROVE Tells(x, e2, i2, k2, u2, f2)
  BY DEF Tells
<1>1. Nowhere(i, x.id) => Nowhere(i2, x.id)
  BY DEF Nowhere, Quiet
<1>2. Written(e2, x.id) => Written(e, x.id)
  BY DEF Written, Quiet
<1>3. ReceiptOf(x.id, x.env, e, u) => ReceiptOf(x.id, x.env, e2, u2)
  BY DEF ReceiptOf, Quiet
<1>4. f >= 2 => f2 >= 2
  BY DEF Quiet
<1> QED BY <1>1, <1>2, <1>3, <1>4 DEF Tells, Quiet

LEMMA Spending ==
    ASSUME InstallerAssumption, Types, NEW b \in BOOLEAN, Spend(b)
    PROVE  faults' \in Nat /\ faults' >= faults /\ faults' <= MaxFaults /\ (b => faults' = faults + 1) /\ (~b => faults' = faults)
  BY DEF Spend, Types, TypeOK, InstallerAssumption

(* No store but the journal changes. *)
Calm ==
    /\ env' = env /\ identity' = identity /\ marker' = marker /\ user' = user /\ edits' = edits
    /\ faults' \in Nat /\ faults' >= faults

LEMMA CalmStill == ASSUME Types, Calm PROVE \A t : Still(t)
  BY DEF Calm, Still, Quiet, Types

LEMMA CalmTold == ASSUME Types, Calm, NEW x, Told(x) PROVE Tells(x, env', identity', marker', user', faults')
  BY CalmStill, TellsOn DEF Told, Still

LEMMA CalmStores == ASSUME Types, StoresInv, Whole, Calm PROVE StoresInv' /\ Whole'
<1>1. StoresInv'
  BY DEF StoresInv, Calm
<1>2. Whole'
  BY DEF Whole, Calm, Types
<1> QED BY <1>1, <1>2

LEMMA CalmNamed ==
    ASSUME Types, Named, Calm,
           \A t \in Tx : journal.id = t /\ journal'.id # t /\ marker # t =>
              ~Written(env, t) /\ (faults' >= 2 \/ Nowhere(identity, t))
    PROVE  Named'
<1> SUFFICES ASSUME NEW t \in Tx, marker' # t
             PROVE  /\ Written(env', t) => journal'.id = t
                    /\ faults' < 2 /\ ~Nowhere(identity', t) => journal'.id = t
  BY DEF Named
<1>1. (faults' < 2 => faults < 2) /\ ~(faults' >= 2 /\ faults' < 2)
  BY DEF Calm, Types
<1> QED BY <1>1 DEF Named, Calm

(* The rest of a process's invariant, and that of the processes which take no step. *)
Own(p) == Applying(p) /\ Preparing(p) /\ Undoing(p) /\ Ending(p) /\ Holds(p)
Mine(p) ==
    \A q \in Procs \ {p} :
        mem'[q] = mem[q] /\ pending'[q] = pending[q] /\ known'[q] = known[q] /\ jobs'[q] = jobs[q]

LEMMA OneInside ==
    ASSUME LeaseKept, NEW p \in Procs, mem[p].pc \in Inside, NEW q \in Procs, q # p PROVE mem[q].pc \notin Inside
  BY DEF LeaseKept

LEMMA Others ==
    ASSUME InstallerAssumption, InstallInv, NEW p \in Procs, mem[p].pc \in Inside, Mine(p),
           faults' \in Nat, faults' >= faults,
           \A t \in Tx : Still(t) \/ (t = mem[p].tx.id /\ mem[p].pc \in Forward),
           NEW q \in Procs \ {p}
    PROVE  Own(q)' /\ Told(pending[q])' /\ Told(mem[q].tx)'
<1>1. mem[q].pc \notin Inside /\ mem'[q] = mem[q] /\ pending'[q] = pending[q] /\ known'[q] = known[q]
  BY OneInside DEF Mine, InstallInv
<1>2. pending[q].id \in Tx \cup {None} /\ mem[q].tx.id \in Tx \cup {None} /\ None \notin Tx
  <2>1. pending[q] \in PendingRecord /\ mem[q] \in Memory
    BY DEF InstallInv, Types
  <2> QED BY <2>1 DEF PendingRecord, Memory, Transactions, InstallerAssumption
<1>3. (pending[q].id # None => Still(pending[q].id)) /\ (mem[q].tx.id # None => Still(mem[q].tx.id))
  <2>1. mem[p].pc \in Forward => pending[q].id # mem[p].tx.id /\ mem[q].tx.id # mem[p].tx.id
    BY DEF InstallInv, Applying
  <2> QED BY <1>2, <2>1
<1>4. Told(pending[q])' /\ Told(mem[q].tx)'
  <2>1. Told(pending[q]) /\ Told(mem[q].tx)
    BY DEF InstallInv, Records
  <2> QED BY <1>1, <1>3, <2>1, TellsOn DEF Told, Still
<1>5. mem[q].pc \in Outside
  BY <1>1 DEF InstallInv, Types, Memory
<1>6. Applying(q)' /\ Undoing(q)' /\ Ending(q)'
  BY <1>1, <1>5 DEF Applying, Undoing, Ending, Outside, Forward, BeforeEnv, BeforeIdentity, WithEnv
<1>7. Preparing(q)'
  <2>1. Preparing(q)
    BY DEF InstallInv
  <2> QED BY <1>1, <1>5, <2>1 DEF Preparing, Outside
<1>8. Holds(q)'
  <2>1. Holds(q) /\ mem[q].pc # "undo"
    BY <1>5 DEF InstallInv, Outside
  <2>2. pending[q].id # None => (Nowhere(identity, pending[q].id) => Nowhere(identity', pending[q].id))
                                /\ (marker' = pending[q].id => marker = pending[q].id)
    BY <1>3 DEF Still, Quiet, Nowhere
  <2>3. faults >= 2 => faults' >= 2
    BY DEF InstallInv, Types
  <2> QED BY <1>1, <2>1, <2>2, <2>3 DEF Holds, UndoingFailed
<1> QED BY <1>4, <1>6, <1>7, <1>8 DEF Own

LEMMA Assembled ==
    ASSUME InstallerAssumption, InstallInv, NEW p \in Procs, mem[p].pc \in Inside, Mine(p),
           faults' \in Nat, faults' >= faults,
           \A t \in Tx : Still(t) \/ (t = mem[p].tx.id /\ mem[p].pc \in Forward),
           Types', Told(journal)', (journal.id = None => journal = NoJournal)', Told(pending[p])', Told(mem[p].tx)',
           Named', StoresInv', Whole', Committed', Own(p)', mem'[p].pc \in Inside => lease' = p
    PROVE  InstallInv'
<1>1. \A q \in Procs \ {p} : Own(q)' /\ Told(pending[q])' /\ Told(mem[q].tx)'
  BY Others
<1>2. Records'
  BY <1>1 DEF Records
<1>3. LeaseKept'
  <2>1. \A q \in Procs \ {p} : mem'[q].pc \notin Inside
    BY OneInside DEF Mine, InstallInv
  <2> QED BY <2>1 DEF LeaseKept
<1>4. \A q \in Procs : Own(q)'
  BY <1>1
<1> QED BY <1>2, <1>3, <1>4 DEF InstallInv, Own

LEMMA CommittedOn ==
    ASSUME Committed, NEW p \in Procs, Mine(p), Achieved(p)' => Achieved(p),
           marker # None /\ (\A q \in Procs : pending[q].id # marker) /\ (\E q \in Procs : Achieved(q)) =>
              marker' = marker /\ pending'[p].id # marker
    PROVE  Committed'
<1> SUFFICES ASSUME \E q \in Procs : Achieved(q)' PROVE marker' # None /\ \A q \in Procs : pending'[q].id # marker'
  BY DEF Committed
<1>1. \E q \in Procs : Achieved(q)
  BY DEF Achieved, Mine
<1> QED BY <1>1 DEF Committed, Mine
-----------------------------------------------------------------------------
(* Types of a step, and of the records it writes. *)

EnvType == [file : {None} \cup Contents \cup Tx, backup : [Tx -> {None} \cup Contents \cup Tx]]
IdentityType == [Databases -> [row : {None, Foreign} \cup Tx, nav : {None} \cup Seeds \cup Tx]]

LEMMA InsideTypes ==
    ASSUME InstallerAssumption, Types, UNCHANGED <<jobs, node, user, crashes, edits>>,
           lease' \in Procs \cup {Free, Stale}, journal' \in Transactions, marker' \in Tx \cup {None},
           env' \in EnvType, identity' \in IdentityType, backups' \in BOOLEAN, mem' \in [Procs -> Memory],
           pending' \in [Procs -> PendingRecord], known' \in [Procs -> SUBSET Tx],
           faults' \in Nat, faults' <= MaxFaults
    PROVE  Types'
<1>1. \A p \in Procs : mem'[p].tx \in Transactions /\ known'[p] \subseteq Tx /\ pending'[p] \in PendingRecord
                       /\ Len(jobs'[p]) <= JobsKept
  BY DEF Types, TypeOK, Memory
<1> QED BY <1>1 DEF Types, TypeOK, EnvType, IdentityType, PendingRecord

LEMMA NoTransaction ==
    ASSUME InstallerAssumption
    PROVE  /\ NoJournal \in Transactions /\ NoPending \in PendingRecord /\ Idle \in Memory
           /\ NoJournal.id = None /\ NoPending.id = None /\ None \notin Tx
           /\ Idle.pc = "idle" /\ Idle.tx = NoJournal /\ Idle.err = "none" /\ Idle.call = "apply"
<1>1. NoJournal = [id |-> None, db |-> None, phase |-> "applying", step |-> "schema", done |-> 3, identity |-> FALSE,
                   intent |-> FALSE, env |-> "none", marker |-> FALSE]
  BY DEF NoJournal, NewTransaction, NoReceipt
<1>2. NoJournal \in Transactions
  BY <1>1 DEF Transactions, Receipts, NoReceipt
<1>3. NoPending \in PendingRecord /\ NoPending.id = None
  BY DEF NoPending, PendingRecord, Receipts
<1>4. <<>> \in Seq(Words)
  OBVIOUS
<1>5. Idle \in Memory
  BY <1>2, <1>4 DEF Idle, Memory, Outside
<1> QED BY <1>1, <1>2, <1>3, <1>5 DEF Idle, InstallerAssumption

LEMMA NothingTold ==
    ASSUME NEW x, x.id = None, NEW e, NEW i, NEW k, NEW u, NEW f PROVE Tells(x, e, i, k, u, f)
  BY DEF Tells


LEMMA ClearedTx ==
    ASSUME NEW x \in Transactions
    PROVE  /\ Cleared(x) \in Transactions /\ Cleared(x).id = x.id /\ Cleared(x).db = x.db /\ ~Cleared(x).identity
           /\ ~Cleared(x).intent /\ ~Cleared(x).marker /\ Cleared(x).env = NoReceipt
<1> DEFINE n == NewTransaction(x.id, x.db)
<1>1. n = [id |-> x.id, db |-> x.db, phase |-> "applying", step |-> "schema", done |-> 3, identity |-> FALSE,
           intent |-> FALSE, env |-> "none", marker |-> FALSE]
  BY DEF NewTransaction, NoReceipt
<1>2. n \in Transactions
  BY <1>1 DEF Transactions, Receipts, NoReceipt
<1>3. Cleared(x) = [n EXCEPT !.phase = "retryable", !.step = "failed"]
  BY DEF Cleared
<1> HIDE DEF n
<1>4. Cleared(x) \in Transactions
  BY <1>2, <1>3 DEF Transactions
<1> QED BY <1>1, <1>2, <1>3, <1>4 DEF Transactions, NoReceipt

LEMMA ToldCleared ==
    ASSUME NEW x \in Transactions, Told(x), x.id # None,
           ~Written(env, x.id), faults >= 2 \/ Nowhere(identity, x.id), marker # x.id
    PROVE  Told(Cleared(x))
  BY ClearedTx DEF Told, Tells, ReceiptOf

LEMMA PendedTx ==
    ASSUME NEW x \in Transactions, Told(x)
    PROVE  Told(Pended(x)) /\ Pended(x).id = x.id /\ Pended(x) \in Transactions
<1>1. Pended(x) \in Transactions
  BY DEF Pended, Transactions
<1>2. /\ Pended(x).id = x.id /\ Pended(x).db = x.db /\ Pended(x).env = x.env /\ Pended(x).identity = x.identity
      /\ Pended(x).intent = x.intent /\ Pended(x).marker = x.marker
  BY DEF Pended, Transactions
<1>3. Told(Pended(x))
  BY <1>2 DEF Told, Tells
<1> QED BY <1>1, <1>2, <1>3

(* A step of p, inside, that changes no store but the journal, and leaves known alone. *)
LEMMA CalmStep ==
    ASSUME InstallerAssumption, InstallInv, NEW p \in Procs, mem[p].pc \in Inside, Calm, faults' <= MaxFaults,
           NEW new \in Memory, mem' = [mem EXCEPT ![p] = new],
           NEW held \in PendingRecord, pending' = [pending EXCEPT ![p] = held],
           UNCHANGED <<known, jobs, node, crashes>>, backups' \in BOOLEAN,
           lease' \in {lease, Free}, new.pc \in Inside => lease' = lease,
           journal' \in Transactions, Told(journal'), journal'.id = None => journal' = NoJournal,
           Told(held), Told(new.tx),
           \A t \in Tx : journal.id = t /\ journal'.id # t /\ marker # t =>
              ~Written(env, t) /\ (faults' >= 2 \/ Nowhere(identity, t)),
           Achieved(p)' => Achieved(p), held.id \in {None, pending[p].id} \/ marker = None,
           Own(p)'
    PROVE  InstallInv'
<1>1. mem'[p] = new /\ pending'[p] = held /\ mem' \in [Procs -> Memory] /\ pending' \in [Procs -> PendingRecord] /\ Mine(p)
  BY DEF InstallInv, Types, Mine
<1>2. lease = p
  BY DEF InstallInv, LeaseKept
<1>3. Types'
  <2>1. Types
    BY DEF InstallInv
  <2>2. /\ env' \in EnvType /\ identity' \in IdentityType /\ marker' \in Tx \cup {None} /\ known' \in [Procs -> SUBSET Tx]
        /\ lease' \in Procs \cup {Free, Stale}
    BY <2>1 DEF Types, TypeOK, Calm, EnvType, IdentityType
  <2> QED BY <1>1, <2>1, <2>2, InsideTypes DEF Calm
<1>4. StoresInv' /\ Whole'
  BY CalmStores DEF InstallInv
<1>5. Named'
  BY CalmNamed DEF InstallInv
<1>6. Told(journal)' /\ Told(pending[p])' /\ Told(mem[p].tx)'
  BY <1>1, CalmTold DEF InstallInv, Told
<1>7. Committed'
  <2>1. marker # None => held.id # marker \/ held.id = pending[p].id
    BY NoTransaction
  <2> QED BY <1>1, <2>1, CommittedOn DEF InstallInv, Calm
<1>8. \A t : Still(t)
  BY CalmStill DEF InstallInv
<1> QED BY <1>1, <1>2, <1>3, <1>4, <1>5, <1>6, <1>7, <1>8, Assembled DEF Calm

LEMMA HoldsOn ==
    ASSUME Types, Calm, NEW p \in Procs, Holds(p), mem[p].pc # "undo", known' = known,
           pending'[p].id = None \/ pending'[p] = pending[p]
    PROVE  Holds(p)'
<1>1. faults >= 2 => faults' >= 2
  BY DEF Types, Calm
<1> QED BY <1>1 DEF Holds, UndoingFailed, Calm

(* Where nothing is being done. *)
LEMMA AtRestOwn ==
    ASSUME NEW p \in Procs, mem'[p].pc \in {"idle", "end", "release"}, Holds(p)' PROVE Own(p)'
  BY DEF Own, Applying, Preparing, Undoing, Ending, Forward, BeforeEnv, BeforeIdentity, WithEnv

(* Going to "release" or "end" with an error. *)
LEMMA GivesUp ==
    ASSUME InstallerAssumption, InstallInv, NEW p \in Procs, mem[p].pc \in Inside, mem[p].pc # "undo", Calm,
           faults' <= MaxFaults, NEW new \in Memory, mem' = [mem EXCEPT ![p] = new],
           new.pc \in {"end", "release"}, new.tx \in {mem[p].tx, journal},
           new.err # "none" \/ new.call # "apply" \/ Achieved(p),
           UNCHANGED <<pending, known, jobs, node, crashes>>, backups' \in BOOLEAN,
           lease' \in {lease, Free}, new.pc \in Inside => lease' = lease,
           journal' \in Transactions, Told(journal'), journal'.id = None => journal' = NoJournal,
           \A t \in Tx : journal.id = t /\ journal'.id # t /\ marker # t =>
              ~Written(env, t) /\ (faults' >= 2 \/ Nowhere(identity, t))
    PROVE  InstallInv'
<1>1. mem'[p] = new
  BY DEF InstallInv, Types
<1>2. Own(p)'
  BY <1>1, HoldsOn, AtRestOwn DEF InstallInv
<1>3. Achieved(p)' => Achieved(p)
  BY <1>1 DEF Achieved
<1>4. pending[p] \in PendingRecord /\ pending' = [pending EXCEPT ![p] = pending[p]]
  BY DEF InstallInv, Types
<1>5. Told(pending[p]) /\ Told(new.tx)
  BY DEF InstallInv, Records
<1> QED BY <1>2, <1>3, <1>4, <1>5, CalmStep
-----------------------------------------------------------------------------
(* Requests, and a process that dies: what is stored stays. *)

LEMMA StandsStill ==
    ASSUME InstallerAssumption, InstallInv, NEW p \in Procs, Mine(p), Types',
           UNCHANGED <<stores, user, edits, faults>>,
           mem'[p].tx \in {NoJournal, mem[p].tx}, pending'[p] \in {NoPending, pending[p]}, known'[p] \subseteq known[p],
           \A q \in Procs \ {p} : mem[q].pc \in Inside => lease' = q,
           mem'[p].pc \in Inside => lease' = p,
           mem'[p].pc \in {"idle", "acquire", "check", "end"}, Preparing(p)', Holds(p)',
           Achieved(p)' => Achieved(p)
    PROVE  InstallInv'
<1>1. Calm
  BY DEF stores, Calm, InstallInv, Types
<1>2. StoresInv' /\ Whole' /\ Named' /\ journal' = journal
  BY <1>1, CalmStores, CalmNamed DEF InstallInv, stores
<1>3. Records'
  <2>1. Told(mem'[p].tx) /\ Told(pending'[p])
    BY NoTransaction, NothingTold DEF InstallInv, Records, Told
  <2>2. \A q \in Procs : Told(mem'[q].tx) /\ Told(pending'[q])
    BY <2>1 DEF Mine, InstallInv, Records
  <2> QED BY <1>1, <1>2, <2>2 DEF Told, Calm, Records, InstallInv
<1>4. LeaseKept'
  BY DEF LeaseKept, Mine
<1>5. Committed'
  BY <1>1, CommittedOn, NoTransaction DEF InstallInv, Calm
<1>6. Applying(p)' /\ Undoing(p)' /\ Ending(p)'
  BY DEF Applying, Undoing, Ending, Forward, BeforeEnv, BeforeIdentity, WithEnv
<1>7. ASSUME NEW q \in Procs \ {p} PROVE Applying(q)' /\ Preparing(q)' /\ Undoing(q)' /\ Ending(q)' /\ Holds(q)'
  <2>1. mem'[q] = mem[q] /\ pending'[q] = pending[q] /\ known'[q] = known[q]
    BY DEF Mine
  <2>2. Own(q)
    BY DEF InstallInv, Own
  <2>3. Applying(q)'
    <3>1. mem[q].pc \in Forward => \A r \in Procs \ {q} :
              pending'[r].id # mem[q].tx.id /\ mem'[r].tx.id # mem[q].tx.id /\ mem[q].tx.id \notin known'[r]
      BY <2>2, NoTransaction DEF Own, Applying, Mine
    <3> QED BY <1>1, <1>2, <2>1, <2>2, <3>1 DEF Own, Applying, Calm
  <2>4. Preparing(q)' /\ Ending(q)'
    BY <1>1, <1>2, <2>1, <2>2 DEF Own, Preparing, Ending, Calm
  <2>5. Undoing(q)'
    BY <1>1, <1>2, <2>1, <2>2 DEF Own, Undoing, Calm, stores
  <2>6. Holds(q)'
    BY <1>1, <2>1, <2>2 DEF Own, Holds, UndoingFailed, Calm, stores
  <2> QED BY <2>3, <2>4, <2>5, <2>6
<1> QED BY <1>2, <1>3, <1>4, <1>5, <1>6, <1>7 DEF InstallInv

LEMMA OutsideTypes ==
    ASSUME InstallerAssumption, Types, UNCHANGED <<stores, user, edits, faults>>,
           lease' \in Procs \cup {Free, Stale}, node' \in {"gone", "running", "ended", "left"}, backups' \in BOOLEAN,
           crashes' \in Nat, crashes' <= MaxCrashes, mem' \in [Procs -> Memory],
           pending' \in [Procs -> PendingRecord], known' \in [Procs -> SUBSET Tx],
           jobs' \in [Procs -> Seq(Job)], \A p \in Procs : Len(jobs'[p]) <= JobsKept
    PROVE  Types'
<1>1. \A p \in Procs : mem'[p].tx \in Transactions /\ known'[p] \subseteq Tx /\ pending'[p] \in PendingRecord
  BY DEF Memory
<1> QED BY <1>1 DEF Types, TypeOK, stores, PendingRecord

(* A request of a process that holds nothing. *)
LEMMA Request ==
    ASSUME InstallerAssumption, InstallInv, NEW p \in Procs, mem[p].pc \in Outside,
           NEW new \in Memory, mem' = [mem EXCEPT ![p] = new],
           UNCHANGED <<stores, user, edits, faults, pending, known, node, backups, crashes>>,
           new.tx \in {NoJournal, mem[p].tx},
           \/ lease' = lease /\ new.pc \in {"idle", "acquire", "end"}
           \/ lease \in {Free, Stale} /\ lease' = p /\ new.pc = "check",
           NEW own \in Seq(Job), Len(own) <= JobsKept, jobs' = [jobs EXCEPT ![p] = own], Preparing(p)',
           Achieved(p)' => Achieved(p)
    PROVE  InstallInv'
<1>1. mem'[p] = new /\ mem' \in [Procs -> Memory] /\ jobs' \in [Procs -> Seq(Job)] /\ jobs'[p] = own /\ Mine(p)
      /\ \A q \in Procs : Len(jobs'[q]) <= JobsKept
  BY DEF InstallInv, Types, TypeOK, Mine
<1>2. Types'
  <2>1. Types
    BY DEF InstallInv
  <2>2. lease' \in Procs \cup {Free, Stale} /\ crashes \in Nat /\ crashes <= MaxCrashes
    BY <2>1 DEF Types, TypeOK
  <2>3. node \in {"gone", "running", "ended", "left"} /\ backups \in BOOLEAN
    BY <2>1 DEF Types, TypeOK
  <2>4. pending \in [Procs -> PendingRecord] /\ known \in [Procs -> SUBSET Tx]
    BY <2>1 DEF Types
  <2> QED BY <1>1, <2>1, <2>2, <2>3, <2>4, OutsideTypes
<1>3. mem[p].pc # "undo"
  BY DEF Outside
<1>4. Holds(p)'
  <2>1. Holds(p)
    BY DEF InstallInv
  <2> QED BY <1>1, <1>3, <2>1 DEF Holds, UndoingFailed, stores
<1>5. \A q \in Procs \ {p} : mem[q].pc \in Inside => lease' = q
  <2>1. \A q \in Procs : mem[q].pc \in Inside => lease = q /\ q \notin {Free, Stale}
    BY DEF InstallInv, LeaseKept, InstallerAssumption
  <2> QED BY <2>1
<1>6. new.pc \in Inside => lease' = p
  BY DEF Inside, Forward, BeforeEnv, BeforeIdentity, WithEnv
<1> QED BY <1>1, <1>2, <1>4, <1>5, <1>6, StandsStill

LEMMA Pruned ==
    ASSUME InstallerAssumption, NEW s \in Seq(Job), Len(s) <= JobsKept, NEW j \in Job, j.state # "completed"
    PROVE  LET r == Prune(Append(s, j)) IN
           /\ r \in Seq(Job) /\ Len(r) <= JobsKept
           /\ (\E i \in DOMAIN r : r[i].state = "completed") => \E i \in DOMAIN s : s[i].state = "completed"
<1> DEFINE a == Append(s, j)
<1>1. a \in Seq(Job) /\ Len(a) = Len(s) + 1 /\ \A i \in 1 .. Len(a) : a[i] = IF i <= Len(s) THEN s[i] ELSE j
  OBVIOUS
<1>2. JobsKept \in Nat
  BY DEF InstallerAssumption
<1> HIDE DEF a
<1>3. CASE Len(a) > JobsKept
  <2>1. Prune(a) = Tail(a) /\ Tail(a) \in Seq(Job) /\ Len(Tail(a)) = Len(s)
    BY <1>1, <1>2, <1>3 DEF Prune
  <2>2. \A i \in DOMAIN Tail(a) : i + 1 \in 1 .. Len(a) /\ Tail(a)[i] = a[i + 1]
    BY <1>1
  <2>3. ASSUME NEW i \in DOMAIN Tail(a), Tail(a)[i].state = "completed" PROVE \E h \in DOMAIN s : s[h].state = "completed"
    BY <1>1, <2>1, <2>2, <2>3
  <2> QED BY <2>1, <2>3 DEF a
<1>4. CASE Len(a) <= JobsKept
  <2>1. Prune(a) = a
    BY <1>1, <1>2, <1>4 DEF Prune
  <2>2. ASSUME NEW i \in DOMAIN a, a[i].state = "completed" PROVE \E h \in DOMAIN s : s[h].state = "completed"
    BY <1>1, <2>2
  <2> QED BY <1>1, <1>4, <2>1, <2>2 DEF a
<1> QED BY <1>1, <1>2, <1>3, <1>4

LEMMA StartKeeps ==
    ASSUME InstallerAssumption, InstallInv, NEW p \in Procs, NEW db \in Databases, Start(p, db) PROVE InstallInv'
<1> DEFINE new == [Idle EXCEPT !.pc = "acquire", !.db = db]
           job == [state |-> "running", canRetry |-> FALSE, canRollback |-> FALSE]
           own == Prune(Append(jobs[p], job))
<1>1. new \in Memory /\ new.pc = "acquire" /\ new.call = "apply" /\ new.tx = NoJournal /\ new.err = "none" /\ new.db = db
  BY NoTransaction DEF Memory, Outside
<1>2. job \in Job /\ job.state # "completed" /\ jobs[p] \in Seq(Job) /\ Len(jobs[p]) <= JobsKept
  BY DEF Job, InstallInv, Types, TypeOK
<1>3. /\ own \in Seq(Job) /\ Len(own) <= JobsKept
      /\ (\E i \in DOMAIN own : own[i].state = "completed") => \E i \in DOMAIN jobs[p] : jobs[p][i].state = "completed"
  BY <1>2, Pruned
<1>4. mem' = [mem EXCEPT ![p] = new] /\ jobs' = [jobs EXCEPT ![p] = own] /\ mem[p].pc = "idle"
  BY DEF Start, Mem, At
<1>5. UNCHANGED <<lease, stores, user, edits, faults, pending, known, node, backups, crashes>>
  BY DEF Start, stores, world
<1> HIDE DEF new, own
<1>6. mem'[p] = new /\ jobs'[p] = own
  BY <1>4 DEF InstallInv, Types
<1>7. Preparing(p)'
  BY <1>1, <1>6, NoTransaction DEF Preparing, InstallerAssumption
<1>8. Achieved(p)' => Achieved(p)
  BY <1>1, <1>3, <1>6 DEF Achieved
<1> QED BY <1>1, <1>3, <1>4, <1>5, <1>7, <1>8, Request DEF Outside

LEMMA LastReplaced ==
    ASSUME NEW S, NEW s \in Seq(S), NEW x \in S
    PROVE  LET r == [s EXCEPT ![Len(s)] = x] IN
           r \in Seq(S) /\ Len(r) = Len(s) /\ \A i \in DOMAIN r : i \in DOMAIN s /\ r[i] = IF i = Len(s) THEN x ELSE s[i]
<1>1. CASE Len(s) \in 1 .. Len(s)
  BY <1>1, ExceptSeq
<1>2. CASE Len(s) = 0
  <2> DEFINE r == [s EXCEPT ![Len(s)] = x]
  <2>1. s \in [{} -> S] /\ DOMAIN s = {}
    BY <1>2, LenProperties
  <2>2. r \in [{} -> S] /\ DOMAIN r = {}
    BY <2>1
  <2>3. r = s
    BY <2>1, <2>2
  <2> QED BY <1>2, <2>1, <2>3
<1> QED BY <1>1, <1>2, LenProperties

LEMMA FinishJobKeeps == ASSUME InstallerAssumption, InstallInv, NEW p \in Procs, FinishJob(p) PROVE InstallInv'
<1> DEFINE ended == [state |-> IF mem[p].err = "none" THEN "completed" ELSE "failed",
                     canRetry |-> mem[p].err \notin {"none", "installed"},
                     canRollback |-> mem[p].err = "rollback" /\ pending[p].id # None]
           own == [jobs[p] EXCEPT ![Len(jobs[p])] = ended]
<1>1. jobs[p] \in Seq(Job) /\ Len(jobs[p]) <= JobsKept /\ ended \in Job
  BY DEF Job, InstallInv, Types, TypeOK
<1>2. mem' = [mem EXCEPT ![p] = Idle] /\ jobs' = [jobs EXCEPT ![p] = own] /\ mem[p].pc = "end" /\ mem[p].call = "apply"
  BY DEF FinishJob, Mem, At
<1>3. UNCHANGED <<lease, stores, user, edits, faults, pending, known, node, backups, crashes>>
  BY DEF FinishJob, stores, world
<1>4. /\ own \in Seq(Job) /\ Len(own) = Len(jobs[p])
      /\ \A i \in DOMAIN own : i \in DOMAIN jobs[p] /\ own[i] = IF i = Len(jobs[p]) THEN ended ELSE jobs[p][i]
  BY <1>1, LastReplaced
<1>5. mem'[p] = Idle /\ jobs'[p] = own
  BY <1>2 DEF InstallInv, Types
<1>6. Achieved(p)' => Achieved(p)
  <2>1. ASSUME NEW i \in DOMAIN own, own[i].state = "completed" PROVE Achieved(p)
    <3> QED BY <1>2, <1>4, <2>1 DEF Achieved
  <2> QED BY <1>5, <2>1, NoTransaction DEF Achieved
<1>7. Preparing(p)'
  BY <1>5, NoTransaction DEF Preparing
<1> QED BY <1>1, <1>2, <1>3, <1>4, <1>6, <1>7, NoTransaction, Request DEF Outside

LEMMA FinishRollbackKeeps == ASSUME InstallerAssumption, InstallInv, NEW p \in Procs, FinishRollback(p) PROVE InstallInv'
<1>1. jobs[p] \in Seq(Job) /\ Len(jobs[p]) <= JobsKept /\ jobs \in [Procs -> Seq(Job)] /\ mem \in [Procs -> Memory]
  BY DEF InstallInv, Types, TypeOK
<1>2. mem' = [mem EXCEPT ![p] = Idle] /\ mem[p].pc = "end"
  BY DEF FinishRollback, Mem, At
<1>3. UNCHANGED <<lease, stores, user, edits, faults, pending, known, node, backups, crashes>>
  BY DEF FinishRollback, stores, world
<1>4. PICK j \in DOMAIN jobs[p] :
         jobs' = IF mem[p].err # "none" THEN jobs
                 ELSE [jobs EXCEPT ![p][j].canRollback = FALSE, ![p][j].canRetry = TRUE]
  BY DEF FinishRollback
<1> DEFINE job == [jobs[p][j] EXCEPT !.canRollback = FALSE, !.canRetry = TRUE]
           own == IF mem[p].err # "none" THEN jobs[p] ELSE [jobs[p] EXCEPT ![j] = job]
<1>5. jobs[p][j] \in Job /\ job \in Job /\ job.state = jobs[p][j].state /\ j \in 1 .. Len(jobs[p])
  <2>1. j \in 1 .. Len(jobs[p])
    BY <1>1, LenProperties
  <2>2. jobs[p][j] \in Job
    BY <1>1, <2>1, ElementOfSeq
  <2> QED BY <2>1, <2>2 DEF Job
<1>6. jobs' = [jobs EXCEPT ![p] = own]
  BY <1>1, <1>4
<1> HIDE DEF job
<1>7. /\ own \in Seq(Job) /\ Len(own) = Len(jobs[p])
      /\ \A i \in DOMAIN own : i \in DOMAIN jobs[p] /\ own[i].state = jobs[p][i].state
  BY <1>1, <1>5, ExceptSeq, LenProperties
<1> HIDE DEF own
<1>8. mem'[p] = Idle /\ jobs'[p] = own
  BY <1>1, <1>2, <1>6
<1>9. Achieved(p)' => Achieved(p)
  BY <1>7, <1>8, NoTransaction DEF Achieved
<1>10. Preparing(p)'
  BY <1>8, NoTransaction DEF Preparing
<1> QED BY <1>1, <1>2, <1>3, <1>6, <1>7, <1>9, <1>10, NoTransaction, Request DEF Outside

(* A request that leaves the jobs as they are. *)
LEMMA JobsStay ==
    ASSUME InstallerAssumption, InstallInv, NEW p \in Procs, mem[p].pc \in Outside,
           NEW new \in Memory, mem' = [mem EXCEPT ![p] = new],
           UNCHANGED <<stores, user, edits, faults, pending, known, node, backups, crashes, jobs>>,
           new.tx \in {NoJournal, mem[p].tx},
           \/ lease' = lease /\ new.pc \in {"idle", "acquire", "end"}
           \/ lease \in {Free, Stale} /\ lease' = p /\ new.pc = "check",
           new.pc = "end" => new.err # "none" \/ new.call # "apply",
           Preparing(p)'
    PROVE  InstallInv'
<1>1. jobs[p] \in Seq(Job) /\ Len(jobs[p]) <= JobsKept /\ jobs' = [jobs EXCEPT ![p] = jobs[p]] /\ mem'[p] = new
  BY DEF InstallInv, Types, TypeOK
<1>2. Achieved(p)' => Achieved(p)
  BY <1>1 DEF Achieved
<1> QED BY <1>1, <1>2, Request

LEMMA AskedAgain ==
    ASSUME InstallerAssumption, NEW c \in {"apply", "rollback", "reconcile"}
    PROVE  LET new == [Idle EXCEPT !.pc = "acquire", !.call = c] IN
           new \in Memory /\ new.pc = "acquire" /\ new.call = c /\ new.tx = NoJournal /\ new.err = "none"
  BY NoTransaction DEF Memory, Outside

LEMMA StartRollbackKeeps == ASSUME InstallerAssumption, InstallInv, NEW p \in Procs, StartRollback(p) PROVE InstallInv'
<1> DEFINE new == [Idle EXCEPT !.pc = "acquire", !.call = "rollback"]
<1>1. new \in Memory /\ new.pc = "acquire" /\ new.call = "rollback" /\ new.tx = NoJournal
  BY AskedAgain
<1>2. mem' = [mem EXCEPT ![p] = new] /\ mem[p].pc = "idle" /\ pending[p].id # None
  BY DEF StartRollback, Mem, At
<1>3. UNCHANGED <<lease, stores, user, edits, faults, pending, known, node, backups, crashes, jobs>>
  BY DEF StartRollback, stores, world, aside
<1> HIDE DEF new
<1>4. mem'[p] = new
  BY <1>2 DEF InstallInv, Types
<1>5. Preparing(p)'
  BY <1>1, <1>2, <1>3, <1>4 DEF Preparing
<1> QED BY <1>1, <1>2, <1>3, <1>5, JobsStay DEF Outside

LEMMA ReconcileKeeps == ASSUME InstallerAssumption, InstallInv, NEW p \in Procs, Reconcile(p) PROVE InstallInv'
<1> DEFINE new == [Idle EXCEPT !.pc = "acquire", !.call = "reconcile"]
<1>1. new \in Memory /\ new.pc = "acquire" /\ new.call = "reconcile" /\ new.tx = NoJournal /\ new.err = "none"
  BY AskedAgain
<1>2. mem' = [mem EXCEPT ![p] = new] /\ mem[p].pc = "idle"
  BY DEF Reconcile, Mem, At
<1>3. UNCHANGED <<lease, stores, user, edits, faults, pending, known, node, backups, crashes, jobs>>
  BY DEF Reconcile, stores, world, aside
<1> HIDE DEF new
<1>4. mem'[p] = new
  BY <1>2 DEF InstallInv, Types
<1>5. Preparing(p)'
  BY <1>1, <1>4 DEF Preparing
<1> QED BY <1>1, <1>2, <1>3, <1>5, JobsStay DEF Outside

LEMMA FinishReconcileKeeps ==
    ASSUME InstallerAssumption, InstallInv, NEW p \in Procs, FinishReconcile(p) PROVE InstallInv'
<1>1. mem' = [mem EXCEPT ![p] = Idle] /\ mem[p].pc = "end"
  BY DEF FinishReconcile, Mem, At
<1>2. UNCHANGED <<lease, stores, user, edits, faults, pending, known, node, backups, crashes, jobs>>
  BY DEF FinishReconcile, stores, world, aside
<1>3. mem'[p] = Idle
  BY <1>1 DEF InstallInv, Types
<1>4. Preparing(p)'
  BY <1>3, NoTransaction DEF Preparing
<1> QED BY <1>1, <1>2, <1>4, NoTransaction, JobsStay DEF Outside

Errors == {"none", "busy", "preflight", "installed", "failed", "rollback"}
LEMMA AcquireKeeps == ASSUME InstallerAssumption, InstallInv, NEW p \in Procs, Acquire(p) PROVE InstallInv'
<1>1. mem[p].pc = "acquire" /\ mem[p] \in Memory
  BY DEF Acquire, At, InstallInv, Types
<1>2. UNCHANGED <<stores, user, edits, faults, pending, known, node, backups, crashes, jobs>>
  BY DEF Acquire, stores, world, aside
<1>3. Preparing(p)
  BY DEF InstallInv
<1>4. CASE lease \in {Free, Stale} /\ node # "running"
  <2> DEFINE new == [mem[p] EXCEPT !.pc = "check"]
  <2>1. lease' = p /\ mem' = [mem EXCEPT ![p] = new]
    BY <1>4 DEF Acquire, Goto, Mem
  <2>2. /\ new \in Memory /\ new.pc = "check" /\ new.tx = mem[p].tx /\ new.call = mem[p].call /\ new.err = mem[p].err
        /\ new.db = mem[p].db
    BY <1>1 DEF Memory, Inside
  <2> HIDE DEF new
  <2>4. mem'[p] = new
    BY <2>1 DEF InstallInv, Types
  <2>5. Preparing(p)'
    BY <1>1, <1>2, <1>3, <2>2, <2>4 DEF Preparing
  <2> QED BY <1>1, <1>2, <1>4, <2>1, <2>2, <2>4, <2>5, JobsStay DEF Outside
<1>5. CASE ~(lease \in {Free, Stale} /\ node # "running")
  <2> DEFINE new == [mem[p] EXCEPT !.pc = "end", !.err = "busy"]
  <2>1. lease' = lease /\ mem' = [mem EXCEPT ![p] = new]
    BY <1>5 DEF Acquire, Mem
  <2>2. new \in Memory /\ new.pc = "end" /\ new.tx = mem[p].tx /\ new.err = "busy"
    <3>1. "end" \in Outside \cup Inside /\ "busy" \in Errors
      BY DEF Outside, Errors
    <3> QED BY <1>1, <3>1 DEF Memory, Errors
  <2> HIDE DEF new
  <2>4. mem'[p] = new
    BY <2>1 DEF InstallInv, Types
  <2>5. Preparing(p)'
    BY <2>2, <2>4 DEF Preparing
  <2> QED BY <1>1, <1>2, <2>1, <2>2, <2>4, <2>5, JobsStay DEF Outside
<1> QED BY <1>4, <1>5
LEMMA CrashKeeps == ASSUME InstallerAssumption, InstallInv, NEW p \in Procs, Crash(p) PROVE InstallInv'
<1>1. /\ mem' = [mem EXCEPT ![p] = Idle] /\ pending' = [pending EXCEPT ![p] = NoPending]
      /\ known' = [known EXCEPT ![p] = {}] /\ jobs' = [jobs EXCEPT ![p] = <<>>]
      /\ lease' = (IF lease = p THEN Stale ELSE lease) /\ crashes < MaxCrashes /\ crashes' = crashes + 1
      /\ UNCHANGED <<stores, user, edits, faults>> /\ node' = node /\ backups' = backups
  BY DEF Crash, Mem, Pend, stores
<1>2. Types
  BY DEF InstallInv
<1>3. mem'[p] = Idle /\ pending'[p] = NoPending /\ known'[p] = {} /\ jobs'[p] = <<>> /\ Mine(p)
  BY <1>1, <1>2 DEF Types, Mine
<1>4. Types'
  <2>1. mem' \in [Procs -> Memory] /\ pending' \in [Procs -> PendingRecord] /\ known' \in [Procs -> SUBSET Tx]
    BY <1>1, <1>2, NoTransaction DEF Types
  <2>2. <<>> \in Seq(Job) /\ Len(<<>>) = 0 /\ JobsKept \in Nat
    BY DEF InstallerAssumption
  <2>3. jobs' \in [Procs -> Seq(Job)] /\ \A q \in Procs : Len(jobs'[q]) <= JobsKept
    BY <1>1, <1>2, <2>2 DEF Types, TypeOK
  <2>4. lease' \in Procs \cup {Free, Stale} /\ node' \in {"gone", "running", "ended", "left"} /\ backups' \in BOOLEAN
    BY <1>1, <1>2 DEF Types, TypeOK
  <2>5. crashes' \in Nat /\ crashes' <= MaxCrashes
    BY <1>1, <1>2 DEF Types, TypeOK, InstallerAssumption
  <2> QED BY <1>1, <1>2, <2>1, <2>3, <2>4, <2>5, OutsideTypes
<1>5. Preparing(p)' /\ Holds(p)'
  BY <1>3, NoTransaction DEF Preparing, Holds
<1>6. Achieved(p)' => Achieved(p)
  BY <1>3, NoTransaction DEF Achieved
<1>7. \A q \in Procs \ {p} : mem[q].pc \in Inside => lease' = q
  BY <1>1 DEF InstallInv, LeaseKept
<1>8. mem'[p].pc = "idle" /\ (mem'[p].pc \in Inside => lease' = p)
  BY <1>3, NoTransaction DEF Inside, Forward, BeforeEnv, BeforeIdentity, WithEnv
<1> QED BY <1>1, <1>3, <1>4, <1>5, <1>6, <1>7, <1>8, NoTransaction, StandsStill
-----------------------------------------------------------------------------
(* What the Node initializer, another installer and the user do. *)

LEMMA FromOutside ==
    ASSUME InstallerAssumption, InstallInv, Types', UNCHANGED <<mem, pending, known, jobs, lease, journal, marker, faults>>,
           \A t \in Tx : Still(t), StoresInv',
           \A d \in Databases : identity[d].row \in Tx => identity'[d].row = identity[d].row,
           \/ env' = env /\ user' = user /\ (edits' = edits \/ edits' > 0)
           \/ env'.file \notin Tx /\ edits' > 0
    PROVE  InstallInv'
<1>1. \A t \in Tx : (Nowhere(identity, t) => Nowhere(identity', t)) /\ (Written(env', t) => Written(env, t))
  BY DEF Still, Quiet, Nowhere, Written
<1>2. \A t \in Tx : env.file = t \/ edits > 0 => env'.file = t \/ edits' > 0
  OBVIOUS
<1>3. Records'
  <2>1. \A x : Told(x) /\ x.id \in Tx \cup {None} => Told(x)'
    <3> SUFFICES ASSUME NEW x, Told(x), x.id \in Tx \cup {None} PROVE Tells(x, env', identity', marker', user', faults')
      BY DEF Told
    <3> QED BY TellsOn DEF Told, Still
  <2>2. journal.id \in Tx \cup {None} /\ \A p \in Procs : pending[p].id \in Tx \cup {None} /\ mem[p].tx.id \in Tx \cup {None}
    BY DEF InstallInv, Types, TypeOK, Transactions
  <2>3. Records
    BY DEF InstallInv
  <2>4. Tells(journal, env', identity', marker', user', faults')
    BY <2>1, <2>2, <2>3 DEF Records, Told
  <2>5. \A p \in Procs : Tells(pending[p], env', identity', marker', user', faults')
                         /\ Tells(mem[p].tx, env', identity', marker', user', faults')
    BY <2>1, <2>2, <2>3 DEF Records, Told
  <2> QED BY <2>3, <2>4, <2>5 DEF Records, Told
<1>4. Named'
  BY <1>1 DEF InstallInv, Named
<1>5. Whole'
  <2>1. marker \in Tx \cup {None}
    BY DEF InstallInv, Types, TypeOK
  <2> QED BY <1>2, <2>1 DEF InstallInv, Whole
<1>6. LeaseKept' /\ Committed'
  BY DEF InstallInv, LeaseKept, Committed, Achieved
<1>7. ASSUME NEW p \in Procs PROVE Own(p)'
  <2>1. Own(p) /\ mem[p].tx.id \in Tx \cup {None} /\ pending[p].id \in Tx \cup {None} /\ None \notin Tx
    BY DEF InstallInv, Own, Types, TypeOK, Transactions, InstallerAssumption
  <2>2. Applying(p)'
    <3> SUFFICES ASSUME mem[p].pc \in Forward PROVE Applying(p)'
      BY DEF Applying
    <3>1. mem[p].tx.id \in Tx /\ mem[p].db \in Databases \cup {None}
      BY <2>1 DEF Own, Applying, InstallInv, Types, Memory
    <3> QED BY <1>1, <1>2, <2>1, <3>1 DEF Own, Applying
  <2>3. Preparing(p)' /\ Ending(p)'
    BY <2>1 DEF Own, Preparing, Ending
  <2>4. Undoing(p)'
    BY <1>1, <2>1 DEF Own, Undoing
  <2>5. Holds(p)'
    BY <1>1, <2>1 DEF Own, Holds, UndoingFailed
  <2> QED BY <2>2, <2>3, <2>4, <2>5 DEF Own
<1> QED BY <1>3, <1>4, <1>5, <1>6, <1>7 DEF InstallInv, Own

LEMMA NodeKeeps == ASSUME InstallerAssumption, InstallInv, NodeStart \/ NodeStop PROVE InstallInv'
<1>1. Types
  BY DEF InstallInv
<1>2. UNCHANGED <<lease, stores, mem, pending, known, jobs, user, faults, edits>>
  BY DEF NodeStart, NodeStop, stores
<1>3. /\ node' \in {"gone", "running", "ended", "left"} /\ backups' \in BOOLEAN /\ crashes' \in Nat /\ crashes' <= MaxCrashes
  <2>1. crashes \in Nat /\ crashes <= MaxCrashes /\ MaxCrashes \in Nat /\ backups \in BOOLEAN
    BY <1>1 DEF Types, TypeOK, InstallerAssumption
  <2>2. CASE NodeStart
    BY <2>1, <2>2 DEF NodeStart
  <2>3. CASE NodeStop
    <3>1. CASE node' = "ended" /\ backups' = TRUE /\ UNCHANGED crashes
      BY <2>1, <3>1
    <3>2. CASE node' = "left" /\ crashes < MaxCrashes /\ crashes' = crashes + 1 /\ UNCHANGED backups
      BY <2>1, <3>2
    <3> QED BY <2>3, <3>1, <3>2 DEF NodeStop
  <2> QED BY <2>2, <2>3
<1>4. Types'
  <2>1. lease \in Procs \cup {Free, Stale} /\ mem \in [Procs -> Memory] /\ pending \in [Procs -> PendingRecord]
        /\ known \in [Procs -> SUBSET Tx] /\ jobs \in [Procs -> Seq(Job)] /\ \A p \in Procs : Len(jobs[p]) <= JobsKept
    BY <1>1 DEF Types, TypeOK
  <2> QED BY <1>1, <1>2, <1>3, <2>1, OutsideTypes
<1>5. Calm
  BY <1>1, <1>2 DEF Calm, Types, stores
<1>6. StoresInv' /\ \A t \in Tx : Still(t)
  BY <1>1, <1>5, CalmStill, CalmStores DEF InstallInv
<1>7. /\ UNCHANGED <<mem, pending, known, jobs, lease, journal, marker, faults>>
      /\ env' = env /\ user' = user /\ edits' = edits /\ identity' = identity
  BY <1>2 DEF stores
<1> QED BY <1>4, <1>6, <1>7, FromOutside

LEMMA ForeignInstallKeeps ==
    ASSUME InstallerAssumption, InstallInv, NEW db \in Databases, ForeignInstall(db) PROVE InstallInv'
<1>1. Types
  BY DEF InstallInv
<1>2. /\ identity[db].row = None /\ identity' = [identity EXCEPT ![db].row = Foreign]
      /\ edits < MaxEdits /\ edits' = edits + 1
      /\ UNCHANGED <<lease, journal, env, marker, mem, pending, known, jobs, node, backups, user, faults, crashes>>
  BY DEF ForeignInstall
<1>3. identity \in IdentityType /\ identity' \in IdentityType /\ None \notin Tx /\ Foreign \notin Tx
  <2>1. identity \in IdentityType
    BY <1>1 DEF Types, TypeOK, IdentityType
  <2>2. identity' \in IdentityType
    BY <1>2, <2>1 DEF IdentityType
  <2> QED BY <2>1, <2>2 DEF InstallerAssumption
<1>4. \A d \in Databases : identity'[d].nav = identity[d].nav
                           /\ identity'[d].row = IF d = db THEN Foreign ELSE identity[d].row
  BY <1>2, <1>3 DEF IdentityType
<1>5. edits' \in Nat /\ edits' <= MaxEdits /\ edits' > 0
  BY <1>1, <1>2 DEF Types, TypeOK, InstallerAssumption
<1>6. Types'
  BY <1>1, <1>2, <1>3, <1>5 DEF Types, TypeOK, IdentityType
<1>7. \A t \in Tx : Still(t)
  BY <1>1, <1>2, <1>3, <1>4 DEF Still, Quiet, Inserted, Types
<1>8. StoresInv'
  BY <1>2, <1>3, <1>4 DEF InstallInv, StoresInv
<1> QED BY <1>2, <1>3, <1>4, <1>5, <1>6, <1>7, <1>8, FromOutside

LEMMA UserEditsKeeps ==
    ASSUME InstallerAssumption, InstallInv, NEW contents \in Contents, UserEdits(contents) PROVE InstallInv'
<1>1. Types
  BY DEF InstallInv
<1>2. /\ edits < MaxEdits /\ edits' = edits + 1 /\ env' = Publish(env, contents) /\ user' = contents
      /\ UNCHANGED <<lease, journal, marker, identity, mem, pending, known, jobs, node, backups, faults, crashes>>
  BY DEF UserEdits
<1>3. contents # None /\ contents \notin Tx
  BY DEF InstallerAssumption
<1>4. env' = [file |-> contents, backup |-> env.backup]
  BY <1>2 DEF Publish, InstallInv, StoresInv, EnvGood
<1>5. edits' \in Nat /\ edits' <= MaxEdits /\ edits' > 0
  BY <1>1, <1>2 DEF Types, TypeOK, InstallerAssumption
<1>6. Types'
  <2>1. env' \in EnvType
    BY <1>1, <1>4 DEF Types, TypeOK, EnvType
  <2> QED BY <1>1, <1>2, <1>5, <2>1 DEF Types, TypeOK, EnvType
<1>7. \A t \in Tx : Still(t)
  BY <1>1, <1>2, <1>3, <1>4 DEF Still, Quiet, Inserted, Types
<1>8. StoresInv'
  <2>1. EnvGood(env', contents, marker)
    BY <1>3, <1>4 DEF InstallInv, StoresInv, EnvGood
  <2> QED BY <1>2, <2>1 DEF InstallInv, StoresInv
<1>9. env'.file \notin Tx /\ identity' = identity
  BY <1>2, <1>3, <1>4
<1> QED BY <1>2, <1>5, <1>6, <1>7, <1>8, <1>9, FromOutside
-----------------------------------------------------------------------------
(* Steps under the lease. *)

(* What is known of a process that holds the lease. *)
LEMMA Here ==
    ASSUME InstallerAssumption, InstallInv, NEW p \in Procs
    PROVE  /\ mem[p] \in Memory /\ mem[p].tx \in Transactions /\ pending[p] \in PendingRecord /\ journal \in Transactions
           /\ mem[p].db \in Databases \cup {None} /\ None \notin Databases /\ None \notin Tx
           /\ Told(journal) /\ Told(mem[p].tx) /\ Told(pending[p]) /\ (journal.id = None => journal = NoJournal)
           /\ Applying(p) /\ Preparing(p) /\ Undoing(p) /\ Ending(p) /\ Holds(p)
           /\ mem \in [Procs -> Memory] /\ pending = [pending EXCEPT ![p] = pending[p]]
           /\ faults \in Nat /\ faults <= MaxFaults /\ edits \in Nat /\ backups \in BOOLEAN /\ lease \in Procs \cup {Free, Stale}
           /\ journal.id \in Tx \cup {None} /\ mem[p].tx.id \in Tx \cup {None} /\ marker \in Tx \cup {None}
           /\ (mem[p].pc \in Inside => lease = p)
<1>1. mem[p] \in Memory /\ pending[p] \in PendingRecord /\ journal \in Transactions /\ mem \in [Procs -> Memory]
      /\ pending = [pending EXCEPT ![p] = pending[p]]
  BY DEF InstallInv, Types, TypeOK
<1>2. mem[p].tx \in Transactions /\ mem[p].db \in Databases \cup {None}
  BY <1>1 DEF Memory
<1>3. journal.id \in Tx \cup {None} /\ mem[p].tx.id \in Tx \cup {None}
  BY <1>1, <1>2 DEF Transactions
<1>4. /\ faults \in Nat /\ faults <= MaxFaults /\ edits \in Nat /\ backups \in BOOLEAN /\ lease \in Procs \cup {Free, Stale}
      /\ marker \in Tx \cup {None}
  BY DEF InstallInv, Types, TypeOK
<1>5. Told(journal) /\ Told(mem[p].tx) /\ Told(pending[p]) /\ (journal.id = None => journal = NoJournal)
  BY DEF InstallInv, Records
<1>6. Applying(p) /\ Preparing(p) /\ Undoing(p) /\ Ending(p) /\ Holds(p) /\ (mem[p].pc \in Inside => lease = p)
  BY DEF InstallInv, LeaseKept
<1> QED BY <1>1, <1>2, <1>3, <1>4, <1>5, <1>6 DEF InstallerAssumption

LEMMA Spent ==
    ASSUME InstallerAssumption, InstallInv, NEW b \in BOOLEAN, Spend(b),
           UNCHANGED <<env, identity, marker, user, edits>>
    PROVE  Calm /\ faults' <= MaxFaults /\ (b => faults' >= 1)
  BY Spending DEF InstallInv, Calm, Types

LEMMA NotSpent ==
    ASSUME InstallerAssumption, InstallInv, UNCHANGED <<env, identity, marker, user, edits, faults>>
    PROVE  Calm /\ faults' <= MaxFaults
  BY DEF InstallInv, Calm, Types, TypeOK

LEMMA ReleaseKeeps == ASSUME InstallerAssumption, InstallInv, NEW p \in Procs, Release(p) PROVE InstallInv'
<1>1. mem[p].pc = "release" /\ mem[p].pc \in Inside
  BY DEF Release, At, Inside
<1>2. UNCHANGED <<env, identity, marker, user, edits, pending, known, jobs, node, crashes, backups, journal>>
  BY DEF Release, stores, world, aside
<1>3. Calm /\ faults' <= MaxFaults
  <2>1. CASE Spend(TRUE)
    BY <1>2, <2>1, Spent
  <2>2. CASE UNCHANGED faults
    BY <1>2, <2>2, NotSpent
  <2> QED BY <2>1, <2>2 DEF Release
<1>4. ASSUME NEW err \in Errors, mem' = [mem EXCEPT ![p] = [mem[p] EXCEPT !.pc = "end", !.err = err]],
             lease' \in {lease, Free}, err = mem[p].err \/ err # "none"
      PROVE  InstallInv'
  <2> DEFINE new == [mem[p] EXCEPT !.pc = "end", !.err = err]
  <2>1. new \in Memory /\ new.pc = "end" /\ new.err = err /\ new.tx = mem[p].tx /\ new.call = mem[p].call
    BY Here DEF Memory, Outside, Errors
  <2> HIDE DEF new
  <2>2. new.err # "none" \/ new.call # "apply" \/ Achieved(p)
    BY <1>1, <1>4, <2>1 DEF Achieved
  <2> QED BY <1>1, <1>2, <1>3, <1>4, <2>1, <2>2, Here, GivesUp DEF new, Inside, Forward, BeforeEnv, BeforeIdentity, WithEnv
<1>5. mem[p].err \in Errors /\ [mem[p] EXCEPT !.pc = "end"] = [mem[p] EXCEPT !.pc = "end", !.err = mem[p].err]
  BY Here DEF Memory, Errors
<1>6. CASE lease' = Free /\ Goto(p, "end")
  BY <1>4, <1>5, <1>6 DEF Goto, Mem
<1>7. CASE /\ UNCHANGED lease
           /\ Mem(p, [mem[p] EXCEPT !.pc = "end", !.err = IF @ \in {"none", "failed"} THEN "preflight" ELSE @])
  <2> DEFINE err == IF mem[p].err \in {"none", "failed"} THEN "preflight" ELSE mem[p].err
  <2>1. err \in Errors /\ err # "none" /\ mem' = [mem EXCEPT ![p] = [mem[p] EXCEPT !.pc = "end", !.err = err]]
    BY <1>5, <1>7 DEF Mem, Errors
  <2> QED BY <1>4, <1>7, <2>1
<1> QED BY <1>6, <1>7 DEF Release
(* What a change of the journal has to respect. *)
JournalKept ==
    /\ journal' \in Transactions /\ Told(journal') /\ (journal'.id = None => journal' = NoJournal)
    /\ \A t \in Tx : journal.id = t /\ journal'.id # t /\ marker # t =>
          ~Written(env, t) /\ (faults' >= 2 \/ Nowhere(identity, t))

LEMMA JournalStays == ASSUME InstallerAssumption, InstallInv, journal' = journal PROVE JournalKept
  BY DEF JournalKept, InstallInv, Types, TypeOK, Records

LEMMA FailKeeps ==
    ASSUME InstallerAssumption, InstallInv, NEW p \in Procs, mem[p].pc \in Inside, mem[p].pc # "undo", Calm,
           faults' <= MaxFaults, NEW why \in Errors, why # "none", Fail(p, why), JournalKept,
           UNCHANGED <<lease, pending, known, jobs, node, crashes, backups>>
    PROVE  InstallInv'
<1> DEFINE new == [mem[p] EXCEPT !.pc = "release", !.err = why]
<1>1. new \in Memory /\ new.pc = "release" /\ new.err = why /\ new.tx = mem[p].tx
  BY Here DEF Memory, Inside, Errors
<1>2. mem' = [mem EXCEPT ![p] = new]
  BY DEF Fail, Mem
<1> HIDE DEF new
<1> QED BY <1>1, <1>2, Here, GivesUp DEF JournalKept

LEMMA Onward ==
    ASSUME InstallerAssumption, InstallInv, NEW p \in Procs, mem[p].pc \in Inside, mem[p].pc # "undo", Calm,
           faults' <= MaxFaults, NEW new \in Memory, mem' = [mem EXCEPT ![p] = new], new.pc \in Inside, Told(new.tx),
           UNCHANGED <<lease, pending, known, jobs, node, crashes>>, backups' \in BOOLEAN, JournalKept,
           new.pc \in {"finalize", "cleanup", "forget", "release"} => new.err # "none" \/ new.call # "apply" \/ Achieved(p),
           Applying(p)', Preparing(p)', Undoing(p)', Ending(p)'
    PROVE  InstallInv'
<1>1. mem'[p] = new
  BY Here
<1>2. Own(p)'
  BY <1>1, Here, HoldsOn DEF InstallInv, Own
<1>3. Achieved(p)' => Achieved(p)
  <2>1. new.pc # "end"
    BY DEF Inside, Forward, BeforeEnv, BeforeIdentity, WithEnv
  <2> QED BY <1>1, <2>1 DEF Achieved
<1> QED BY <1>1, <1>2, <1>3, Here, CalmStep DEF JournalKept

LEMMA CheckInstalledKeeps == ASSUME InstallerAssumption, InstallInv, NEW p \in Procs, CheckInstalled(p) PROVE InstallInv'
<1> DEFINE err == IF mem[p].call = "apply" THEN "installed" ELSE "none"
           pc == CASE node # "left" /\ journal.id = None -> "cleanup"
                   [] node # "left" /\ CompletedMatches(journal) -> "finalize"
                   [] OTHER -> "release"
           new == [mem[p] EXCEPT !.err = err, !.tx = journal, !.pc = pc]
<1>1. mem[p].pc = "check" /\ mem[p].call # "rollback" /\ marker # None /\ mem[p].pc \in Inside /\ mem' = [mem EXCEPT ![p] = new]
  BY DEF CheckInstalled, At, Inside, Mem
<1>2. UNCHANGED <<lease, env, identity, marker, user, edits, pending, known, jobs, node, crashes, backups, journal, faults>>
  BY DEF CheckInstalled, stores, world, aside
<1>3. /\ pc \in {"cleanup", "finalize", "release"} /\ (pc = "cleanup" => journal.id = None)
      /\ (pc = "finalize" => marker = journal.id)
  <2>1. journal.id = None => ~CompletedMatches(journal)
    BY <1>1 DEF CompletedMatches
  <2>2. CompletedMatches(journal) => marker = journal.id
    BY DEF CompletedMatches
  <2> QED BY <2>1, <2>2
<1>4. err \in {"installed", "none"} /\ (err # "none" \/ mem[p].call # "apply")
  OBVIOUS
<1> HIDE DEF pc, err
<1>5. new \in Memory /\ new.pc = pc /\ new.err = err /\ new.tx = journal /\ new.call = mem[p].call
  BY <1>3, <1>4, Here DEF Memory, Inside
<1> HIDE DEF new
<1>6. mem'[p] = new
  BY <1>1, Here
<1>7. Applying(p)' /\ Preparing(p)' /\ Undoing(p)'
  BY <1>3, <1>5, <1>6 DEF Applying, Preparing, Undoing, Forward, BeforeEnv, BeforeIdentity, WithEnv
<1>8. Ending(p)'
  BY <1>1, <1>2, <1>3, <1>5, <1>6 DEF Ending
<1>9. new.pc \in Inside /\ Told(new.tx)
  BY <1>3, <1>5, Here DEF Inside
<1> QED BY <1>1, <1>2, <1>4, <1>5, <1>7, <1>8, <1>9, Here, JournalStays, NotSpent, Onward

LEMMA LoadJournalKeeps == ASSUME InstallerAssumption, InstallInv, NEW p \in Procs, LoadJournal(p) PROVE InstallInv'
<1>1. /\ mem[p].pc = "check" /\ mem[p].pc \in Inside /\ mem[p].call = "apply" /\ marker = None /\ mem[p].tx = NoJournal
      /\ mem[p].db # None /\ mem[p].err = "none"
  BY Here DEF LoadJournal, At, Inside, Preparing
<1>2. UNCHANGED <<lease, env, identity, marker, user, edits, pending, known, jobs, node, crashes, backups>>
  BY DEF LoadJournal, world, aside
<1>3. ASSUME NEW new \in Memory, mem' = [mem EXCEPT ![p] = new], new.pc = "plan", new.tx = journal', new.call = "apply",
             new.err = "none", new.db = mem[p].db, Calm, faults' <= MaxFaults, JournalKept,
             journal'.id # None => journal'.db = mem[p].db
      PROVE  InstallInv'
  <2>2. mem'[p] = new
    BY <1>3, Here
  <2>3. Preparing(p)'
    BY <1>1, <1>2, <1>3, <2>2 DEF Preparing
  <2>4. Applying(p)' /\ Undoing(p)' /\ Ending(p)'
    BY <1>3, <2>2 DEF Applying, Undoing, Ending, Forward, BeforeEnv, BeforeIdentity, WithEnv
  <2>5. new.pc \in Inside /\ Told(new.tx)
    BY <1>3 DEF Inside, JournalKept
  <2> QED BY <1>1, <1>2, <1>3, <2>3, <2>4, <2>5, Here, Onward
<1>4. CASE journal.id # None /\ SideEffectFree(journal)
  <2>1. PICK o \in JournalRemove(journal, journal.id, NoJournal) :
           Spend(o.fault) /\ journal' = o.now /\ IF o.err THEN Fail(p, "busy") ELSE Goto(p, "plan")
    BY <1>4 DEF LoadJournal
  <2>2. /\ Outcome(o) /\ (o.now = journal \/ o.now = NoJournal)
        /\ ~o.err => o.now = NoJournal
    BY <1>4, JournalRemoved
  <2>3. Calm /\ faults' <= MaxFaults
    BY <1>2, <2>1, <2>2, Spent DEF Outcome
  <2>4. JournalKept
    <3>1. ~journal.identity /\ ~journal.intent
      BY <1>4 DEF SideEffectFree
    <3>2. ~Written(env, journal.id) /\ (faults >= 2 \/ Nowhere(identity, journal.id))
      BY <1>4, <3>1, Here DEF Told, Tells
    <3>3. faults >= 2 => faults' >= 2
      BY <2>3, Here DEF Calm
    <3> QED BY <2>1, <2>2, <3>2, <3>3, Here, NoTransaction, NothingTold DEF JournalKept, Told
  <2>5. CASE o.err
    BY <1>1, <1>2, <2>1, <2>3, <2>4, <2>5, FailKeeps DEF Errors
  <2>6. CASE ~o.err
    <3> DEFINE new == [mem[p] EXCEPT !.pc = "plan"]
    <3>1. mem' = [mem EXCEPT ![p] = new]
      BY <2>1, <2>6 DEF Goto, Mem
    <3>2. new \in Memory /\ new.pc = "plan" /\ new.tx = NoJournal /\ new.call = "apply" /\ new.err = "none" /\ new.db = mem[p].db
      BY <1>1, Here DEF Memory, Inside
    <3> HIDE DEF new
    <3> QED BY <1>3, <2>1, <2>2, <2>3, <2>4, <2>6, <3>1, <3>2, NoTransaction
  <2> QED BY <2>5, <2>6
<1>5. CASE ~(journal.id # None /\ SideEffectFree(journal))
  <2>1. UNCHANGED <<journal, faults>>
    BY <1>5 DEF LoadJournal
  <2>2. Calm /\ faults' <= MaxFaults /\ JournalKept
    BY <1>2, <2>1, NotSpent, JournalStays
  <2>3. \/ Fail(p, "busy") \/ Fail(p, "preflight")
        \/ /\ mem' = [mem EXCEPT ![p] = [mem[p] EXCEPT !.pc = "plan", !.tx = journal]]
           /\ ~OtherTarget(journal, mem[p].db)
    BY <1>5 DEF LoadJournal, Mem
  <2>4. CASE Fail(p, "busy") \/ Fail(p, "preflight")
    BY <1>1, <1>2, <2>2, <2>4, FailKeeps DEF Errors
  <2>5. CASE /\ mem' = [mem EXCEPT ![p] = [mem[p] EXCEPT !.pc = "plan", !.tx = journal]]
             /\ ~OtherTarget(journal, mem[p].db)
    <3> DEFINE new == [mem[p] EXCEPT !.pc = "plan", !.tx = journal]
    <3>1. new \in Memory /\ new.pc = "plan" /\ new.tx = journal /\ new.call = "apply" /\ new.err = "none" /\ new.db = mem[p].db
      BY <1>1, Here DEF Memory, Inside
    <3>2. mem' = [mem EXCEPT ![p] = new]
      BY <2>5
    <3> HIDE DEF new
    <3> QED BY <1>3, <2>1, <2>2, <2>5, <3>1, <3>2 DEF OtherTarget
  <2> QED BY <2>3, <2>4, <2>5
<1> QED BY <1>4, <1>5
(* The lists of what is to be taken back. *)
LEMMA Lists ==
    /\ ToSet(<<>>) = {} /\ \A x : ToSet(<<x>>) = {x}
    /\ \A x \in Words : <<x>> \in Seq(Words)
    /\ <<>> \in Seq(Words)
  BY DEF ToSet

LEMMA Concatenated ==
    ASSUME NEW s \in Seq(Words), NEW r \in Seq(Words)
    PROVE  s \o r \in Seq(Words) /\ ToSet(s \o r) = ToSet(s) \cup ToSet(r)
<1> DEFINE c == s \o r
<1>1. c \in Seq(Words) /\ Len(c) = Len(s) + Len(r)
      /\ \A i \in 1 .. Len(s) + Len(r) : c[i] = IF i <= Len(s) THEN s[i] ELSE r[i - Len(s)]
  OBVIOUS
<1>2. DOMAIN c = 1 .. Len(s) + Len(r) /\ DOMAIN s = 1 .. Len(s) /\ DOMAIN r = 1 .. Len(r) /\ Len(s) \in Nat /\ Len(r) \in Nat
  BY <1>1, LenProperties
<1> HIDE DEF c
<1>3. ASSUME NEW i \in DOMAIN c PROVE c[i] \in ToSet(s) \cup ToSet(r)
  <2>1. CASE i <= Len(s)
    BY <1>1, <1>2, <2>1 DEF ToSet
  <2>2. CASE ~(i <= Len(s))
    <3>1. i - Len(s) \in DOMAIN r /\ c[i] = r[i - Len(s)]
      BY <1>1, <1>2, <2>2
    <3> QED BY <3>1 DEF ToSet
  <2> QED BY <2>1, <2>2
<1>4. ASSUME NEW i \in DOMAIN s PROVE s[i] \in ToSet(c)
  <2>1. i \in DOMAIN c /\ c[i] = s[i]
    BY <1>1, <1>2
  <2> QED BY <2>1 DEF ToSet
<1>5. ASSUME NEW i \in DOMAIN r PROVE r[i] \in ToSet(c)
  <2>1. i + Len(s) \in DOMAIN c /\ c[i + Len(s)] = r[i]
    BY <1>1, <1>2
  <2> QED BY <2>1 DEF ToSet
<1>6. ToSet(c) = ToSet(s) \cup ToSet(r)
  BY <1>3, <1>4, <1>5 DEF ToSet
<1> QED BY <1>1, <1>6 DEF c

LEMMA UndoEnvList ==
    ASSUME NEW tx \in Transactions
    PROVE  /\ UndoEnv(tx) \in Seq(Words)
           /\ ToSet(UndoEnv(tx)) = IF tx.env # NoReceipt THEN {"env"} ELSE IF tx.intent THEN {"prepared"} ELSE {}
<1>1. UndoEnv(tx) = IF tx.env # NoReceipt THEN <<"env">> ELSE IF tx.intent THEN <<"prepared">> ELSE <<>>
  BY DEF UndoEnv
<1> QED BY <1>1, Lists DEF Words

LEMMA RecoverLists ==
    ASSUME NEW tx \in Transactions
    PROVE  /\ RecoverList(tx) \in Seq(Words)
           /\ ToSet(RecoverList(tx)) =
                  (IF tx.marker THEN {"marker"} ELSE {})
                  \cup (IF tx.env # NoReceipt THEN {"env"} ELSE IF tx.intent THEN {"prepared"} ELSE {})
                  \cup (IF tx.identity THEN {"recover"} ELSE {})
<1> DEFINE a == IF tx.marker THEN <<"marker">> ELSE <<>>
           c == IF tx.identity THEN <<"recover">> ELSE <<>>
<1>1. a \in Seq(Words) /\ ToSet(a) = IF tx.marker THEN {"marker"} ELSE {}
  BY Lists DEF Words
<1>2. c \in Seq(Words) /\ ToSet(c) = IF tx.identity THEN {"recover"} ELSE {}
  BY Lists DEF Words
<1>3. UndoEnv(tx) \in Seq(Words)
      /\ ToSet(UndoEnv(tx)) = IF tx.env # NoReceipt THEN {"env"} ELSE IF tx.intent THEN {"prepared"} ELSE {}
  BY UndoEnvList
<1>4. RecoverList(tx) = (a \o UndoEnv(tx)) \o c
  BY DEF RecoverList
<1> HIDE DEF a, c
<1>5. a \o UndoEnv(tx) \in Seq(Words) /\ ToSet(a \o UndoEnv(tx)) = ToSet(a) \cup ToSet(UndoEnv(tx))
  BY <1>1, <1>3, Concatenated
<1>6. RecoverList(tx) \in Seq(Words) /\ ToSet(RecoverList(tx)) = (ToSet(a) \cup ToSet(UndoEnv(tx))) \cup ToSet(c)
  BY <1>2, <1>4, <1>5, Concatenated
<1> QED BY <1>1, <1>2, <1>3, <1>6

(* Those of a rollback take the marker away at the end. *)
RollbackList(tx) ==
    UndoEnv(tx) \o (IF tx.identity THEN <<"identity">> ELSE <<>>) \o (IF tx.marker THEN <<"marker">> ELSE <<>>)
LEMMA RollbackLists ==
    ASSUME NEW tx \in Transactions
    PROVE  /\ RollbackList(tx) \in Seq(Words)
           /\ ToSet(RollbackList(tx)) =
                  (IF tx.env # NoReceipt THEN {"env"} ELSE IF tx.intent THEN {"prepared"} ELSE {})
                  \cup (IF tx.identity THEN {"identity"} ELSE {}) \cup (IF tx.marker THEN {"marker"} ELSE {})
           /\ \A i \in DOMAIN RollbackList(tx) : RollbackList(tx)[i] = "marker" => i = Len(RollbackList(tx))
<1> DEFINE b == IF tx.identity THEN <<"identity">> ELSE <<>>
           c == IF tx.marker THEN <<"marker">> ELSE <<>>
           s == UndoEnv(tx) \o b
<1>1. b \in Seq(Words) /\ ToSet(b) = IF tx.identity THEN {"identity"} ELSE {}
  BY Lists DEF Words
<1>2. c \in Seq(Words) /\ ToSet(c) = (IF tx.marker THEN {"marker"} ELSE {}) /\ Len(c) \in {0, 1}
  BY Lists DEF Words
<1>3. UndoEnv(tx) \in Seq(Words)
      /\ ToSet(UndoEnv(tx)) = IF tx.env # NoReceipt THEN {"env"} ELSE IF tx.intent THEN {"prepared"} ELSE {}
  BY UndoEnvList
<1>4. RollbackList(tx) = s \o c
  BY DEF RollbackList
<1> HIDE DEF b, c
<1>5. s \in Seq(Words) /\ "marker" \notin ToSet(s)
      /\ ToSet(s) = (IF tx.env # NoReceipt THEN {"env"} ELSE IF tx.intent THEN {"prepared"} ELSE {})
                    \cup (IF tx.identity THEN {"identity"} ELSE {})
  BY <1>1, <1>3, Concatenated
<1> HIDE DEF s
<1>6. RollbackList(tx) \in Seq(Words) /\ ToSet(RollbackList(tx)) = ToSet(s) \cup ToSet(c)
  BY <1>2, <1>4, <1>5, Concatenated
<1>7. ASSUME NEW i \in DOMAIN RollbackList(tx), RollbackList(tx)[i] = "marker" PROVE i = Len(RollbackList(tx))
  <2>1. Len(s \o c) = Len(s) + Len(c) /\ DOMAIN (s \o c) = 1 .. Len(s) + Len(c) /\ Len(s) \in Nat /\ DOMAIN s = 1 .. Len(s)
    BY <1>2, <1>5, LenProperties
  <2>2. i <= Len(s) => (s \o c)[i] = s[i] /\ s[i] \in ToSet(s)
    BY <1>2, <1>4, <1>5, <1>7, <2>1 DEF ToSet
  <2> QED BY <1>2, <1>4, <1>5, <1>7, <2>1, <2>2
<1> QED BY <1>2, <1>5, <1>6, <1>7
LEMMA PreflightKeeps == ASSUME InstallerAssumption, InstallInv, NEW p \in Procs, Preflight(p) PROVE InstallInv'
<1>1. /\ mem[p].pc = "plan" /\ mem[p].pc \in Inside /\ mem[p].call = "apply" /\ mem[p].err = "none" /\ marker = None
      /\ mem[p].tx = journal /\ mem[p].db # None /\ (journal.id # None => journal.db = mem[p].db)
  BY Here DEF Preflight, At, Inside, Preparing
<1>2. /\ UNCHANGED <<lease, env, identity, marker, user, edits, pending, known, jobs, node, crashes, backups>>
      /\ journal' = journal
  BY DEF Preflight, stores, world, aside
<1>3. JournalKept
  BY <1>2, JournalStays
<1>4. CASE Fail(p, "preflight")
  <2>1. Calm /\ faults' <= MaxFaults
    BY <1>2, Spent, NotSpent DEF Preflight
  <2> QED BY <1>1, <1>2, <1>3, <1>4, <2>1, FailKeeps DEF Errors
<1>5. CASE UNCHANGED faults /\ mem[p].tx.id = None /\ Goto(p, "create")
  <2> DEFINE new == [mem[p] EXCEPT !.pc = "create"]
  <2>1. /\ new \in Memory /\ new.pc = "create" /\ new.tx = mem[p].tx /\ new.call = "apply" /\ new.err = "none"
        /\ new.db = mem[p].db
    BY <1>1, Here DEF Memory, Inside
  <2>2. mem' = [mem EXCEPT ![p] = new]
    BY <1>5 DEF Goto, Mem
  <2> HIDE DEF new
  <2>3. mem'[p] = new
    BY <2>2, Here
  <2>4. Preparing(p)'
    BY <1>1, <1>2, <1>5, <2>1, <2>3 DEF Preparing
  <2>5. Applying(p)' /\ Undoing(p)' /\ Ending(p)'
    BY <2>1, <2>3 DEF Applying, Undoing, Ending, Forward, BeforeEnv, BeforeIdentity, WithEnv
  <2>6. Calm /\ faults' <= MaxFaults
    BY <1>2, <1>5, NotSpent
  <2>7. new.pc \in Inside /\ Told(new.tx)
    BY <2>1, Here DEF Inside
  <2> QED BY <1>1, <1>2, <1>3, <2>1, <2>2, <2>4, <2>5, <2>6, <2>7, Here, Onward
<1>6. CASE /\ UNCHANGED faults /\ mem[p].tx.id # None
           /\ Mem(p, [mem[p] EXCEPT !.pc = "undo", !.then = "recover", !.todo = RecoverList(mem[p].tx)])
  <2> DEFINE list == RecoverList(mem[p].tx)
             new == [mem[p] EXCEPT !.pc = "undo", !.then = "recover", !.todo = list]
  <2>1. list \in Seq(Words) /\ ToSet(list) = (IF journal.marker THEN {"marker"} ELSE {})
          \cup (IF journal.env # NoReceipt THEN {"env"} ELSE IF journal.intent THEN {"prepared"} ELSE {})
          \cup (IF journal.identity THEN {"recover"} ELSE {})
    BY <1>1, Here, RecoverLists
  <2>2. mem' = [mem EXCEPT ![p] = new]
    BY <1>6 DEF Mem
  <2> HIDE DEF list
  <2>3. /\ new \in Memory /\ new.pc = "undo" /\ new.tx = journal /\ new.call = "apply" /\ new.err = "none"
        /\ new.db = mem[p].db /\ new.todo = list /\ new.then = "recover"
    <3>1. mem[p] \in Memory /\ list \in Seq(Words)
      BY <2>1, Here
    <3> QED BY <1>1, <3>1 DEF Memory, Inside
  <2> HIDE DEF new
  <2>4. mem'[p] = new
    BY <2>2, Here
  <2>5. Undoing(p)'
    <3>1. /\ ToSet(list) \cap {"env", "prepared"} = {} => ~journal.intent /\ journal.env = NoReceipt
          /\ ToSet(list) \cap {"identity", "recover"} = {} => ~journal.identity
          /\ "env" \in ToSet(list) => journal.env # NoReceipt
          /\ "identity" \notin ToSet(list)
      BY <2>1
    <3>2. /\ ~journal.intent => ~Written(env, journal.id)
          /\ ~journal.identity => faults >= 2 \/ Nowhere(identity, journal.id)
      BY <1>1, <1>6, Here DEF Told, Tells
    <3> QED BY <1>1, <1>2, <1>6, <2>3, <2>4, <3>1, <3>2 DEF Undoing
  <2>6. Applying(p)' /\ Preparing(p)' /\ Ending(p)'
    BY <2>3, <2>4 DEF Applying, Preparing, Ending, Forward, BeforeEnv, BeforeIdentity, WithEnv
  <2>7. Calm /\ faults' <= MaxFaults
    BY <1>2, <1>6, NotSpent
  <2>8. new.pc \in Inside /\ Told(new.tx)
    BY <2>3, Here DEF Inside
  <2> QED BY <1>1, <1>2, <1>3, <2>2, <2>3, <2>5, <2>6, <2>7, <2>8, Here, Onward
<1> QED BY <1>4, <1>5, <1>6 DEF Preflight

LEMMA BeginRollbackKeeps == ASSUME InstallerAssumption, InstallInv, NEW p \in Procs, BeginRollback(p) PROVE InstallInv'
<1>1. mem[p].pc = "check" /\ mem[p].pc \in Inside /\ mem[p].call = "rollback" /\ pending[p].id # None
  BY Here DEF BeginRollback, At, Inside, Preparing
<1>2. /\ UNCHANGED <<lease, env, identity, marker, user, edits, pending, known, jobs, node, crashes, backups, faults>>
      /\ journal' = journal
  BY DEF BeginRollback, stores, world, aside
<1> DEFINE q == pending[p]
           tx == [NewTransaction(q.id, q.db) EXCEPT
                     !.identity = q.identity, !.intent = q.intent, !.env = q.env, !.marker = q.marker]
           list == RollbackList(tx)
           new == [mem[p] EXCEPT !.pc = "undo", !.then = "rollback", !.tx = tx, !.todo = list]
<1>3. /\ tx \in Transactions /\ tx.id = q.id /\ tx.db = q.db /\ tx.identity = q.identity /\ tx.intent = q.intent
      /\ tx.env = q.env /\ tx.marker = q.marker /\ tx.phase = "applying"
  <2>1. q \in PendingRecord
    BY Here
  <2>2. NewTransaction(q.id, q.db) \in Transactions /\ NewTransaction(q.id, q.db).id = q.id
        /\ NewTransaction(q.id, q.db).db = q.db /\ NewTransaction(q.id, q.db).phase = "applying"
    BY <2>1 DEF NewTransaction, NoReceipt, Transactions, Receipts, PendingRecord
  <2> QED BY <2>1, <2>2 DEF Transactions, PendingRecord
<1>4. OfTx(tx) = q
  BY <1>3, Here DEF OfTx, PendingRecord
<1>5. mem' = [mem EXCEPT ![p] = new]
  BY DEF BeginRollback, Mem, RollbackList
<1> HIDE DEF tx
<1>6. /\ list \in Seq(Words)
      /\ ToSet(list) = (IF q.env # NoReceipt THEN {"env"} ELSE IF q.intent THEN {"prepared"} ELSE {})
                       \cup (IF q.identity THEN {"identity"} ELSE {}) \cup (IF q.marker THEN {"marker"} ELSE {})
      /\ \A i \in DOMAIN list : list[i] = "marker" => i = Len(list)
  BY <1>3, RollbackLists
<1> HIDE DEF list
<1>7. new \in Memory /\ new.pc = "undo" /\ new.tx = tx /\ new.call = "rollback" /\ new.todo = list /\ new.then = "rollback"
  <2>1. mem[p] \in Memory /\ list \in Seq(Words) /\ tx \in Transactions
    BY <1>3, <1>6, Here
  <2> QED BY <1>1, <2>1 DEF Memory, Inside
<1> HIDE DEF new
<1>8. mem'[p] = new
  BY <1>5, Here
<1>9. Told(tx)
  BY <1>3, Here DEF Told, Tells
<1>10. Undoing(p)'
  <2>1. /\ ToSet(list) \cap {"env", "prepared"} = {} => ~q.intent
        /\ ToSet(list) \cap {"identity", "recover"} = {} => ~q.identity
        /\ "marker" \notin ToSet(list) => ~q.marker
        /\ "env" \in ToSet(list) => q.env # NoReceipt
        /\ "prepared" \in ToSet(list) => q.env = NoReceipt
        /\ "recover" \notin ToSet(list)
    BY <1>6
  <2>2. /\ ~q.intent => ~Written(env, q.id)
        /\ ~q.identity => faults >= 2 \/ Nowhere(identity, q.id)
        /\ ~q.marker => marker # q.id
        /\ q.env = NoReceipt => ~q.marker
    BY <1>1, Here DEF Told, Tells
  <2>3. q.id \in known[p] \/ faults >= 2 \/ Nowhere(identity, q.id)
    BY <1>1, Here DEF Holds, UndoingFailed
  <2>4. DOMAIN new.todo = DOMAIN list
    BY <1>7
  <2> QED BY <1>1, <1>2, <1>3, <1>4, <1>6, <1>7, <1>8, <2>1, <2>2, <2>3, <2>4 DEF Undoing
<1>11. Applying(p)' /\ Preparing(p)' /\ Ending(p)'
  BY <1>7, <1>8 DEF Applying, Preparing, Ending, Forward, BeforeEnv, BeforeIdentity, WithEnv
<1>12. Calm /\ faults' <= MaxFaults /\ JournalKept
  BY <1>2, NotSpent, JournalStays
<1>13. new.pc \in Inside /\ Told(new.tx)
  BY <1>7, <1>9 DEF Inside
<1> QED BY <1>1, <1>2, <1>5, <1>7, <1>10, <1>11, <1>12, <1>13, Here, Onward
(* A fresh id has done nothing, and nobody holds it. *)
LEMMA Fresh ==
    ASSUME InstallerAssumption, InstallInv, NEW t \in Tx \ Mentioned
    PROVE  /\ ~Written(env, t) /\ Nowhere(identity, t) /\ marker # t /\ journal.id # t
           /\ \A q \in Procs : pending[q].id # t /\ mem[q].tx.id # t /\ t \notin known[q]
<1>1. t # journal.id /\ t # env.file /\ t # marker /\ env.backup[t] = None
  BY DEF Mentioned
<1>2. \A q \in Procs : pending[q].id # t /\ mem[q].tx.id # t /\ t \notin known[q]
  BY DEF Mentioned
<1>3. \A d \in Databases : identity[d].row # t /\ identity[d].nav # t
  <2>1. \A d \in Databases : identity[d].row # t
    BY DEF Mentioned
  <2> QED BY <2>1 DEF InstallInv, StoresInv
<1> QED BY <1>1, <1>2, <1>3 DEF Written, Nowhere, Inserted

LEMMA CreateTransactionKeeps ==
    ASSUME InstallerAssumption, InstallInv, NEW p \in Procs, CreateTransaction(p) PROVE InstallInv'
<1>1. /\ mem[p].pc = "create" /\ mem[p].pc \in Inside /\ mem[p].call = "apply" /\ mem[p].err = "none" /\ marker = None
      /\ journal.id = None /\ mem[p].db # None /\ mem[p].db \in Databases
  BY Here DEF CreateTransaction, At, Inside, Preparing
<1>2. UNCHANGED <<lease, env, identity, marker, user, edits, pending, known, jobs, node, crashes, backups>>
  BY DEF CreateTransaction, world, aside
<1> DEFINE t == CHOOSE x \in Tx : x \notin Mentioned
           tx == NewTransaction(t, mem[p].db)
<1>3. t \in Tx \ Mentioned
  BY DEF CreateTransaction
<1>4. PICK o \in JournalCreate(journal, tx) :
         /\ Spend(o.fault) /\ journal' = o.now
         /\ IF o.err THEN Fail(p, IF o.fault THEN "failed" ELSE "busy")
            ELSE Mem(p, [mem[p] EXCEPT !.pc = "schema", !.tx = tx])
  BY DEF CreateTransaction
<1> HIDE DEF t
<1>5. tx = [id |-> t, db |-> mem[p].db, phase |-> "applying", step |-> "schema", done |-> 3, identity |-> FALSE,
            intent |-> FALSE, env |-> "none", marker |-> FALSE]
  BY DEF NewTransaction, NoReceipt
<1> HIDE DEF tx
<1>6. tx \in Transactions
  BY <1>1, <1>3, <1>5 DEF Transactions, Receipts, NoReceipt
<1>7. Told(tx) /\ tx.id # None
  BY <1>1, <1>3, <1>5, Fresh, Here DEF Told, Tells, ReceiptOf, NoReceipt, Nowhere
<1>8. Outcome(o) /\ (o.now = journal \/ o.now = tx) /\ (~o.err => o.now = tx)
  BY JournalCreated
<1>9. Calm /\ faults' <= MaxFaults
  BY <1>2, <1>4, <1>8, Spent DEF Outcome
<1>10. JournalKept
  BY <1>1, <1>4, <1>6, <1>7, <1>8, Here DEF JournalKept
<1>11. CASE o.err
  BY <1>1, <1>2, <1>4, <1>9, <1>10, <1>11, FailKeeps DEF Errors
<1>12. CASE ~o.err
  <2> DEFINE new == [mem[p] EXCEPT !.pc = "schema", !.tx = tx]
  <2>1. mem' = [mem EXCEPT ![p] = new] /\ journal' = tx
    BY <1>4, <1>8, <1>12 DEF Mem
  <2>2. /\ new \in Memory /\ new.pc = "schema" /\ new.tx = tx /\ new.call = "apply" /\ new.err = "none"
        /\ new.db = mem[p].db
    <3>1. mem[p] \in Memory
      BY Here
    <3> QED BY <1>1, <1>6, <3>1 DEF Memory, Inside, Forward, BeforeEnv, BeforeIdentity
  <2> HIDE DEF new
  <2>3. mem'[p] = new
    BY <2>1, Here
  <2>4. Applying(p)'
    <3>1. Stage("schema", tx)
      BY <1>5 DEF Stage, NoReceipt, WithEnv
    <3>2. \A q \in Procs \ {p} : mem'[q] = mem[q] /\ pending'[q] = pending[q] /\ known'[q] = known[q]
      BY <1>2, <2>1, Here
    <3>3. Nowhere(identity', t) /\ ~Written(env', t)
      BY <1>2, <1>3, Fresh
    <3>4. \A q \in Procs \ {p} : pending'[q].id # t /\ mem'[q].tx.id # t /\ t \notin known'[q]
      BY <1>3, <3>2, Fresh
    <3>5. tx.id = t /\ tx.db = mem[p].db
      BY <1>5
    <3> QED BY <1>1, <1>2, <1>7, <2>1, <2>2, <2>3, <3>1, <3>3, <3>4, <3>5 DEF Applying, WithIdentity, WithEnv
  <2>5. Preparing(p)' /\ Undoing(p)' /\ Ending(p)'
    BY <2>2, <2>3 DEF Preparing, Undoing, Ending
  <2>6. new.pc \in Inside /\ Told(new.tx)
    BY <1>7, <2>2 DEF Inside, Forward, BeforeEnv, BeforeIdentity
  <2> QED BY <1>1, <1>2, <1>9, <1>10, <2>1, <2>2, <2>4, <2>5, <2>6, Here, Onward
<1> QED BY <1>11, <1>12
-----------------------------------------------------------------------------
(* Forward: the journal first. *)

LEMMA ToldOf == ASSUME NEW x, Told(x) PROVE Told(OfTx(x)) /\ OfTx(x).id = x.id
  BY DEF OfTx, Told, Tells

LEMMA OfTxType == ASSUME NEW x \in Transactions PROVE OfTx(x) \in PendingRecord
  BY DEF OfTx, Transactions, PendingRecord

(* A process on its way forward. *)
LEMMA Underway ==
    ASSUME InstallerAssumption, InstallInv, NEW p \in Procs, mem[p].pc \in Forward
    PROVE  /\ mem[p].call = "apply" /\ mem[p].err = "none" /\ marker = None /\ mem[p].tx.id # None /\ mem[p].db # None
           /\ journal.id = mem[p].tx.id /\ mem[p].tx.db = mem[p].db /\ mem[p].pc \in Inside /\ mem[p].pc # "undo"
<1>1. Applying(p) /\ mem[p].tx \in Transactions
  BY Here
<1>2. /\ mem[p].call = "apply" /\ mem[p].err = "none" /\ marker = None /\ mem[p].tx.id # None /\ mem[p].db # None
      /\ mem[p].tx.db = mem[p].db
      /\ journal = IF mem[p].pc = "advance_lock" THEN [mem[p].tx EXCEPT !.env = NoReceipt] ELSE mem[p].tx
  BY <1>1 DEF Applying
<1>3. [mem[p].tx EXCEPT !.env = NoReceipt].id = mem[p].tx.id
  BY <1>1 DEF Transactions
<1>4. mem[p].pc \in Inside /\ mem[p].pc # "undo"
  BY DEF Inside, Forward, BeforeEnv, BeforeIdentity, WithEnv
<1> QED BY <1>2, <1>3, <1>4

LEMMA SamePending ==
    ASSUME NEW a \in PendingRecord, NEW b \in PendingRecord, a.id = b.id, a.db = b.db, a.identity <=> b.identity,
           a.intent <=> b.intent, a.env = b.env, a.marker <=> b.marker
    PROVE  a = b
  BY DEF PendingRecord

LEMMA Forwards ==
    ASSUME InstallerAssumption, InstallInv, NEW p \in Procs, mem[p].pc \in Forward, Calm, faults' <= MaxFaults,
           NEW tx \in Transactions, tx.id = mem[p].tx.id, tx.db = mem[p].db, Told(tx), journal' = tx,
           NEW pc \in Forward, Mem(p, [mem[p] EXCEPT !.pc = pc, !.tx = tx]), Stage(pc, tx),
           pending' = [pending EXCEPT ![p] = OfTx(tx)], UNCHANGED <<lease, known, jobs, node, crashes, backups>>,
           pc # "advance_lock", pc \in BeforeIdentity => mem[p].pc \in BeforeIdentity,
           pc \in BeforeEnv => mem[p].pc \in BeforeEnv, pc \in WithIdentity => mem[p].pc \in WithIdentity,
           pc \in WithEnv => mem[p].pc \in WithEnv
    PROVE  InstallInv'
<1> DEFINE new == [mem[p] EXCEPT !.pc = pc, !.tx = tx]
<1>1. /\ mem[p].call = "apply" /\ mem[p].err = "none" /\ marker = None /\ mem[p].tx.id # None /\ mem[p].db # None
      /\ journal.id = mem[p].tx.id /\ mem[p].pc \in Inside
  BY Underway
<1>2. /\ new \in Memory /\ new.pc = pc /\ new.tx = tx /\ new.call = "apply" /\ new.err = "none" /\ new.db = mem[p].db
  <2>1. mem[p] \in Memory
    BY Here
  <2> QED BY <1>1, <2>1 DEF Memory, Inside
<1>3. mem' = [mem EXCEPT ![p] = new]
  BY DEF Mem
<1> HIDE DEF new
<1>4. mem'[p] = new /\ pending'[p] = OfTx(tx) /\ OfTx(tx) \in PendingRecord /\ Told(OfTx(tx)) /\ OfTx(tx).id = tx.id
  BY <1>3, Here, ToldOf, OfTxType DEF InstallInv, Types
<1>5. UNCHANGED <<env, identity, marker, user, edits>>
  BY DEF Calm
<1>6. Applying(p)'
  <2>1. \A q \in Procs \ {p} : mem'[q] = mem[q] /\ pending'[q] = pending[q] /\ known'[q] = known[q]
    BY <1>3, Here DEF InstallInv, Types
  <2>2. \A q \in Procs \ {p} : pending'[q].id # tx.id /\ mem'[q].tx.id # tx.id /\ tx.id \notin known'[q]
    BY <2>1, Here DEF Applying
  <2>3. /\ pc \in BeforeIdentity => Nowhere(identity', tx.id)
        /\ pc \in BeforeEnv => ~Written(env', tx.id)
        /\ pc \in WithIdentity => identity'[new.db].row = tx.id /\ tx.id \in known'[p]
        /\ pc \in WithEnv => env'.file = tx.id \/ edits' > 0
    BY <1>2, <1>5, Here DEF Applying
  <2> QED BY <1>1, <1>2, <1>4, <1>5, <2>2, <2>3 DEF Applying
<1>7. Preparing(p)' /\ Undoing(p)' /\ Ending(p)'
  BY <1>2, <1>4 DEF Preparing, Undoing, Ending, Forward, BeforeEnv, BeforeIdentity, WithEnv
<1>8. Holds(p)'
  <2>1. Nowhere(identity', tx.id) \/ tx.id \in known'[p]
    <3>1. mem[p].pc \in BeforeIdentity \/ mem[p].pc \in WithIdentity
      BY DEF Forward, BeforeEnv, WithIdentity
    <3> QED BY <1>5, <3>1, Here DEF Applying
  <2> QED BY <1>1, <1>4, <1>5, <2>1 DEF Holds
<1>9. Own(p)'
  BY <1>6, <1>7, <1>8 DEF Own
<1>10. ~Achieved(p)' \/ Achieved(p)
  <2>1. pc \notin {"finalize", "cleanup", "forget", "release", "end"}
    BY DEF Forward, BeforeEnv, BeforeIdentity, WithEnv
  <2> QED BY <1>2, <1>4, <2>1 DEF Achieved
<1>11. new.pc \in Inside /\ Told(new.tx)
  BY <1>2 DEF Inside
<1> QED BY <1>1, <1>2, <1>3, <1>4, <1>9, <1>10, <1>11, Here, CalmStep

(* An error: what todo lists is to be taken back. *)
LEMMA Fails ==
    ASSUME InstallerAssumption, InstallInv, NEW p \in Procs, mem[p].pc \in Forward, Calm, faults' <= MaxFaults,
           NEW tx \in Transactions, tx.id = mem[p].tx.id, tx.db = mem[p].db, Told(tx), journal' \in {journal, tx},
           NEW todo, FailWith(p, tx, todo), NEW held \in PendingRecord, Told(held), held.id \in {None, pending[p].id},
           pending' = [pending EXCEPT ![p] = held], UNCHANGED <<lease, known, jobs, node, crashes, backups>>,
           \/ todo = <<>> /\ mem[p].pc \in BeforeIdentity
           \/ todo = <<"identity">> /\ mem[p].pc \in BeforeEnv /\ mem[p].pc \in WithIdentity
           \/ todo = <<"env", "identity">> /\ mem[p].pc \in WithIdentity /\ tx.env # NoReceipt
    PROVE  InstallInv'
<1> DEFINE new == [mem[p] EXCEPT !.pc = "undo", !.then = "fail", !.tx = tx, !.todo = todo, !.bad = FALSE]
<1>1. /\ mem[p].call = "apply" /\ mem[p].err = "none" /\ marker = None /\ mem[p].tx.id # None
      /\ journal.id = mem[p].tx.id /\ mem[p].pc \in Inside /\ mem[p].pc # "undo"
  BY Underway
<1>2. /\ todo \in Seq(Words)
      /\ ToSet(todo) = IF todo = <<>> THEN {} ELSE IF todo = <<"identity">> THEN {"identity"} ELSE {"env", "identity"}
  <2>1. ToSet(<<>>) = {} /\ ToSet(<<"identity">>) = {"identity"} /\ ToSet(<<"env", "identity">>) = {"env", "identity"}
    BY DEF ToSet
  <2>2. {<<>>, <<"identity">>, <<"env", "identity">>} \subseteq Seq(Words)
    BY DEF Words
  <2>3. <<"env", "identity">> # <<>> /\ <<"env", "identity">> # <<"identity">>
    OBVIOUS
  <2> QED BY <2>1, <2>2, <2>3
<1>3. /\ new \in Memory /\ new.pc = "undo" /\ new.tx = tx /\ new.call = "apply" /\ new.err = "none" /\ new.db = mem[p].db
      /\ new.then = "fail" /\ new.todo = todo
  <2>1. mem[p] \in Memory
    BY Here
  <2> QED BY <1>1, <1>2, <2>1 DEF Memory, Inside
<1>4. mem' = [mem EXCEPT ![p] = new]
  BY DEF FailWith, Mem
<1> HIDE DEF new
<1>5. mem'[p] = new /\ pending'[p] = held
  BY <1>4, Here DEF InstallInv, Types
<1>6. UNCHANGED <<env, identity, marker, user, edits>> /\ (faults >= 2 => faults' >= 2)
  BY Here DEF Calm
<1>7. Undoing(p)'
  <2>1. mem[p].pc \in BeforeIdentity => ~Written(env', tx.id) /\ Nowhere(identity', tx.id)
    BY <1>6, Here DEF Applying, BeforeEnv
  <2>2. /\ mem[p].pc \in BeforeEnv => ~Written(env', tx.id)
        /\ mem[p].pc \in WithIdentity => tx.id \in known'[p]
    BY <1>6, Here DEF Applying
  <2>3. /\ ToSet(todo) \cap {"env", "prepared"} = {} => ~Written(env', tx.id)
        /\ ToSet(todo) \cap {"identity", "recover"} = {} => Nowhere(identity', tx.id)
        /\ "env" \in ToSet(todo) => tx.env # NoReceipt
        /\ "identity" \in ToSet(todo) => tx.id \in known'[p]
        /\ "marker" \notin ToSet(todo) /\ "prepared" \notin ToSet(todo) /\ "recover" \notin ToSet(todo)
    <3>1. CASE todo = <<>> /\ mem[p].pc \in BeforeIdentity
      BY <1>2, <2>1, <3>1
    <3>2. CASE todo = <<"identity">> /\ mem[p].pc \in BeforeEnv /\ mem[p].pc \in WithIdentity
      BY <1>2, <2>2, <3>2
    <3>3. CASE todo = <<"env", "identity">> /\ mem[p].pc \in WithIdentity /\ tx.env # NoReceipt
      <4>1. ToSet(todo) = {"env", "identity"}
        BY <3>3 DEF ToSet
      <4> QED BY <2>2, <3>3, <4>1
    <3> QED BY <3>1, <3>2, <3>3
  <2>4. journal'.id = tx.id
    BY <1>1
  <2> QED BY <1>1, <1>3, <1>5, <1>6, <2>3, <2>4 DEF Undoing
<1>8. Applying(p)' /\ Preparing(p)' /\ Ending(p)'
  BY <1>3, <1>5 DEF Applying, Preparing, Ending, Forward, BeforeEnv, BeforeIdentity, WithEnv
<1>9. Holds(p)'
  <2>1. held.id # None => faults >= 2 \/ Nowhere(identity, held.id) \/ held.id \in known[p]
    BY <1>1, Here DEF Holds, UndoingFailed
  <2> QED BY <1>1, <1>5, <1>6, <2>1 DEF Holds
<1>10. Own(p)'
  BY <1>7, <1>8, <1>9 DEF Own
<1>11. Achieved(p)' => Achieved(p)
  BY <1>3, <1>5 DEF Achieved
<1>12. new.pc \in Inside /\ Told(new.tx)
  BY <1>3 DEF Inside
<1>13. journal' \in Transactions /\ Told(journal') /\ (journal'.id = None => journal' = NoJournal) /\ journal'.id = journal.id
  BY <1>1, Here
<1> QED BY <1>1, <1>3, <1>4, <1>5, <1>10, <1>11, <1>12, <1>13, Here, CalmStep
LEMMA JournaledKeeps ==
    ASSUME InstallerAssumption, InstallInv, NEW p \in Procs, mem[p].pc \in Forward,
           NEW tx \in Transactions, tx.id = mem[p].tx.id, tx.db = mem[p].db, Told(tx), NEW todo, NEW pc \in Forward,
           Journaled(p, tx, pc, todo), Stage(pc, tx), NEW held \in PendingRecord, Told(held),
           held.id \in {None, pending[p].id},
           pending' = [pending EXCEPT ![p] = IF mem'[p].pc = "undo" THEN held ELSE OfTx(tx)],
           pc # "advance_lock", pc \in BeforeIdentity => mem[p].pc \in BeforeIdentity,
           pc \in BeforeEnv => mem[p].pc \in BeforeEnv, pc \in WithIdentity => mem[p].pc \in WithIdentity,
           pc \in WithEnv => mem[p].pc \in WithEnv,
           \/ todo = <<>> /\ mem[p].pc \in BeforeIdentity
           \/ todo = <<"identity">> /\ mem[p].pc \in BeforeEnv /\ mem[p].pc \in WithIdentity
           \/ todo = <<"env", "identity">> /\ mem[p].pc \in WithIdentity /\ tx.env # NoReceipt
    PROVE  InstallInv'
<1>1. PICK o \in JournalUpdate(journal, tx) :
        /\ Spend(o.fault) /\ journal' = o.now
        /\ IF o.err THEN FailWith(p, tx, todo) ELSE Mem(p, [mem[p] EXCEPT !.pc = pc, !.tx = tx])
        /\ UNCHANGED <<lease, env, marker, identity, aside>>
  BY DEF Journaled
<1>2. UNCHANGED <<lease, env, identity, marker, user, edits, known, jobs, node, crashes, backups>>
  BY <1>1 DEF aside, world
<1>3. Outcome(o) /\ (o.now = journal \/ o.now = tx) /\ (~o.err => o.now = tx)
  BY JournalUpdated
<1>4. Calm /\ faults' <= MaxFaults
  BY <1>1, <1>2, <1>3, Spent DEF Outcome
<1>5. mem \in [Procs -> Memory]
  BY Here
<1>6. CASE o.err
  <2>1. FailWith(p, tx, todo) /\ journal' \in {journal, tx}
    BY <1>1, <1>3, <1>6
  <2>2. mem'[p].pc = "undo"
    BY <1>5, <2>1 DEF FailWith, Mem, Memory
  <2> QED BY <1>2, <1>4, <2>1, <2>2, Fails
<1>7. CASE ~o.err
  <2>1. Mem(p, [mem[p] EXCEPT !.pc = pc, !.tx = tx]) /\ journal' = tx
    BY <1>1, <1>3, <1>7
  <2>2. mem'[p].pc = pc /\ pc # "undo"
    BY <1>5, <2>1 DEF Mem, Memory, Forward, BeforeEnv, BeforeIdentity, WithEnv
  <2> QED BY <1>2, <1>4, <2>1, <2>2, Forwards
<1> QED BY <1>6, <1>7

LEMMA Kinds ==
    /\ BeforeIdentity \subseteq BeforeEnv /\ BeforeEnv \subseteq Forward /\ WithEnv \subseteq WithIdentity
    /\ WithIdentity \subseteq Forward /\ WithIdentity \cap BeforeIdentity = {} /\ WithEnv \cap BeforeEnv = {}
    /\ "schema" \in BeforeIdentity /\ "prepare_identity" \in BeforeIdentity /\ "identity" \in BeforeIdentity
    /\ {"advance_environment", "prepare_environment", "environment"} \subseteq BeforeEnv \cap WithIdentity
    /\ {"advance_lock", "prepare_marker", "marker"} = WithEnv /\ Forward \subseteq Inside
    /\ BeforeIdentity \cap {"advance_environment", "prepare_environment", "environment"} = {}
  BY DEF BeforeIdentity, BeforeEnv, WithEnv, WithIdentity, Forward, Inside

(* The next step of a transaction. *)
LEMMA AdvancedTx ==
    ASSUME NEW tx \in Transactions, tx.done \in {3, 4, 5}, NEW step \in {"identity", "environment", "lock"}, Told(tx)
    PROVE  /\ Advanced(tx, step) \in Transactions /\ Told(Advanced(tx, step)) /\ Advanced(tx, step).done = tx.done + 1
           /\ OfTx(Advanced(tx, step)) = OfTx(tx) /\ Advanced(tx, step).id = tx.id /\ Advanced(tx, step).db = tx.db
           /\ Advanced(tx, step).phase = tx.phase
<1> DEFINE a == Advanced(tx, step)
<1>1. a = [tx EXCEPT !.step = step, !.done = tx.done + 1]
  BY DEF Advanced
<1> HIDE DEF a
<1>2. /\ a.id = tx.id /\ a.db = tx.db /\ a.phase = tx.phase /\ a.identity = tx.identity /\ a.intent = tx.intent
      /\ a.env = tx.env /\ a.marker = tx.marker /\ a.done = tx.done + 1 /\ a.step = step
  BY <1>1 DEF Transactions
<1>3. tx.done + 1 \in 3 .. 6
  OBVIOUS
<1>4. a \in Transactions
  BY <1>1, <1>3 DEF Transactions
<1>5. Told(a)
  BY <1>2 DEF Told, Tells
<1> QED BY <1>2, <1>4, <1>5 DEF a, OfTx

(* A transaction that says more than it did. *)
Announced(tx, a) == a \in Transactions /\ Told(a) /\ a.id = tx.id /\ a.db = tx.db /\ a.phase = tx.phase /\ a.done = tx.done
LEMMA AnnouncedTx ==
    ASSUME NEW tx \in Transactions, Told(tx)
    PROVE  /\ LET a == [tx EXCEPT !.identity = TRUE] IN
              Announced(tx, a) /\ a.identity /\ a.intent = tx.intent /\ a.env = tx.env /\ a.marker = tx.marker
           /\ LET a == [tx EXCEPT !.intent = TRUE] IN
              Announced(tx, a) /\ a.identity = tx.identity /\ a.intent /\ a.env = tx.env /\ a.marker = tx.marker
           /\ tx.env # NoReceipt => LET a == [tx EXCEPT !.marker = TRUE] IN
              Announced(tx, a) /\ a.identity = tx.identity /\ a.intent = tx.intent /\ a.env = tx.env /\ a.marker
<1> DEFINE i == [tx EXCEPT !.identity = TRUE]
           n == [tx EXCEPT !.intent = TRUE]
           k == [tx EXCEPT !.marker = TRUE]
<1>1. /\ i \in Transactions /\ i.id = tx.id /\ i.db = tx.db /\ i.phase = tx.phase /\ i.done = tx.done
      /\ i.identity /\ i.intent = tx.intent /\ i.env = tx.env /\ i.marker = tx.marker
  BY DEF Transactions
<1>2. /\ n \in Transactions /\ n.id = tx.id /\ n.db = tx.db /\ n.phase = tx.phase /\ n.done = tx.done
      /\ n.identity = tx.identity /\ n.intent /\ n.env = tx.env /\ n.marker = tx.marker
  BY DEF Transactions
<1>3. /\ k \in Transactions /\ k.id = tx.id /\ k.db = tx.db /\ k.phase = tx.phase /\ k.done = tx.done
      /\ k.identity = tx.identity /\ k.intent = tx.intent /\ k.env = tx.env /\ k.marker
  BY DEF Transactions
<1> HIDE DEF i, n, k
<1>4. Told(i) /\ Told(n) /\ (tx.env # NoReceipt => Told(k))
  BY <1>1, <1>2, <1>3 DEF Told, Tells
<1> QED BY <1>1, <1>2, <1>3, <1>4 DEF i, n, k, Announced

(* What the stage of a transaction says of the record. *)
LEMMA Here2 ==
    ASSUME InstallerAssumption, InstallInv, NEW p \in Procs, mem[p].pc \in Forward
    PROVE  /\ Stage(mem[p].pc, mem[p].tx) /\ mem[p].tx \in Transactions /\ Told(mem[p].tx)
           /\ mem[p].pc # "schema" => pending[p] = OfTx(mem[p].tx)
           /\ pending[p] \in PendingRecord /\ pending \in [Procs -> PendingRecord] /\ Told(pending[p])
  BY Here DEF Applying, InstallInv, Types

(* What a process would roll back follows its transaction. *)
LEMMA HeldTx ==
    ASSUME NEW tx \in Transactions, NEW held \in PendingRecord, NEW next \in Transactions, held = OfTx(tx),
           next.id = tx.id, next.db = tx.db
    PROVE  /\ next.identity /\ (next.intent <=> tx.intent) /\ next.env = tx.env /\ (next.marker <=> tx.marker) =>
                 OfTx(next) = [held EXCEPT !.identity = TRUE]
           /\ (next.identity <=> tx.identity) /\ next.intent /\ next.env = tx.env /\ (next.marker <=> tx.marker) =>
                 OfTx(next) = [held EXCEPT !.intent = TRUE]
           /\ (next.identity <=> tx.identity) /\ (next.intent <=> tx.intent) /\ next.env = tx.env /\ next.marker =>
                 OfTx(next) = [held EXCEPT !.marker = TRUE]
           /\ ~tx.identity => held = [held EXCEPT !.identity = FALSE]
           /\ ~tx.intent => held = [held EXCEPT !.intent = FALSE]
<1> DEFINE i == [held EXCEPT !.identity = TRUE]
           n == [held EXCEPT !.intent = TRUE]
           k == [held EXCEPT !.marker = TRUE]
           i2 == [held EXCEPT !.identity = FALSE]
           kept == [held EXCEPT !.intent = FALSE]
<1>1. /\ i \in PendingRecord /\ n \in PendingRecord /\ k \in PendingRecord /\ i2 \in PendingRecord /\ kept \in PendingRecord
      /\ i.id = held.id /\ i.db = held.db /\ i.identity = TRUE /\ i.intent = held.intent /\ i.env = held.env
      /\ i.marker = held.marker
      /\ n.id = held.id /\ n.db = held.db /\ n.identity = held.identity /\ n.intent = TRUE /\ n.env = held.env
      /\ n.marker = held.marker
      /\ k.id = held.id /\ k.db = held.db /\ k.identity = held.identity /\ k.intent = held.intent /\ k.env = held.env
      /\ k.marker = TRUE
  BY DEF PendingRecord
<1>2. /\ i2.id = held.id /\ i2.db = held.db /\ i2.identity = FALSE /\ i2.intent = held.intent /\ i2.env = held.env
      /\ i2.marker = held.marker
      /\ kept.id = held.id /\ kept.db = held.db /\ kept.identity = held.identity /\ kept.intent = FALSE /\ kept.env = held.env
      /\ kept.marker = held.marker
  BY DEF PendingRecord
<1>3. /\ held.id = tx.id /\ held.db = tx.db /\ held.identity = tx.identity /\ held.intent = tx.intent
      /\ held.env = tx.env /\ held.marker = tx.marker
      /\ OfTx(next).id = next.id /\ OfTx(next).db = next.db /\ OfTx(next).identity = next.identity
      /\ OfTx(next).intent = next.intent /\ OfTx(next).env = next.env /\ OfTx(next).marker = next.marker
      /\ OfTx(next) \in PendingRecord
  BY OfTxType DEF OfTx
<1> HIDE DEF i, n, k, i2, kept
<1>4. /\ next.identity /\ (next.intent <=> tx.intent) /\ next.env = tx.env /\ (next.marker <=> tx.marker) => OfTx(next) = i
      /\ (next.identity <=> tx.identity) /\ next.intent /\ next.env = tx.env /\ (next.marker <=> tx.marker) => OfTx(next) = n
      /\ (next.identity <=> tx.identity) /\ (next.intent <=> tx.intent) /\ next.env = tx.env /\ next.marker => OfTx(next) = k
  BY <1>1, <1>3, SamePending
<1>5. (~tx.identity => held = i2) /\ (~tx.intent => held = kept)
  BY <1>1, <1>2, <1>3, SamePending
<1> QED BY <1>4, <1>5 DEF i, n, k, i2, kept

LEMMA SchemaUpKeeps == ASSUME InstallerAssumption, InstallInv, NEW p \in Procs, SchemaUp(p) PROVE InstallInv'
<1> DEFINE tx == mem[p].tx
           next == Advanced(tx, "identity")
<1>1. mem[p].pc = "schema" /\ mem[p].pc \in Forward /\ mem[p].pc \in BeforeIdentity
  BY Kinds DEF SchemaUp, At
<1>2. /\ tx.phase = "applying" /\ tx.done = 3 /\ ~tx.identity /\ ~tx.intent /\ tx.env = NoReceipt /\ ~tx.marker
      /\ tx \in Transactions /\ Told(tx)
  BY <1>1, Here2, Kinds DEF Stage
<1>3. CASE (\E o \in SchemaMigrate : o.err /\ Spend(o.fault)) /\ FailWith(p, tx, <<>>)
           /\ UNCHANGED <<lease, stores, pending, aside>>
  <2>1. PICK o \in SchemaMigrate : o.err /\ Spend(o.fault)
    BY <1>3
  <2>2. o.fault \in BOOLEAN
    BY <2>1, Outcomes DEF SchemaMigrate, Outcome
  <2>3. UNCHANGED <<lease, env, identity, marker, user, edits, known, jobs, node, crashes, backups, journal, pending>>
    BY <1>3 DEF stores, aside, world
  <2>4. Calm /\ faults' <= MaxFaults
    BY <2>1, <2>2, <2>3, Spent
  <2>5. pending[p] \in PendingRecord /\ Told(pending[p]) /\ pending' = [pending EXCEPT ![p] = pending[p]]
    BY <2>3, Here
  <2>6. tx.db = mem[p].db /\ journal' \in {journal, tx}
    BY <1>1, <2>3, Underway
  <2> QED BY <1>1, <1>2, <1>3, <2>3, <2>4, <2>5, <2>6, Fails
<1>4. CASE /\ Journaled(p, next, "prepare_identity", <<>>)
           /\ IF mem'[p].pc = "undo" THEN UNCHANGED pending
              ELSE Pend(p, [NoPending EXCEPT !.id = tx.id, !.db = mem[p].db])
  <2>1. /\ next \in Transactions /\ Told(next) /\ next.done = 4 /\ OfTx(next) = OfTx(tx) /\ next.id = tx.id /\ next.db = tx.db
        /\ next.phase = "applying"
    BY <1>2, AdvancedTx
  <2>2. OfTx(tx) = [NoPending EXCEPT !.id = tx.id, !.db = mem[p].db]
    <3>1. tx.db = mem[p].db /\ tx.identity = FALSE /\ tx.intent = FALSE /\ tx.marker = FALSE
      BY <1>1, <1>2, Underway DEF Transactions
    <3> DEFINE a == [NoPending EXCEPT !.id = tx.id, !.db = mem[p].db]
    <3>2. NoPending.env = NoReceipt /\ NoPending.identity = FALSE /\ NoPending.intent = FALSE /\ NoPending.marker = FALSE
      BY DEF NoPending
    <3>3. /\ a \in PendingRecord /\ a.id = tx.id /\ a.db = mem[p].db /\ a.identity = FALSE /\ a.intent = FALSE
          /\ a.env = NoReceipt /\ a.marker = FALSE
      <4>1. NoPending \in PendingRecord /\ tx.id \in Tx \cup {None} /\ mem[p].db \in Databases \cup {None}
        BY Here, NoTransaction
      <4> QED BY <3>2, <4>1 DEF PendingRecord
    <3> HIDE DEF a
    <3>4. /\ OfTx(tx).id = tx.id /\ OfTx(tx).db = tx.db /\ OfTx(tx).identity = tx.identity /\ OfTx(tx).intent = tx.intent
          /\ OfTx(tx).env = tx.env /\ OfTx(tx).marker = tx.marker /\ OfTx(tx) \in PendingRecord
      BY <1>2, OfTxType DEF OfTx
    <3>5. OfTx(tx) = a
      BY <1>2, <3>1, <3>3, <3>4, SamePending
    <3> QED BY <3>5 DEF a
  <2>3. /\ next.identity = tx.identity /\ next.intent = tx.intent /\ next.env = tx.env /\ next.marker = tx.marker
    BY <2>1 DEF OfTx
  <2>4. pending[p] \in PendingRecord /\ Told(pending[p])
        /\ pending' = [pending EXCEPT ![p] = IF mem'[p].pc = "undo" THEN pending[p] ELSE OfTx(next)]
    BY <1>4, <2>1, <2>2, Here DEF Pend
  <2> HIDE DEF next
  <2>5. Stage("prepare_identity", next)
    BY <1>2, <2>1, <2>3, Kinds DEF Stage, WithEnv
  <2> QED BY <1>1, <1>4, <2>1, <2>4, <2>5, Kinds, Underway, JournaledKeeps
<1> QED BY <1>3, <1>4 DEF SchemaUp

LEMMA PrepareIdentityKeeps ==
    ASSUME InstallerAssumption, InstallInv, NEW p \in Procs, PrepareIdentity(p) PROVE InstallInv'
<1> DEFINE tx == mem[p].tx
           next == [tx EXCEPT !.identity = TRUE]
           held == [pending[p] EXCEPT !.identity = FALSE]
<1>1. /\ mem[p].pc = "prepare_identity" /\ mem[p].pc \in Forward /\ mem[p].pc \in BeforeIdentity
      /\ Journaled(p, next, "identity", <<>>)
  BY Kinds DEF PrepareIdentity, At
<1>2. /\ tx.phase = "applying" /\ tx.done = 4 /\ ~tx.identity /\ ~tx.intent /\ tx.env = NoReceipt /\ ~tx.marker
      /\ tx \in Transactions /\ Told(tx) /\ pending[p] = OfTx(tx)
  BY <1>1, Here2, Kinds DEF Stage
<1>3. Announced(tx, next) /\ next.identity /\ next.intent = tx.intent /\ next.env = tx.env /\ next.marker = tx.marker
  BY <1>2, AnnouncedTx
<1> HIDE DEF next
<1>4. held = pending[p] /\ OfTx(next) = [pending[p] EXCEPT !.identity = TRUE]
  <2>1. next.id = tx.id /\ next.db = tx.db /\ next \in Transactions
    BY <1>3 DEF Announced
  <2>2. pending[p] \in PendingRecord
    BY <1>1, Here2
  <2>3. pending[p] = held
    BY <1>2, <2>1, <2>2, HeldTx
  <2>4. OfTx(next) = [pending[p] EXCEPT !.identity = TRUE]
    BY <1>2, <1>3, <2>1, <2>2, HeldTx
  <2> QED BY <2>3, <2>4
<1>5. pending' = [pending EXCEPT ![p] = IF mem'[p].pc = "undo" THEN pending[p] ELSE OfTx(next)]
  <2>1. pending' = [pending EXCEPT ![p] = [pending[p] EXCEPT !.identity = mem'[p].pc # "undo"]]
    BY DEF PrepareIdentity, Pend
  <2>2. CASE mem'[p].pc = "undo"
    BY <1>4, <2>1, <2>2
  <2>3. CASE mem'[p].pc # "undo"
    BY <1>4, <2>1, <2>3
  <2> QED BY <2>2, <2>3
<1>6. Stage("identity", next)
  BY <1>2, <1>3, Kinds DEF Stage, WithEnv, Announced
<1> QED BY <1>1, <1>3, <1>5, <1>6, Here2, Kinds, Underway, JournaledKeeps DEF Announced
LEMMA AdvanceEnvironmentKeeps ==
    ASSUME InstallerAssumption, InstallInv, NEW p \in Procs, AdvanceEnvironment(p) PROVE InstallInv'
<1> DEFINE tx == mem[p].tx
           next == Advanced(tx, "environment")
<1>1. /\ mem[p].pc = "advance_environment" /\ mem[p].pc \in Forward /\ mem[p].pc \in BeforeEnv /\ mem[p].pc \in WithIdentity
      /\ Journaled(p, next, "prepare_environment", <<"identity">>) /\ pending' = pending
  BY Kinds DEF AdvanceEnvironment, At
<1>2. /\ tx.phase = "applying" /\ tx.done = 4 /\ tx.identity /\ ~tx.intent /\ tx.env = NoReceipt /\ ~tx.marker
      /\ tx \in Transactions /\ Told(tx) /\ pending[p] = OfTx(tx)
  BY <1>1, Here2, Kinds DEF Stage
<1>3. /\ next \in Transactions /\ Told(next) /\ next.done = 5 /\ OfTx(next) = OfTx(tx) /\ next.id = tx.id /\ next.db = tx.db
      /\ next.phase = "applying"
  BY <1>2, AdvancedTx
<1> HIDE DEF next
<1>4. next.identity = tx.identity /\ next.intent = tx.intent /\ next.env = tx.env /\ next.marker = tx.marker
  BY <1>3 DEF OfTx
<1>5. Stage("prepare_environment", next)
  BY <1>2, <1>3, <1>4, Kinds DEF Stage, WithEnv
<1>6. pending' = [pending EXCEPT ![p] = IF mem'[p].pc = "undo" THEN pending[p] ELSE OfTx(next)]
  BY <1>1, <1>2, <1>3, Here
<1>7. tx.id = next.id /\ tx.db = mem[p].db /\ Told(pending[p]) /\ pending[p] \in PendingRecord
  BY <1>1, <1>3, Here2, Underway
<1>8. /\ "prepare_environment" \in Forward \ (BeforeIdentity \cup WithEnv)
  BY Kinds
<1> QED BY <1>1, <1>3, <1>5, <1>6, <1>7, <1>8, JournaledKeeps

LEMMA PrepareEnvironmentKeeps ==
    ASSUME InstallerAssumption, InstallInv, NEW p \in Procs, PrepareEnvironment(p) PROVE InstallInv'
<1> DEFINE tx == mem[p].tx
           next == [tx EXCEPT !.intent = TRUE]
           held == [pending[p] EXCEPT !.intent = FALSE]
<1>1. /\ mem[p].pc = "prepare_environment" /\ mem[p].pc \in Forward /\ mem[p].pc \in BeforeEnv
      /\ mem[p].pc \in WithIdentity /\ Journaled(p, next, "environment", <<"identity">>)
  BY Kinds DEF PrepareEnvironment, At
<1>2. /\ tx.phase = "applying" /\ tx.done = 5 /\ tx.identity /\ ~tx.intent /\ tx.env = NoReceipt /\ ~tx.marker
      /\ tx \in Transactions /\ Told(tx) /\ pending[p] = OfTx(tx)
  BY <1>1, Here2, Kinds DEF Stage
<1>3. Announced(tx, next) /\ next.identity = tx.identity /\ next.intent /\ next.env = tx.env /\ next.marker = tx.marker
  BY <1>2, AnnouncedTx
<1> HIDE DEF next
<1>4. held = pending[p] /\ OfTx(next) = [pending[p] EXCEPT !.intent = TRUE]
  <2>1. next.id = tx.id /\ next.db = tx.db /\ next \in Transactions
    BY <1>3 DEF Announced
  <2>2. pending[p] \in PendingRecord
    BY <1>1, Here2
  <2>3. pending[p] = held
    BY <1>2, <2>1, <2>2, HeldTx
  <2>4. OfTx(next) = [pending[p] EXCEPT !.intent = TRUE]
    <3>1. (next.identity <=> tx.identity) /\ next.intent /\ next.env = tx.env /\ (next.marker <=> tx.marker)
      BY <1>3
    <3> QED BY <1>2, <2>1, <2>2, <3>1, HeldTx
  <2> QED BY <2>3, <2>4
<1>5. pending' = [pending EXCEPT ![p] = IF mem'[p].pc = "undo" THEN pending[p] ELSE OfTx(next)]
  <2>1. pending' = [pending EXCEPT ![p] = [pending[p] EXCEPT !.intent = mem'[p].pc # "undo"]]
    BY DEF PrepareEnvironment, Pend
  <2>2. CASE mem'[p].pc = "undo"
    BY <1>4, <2>1, <2>2
  <2>3. CASE mem'[p].pc # "undo"
    BY <1>4, <2>1, <2>3
  <2> QED BY <2>2, <2>3
<1>6. Stage("environment", next)
  BY <1>2, <1>3, Kinds DEF Stage, WithEnv, Announced
<1> QED BY <1>1, <1>3, <1>5, <1>6, Here2, Kinds, Underway, JournaledKeeps DEF Announced

LEMMA AdvanceLockKeeps ==
    ASSUME InstallerAssumption, InstallInv, NEW p \in Procs, AdvanceLock(p) PROVE InstallInv'
<1> DEFINE tx == mem[p].tx
           next == Advanced(tx, "lock")
<1>1. /\ mem[p].pc = "advance_lock" /\ mem[p].pc \in Forward /\ mem[p].pc \in WithEnv /\ mem[p].pc \in WithIdentity
      /\ Journaled(p, next, "prepare_marker", <<"env", "identity">>) /\ pending' = pending
  BY Kinds DEF AdvanceLock, At
<1>2. /\ tx.phase = "applying" /\ tx.done = 5 /\ tx.identity /\ tx.intent /\ tx.env # NoReceipt /\ ~tx.marker
      /\ tx \in Transactions /\ Told(tx) /\ pending[p] = OfTx(tx)
  BY <1>1, Here2, Kinds DEF Stage
<1>3. /\ next \in Transactions /\ Told(next) /\ next.done = 6 /\ OfTx(next) = OfTx(tx) /\ next.id = tx.id /\ next.db = tx.db
      /\ next.phase = "applying"
  BY <1>2, AdvancedTx
<1> HIDE DEF next
<1>4. next.identity = tx.identity /\ next.intent = tx.intent /\ next.env = tx.env /\ next.marker = tx.marker
  BY <1>3 DEF OfTx
<1>5. Stage("prepare_marker", next)
  BY <1>2, <1>3, <1>4, Kinds DEF Stage, WithEnv
<1>6. pending' = [pending EXCEPT ![p] = IF mem'[p].pc = "undo" THEN pending[p] ELSE OfTx(next)]
  BY <1>1, <1>2, <1>3, Here
<1>7. /\ tx.id = next.id /\ tx.db = mem[p].db /\ Told(pending[p]) /\ pending[p] \in PendingRecord
      /\ next.env # NoReceipt
  BY <1>1, <1>2, <1>3, <1>4, Here2, Underway
<1>8. "prepare_marker" \in Forward \ BeforeEnv /\ BeforeIdentity \subseteq BeforeEnv
  BY Kinds
<1> QED BY <1>1, <1>3, <1>5, <1>6, <1>7, <1>8, JournaledKeeps

LEMMA PrepareMarkerKeeps ==
    ASSUME InstallerAssumption, InstallInv, NEW p \in Procs, PrepareMarker(p) PROVE InstallInv'
<1> DEFINE tx == mem[p].tx
           next == [tx EXCEPT !.marker = TRUE]
           held == [pending[p] EXCEPT !.marker = TRUE]
<1>1. /\ mem[p].pc = "prepare_marker" /\ mem[p].pc \in Forward /\ mem[p].pc \in WithEnv /\ mem[p].pc \in WithIdentity
      /\ Journaled(p, next, "marker", <<"env", "identity">>) /\ pending' = [pending EXCEPT ![p] = held]
  BY Kinds DEF PrepareMarker, At, Pend
<1>2. /\ tx.phase = "applying" /\ tx.done = 6 /\ tx.identity /\ tx.intent /\ tx.env # NoReceipt /\ ~tx.marker
      /\ tx \in Transactions /\ Told(tx) /\ pending[p] = OfTx(tx)
  BY <1>1, Here2, Kinds DEF Stage
<1>3. Announced(tx, next) /\ next.identity = tx.identity /\ next.intent = tx.intent /\ next.env = tx.env /\ next.marker
  BY <1>2, AnnouncedTx
<1> HIDE DEF next
<1>4. held = OfTx(next) /\ held \in PendingRecord /\ Told(held) /\ held.id = pending[p].id
  <2>1. next.id = tx.id /\ next.db = tx.db /\ next \in Transactions /\ Told(next)
    BY <1>3 DEF Announced
  <2>2. pending[p] \in PendingRecord
    BY <1>1, Here2
  <2>3. OfTx(next) = held
    <3>1. (next.identity <=> tx.identity) /\ (next.intent <=> tx.intent) /\ next.env = tx.env /\ next.marker
      BY <1>3
    <3> QED BY <1>2, <2>1, <2>2, <3>1, HeldTx
  <2>4. OfTx(next) \in PendingRecord /\ Told(OfTx(next)) /\ OfTx(next).id = next.id /\ pending[p].id = tx.id
    BY <1>2, <2>1, ToldOf, OfTxType
  <2> QED BY <2>1, <2>3, <2>4
<1> HIDE DEF held
<1>5. pending' = [pending EXCEPT ![p] = IF mem'[p].pc = "undo" THEN held ELSE OfTx(next)]
  BY <1>1, <1>4
<1>6. Stage("marker", next)
  BY <1>2, <1>3, Kinds DEF Stage, WithEnv, Announced
<1>7. next \in Transactions /\ Told(next) /\ tx.id = next.id /\ next.db = mem[p].db /\ next.env # NoReceipt
  BY <1>1, <1>2, <1>3, Underway DEF Announced
<1>8. "marker" \in Forward \ BeforeEnv /\ BeforeIdentity \subseteq BeforeEnv
  BY Kinds
<1> QED BY <1>1, <1>4, <1>5, <1>6, <1>7, <1>8, JournaledKeeps
-----------------------------------------------------------------------------
(* The ends. *)

LEMMA CleanupCompletedKeeps ==
    ASSUME InstallerAssumption, InstallInv, NEW p \in Procs, CleanupCompleted(p) PROVE InstallInv'
<1> DEFINE pc(o) == IF o.err \/ mem[p].bad \/ mem[p].tx.id = None THEN "release" ELSE "forget"
           new(o) == [mem[p] EXCEPT !.pc = pc(o)]
<1>1. PICK o \in IF backups THEN Effect(TRUE, FALSE) ELSE {Did(FALSE)} :
         Spend(o.fault) /\ backups' = o.now /\ mem' = [mem EXCEPT ![p] = new(o)]
  BY DEF CleanupCompleted, Goto, Mem
<1>2. /\ mem[p].pc = "cleanup" /\ mem[p].pc \in Inside
      /\ UNCHANGED <<lease, env, identity, marker, user, edits, pending, known, jobs, node, crashes, journal>>
  BY DEF CleanupCompleted, At, Inside, stores
<1>3. o.fault \in BOOLEAN /\ o.now \in BOOLEAN
  BY Outcomes DEF Effect, Outcome
<1>4. Calm /\ faults' <= MaxFaults /\ JournalKept
  BY <1>1, <1>2, <1>3, Spent, JournalStays
<1>5. /\ new(o) \in Memory /\ new(o).pc = pc(o) /\ new(o).tx = mem[p].tx /\ new(o).call = mem[p].call
      /\ new(o).err = mem[p].err /\ pc(o) \in {"release", "forget"} /\ (pc(o) = "forget" => mem[p].tx.id # None)
  <2>1. mem[p] \in Memory
    BY Here
  <2>2. pc(o) \in {"release", "forget"} /\ (pc(o) = "forget" => mem[p].tx.id # None)
    OBVIOUS
  <2> HIDE DEF pc
  <2> QED BY <2>1, <2>2 DEF Memory, Inside
<1>6. mem'[p] = new(o)
  BY <1>1, Here
<1> HIDE DEF new, pc
<1>7. Ending(p)'
  BY <1>2, <1>5, <1>6, Here DEF Ending
<1>8. Applying(p)' /\ Preparing(p)' /\ Undoing(p)'
  BY <1>5, <1>6 DEF Applying, Preparing, Undoing, Forward, BeforeEnv, BeforeIdentity, WithEnv
<1>9. new(o).err # "none" \/ new(o).call # "apply" \/ Achieved(p)
  BY <1>2, <1>5 DEF Achieved
<1>10. new(o).pc \in Inside /\ Told(new(o).tx)
  BY <1>5, Here DEF Inside
<1> QED BY <1>1, <1>2, <1>3, <1>4, <1>5, <1>7, <1>8, <1>9, <1>10, Onward

LEMMA RemoveJournalKeeps == ASSUME InstallerAssumption, InstallInv, NEW p \in Procs, RemoveJournal(p) PROVE InstallInv'
<1> DEFINE new == [mem[p] EXCEPT !.pc = "release"]
           t == mem[p].tx.id
<1>1. PICK o \in JournalRemove(journal, t, NoJournal) : Spend(o.fault) /\ journal' = o.now
  BY DEF RemoveJournal
<1>2. /\ mem[p].pc = "forget" /\ mem[p].pc \in Inside /\ mem' = [mem EXCEPT ![p] = new]
      /\ UNCHANGED <<lease, env, identity, marker, user, edits, pending, known, jobs, node, crashes, backups>>
  BY DEF RemoveJournal, At, Inside, Goto, Mem, aside, world
<1>3. Outcome(o) /\ (o.now = journal \/ (o.now = NoJournal /\ t = journal.id))
  BY JournalRemoved
<1>4. Calm /\ faults' <= MaxFaults
  BY <1>1, <1>2, <1>3, Spent DEF Outcome
<1>5. marker = t /\ t # None
  BY <1>2, Here DEF Ending
<1>6. JournalKept
  BY <1>1, <1>3, <1>5, Here, NoTransaction, NothingTold DEF JournalKept, Told
<1>7. /\ new \in Memory /\ new.pc = "release" /\ new.tx = mem[p].tx /\ new.call = mem[p].call /\ new.err = mem[p].err
  BY Here DEF Memory, Inside
<1> HIDE DEF new
<1>8. mem'[p] = new
  BY <1>2, Here
<1>9. Applying(p)' /\ Preparing(p)' /\ Undoing(p)' /\ Ending(p)'
  BY <1>7, <1>8 DEF Applying, Preparing, Undoing, Ending, Forward, BeforeEnv, BeforeIdentity, WithEnv
<1>10. new.err # "none" \/ new.call # "apply" \/ Achieved(p)
  BY <1>2, <1>7 DEF Achieved
<1>11. new.pc \in Inside /\ Told(new.tx)
  BY <1>7, Here DEF Inside
<1> QED BY <1>2, <1>4, <1>6, <1>7, <1>9, <1>10, <1>11, Here, Onward

(* Nothing is left to be taken back. *)
LEMMA NothingLeft ==
    ASSUME InstallerAssumption, InstallInv, NEW p \in Procs, mem[p].pc = "undo", mem[p].todo = <<>>
    PROVE  /\ mem[p].tx.id # None /\ mem[p].pc \in Inside /\ ToSet(mem[p].todo) = {}
           /\ ~mem[p].bad => /\ ~Written(env, mem[p].tx.id) /\ marker # mem[p].tx.id
                             /\ faults >= 2 \/ Nowhere(identity, mem[p].tx.id)
                             /\ Told(Cleared(mem[p].tx))
           /\ Told(Pended(mem[p].tx)) /\ Pended(mem[p].tx).id = mem[p].tx.id /\ Pended(mem[p].tx) \in Transactions
           /\ Cleared(mem[p].tx).id = mem[p].tx.id /\ Cleared(mem[p].tx) \in Transactions
<1>1. ToSet(mem[p].todo) = {}
  BY Lists
<1>2. /\ mem[p].tx.id # None /\ mem[p].pc \in Inside
      /\ ~mem[p].bad => /\ ~Written(env, mem[p].tx.id) /\ marker # mem[p].tx.id
                        /\ faults >= 2 \/ Nowhere(identity, mem[p].tx.id)
  BY <1>1, Here DEF Undoing, Inside
<1>3. mem[p].tx \in Transactions /\ Told(mem[p].tx)
  BY Here
<1>4. ~mem[p].bad => Told(Cleared(mem[p].tx))
  BY <1>2, <1>3, ToldCleared
<1>5. Cleared(mem[p].tx).id = mem[p].tx.id /\ Cleared(mem[p].tx) \in Transactions
  BY <1>3, ClearedTx
<1> QED BY <1>1, <1>2, <1>3, <1>4, <1>5, PendedTx

LEMMA Concludes ==
    ASSUME InstallerAssumption, InstallInv, NEW p \in Procs, mem[p].pc = "undo", mem[p].todo = <<>>, Calm,
           faults' <= MaxFaults, NEW new \in Memory, mem' = [mem EXCEPT ![p] = new], Told(new.tx),
           NEW held \in {pending[p], NoPending}, pending' = [pending EXCEPT ![p] = held],
           UNCHANGED <<lease, known, jobs, node, crashes, backups>>, JournalKept,
           new.pc \in {"release", "create"}, new.pc = "release" => new.err # "none" \/ new.call # "apply",
           new.pc = "create" => Preparing(p)'
    PROVE  InstallInv'
<1>1. mem'[p] = new /\ held \in PendingRecord /\ Told(held) /\ pending'[p] = held
  BY Here, NoTransaction, NothingTold DEF InstallInv, Types, Told
<1>2. Applying(p)' /\ Preparing(p)' /\ Undoing(p)' /\ Ending(p)'
  BY <1>1 DEF Applying, Preparing, Undoing, Ending, Forward, BeforeEnv, BeforeIdentity, WithEnv
<1>3. Holds(p)'
  <2>1. ~UndoingFailed(p, "recover") /\ ~UndoingFailed(p, "marker")
    BY NothingLeft DEF UndoingFailed
  <2>2. faults >= 2 => faults' >= 2
    BY Here DEF Calm
  <2>3. UNCHANGED <<identity, marker>>
    BY DEF Calm
  <2> QED BY <1>1, <2>1, <2>2, <2>3, Here, NoTransaction DEF Holds
<1>4. Own(p)'
  BY <1>2, <1>3 DEF Own
<1>5. Achieved(p)' => Achieved(p)
  BY <1>1 DEF Achieved
<1>6. new.pc \in Inside /\ mem[p].pc \in Inside
  BY DEF Inside
<1>7. held.id \in {None, pending[p].id}
  BY NoTransaction
<1> QED BY <1>1, <1>4, <1>5, <1>6, <1>7, Here, CalmStep DEF JournalKept

(* Ending with an error. *)
LEMMA GivesUpUndoing ==
    ASSUME InstallerAssumption, InstallInv, NEW p \in Procs, mem[p].pc = "undo", mem[p].todo = <<>>, Calm,
           faults' <= MaxFaults, NEW why \in Errors, why # "none", Fail(p, why),
           NEW held \in {pending[p], NoPending}, pending' = [pending EXCEPT ![p] = held],
           UNCHANGED <<lease, known, jobs, node, crashes, backups>>, JournalKept
    PROVE  InstallInv'
<1> DEFINE new == [mem[p] EXCEPT !.pc = "release", !.err = why]
<1>1. new \in Memory /\ new.pc = "release" /\ new.err = why /\ new.tx = mem[p].tx
  BY Here DEF Memory, Inside, Errors
<1>2. mem' = [mem EXCEPT ![p] = new]
  BY DEF Fail, Mem
<1> HIDE DEF new
<1> QED BY <1>1, <1>2, Here, Concludes
LEMMA JournalRewritten ==
    ASSUME InstallerAssumption, InstallInv, NEW tx \in Transactions, Told(tx), journal' = journal \/ (journal' = tx /\ tx.id = journal.id),
           tx.id # None
    PROVE  JournalKept
  BY DEF JournalKept, InstallInv, Records, Types, TypeOK

LEMMA PersistFailureKeeps ==
    ASSUME InstallerAssumption, InstallInv, NEW p \in Procs, PersistFailure(p) PROVE InstallInv'
<1> DEFINE tx == IF mem[p].bad THEN Pended(mem[p].tx) ELSE Cleared(mem[p].tx)
           why == IF mem[p].bad THEN "rollback" ELSE "failed"
           held == IF mem[p].bad \/ pending[p].id # mem[p].tx.id THEN pending[p] ELSE NoPending
<1>1. PICK o \in JournalUpdate(journal, tx) : Spend(o.fault) /\ journal' = o.now
  BY DEF PersistFailure
<1>2. /\ mem[p].pc = "undo" /\ mem[p].todo = <<>> /\ Fail(p, why)
      /\ UNCHANGED <<lease, env, identity, marker, user, edits, known, jobs, node, crashes, backups>>
  BY DEF PersistFailure, AllUndone, At, aside, world
<1>3. tx \in Transactions /\ Told(tx) /\ tx.id # None
  BY <1>2, NothingLeft
<1> HIDE DEF tx
<1>4. Outcome(o) /\ (o.now = journal \/ (o.now = tx /\ tx.id = journal.id))
  BY JournalUpdated
<1>5. Calm /\ faults' <= MaxFaults
  BY <1>1, <1>2, <1>4, Spent DEF Outcome
<1>6. JournalKept
  BY <1>1, <1>3, <1>4, JournalRewritten
<1>7. held \in {pending[p], NoPending} /\ pending' = [pending EXCEPT ![p] = held]
  BY Here DEF PersistFailure, Pend
<1>8. why \in Errors /\ why # "none"
  BY DEF Errors
<1> HIDE DEF why, held
<1> QED BY <1>2, <1>5, <1>6, <1>7, <1>8, GivesUpUndoing

LEMMA EndRecoveryKeeps ==
    ASSUME InstallerAssumption, InstallInv, NEW p \in Procs, EndRecovery(p) PROVE InstallInv'
<1> DEFINE t == mem[p].tx.id
           tx == Pended(mem[p].tx)
<1>1. /\ mem[p].pc = "undo" /\ mem[p].todo = <<>> /\ mem[p].then = "recover"
      /\ UNCHANGED <<lease, env, identity, marker, user, edits, pending, known, jobs, node, crashes, backups>>
  BY DEF EndRecovery, AllUndone, At, aside, world
<1>2. /\ mem[p].call = "apply" /\ journal = mem[p].tx /\ mem[p].tx.db = mem[p].db /\ marker = None /\ mem[p].err = "none"
  BY <1>1, Here DEF Undoing
<1>3. pending[p] \in {pending[p], NoPending} /\ pending' = [pending EXCEPT ![p] = pending[p]]
  BY <1>1, Here
<1>4. CASE mem[p].bad
  <2>1. PICK o \in JournalUpdate(journal, tx) : Spend(o.fault) /\ journal' = o.now
    BY <1>4 DEF EndRecovery
  <2>2. Fail(p, "rollback")
    BY <1>4 DEF EndRecovery
  <2>3. Outcome(o) /\ (o.now = journal \/ (o.now = tx /\ tx.id = journal.id))
    BY JournalUpdated
  <2>4. Calm /\ faults' <= MaxFaults
    BY <1>1, <2>1, <2>3, Spent DEF Outcome
  <2>5. JournalKept
    BY <1>1, <2>1, <2>3, NothingLeft, JournalRewritten
  <2>6. "rollback" \in Errors /\ "rollback" # "none"
    BY DEF Errors
  <2> QED BY <1>1, <1>3, <2>2, <2>4, <2>5, <2>6, GivesUpUndoing
<1>5. CASE ~mem[p].bad
  <2>1. PICK o \in JournalRemove(journal, t, NoJournal) :
           /\ Spend(o.fault) /\ journal' = o.now
           /\ IF o.err THEN Fail(p, "busy") ELSE Mem(p, [mem[p] EXCEPT !.pc = "create", !.tx = NoJournal])
    BY <1>5 DEF EndRecovery
  <2>2. /\ Outcome(o) /\ (o.now = journal \/ (o.now = NoJournal /\ t = journal.id))
        /\ ~o.err => o.now = NoJournal
    BY <1>1, <1>2, JournalRemoved, NothingLeft
  <2>3. Calm /\ faults' <= MaxFaults
    BY <1>1, <2>1, <2>2, Spent DEF Outcome
  <2>4. JournalKept
    <3>1. ~Written(env, t) /\ (faults >= 2 \/ Nowhere(identity, t))
      BY <1>1, <1>5, NothingLeft
    <3>2. faults >= 2 => faults' >= 2
      BY <2>3, Here DEF Calm
    <3> QED BY <2>1, <2>2, <3>1, <3>2, Here, NoTransaction, NothingTold DEF JournalKept, Told
  <2>5. CASE o.err
    <3>1. "busy" \in Errors /\ "busy" # "none"
      BY DEF Errors
    <3> QED BY <1>1, <1>3, <2>1, <2>3, <2>4, <2>5, <3>1, GivesUpUndoing
  <2>6. CASE ~o.err
    <3> DEFINE new == [mem[p] EXCEPT !.pc = "create", !.tx = NoJournal]
    <3>1. mem' = [mem EXCEPT ![p] = new] /\ journal' = NoJournal
      BY <2>1, <2>2, <2>6 DEF Mem
    <3>2. /\ new \in Memory /\ new.pc = "create" /\ new.tx = NoJournal /\ new.call = "apply" /\ new.err = "none"
          /\ new.db = mem[p].db
      <4>1. mem[p] \in Memory /\ NoJournal \in Transactions
        BY Here, NoTransaction
      <4> QED BY <1>2, <4>1 DEF Memory, Inside
    <3> HIDE DEF new
    <3>3. mem'[p] = new
      BY <3>1, Here
    <3>4. mem[p].db # None
      <4>1. mem[p].tx.db \in Databases
        BY <1>1, Here, NothingLeft DEF Told, Tells
      <4> QED BY <1>2, <4>1, Here
    <3>5. Preparing(p)'
      BY <1>1, <1>2, <3>1, <3>2, <3>3, <3>4, NoTransaction DEF Preparing
    <3>6. Told(new.tx)
      BY <3>2, NoTransaction, NothingTold DEF Told
    <3> QED BY <1>1, <1>3, <2>3, <2>4, <3>1, <3>2, <3>5, <3>6, Concludes
  <2> QED BY <2>5, <2>6
<1> QED BY <1>4, <1>5

LEMMA EndRollbackKeeps == ASSUME InstallerAssumption, InstallInv, NEW p \in Procs, EndRollback(p) PROVE InstallInv'
<1> DEFINE tx == Cleared(mem[p].tx)
<1>1. /\ mem[p].pc = "undo" /\ mem[p].todo = <<>> /\ mem[p].then = "rollback"
      /\ UNCHANGED <<lease, env, identity, marker, user, edits, known, jobs, node, crashes, backups>>
  BY DEF EndRollback, AllUndone, At, aside, world
<1>2. mem[p].call = "rollback"
  BY <1>1, Here DEF Undoing
<1>3. pending = [pending EXCEPT ![p] = pending[p]] /\ "rollback" \in Errors /\ "rollback" # "none"
  BY Here DEF Errors
<1>4. CASE mem[p].bad
  <2>1. Fail(p, "rollback") /\ UNCHANGED <<journal, pending, faults>>
    BY <1>4 DEF EndRollback
  <2>2. Calm /\ faults' <= MaxFaults /\ JournalKept
    BY <1>1, <2>1, NotSpent, JournalStays
  <2> QED BY <1>1, <1>3, <2>1, <2>2, GivesUpUndoing
<1>5. CASE ~mem[p].bad
  <2>1. PICK o \in JournalUpdate(journal, tx) :
           /\ Spend(o.fault) /\ journal' = o.now
           /\ IF o.err THEN Fail(p, "rollback") /\ UNCHANGED pending
              ELSE Goto(p, "release") /\ Pend(p, NoPending)
    BY <1>5 DEF EndRollback
  <2>2. tx \in Transactions /\ Told(tx) /\ tx.id # None
    BY <1>1, <1>5, NothingLeft
  <2>3. Outcome(o) /\ (o.now = journal \/ (o.now = tx /\ tx.id = journal.id))
    BY JournalUpdated
  <2>4. Calm /\ faults' <= MaxFaults
    BY <1>1, <2>1, <2>3, Spent DEF Outcome
  <2>5. JournalKept
    BY <2>1, <2>2, <2>3, JournalRewritten
  <2>6. CASE o.err
    BY <1>1, <1>3, <2>1, <2>4, <2>5, <2>6, GivesUpUndoing
  <2>7. CASE ~o.err
    <3> DEFINE new == [mem[p] EXCEPT !.pc = "release"]
    <3>1. mem' = [mem EXCEPT ![p] = new] /\ pending' = [pending EXCEPT ![p] = NoPending]
      BY <2>1, <2>7 DEF Goto, Mem, Pend
    <3>2. new \in Memory /\ new.pc = "release" /\ new.tx = mem[p].tx /\ new.call = "rollback"
      BY <1>2, Here DEF Memory, Inside
    <3> HIDE DEF new
    <3> QED BY <1>1, <2>4, <2>5, <3>1, <3>2, Here, Concludes
  <2> QED BY <2>6, <2>7
<1> QED BY <1>4, <1>5
-----------------------------------------------------------------------------
(* Compensation. *)

LEMMA TailOf ==
    ASSUME NEW s \in Seq(Words), s # <<>>
    PROVE  /\ Tail(s) \in Seq(Words) /\ Len(Tail(s)) = Len(s) - 1 /\ ToSet(s) = {Head(s)} \cup ToSet(Tail(s))
           /\ \A i \in DOMAIN Tail(s) : i + 1 \in DOMAIN s /\ Tail(s)[i] = s[i + 1]
           /\ Len(s) = 1 => ToSet(Tail(s)) = {}
           /\ Head(s) = s[1] /\ 1 \in DOMAIN s /\ Len(s) \in Nat /\ Head(s) \in Words
<1>1. Len(s) \in Nat /\ Len(s) # 0 /\ DOMAIN s = 1 .. Len(s) /\ Head(s) = s[1]
  BY EmptySeq, LenProperties
<1>2. Tail(s) \in Seq(Words) /\ Len(Tail(s)) = Len(s) - 1 /\ DOMAIN Tail(s) = 1 .. (Len(s) - 1)
  BY <1>1
<1>3. \A i \in DOMAIN Tail(s) : i + 1 \in DOMAIN s /\ Tail(s)[i] = s[i + 1]
  BY <1>1, <1>2
<1>4. ASSUME NEW i \in DOMAIN s PROVE s[i] \in {Head(s)} \cup ToSet(Tail(s))
  <2>1. CASE i = 1
    BY <1>1, <2>1
  <2>2. CASE i # 1
    <3>1. i - 1 \in DOMAIN Tail(s) /\ Tail(s)[i - 1] = s[i]
      BY <1>1, <1>2, <2>2
    <3> QED BY <3>1 DEF ToSet
  <2> QED BY <2>1, <2>2
<1>5. Head(s) \in ToSet(s) /\ Head(s) \in Words
  BY <1>1, ElementOfSeq DEF ToSet
<1>6. ToSet(Tail(s)) \subseteq ToSet(s)
  BY <1>3 DEF ToSet
<1>7. ToSet(s) = {Head(s)} \cup ToSet(Tail(s))
  BY <1>4, <1>5, <1>6 DEF ToSet
<1>8. Len(s) = 1 => ToSet(Tail(s)) = {}
  BY <1>2 DEF ToSet
<1> QED BY <1>1, <1>2, <1>3, <1>5, <1>7, <1>8

(* While something else than the marker is taken back, the marker is not the transaction's. *)
LEMMA NotMarked ==
    ASSUME InstallerAssumption, InstallInv, NEW p \in Procs, NEW w, Doing(p, w), w # "marker"
    PROVE  marker # mem[p].tx.id \/ faults >= 2
<1>1. /\ mem[p].pc = "undo" /\ mem[p].todo # <<>> /\ Head(mem[p].todo) = w /\ mem[p] \in Memory /\ Undoing(p) /\ Holds(p)
      /\ mem[p].tx.id # None /\ mem[p].then \in {"fail", "recover", "rollback"}
  BY Here DEF Doing, At, Undoing, Memory
<1>2. CASE mem[p].then = "fail"
  <2>1. "marker" \in ToSet(mem[p].todo) => mem[p].todo = <<"marker", "env", "identity">>
    BY <1>1, <1>2 DEF Undoing
  <2>2. Head(<<"marker", "env", "identity">>) = "marker"
    OBVIOUS
  <2> QED BY <1>1, <1>2, <2>1, <2>2 DEF Undoing
<1>3. CASE mem[p].then = "recover"
  BY <1>1, <1>3 DEF Undoing
<1>4. CASE mem[p].then = "rollback"
  <2>1. pending[p].id = mem[p].tx.id
    BY <1>1, <1>4 DEF Undoing, OfTx
  <2> QED BY <1>1, <1>4, <2>1 DEF Holds, UndoingFailed
<1> QED BY <1>1, <1>2, <1>3, <1>4

(* One step of the compensation, whatever it takes back. *)
LEMMA UndoStep ==
    ASSUME InstallerAssumption, InstallInv, NEW p \in Procs, NEW w, Doing(p, w), NEW err \in BOOLEAN, NEW fault \in BOOLEAN,
           Spend(fault), Mem(p, [mem[p] EXCEPT !.todo = Tail(@), !.bad = @ \/ err]),
           UNCHANGED <<lease, journal, pending, jobs, world>>, env' \in EnvType, identity' \in IdentityType,
           known' \in [Procs -> SUBSET Tx], \A q \in Procs \ {p} : known'[q] = known[q],
           \A t \in Tx : Still(t), StoresInv', marker' \in {None, marker},
           \A s \in Tx \ {mem[p].tx.id} : env.file = s => env'.file = s,
           \A d \in Databases : identity[d].row \in {identity'[d].row, mem[p].tx.id},
           w \in {"env", "prepared"} => err \/ ~Written(env', mem[p].tx.id),
           w \in {"identity", "recover"} => err \/ faults' >= 2 \/ Nowhere(identity', mem[p].tx.id),
           \A s \in Tx : s \in known[p] => s \in known'[p] \/ (s = mem[p].tx.id /\ Nowhere(identity', s)),
           w = "recover" => fault \/ Nowhere(identity', mem[p].tx.id),
           w = "marker" => env' = env /\ (marker = mem[p].tx.id /\ marker' # None => err /\ (fault \/ mem[p].then = "rollback")),
           w = "marker" /\ mem[p].then = "rollback" /\ mem[p].bad => marker' = marker,
           w # "marker" \/ marker # mem[p].tx.id => marker' = marker,
           w = "marker" => UNCHANGED <<identity, known>>
    PROVE  InstallInv'
<1> DEFINE m == mem[p]
           t == mem[p].tx.id
           new == [mem[p] EXCEPT !.todo = Tail(@), !.bad = @ \/ err]
           rest == ToSet(m.todo)
           left == ToSet(Tail(m.todo))
<1>1. /\ m.pc = "undo" /\ m.pc \in Inside /\ m.todo # <<>> /\ Head(m.todo) = w /\ m \in Memory /\ m.todo \in Seq(Words)
      /\ t # None /\ t \in Tx /\ m.then \in {"fail", "recover", "rollback"} /\ mem' = [mem EXCEPT ![p] = new]
  BY Here DEF Doing, At, Undoing, Memory, Inside, Mem
<1>2. rest = {w} \cup left /\ Tail(m.todo) \in Seq(Words) /\ w \in Words
  BY <1>1, TailOf
<1>3. /\ new \in Memory /\ new.pc = "undo" /\ new.call = m.call /\ new.db = m.db /\ new.tx = m.tx /\ new.then = m.then
      /\ new.err = m.err /\ new.todo = Tail(m.todo) /\ (new.bad <=> m.bad \/ err)
  <2>1. m.bad \/ err \in BOOLEAN
    BY <1>1 DEF Memory
  <2> QED BY <1>1, <1>2, <2>1 DEF Memory
<1> HIDE DEF new
<1>4. mem'[p] = new /\ Mine(p)
  BY <1>1, Here DEF Mine
<1>5. /\ UNCHANGED <<lease, journal, pending, jobs, node, backups, user, crashes, edits>>
  BY DEF world
<1>6. faults' \in Nat /\ faults' >= faults /\ faults' <= MaxFaults /\ (fault => faults' = faults + 1) /\ faults \in Nat
  BY Spending, Here DEF InstallInv
<1>7. Types'
  <2>1. Types
    BY DEF InstallInv
  <2>2. mem' \in [Procs -> Memory] /\ marker' \in Tx \cup {None} /\ lease' \in Procs \cup {Free, Stale}
        /\ pending' \in [Procs -> PendingRecord]
    BY <1>1, <1>3, <1>5, <2>1, Here DEF Types
  <2> QED BY <1>5, <1>6, <2>1, <2>2, Here, InsideTypes
<1>8. /\ Nowhere(identity, t) => Nowhere(identity', t)
      /\ Written(env', t) => Written(env, t)
      /\ marker' = t => marker = t
  BY <1>1 DEF Still, Quiet, Nowhere, Written
<1>9. w = "marker" /\ m.then = "fail" => /\ pending[p].id = t /\ faults >= 1 /\ journal.id = t
                                         /\ m.todo = <<"marker", "env", "identity">>
  BY <1>1, <1>2, Here DEF Undoing
<1>10. w = "marker" /\ m.then = "rollback" => left = {}
  BY <1>1, TailOf, Here DEF Undoing
<1>11. m.then = "fail" => w = "marker" \/ "marker" \notin rest
  <2>1. Head(<<"marker", "env", "identity">>) = "marker"
    OBVIOUS
  <2> QED BY <1>1, <2>1, Here DEF Undoing
<1>12. m.then = "fail" => "marker" \notin left
  <2>1. Tail(<<"marker", "env", "identity">>) = <<"env", "identity">> /\ ToSet(<<"env", "identity">>) = {"env", "identity"}
    BY DEF ToSet
  <2> QED BY <1>2, <1>9, <1>11, <2>1
<1>13. faults >= 2 => faults' >= 2
  BY <1>6
<1>14. Undoing(p)'
  <2>1. left \cap {"env", "prepared"} = {} /\ ~new.bad => ~Written(env', t)
    BY <1>1, <1>2, <1>3, <1>8, Here DEF Undoing
  <2>2. left \cap {"identity", "recover"} = {} /\ ~new.bad => faults' >= 2 \/ Nowhere(identity', t)
    BY <1>1, <1>2, <1>3, <1>8, <1>13, Here DEF Undoing
  <2>3. "marker" \notin left /\ ~new.bad => marker' # t
    <3>1. CASE w = "marker"
      BY <1>1, <1>3, <1>8, <3>1
    <3>2. CASE w # "marker"
      BY <1>1, <1>2, <1>3, <1>8, <3>2, Here DEF Undoing
    <3> QED BY <3>1, <3>2
  <2>4. /\ "env" \in left => m.tx.env # NoReceipt
        /\ "prepared" \in left => marker' # t
        /\ "identity" \in left => t \in known'[p] \/ faults' >= 2 \/ Nowhere(identity', t)
        /\ "recover" \in left => m.then # "rollback"
    BY <1>1, <1>2, <1>8, <1>13, Here DEF Undoing
  <2>5. m.then = "fail" => /\ m.call = "apply" /\ journal'.id = t /\ m.tx.db = m.db /\ marker' \in {None, t}
                           /\ m.err = "none" /\ (marker' = None \/ faults' >= 2)
    <3>1. CASE w = "marker"
      BY <1>1, <1>5, <1>6, <1>9, <3>1, Here DEF Undoing
    <3>2. CASE w # "marker"
      BY <1>1, <1>5, <1>11, <1>13, <3>2, Here DEF Undoing
    <3> QED BY <3>1, <3>2
  <2>6. m.then = "recover" => m.call = "apply" /\ journal' = m.tx /\ m.tx.db = m.db /\ marker' = None /\ m.err = "none"
    BY <1>1, <1>5, Here DEF Undoing
  <2>7. m.then = "rollback" => /\ m.call = "rollback" /\ OfTx(m.tx) = pending'[p] /\ m.tx.phase = "applying"
                               /\ \A i \in DOMAIN Tail(m.todo) : Tail(m.todo)[i] = "marker" => i = Len(Tail(m.todo))
    <3>1. ASSUME m.then = "rollback", NEW i \in DOMAIN Tail(m.todo), Tail(m.todo)[i] = "marker" PROVE i = Len(Tail(m.todo))
      <4>1. i + 1 = Len(m.todo) /\ Len(Tail(m.todo)) = Len(m.todo) - 1 /\ i \in Nat
        BY <1>1, <1>2, <3>1, TailOf, LenProperties, Here DEF Undoing
      <4> QED BY <4>1
    <3> QED BY <1>1, <1>5, <3>1, Here DEF Undoing
  <2>8. /\ mem'[p].tx = m.tx /\ mem'[p].todo = Tail(m.todo) /\ ToSet(mem'[p].todo) = left /\ (mem'[p].bad <=> new.bad)
        /\ mem'[p].then = m.then /\ mem'[p].call = m.call /\ mem'[p].err = m.err /\ mem'[p].db = m.db /\ t # None
    BY <1>1, <1>3, <1>4
  <2> HIDE DEF left, rest
  <2> QED BY <1>12, <2>1, <2>2, <2>3, <2>4, <2>5, <2>6, <2>7, <2>8 DEF Undoing
<1>15. Applying(p)' /\ Preparing(p)' /\ Ending(p)'
  BY <1>3, <1>4 DEF Applying, Preparing, Ending, Forward, BeforeEnv, BeforeIdentity, WithEnv
<1>16. Holds(p)'
  <2> DEFINE h == pending[p].id
  <2>1. SUFFICES ASSUME h # None, faults' < 2
                 PROVE  /\ Nowhere(identity', h) \/ h \in known'[p] \/ UndoingFailed(p, "recover")'
                        /\ marker' # h
    BY <1>5, <1>6 DEF Holds
  <2>2. h \in Tx /\ faults < 2
    BY <1>6, <2>1, Here DEF PendingRecord
  <2>3. Nowhere(identity, h) => Nowhere(identity', h)
    BY <2>2 DEF Still, Quiet, Nowhere
  <2>4. UndoingFailed(p, "recover") => Nowhere(identity', h) \/ UndoingFailed(p, "recover")'
    <3> SUFFICES ASSUME UndoingFailed(p, "recover") PROVE Nowhere(identity', h) \/ UndoingFailed(p, "recover")'
      OBVIOUS
    <3>1. m.then = "fail" /\ t = h /\ "recover" \in rest /\ faults >= 1 /\ faults' >= 1
      BY <1>6 DEF UndoingFailed
    <3>2. CASE "recover" \in left
      BY <1>3, <1>4, <1>5, <3>1, <3>2 DEF UndoingFailed
    <3>3. CASE "recover" \notin left
      BY <1>2, <1>6, <2>1, <3>1, <3>3
    <3> QED BY <3>2, <3>3
  <2>5. h \in known[p] => h \in known'[p] \/ Nowhere(identity', h)
    BY <2>2
  <2>6. marker' # h
    <3> SUFFICES ASSUME marker' = h PROVE FALSE
      OBVIOUS
    <3>1. marker = h
      BY <2>2 DEF Still, Quiet
    <3>2. UndoingFailed(p, "marker")
      BY <2>1, <2>2, <3>1, Here DEF Holds
    <3>3. m.then = "fail" /\ t = h /\ "marker" \in rest /\ faults >= 1
      BY <3>2 DEF UndoingFailed
    <3>4. w = "marker" /\ fault
      BY <1>11, <2>1, <3>1, <3>3
    <3> QED BY <1>6, <2>1, <3>3, <3>4
  <2> QED BY <2>1, <2>2, <2>3, <2>4, <2>5, <2>6, Here DEF Holds
<1>17. Own(p)'
  BY <1>14, <1>15, <1>16 DEF Own
<1>18. Named'
  <2> SUFFICES ASSUME NEW s \in Tx, marker' # s
               PROVE  /\ Written(env', s) => journal'.id = s
                      /\ faults' < 2 /\ ~Nowhere(identity', s) => journal'.id = s
    BY DEF Named
  <2>1. (Written(env', s) => Written(env, s)) /\ (Nowhere(identity, s) => Nowhere(identity', s)) /\ (faults' < 2 => faults < 2)
    BY <1>6 DEF Still, Quiet, Nowhere, Written
  <2>2. CASE marker # s
    BY <1>5, <2>1, <2>2 DEF InstallInv, Named
  <2>3. CASE marker = s
    <3>1. w = "marker" /\ s = t
      BY <2>3
    <3>2. CASE m.then = "fail"
      BY <1>5, <1>9, <3>1, <3>2
    <3>3. CASE m.then = "recover"
      BY <1>1, <2>3, <3>3, Here DEF Undoing
    <3>4. CASE m.then = "rollback"
      <4>1. ~m.bad /\ rest = {"marker"}
        BY <1>2, <1>10, <2>3, <3>1, <3>4
      <4>2. ~Written(env, t) /\ (faults >= 2 \/ Nowhere(identity, t))
        BY <1>1, <4>1, Here DEF Undoing
      <4> QED BY <1>6, <2>1, <3>1, <4>2
    <3> QED BY <1>1, <3>2, <3>3, <3>4
  <2> QED BY <2>2, <2>3
<1>19. Whole'
  <2> SUFFICES ASSUME marker' # None, faults' < 2
               PROVE  (\E d \in Databases : identity'[d].row = marker') /\ (env'.file = marker' \/ edits' > 0)
    BY DEF Whole
  <2>1. marker' = marker /\ faults < 2 /\ marker \in Tx
    BY <1>6, Here
  <2>2. (\E d \in Databases : identity[d].row = marker) /\ (env.file = marker \/ edits > 0)
    BY <2>1 DEF InstallInv, Whole
  <2>3. CASE w = "marker"
    BY <1>5, <2>1, <2>2, <2>3
  <2>4. CASE w # "marker"
    <3>1. marker # t
      BY <1>6, <2>1, <2>4, NotMarked
    <3> QED BY <1>5, <2>1, <2>2, <3>1
  <2> QED BY <2>3, <2>4
<1>20. Committed'
  <2>1. Achieved(p)' => Achieved(p)
    BY <1>3, <1>4, <1>5 DEF Achieved
  <2>2. marker # None /\ (\A q \in Procs : pending[q].id # marker) => marker' = marker /\ pending'[p].id # marker
    <3>1. m.then = "rollback" => pending[p].id = t
      <4>1. Undoing(p)
        BY Here
      <4> QED BY <1>1, <4>1 DEF Undoing, OfTx
    <3>2. m.then = "recover" => marker = None
      BY <1>1, Here DEF Undoing
    <3> QED BY <1>1, <1>5, <1>9, <3>1, <3>2
  <2> QED BY <1>4, <2>1, <2>2, CommittedOn DEF InstallInv
<1>21. Told(journal)' /\ (journal'.id = None => journal' = NoJournal) /\ Told(pending[p])' /\ Told(mem[p].tx)'
  <2>1. \A x : x.id \in Tx \cup {None} /\ Told(x) => Tells(x, env', identity', marker', user', faults')
    BY TellsOn DEF Told, Still
  <2>2. pending[p].id \in Tx \cup {None}
    BY Here DEF PendingRecord
  <2> QED BY <1>3, <1>4, <1>5, <2>1, <2>2, Here DEF Told
<1>22. lease' = p
  BY <1>1, <1>5, Here
<1> QED BY <1>1, <1>4, <1>6, <1>7, <1>17, <1>18, <1>19, <1>20, <1>21, <1>22, Assembled
(* What the one who compensates knows. *)
LEMMA Compensates ==
    ASSUME InstallerAssumption, InstallInv, NEW p \in Procs, NEW w, Doing(p, w)
    PROVE  /\ w \in ToSet(mem[p].todo) /\ mem[p].pc = "undo" /\ mem[p].tx.id \in Tx /\ mem[p].tx.db \in Databases /\ Undoing(p)
           /\ env \in EnvType /\ identity \in IdentityType /\ known \in [Procs -> SUBSET Tx] /\ user \in {None} \cup Contents
           /\ EnvGood(env, user, marker) /\ \A d \in Databases : identity[d].nav \in Tx => identity[d].row = identity[d].nav
           /\ Told(mem[p].tx)
<1>1. mem[p].pc = "undo" /\ mem[p].todo # <<>> /\ Head(mem[p].todo) = w /\ mem[p].todo \in Seq(Words)
  BY Here DEF Doing, At, Memory
<1>2. w \in ToSet(mem[p].todo)
  BY <1>1, TailOf
<1>3. Undoing(p) /\ mem[p].tx.id \in Tx /\ mem[p].tx.id # None
  BY <1>1, Here DEF Undoing
<1>4. mem[p].tx.db \in Databases /\ Told(mem[p].tx)
  BY <1>3, Here DEF Told, Tells
<1> QED BY <1>1, <1>2, <1>3, <1>4 DEF InstallInv, Types, TypeOK, EnvType, IdentityType, StoresInv

LEMMA TakenStill ==
    ASSUME Types, NEW t, TakenBack(env, env', t), UNCHANGED <<identity, marker, user>>, faults' \in Nat, faults' >= faults
    PROVE  \A s \in Tx : Still(s)
  BY DEF TakenBack, Fewer, Still, Quiet, Types

LEMMA UndoMarkerKeeps == ASSUME InstallerAssumption, InstallInv, NEW p \in Procs, UndoMarker(p) PROVE InstallInv'
<1> DEFINE t == mem[p].tx.id
<1>1. Doing(p, "marker") /\ UNCHANGED <<lease, journal, env, identity, pending, known, jobs, world>>
  BY DEF UndoMarker, aside
<1>2. \E o : /\ Outcome(o) /\ marker' = o.now /\ Undone(p, o)
             /\ marker' = marker \/ (marker = t /\ marker' = None)
             /\ marker = t /\ marker' # None => o.err /\ (o.fault \/ mem[p].then = "rollback")
             /\ mem[p].then = "rollback" /\ mem[p].bad => marker' = marker
  <2>1. CASE mem[p].then = "rollback" /\ mem[p].bad
    <3>1. Undone(p, Refused(marker)) /\ marker' = marker
      BY <2>1 DEF UndoMarker
    <3> QED BY <2>1, <3>1, Outcomes
  <2>2. CASE ~(mem[p].then = "rollback" /\ mem[p].bad)
    <3>1. PICK o \in MarkerRemove(marker, t) : marker' = o.now /\ Undone(p, o)
      BY <2>2 DEF UndoMarker
    <3>2. /\ Outcome(o) /\ (o.now = marker \/ (marker = t /\ o.now = None))
          /\ ~o.err => o.now = None
          /\ o.err => o.fault \/ marker \notin {None, t}
      BY MarkerRemoved
    <3> QED BY <2>2, <3>1, <3>2 DEF Outcome
  <2> QED BY <2>1, <2>2
<1>3. PICK o : /\ Outcome(o) /\ marker' = o.now /\ Undone(p, o)
               /\ marker' = marker \/ (marker = t /\ marker' = None)
               /\ marker = t /\ marker' # None => o.err /\ (o.fault \/ mem[p].then = "rollback")
               /\ mem[p].then = "rollback" /\ mem[p].bad => marker' = marker
  BY <1>2
<1>4. /\ o.err \in BOOLEAN /\ o.fault \in BOOLEAN /\ Spend(o.fault)
      /\ Mem(p, [mem[p] EXCEPT !.todo = Tail(@), !.bad = @ \/ o.err])
  BY <1>3 DEF Outcome, Undone
<1>5. /\ "marker" \in ToSet(mem[p].todo) /\ t \in Tx /\ Undoing(p) /\ mem[p].pc = "undo" /\ EnvGood(env, user, marker)
      /\ env \in EnvType /\ identity \in IdentityType /\ known \in [Procs -> SUBSET Tx]
  BY <1>1, Compensates
<1>6. faults \in Nat /\ faults' \in Nat /\ faults' >= faults /\ user' = user /\ None \notin Tx
  BY <1>1, <1>4, Spending, Here DEF InstallInv, world
<1>7. \A s \in Tx : Still(s)
  BY <1>1, <1>3, <1>6 DEF Still, Quiet
<1>8. ASSUME marker = t, marker' = None PROVE env.file = t /\ env.backup[t] = None => user = None
  <2>1. CASE mem[p].then = "fail"
    BY <1>5, <2>1 DEF Undoing
  <2>2. CASE mem[p].then = "recover"
    BY <1>5, <1>6, <1>8, <2>2 DEF Undoing
  <2>3. CASE mem[p].then = "rollback"
    <3>1. ~mem[p].bad
      BY <1>3, <1>6, <1>8, <1>5, <2>3
    <3>2. ToSet(mem[p].todo) = {"marker"}
      <4>1. mem[p].todo \in Seq(Words) /\ mem[p].todo # <<>> /\ Head(mem[p].todo) = "marker"
        BY <1>1, Here DEF Doing, Memory
      <4>2. Len(mem[p].todo) = 1
        BY <1>5, <2>3, <4>1, TailOf DEF Undoing
      <4> QED BY <4>1, <4>2, TailOf
    <3>3. ~Written(env, t)
      BY <1>5, <3>1, <3>2 DEF Undoing
    <3> QED BY <3>3 DEF Written
  <2>4. mem[p].then \in {"fail", "recover", "rollback"}
    BY Here DEF Memory
  <2> QED BY <2>1, <2>2, <2>3, <2>4
<1>9. StoresInv'
  <2>1. EnvGood(env, user, marker')
    BY <1>3, <1>5, <1>8 DEF EnvGood
  <2> QED BY <1>1, <1>6, <2>1 DEF StoresInv, InstallInv
<1>10. /\ "marker" \notin {"env", "prepared"} /\ "marker" \notin {"identity", "recover"} /\ marker' \in {None, marker}
  BY <1>3
<1> HIDE DEF t
<1> QED BY <1>1, <1>3, <1>4, <1>5, <1>7, <1>9, <1>10, UndoStep DEF t
(* A step that takes back what a transaction wrote into .env. *)
LEMMA UndoFile ==
    ASSUME InstallerAssumption, InstallInv, NEW p \in Procs, NEW w \in {"env", "prepared"}, Doing(p, w), NEW o,
           Outcome(o), env' = o.now, EnvGood(o.now, user, marker), TakenBack(env, o.now, mem[p].tx.id),
           ~o.err => ~Written(o.now, mem[p].tx.id), Undone(p, o),
           UNCHANGED <<lease, journal, marker, identity, pending, known, jobs, world>>
    PROVE  InstallInv'
<1> DEFINE t == mem[p].tx.id
<1>1. /\ o.err \in BOOLEAN /\ o.fault \in BOOLEAN /\ Spend(o.fault)
      /\ Mem(p, [mem[p] EXCEPT !.todo = Tail(@), !.bad = @ \/ o.err])
  BY DEF Outcome, Undone
<1>2. identity \in IdentityType /\ known \in [Procs -> SUBSET Tx] /\ t \in Tx
      /\ \A d \in Databases : identity[d].nav \in Tx => identity[d].row = identity[d].nav
  BY Compensates
<1>3. faults' \in Nat /\ faults' >= faults /\ user' = user /\ Types
  BY <1>1, Spending DEF InstallInv, world
<1>4. \A s \in Tx : Still(s)
  BY <1>3, TakenStill
<1>5. env' \in EnvType /\ StoresInv'
  BY <1>2, <1>3 DEF EnvGood, EnvType, StoresInv
<1>6. \A s \in Tx \ {t} : env.file = s => env'.file = s
  BY DEF TakenBack, OfOthers
<1>7. marker' \in {None, marker} /\ w \notin {"identity", "recover", "marker"}
  OBVIOUS
<1> HIDE DEF t
<1> QED BY <1>1, <1>2, <1>4, <1>5, <1>6, <1>7, UndoStep DEF t

LEMMA UndoEnvironmentKeeps ==
    ASSUME InstallerAssumption, InstallInv, NEW p \in Procs, UndoEnvironment(p) PROVE InstallInv'
<1> DEFINE t == mem[p].tx.id
           r == mem[p].tx.env
<1>1. Doing(p, "env") /\ UNCHANGED <<lease, journal, marker, identity, pending, known, jobs, world>>
  BY DEF UndoEnvironment, aside
<1>2. PICK o \in Rollback(env, t, r) : env' = o.now /\ Undone(p, o)
  BY DEF UndoEnvironment
<1>3. /\ EnvGood(env, user, marker) /\ user \in {None} \cup Contents /\ t \in Tx /\ r # NoReceipt
      /\ Told(mem[p].tx) /\ t # None
  BY <1>1, Compensates, Here DEF Undoing
<1>4. ReceiptOf(t, r, env, user)
  BY <1>3 DEF Told, Tells
<1>5. EnvGood(o.now, user, marker) /\ TakenBack(env, o.now, t) /\ Outcome(o) /\ (~o.err => ~Written(o.now, t))
  BY <1>2, <1>3, <1>4, RollbackOutcome
<1> QED BY <1>1, <1>2, <1>5, UndoFile

LEMMA UndoPreparedKeeps ==
    ASSUME InstallerAssumption, InstallInv, NEW p \in Procs, UndoPrepared(p) PROVE InstallInv'
<1> DEFINE t == mem[p].tx.id
<1>1. Doing(p, "prepared") /\ UNCHANGED <<lease, journal, marker, identity, pending, known, jobs, world>>
  BY DEF UndoPrepared, aside
<1>2. PICK o \in RecoverPrepared(env, t) : env' = o.now /\ Undone(p, o)
  BY DEF UndoPrepared
<1>3. EnvGood(env, user, marker) /\ user \in {None} \cup Contents /\ t \in Tx /\ marker # t
  BY <1>1, Compensates DEF Undoing
<1>4. EnvGood(o.now, user, marker) /\ TakenBack(env, o.now, t) /\ Outcome(o) /\ (~o.err => ~Written(o.now, t))
  BY <1>2, <1>3, PreparedOutcome
<1> QED BY <1>1, <1>2, <1>4, UndoFile

(* What a deletion of the administrator leaves of the databases. *)
LEMMA Deleted ==
    ASSUME InstallerAssumption, InstallInv, NEW p \in Procs, NEW w, Doing(p, w), NEW d, d = mem[p].tx.db,
           NEW o \in IdentityDelete(identity[d], mem[p].tx.id), identity' = [identity EXCEPT ![d] = o.now],
           UNCHANGED <<env, marker, user>>, faults' \in Nat, faults' >= faults
    PROVE  /\ Outcome(o) /\ identity' \in IdentityType /\ StoresInv' /\ \A s \in Tx : Still(s)
           /\ \A e \in Databases : identity[e].row \in {identity'[e].row, mem[p].tx.id}
           /\ ~o.err \/ (NotOwned(identity[d], mem[p].tx.id) /\ ~o.fault) => Nowhere(identity', mem[p].tx.id)
           /\ o.err /\ ~(NotOwned(identity[d], mem[p].tx.id) /\ ~o.fault) => o.fault
           /\ o = [now |-> o.now, err |-> o.err, fault |-> o.fault]
<1> DEFINE t == mem[p].tx.id
           row == identity[d]
<1>1. /\ t \in Tx /\ d \in Databases /\ identity \in IdentityType /\ Told(mem[p].tx) /\ EnvGood(env, user, marker)
      /\ \A e \in Databases : identity[e].nav \in Tx => identity[e].row = identity[e].nav
  BY Compensates
<1>2. row \in [row : {None, Foreign} \cup Tx, nav : {None} \cup Seeds \cup Tx] /\ (row.nav \in Tx => row.row = row.nav)
  BY <1>1 DEF IdentityType
<1>3. /\ Outcome(o)
      /\ o.now = row \/ (row.row = t /\ o.now.row = None /\ o.now.nav \notin Tx)
      /\ o.now \in [row : {None, Foreign} \cup Tx, nav : {None} \cup Seeds \cup Tx]
      /\ ~o.err \/ (NotOwned(row, t) /\ ~o.fault) => o.now.row # t /\ o.now.nav # t
      /\ o.err /\ ~(NotOwned(row, t) /\ ~o.fault) => o.fault
  <2> HIDE DEF row
  <2> QED BY <1>1, <1>2, DeleteOutcome DEF row
<1>4. /\ identity' \in IdentityType /\ identity'[d] = o.now /\ \A e \in Databases \ {d} : identity'[e] = identity[e]
  BY <1>1, <1>3 DEF IdentityType
<1>5. None \notin Tx
  BY DEF InstallerAssumption
<1>6. \A e \in Databases : identity'[e] = identity[e] \/ (identity[e].row = t /\ identity'[e].row = None /\ identity'[e].nav \notin Tx)
  BY <1>3, <1>4
<1>7. StoresInv'
  BY <1>1, <1>6 DEF StoresInv
<1>8. \A s \in Tx : Still(s)
  <2>1. \A s \in Tx : \A e \in Databases : Inserted(identity', s, e) => Inserted(identity, s, e)
    BY <1>5, <1>6 DEF Inserted
  <2>2. faults \in Nat
    BY Here
  <2> QED BY <2>1, <2>2 DEF Still, Quiet
<1>9. ~o.err \/ (NotOwned(row, t) /\ ~o.fault) => Nowhere(identity', t)
  <2>1. \A e \in Databases : Inserted(identity, t, e) => e = d
    BY <1>1, <1>5 DEF Told, Tells
  <2> QED BY <1>3, <1>4, <2>1 DEF Nowhere, Inserted
<1>10. o = [now |-> o.now, err |-> o.err, fault |-> o.fault]
  BY DEF IdentityDelete, Effect, Did, Broke, Refused
<1>11. \A e \in Databases : identity[e].row \in {identity'[e].row, t}
  BY <1>6
<1> QED BY <1>3, <1>4, <1>7, <1>8, <1>9, <1>10, <1>11

(* A step that takes back the administrator. *)
LEMMA UndoRow ==
    ASSUME InstallerAssumption, InstallInv, NEW p \in Procs, NEW w \in {"identity", "recover"}, Doing(p, w),
           NEW err \in BOOLEAN, NEW fault \in BOOLEAN, Spend(fault),
           Mem(p, [mem[p] EXCEPT !.todo = Tail(@), !.bad = @ \/ err]),
           UNCHANGED <<lease, journal, env, marker, pending, jobs, world>>,
           identity' \in IdentityType, StoresInv', \A s \in Tx : Still(s),
           \A e \in Databases : identity[e].row \in {identity'[e].row, mem[p].tx.id},
           err \/ faults' >= 2 \/ Nowhere(identity', mem[p].tx.id),
           w = "recover" => fault \/ Nowhere(identity', mem[p].tx.id),
           \/ known' = known
           \/ Forget(p, mem[p].tx.id) /\ Nowhere(identity', mem[p].tx.id)
    PROVE  InstallInv'
<1>1. env \in EnvType /\ known \in [Procs -> SUBSET Tx]
  BY Compensates
<1>2. /\ known' \in [Procs -> SUBSET Tx] /\ \A q \in Procs \ {p} : known'[q] = known[q]
      /\ \A s \in Tx : s \in known[p] => s \in known'[p] \/ (s = mem[p].tx.id /\ Nowhere(identity', s))
  BY <1>1 DEF Forget
<1>3. marker' \in {None, marker} /\ w \notin {"env", "prepared", "marker"}
  OBVIOUS
<1> QED BY <1>1, <1>2, <1>3, UndoStep

LEMMA RecoverIdentityKeeps ==
    ASSUME InstallerAssumption, InstallInv, NEW p \in Procs, RecoverIdentity(p) PROVE InstallInv'
<1> DEFINE t == mem[p].tx.id
           d == mem[p].db
           fine(o) == ~o.err \/ (NotOwned(identity[d], t) /\ ~o.fault)
<1>1. Doing(p, "recover") /\ UNCHANGED <<lease, journal, env, marker, pending, jobs, world>>
  BY DEF RecoverIdentity
<1>2. PICK o \in IdentityDelete(identity[d], t) :
         /\ identity' = [identity EXCEPT ![d] = o.now]
         /\ Undone(p, [o EXCEPT !.err = ~fine(o)])
         /\ IF fine(o) THEN Forget(p, t) ELSE UNCHANGED known
  BY DEF RecoverIdentity
<1>3. mem[p].tx.db = d
  BY <1>1, Compensates, Here DEF Undoing, Memory
<1>4. o = [now |-> o.now, err |-> o.err, fault |-> o.fault] /\ Outcome(o)
  <2>1. Outcome(o)
    BY Outcomes DEF IdentityDelete, Effect
  <2>2. o = [now |-> o.now, err |-> o.err, fault |-> o.fault]
    BY DEF IdentityDelete, Effect, Did, Broke, Refused
  <2> QED BY <2>1, <2>2
<1>5. /\ fine(o) \in BOOLEAN /\ o.fault \in BOOLEAN /\ Spend(o.fault)
      /\ Mem(p, [mem[p] EXCEPT !.todo = Tail(@), !.bad = @ \/ ~fine(o)])
  <2>1. [o EXCEPT !.err = ~fine(o)].fault = o.fault /\ [o EXCEPT !.err = ~fine(o)].err = ~fine(o)
    BY <1>4
  <2> QED BY <1>2, <1>4, <2>1 DEF Undone, Outcome
<1>6. faults' \in Nat /\ faults' >= faults /\ UNCHANGED <<env, marker, user>>
  BY <1>1, <1>5, Spending DEF InstallInv, world
<1>7. /\ identity' \in IdentityType /\ StoresInv' /\ \A s \in Tx : Still(s)
      /\ \A e \in Databases : identity[e].row \in {identity'[e].row, t}
      /\ fine(o) => Nowhere(identity', t)
      /\ ~fine(o) => o.fault
  BY <1>1, <1>2, <1>3, <1>4, <1>6, Deleted DEF Outcome
<1> HIDE DEF fine
<1> QED BY <1>1, <1>2, <1>5, <1>7, UndoRow

LEMMA UndoIdentityKeeps ==
    ASSUME InstallerAssumption, InstallInv, NEW p \in Procs, UndoIdentity(p) PROVE InstallInv'
<1> DEFINE t == mem[p].tx.id
           d == mem[p].tx.db
<1>1. Doing(p, "identity") /\ UNCHANGED <<lease, journal, env, marker, pending, jobs, world>>
  BY DEF UndoIdentity
<1>2. CASE t \notin known[p]
  <2>1. Undone(p, Did(identity[d])) /\ identity' = identity /\ known' = known
    BY <1>2 DEF UndoIdentity
  <2>2. Spend(FALSE) /\ Mem(p, [mem[p] EXCEPT !.todo = Tail(@), !.bad = @ \/ FALSE])
    BY <2>1 DEF Undone, Did
  <2>3. /\ identity \in IdentityType /\ env \in EnvType /\ StoresInv /\ Undoing(p) /\ mem[p].pc = "undo"
        /\ "identity" \in ToSet(mem[p].todo)
    BY <1>1, Compensates DEF InstallInv
  <2>4. faults >= 2 \/ Nowhere(identity, t)
    BY <1>2, <2>3 DEF Undoing
  <2>5. faults' \in Nat /\ faults' = faults /\ UNCHANGED <<env, marker, user>>
    BY <1>1, <2>2, Spending DEF InstallInv, world
  <2>6. StoresInv' /\ \A s \in Tx : Still(s)
    BY <2>1, <2>3, <2>5, Here DEF StoresInv, Still, Quiet
  <2>7. \A e \in Databases : identity[e].row \in {identity'[e].row, t}
    BY <2>1
  <2>8. FALSE \in BOOLEAN
    OBVIOUS
  <2> QED BY <1>1, <2>1, <2>2, <2>3, <2>4, <2>5, <2>6, <2>7, <2>8, UndoRow
<1>3. CASE t \in known[p]
  <2>1. PICK o \in IdentityDelete(identity[d], t) :
          /\ identity' = [identity EXCEPT ![d] = o.now]
          /\ Undone(p, o)
          /\ IF ~o.err \/ (NotOwned(identity[d], t) /\ ~o.fault) THEN Forget(p, t) ELSE UNCHANGED known
    BY <1>3 DEF UndoIdentity
  <2>2. Outcome(o)
    BY Outcomes DEF IdentityDelete, Effect
  <2>3. /\ o.err \in BOOLEAN /\ o.fault \in BOOLEAN /\ Spend(o.fault)
        /\ Mem(p, [mem[p] EXCEPT !.todo = Tail(@), !.bad = @ \/ o.err])
    BY <2>1, <2>2 DEF Undone, Outcome
  <2>4. faults' \in Nat /\ faults' >= faults /\ UNCHANGED <<env, marker, user>>
    BY <1>1, <2>3, Spending DEF InstallInv, world
  <2>5. /\ identity' \in IdentityType /\ StoresInv' /\ \A s \in Tx : Still(s)
        /\ \A e \in Databases : identity[e].row \in {identity'[e].row, t}
        /\ ~o.err \/ (NotOwned(identity[d], t) /\ ~o.fault) => Nowhere(identity', t)
    BY <1>1, <2>1, <2>4, Deleted
  <2> QED BY <1>1, <2>1, <2>3, <2>5, UndoRow
<1> QED BY <1>2, <1>3
-----------------------------------------------------------------------------
(* The effects. *)

LEMMA Effected ==
    ASSUME InstallerAssumption, InstallInv, NEW p \in Procs, mem[p].pc \in Forward, NEW fault \in BOOLEAN, Spend(fault),
           NEW new \in Memory, mem' = [mem EXCEPT ![p] = new], new.pc \in Inside,
           NEW held \in PendingRecord, pending' = [pending EXCEPT ![p] = held],
           UNCHANGED <<lease, journal, jobs, world>>, env' \in EnvType, identity' \in IdentityType, marker' \in Tx \cup {None},
           known' \in [Procs -> SUBSET Tx], \A q \in Procs \ {p} : known'[q] = known[q],
           \A s \in Tx \ {mem[p].tx.id} : Still(s),
           Told(journal)', Told(pending[p])', Told(mem[p].tx)', StoresInv', Whole', Committed', Own(p)'
    PROVE  InstallInv'
<1>1. marker = None /\ journal.id = mem[p].tx.id /\ mem[p].pc \in Inside /\ mem[p].tx.id # None
  BY Underway
<1>2. UNCHANGED <<node, backups, user, crashes, edits>>
  BY DEF world
<1>3. faults' \in Nat /\ faults' >= faults /\ faults' <= MaxFaults
  BY Spending DEF InstallInv
<1>4. /\ mem' \in [Procs -> Memory] /\ pending' \in [Procs -> PendingRecord] /\ mem'[p] = new /\ Mine(p)
  BY DEF Mine, InstallInv, Types
<1>5. Types'
  <2>1. Types
    BY DEF InstallInv
  <2> QED BY <1>2, <1>3, <1>4, <2>1, Here, InsideTypes
<1>6. Named'
  <2> SUFFICES ASSUME NEW s \in Tx, marker' # s
               PROVE  /\ Written(env', s) => journal'.id = s
                      /\ faults' < 2 /\ ~Nowhere(identity', s) => journal'.id = s
    BY DEF Named
  <2>1. CASE s = mem[p].tx.id
    BY <1>1, <2>1
  <2>2. CASE s # mem[p].tx.id
    <3>1. (Written(env', s) => Written(env, s)) /\ (Nowhere(identity, s) => Nowhere(identity', s)) /\ (faults' < 2 => faults < 2)
      BY <1>3, <2>2, Here DEF Still, Quiet, Nowhere, Written
    <3>2. s # marker
      BY <1>1, Here
    <3> QED BY <3>1, <3>2 DEF InstallInv, Named
  <2> QED BY <2>1, <2>2
<1>7. \A s \in Tx : Still(s) \/ (s = mem[p].tx.id /\ mem[p].pc \in Forward)
  OBVIOUS
<1>8. lease' = p /\ (journal'.id = None => journal' = NoJournal)
  BY <1>1, Here
<1> QED BY <1>1, <1>3, <1>4, <1>5, <1>6, <1>7, <1>8, Assembled

(* Before an effect. *)
LEMMA Before ==
    ASSUME InstallerAssumption, InstallInv, NEW p \in Procs, mem[p].pc \in {"identity", "environment", "marker"}
    PROVE  /\ mem[p].pc \in Forward /\ mem[p] \in Memory /\ mem[p].tx \in Transactions /\ mem[p].tx.id \in Tx
           /\ mem[p].call = "apply" /\ mem[p].err = "none" /\ marker = None /\ mem[p].tx.db = mem[p].db
           /\ mem[p].db \in Databases /\ Stage(mem[p].pc, mem[p].tx) /\ Told(mem[p].tx) /\ journal = mem[p].tx
           /\ pending[p] = OfTx(mem[p].tx) /\ pending[p].id = mem[p].tx.id /\ pending[p] \in PendingRecord
           /\ Applying(p) /\ ~\E q \in Procs : Achieved(q)
           /\ env \in EnvType /\ identity \in IdentityType /\ known \in [Procs -> SUBSET Tx]
           /\ EnvGood(env, user, marker) /\ \A d \in Databases : identity[d].nav \in Tx => identity[d].row = identity[d].nav
           /\ user \in {None} \cup Contents /\ None \notin Tx /\ mem \in [Procs -> Memory]
<1>1. mem[p].pc \in Forward /\ mem[p].pc # "schema" /\ mem[p].pc # "advance_lock"
  BY DEF Forward, BeforeEnv, BeforeIdentity, WithEnv
<1>2. Applying(p) /\ mem[p] \in Memory /\ mem \in [Procs -> Memory]
  BY Here
<1>3. pending[p] = OfTx(mem[p].tx) /\ journal = mem[p].tx /\ mem[p].tx.id # None
  BY <1>1, <1>2 DEF Applying
<1>4. pending[p].id = mem[p].tx.id
  BY <1>3 DEF OfTx
<1>5. mem[p].tx.id \in Tx /\ mem[p].db \in Databases
  BY <1>1, <1>3, Here, Underway
<1>6. ~\E q \in Procs : Achieved(q)
  BY <1>1, Underway DEF InstallInv, Committed
<1>7. env \in EnvType /\ identity \in IdentityType /\ known \in [Procs -> SUBSET Tx] /\ user \in {None} \cup Contents
  BY DEF InstallInv, Types, TypeOK, EnvType, IdentityType
<1>8. EnvGood(env, user, marker) /\ \A d \in Databases : identity[d].nav \in Tx => identity[d].row = identity[d].nav
  BY DEF InstallInv, StoresInv
<1> QED BY <1>1, <1>2, <1>3, <1>4, <1>5, <1>6, <1>7, <1>8, Here, Here2, Underway

LEMMA Going ==
    ASSUME InstallerAssumption, InstallInv, NEW p \in Procs, mem[p].pc \in {"identity", "environment", "marker"},
           NEW todo \in {<<"recover">>, <<"prepared", "identity">>, <<"marker", "env", "identity">>}
    PROVE  LET new == [mem[p] EXCEPT !.pc = "undo", !.then = "fail", !.tx = mem[p].tx, !.todo = todo, !.bad = FALSE] IN
           /\ new \in Memory /\ new.pc = "undo" /\ new.then = "fail" /\ new.tx = mem[p].tx /\ new.todo = todo /\ ~new.bad
           /\ new.call = mem[p].call /\ new.err = mem[p].err /\ new.db = mem[p].db
           /\ FailWith(p, mem[p].tx, todo) => mem' = [mem EXCEPT ![p] = new] /\ mem'[p] = new
<1> DEFINE new == [mem[p] EXCEPT !.pc = "undo", !.then = "fail", !.tx = mem[p].tx, !.todo = todo, !.bad = FALSE]
<1>1. todo \in Seq(Words)
  <2>1. <<"recover">> \in Seq(Words) /\ <<"prepared", "identity">> \in Seq(Words)
    BY DEF Words
  <2>2. <<"marker", "env", "identity">> \in Seq(Words)
    BY DEF Words
  <2> QED BY <2>1, <2>2
<1>2. mem[p] \in Memory /\ mem[p].tx \in Transactions /\ mem \in [Procs -> Memory]
  BY Before
<1>3. /\ new \in Memory /\ new.pc = "undo" /\ new.then = "fail" /\ new.tx = mem[p].tx /\ new.todo = todo /\ ~new.bad
      /\ new.call = mem[p].call /\ new.err = mem[p].err /\ new.db = mem[p].db
  BY <1>1, <1>2 DEF Memory, Inside
<1>4. FailWith(p, mem[p].tx, todo) => mem' = [mem EXCEPT ![p] = new]
  BY DEF FailWith, Mem
<1> HIDE DEF new
<1> QED BY <1>2, <1>3, <1>4 DEF new

LEMMA InitializeIdentityKeeps ==
    ASSUME InstallerAssumption, InstallInv, NEW p \in Procs, InitializeIdentity(p) PROVE InstallInv'
<1> DEFINE tx == mem[p].tx
           t == mem[p].tx.id
           d == mem[p].db
<1>1. mem[p].pc = "identity" /\ UNCHANGED <<lease, journal, env, marker, pending, jobs, world>>
  BY DEF InitializeIdentity, At
<1>2. PICK o \in IdentityInsert(identity[d], t) :
         /\ Spend(o.fault) /\ identity' = [identity EXCEPT ![d] = o.now]
         /\ IF o.err THEN FailWith(p, tx, <<"recover">>) ELSE Goto(p, "advance_environment")
         /\ \/ o.now.row = t /\ known' = [known EXCEPT ![p] = @ \cup {t}]
            \/ o.err /\ UNCHANGED known
  BY DEF InitializeIdentity
<1>3. /\ mem[p].pc \in Forward /\ mem[p] \in Memory /\ tx \in Transactions /\ t \in Tx /\ Stage("identity", tx) /\ Told(tx)
      /\ mem[p].call = "apply" /\ mem[p].err = "none" /\ marker = None /\ tx.db = d /\ d \in Databases /\ journal = tx
      /\ pending[p] = OfTx(tx) /\ pending[p].id = t /\ pending[p] \in PendingRecord /\ ~\E q \in Procs : Achieved(q)
      /\ env \in EnvType /\ identity \in IdentityType /\ known \in [Procs -> SUBSET Tx] /\ EnvGood(env, user, marker)
      /\ \A e \in Databases : identity[e].nav \in Tx => identity[e].row = identity[e].nav
      /\ None \notin Tx /\ mem \in [Procs -> Memory]
  BY <1>1, Before
<1>4. /\ Nowhere(identity, t) /\ ~Written(env, t)
      /\ \A q \in Procs \ {p} : pending[q].id # t /\ mem[q].tx.id # t /\ t \notin known[q]
  BY <1>1, Before, Kinds DEF Applying
<1>5. tx.phase = "applying" /\ tx.done = 4 /\ tx.identity /\ ~tx.intent /\ tx.env = NoReceipt /\ ~tx.marker
  BY <1>3, Kinds DEF Stage
<1>6. /\ Outcome(o)
      /\ \/ o.now = identity[d] /\ o.err
         \/ identity[d].row = None /\ o.now.row = t /\ o.now.nav \in {identity[d].nav, t}
      /\ o.now \in [row : {None, Foreign} \cup Tx, nav : {None} \cup Seeds \cup Tx]
      /\ o.now.nav \in Tx => o.now.row = o.now.nav
      /\ o.err /\ o.now # identity[d] => o.fault
  <2> DEFINE row == identity[d]
  <2>1. row \in [row : {None, Foreign} \cup Tx, nav : {None} \cup Seeds \cup Tx] /\ (row.nav \in Tx => row.row = row.nav)
        /\ o \in IdentityInsert(row, t)
    BY <1>3 DEF IdentityType
  <2> HIDE DEF row
  <2>2. /\ Outcome(o)
        /\ \/ o.now = row /\ o.err
           \/ row.row = None /\ o.now.row = t /\ o.now.nav \in {row.nav, t}
        /\ o.now \in [row : {None, Foreign} \cup Tx, nav : {None} \cup Seeds \cup Tx]
        /\ o.now.nav \in Tx => o.now.row = o.now.nav
        /\ o.err /\ o.now # row => o.fault
    BY <1>3, <2>1, InsertOutcome
  <2> QED BY <2>2 DEF row
<1>7. o.err \in BOOLEAN /\ o.fault \in BOOLEAN /\ (o.fault => faults' >= 1) /\ faults' \in Nat /\ faults' >= faults
      /\ UNCHANGED <<user, edits>> /\ faults \in Nat
  BY <1>1, <1>2, <1>6, Spending, Here DEF Outcome, InstallInv, world
<1>8. identity' \in IdentityType /\ identity'[d] = o.now /\ \A e \in Databases \ {d} : identity'[e] = identity[e]
  BY <1>2, <1>3, <1>6 DEF IdentityType
<1>9. /\ \A s \in Tx \ {t} : \A e \in Databases : Inserted(identity', s, e) => Inserted(identity, s, e)
      /\ \A e \in Databases : Inserted(identity', t, e) => e = d
  BY <1>4, <1>6, <1>8 DEF Inserted, Nowhere
<1>10. \A s \in Tx \ {t} : Still(s)
  BY <1>1, <1>7, <1>9 DEF Still, Quiet
<1>11. Tells(tx, env', identity', marker', user', faults')
  BY <1>1, <1>3, <1>4, <1>5, <1>9 DEF Tells, ReceiptOf
<1>12. Told(journal)' /\ Told(pending[p])'
  <2>1. Tells(OfTx(tx), env', identity', marker', user', faults')
    BY <1>11 DEF Tells, OfTx
  <2> QED BY <1>1, <1>3, <1>11, <2>1 DEF Told
<1>13. StoresInv' /\ Whole'
  BY <1>1, <1>3, <1>6, <1>7, <1>8 DEF StoresInv, Whole
<1>14. known' \in [Procs -> SUBSET Tx] /\ (\A q \in Procs \ {p} : known'[q] = known[q])
       /\ (known' = known \/ t \in known'[p]) /\ (~o.err => t \in known'[p] /\ identity'[d].row = t)
  BY <1>2, <1>3, <1>6, <1>8
<1>15. pending' = [pending EXCEPT ![p] = pending[p]]
  BY <1>1, Here
<1>16. CASE o.err
  <2> DEFINE new == [mem[p] EXCEPT !.pc = "undo", !.then = "fail", !.tx = tx, !.todo = <<"recover">>, !.bad = FALSE]
  <2>1. /\ new \in Memory /\ new.pc = "undo" /\ new.then = "fail" /\ new.tx = tx /\ new.todo = <<"recover">> /\ ~new.bad
        /\ new.call = "apply" /\ new.err = "none" /\ new.db = d
        /\ mem' = [mem EXCEPT ![p] = new] /\ mem'[p] = new
    BY <1>1, <1>2, <1>3, <1>16, Going
  <2> HIDE DEF new
  <2>2. ToSet(<<"recover">>) = {"recover"}
    BY DEF ToSet
  <2>3. Undoing(p)'
    <3>1. /\ mem'[p].then = "fail" /\ mem'[p].tx.id = t /\ ToSet(mem'[p].todo) = {"recover"} /\ t # None
          /\ mem'[p].call = "apply" /\ mem'[p].err = "none" /\ mem'[p].tx.db = mem'[p].db /\ journal'.id = t
          /\ marker' = None /\ ~Written(env', t)
      BY <1>1, <1>3, <1>4, <2>1, <2>2
    <3> HIDE DEF t, tx, d
    <3> QED BY <3>1 DEF Undoing
  <2>4. Holds(p)'
    <3>1. o.now = identity[d] => Nowhere(identity', t)
      BY <1>4, <1>8 DEF Nowhere, Inserted
    <3>2. o.now # identity[d] => UndoingFailed(p, "recover")'
      BY <1>1, <1>3, <1>6, <1>7, <1>16, <2>1, <2>2 DEF UndoingFailed
    <3> QED BY <1>1, <1>3, <3>1, <3>2 DEF Holds
  <2>5. Own(p)'
    BY <2>1, <2>3, <2>4 DEF Own, Applying, Preparing, Ending, Forward, BeforeEnv, BeforeIdentity, WithEnv
  <2>6. Committed'
    BY <1>1, <1>3, <1>14, <2>1 DEF Committed, Achieved
  <2>7. new.pc \in Inside /\ Told(mem[p].tx)'
    BY <1>11, <2>1 DEF Inside, Told
  <2> QED BY <1>1, <1>2, <1>3, <1>7, <1>8, <1>10, <1>12, <1>13, <1>14, <1>15, <2>1, <2>5, <2>6, <2>7, Effected
<1>17. CASE ~o.err
  <2> DEFINE new == [mem[p] EXCEPT !.pc = "advance_environment"]
  <2>1. /\ new \in Memory /\ new.pc = "advance_environment" /\ new.tx = tx /\ new.call = "apply" /\ new.err = "none" /\ new.db = d
    BY <1>3 DEF Memory, Inside, Forward, BeforeEnv
  <2>2. mem' = [mem EXCEPT ![p] = new] /\ mem'[p] = new
    BY <1>2, <1>3, <1>17 DEF Goto, Mem
  <2> HIDE DEF new
  <2>3. Stage(new.pc, tx)
    BY <1>5, <2>1, Kinds DEF Stage, WithEnv
  <2>4. \A q \in Procs \ {p} : pending'[q].id # t /\ mem'[q].tx.id # t /\ t \notin known'[q]
    BY <1>1, <1>4, <1>14, <2>2
  <2>5. Applying(p)'
    <3>1. /\ mem'[p].tx = tx /\ mem'[p].pc = "advance_environment" /\ mem'[p].call = "apply" /\ mem'[p].err = "none"
          /\ mem'[p].db = d /\ d # None /\ t # None /\ marker' = None /\ tx.db = d /\ journal' = tx /\ pending'[p] = OfTx(tx)
          /\ ~Written(env', t) /\ identity'[d].row = t /\ t \in known'[p] /\ Stage("advance_environment", tx)
      BY <1>1, <1>3, <1>4, <1>14, <1>17, <2>1, <2>2, <2>3, Here
    <3>2. "advance_environment" \notin BeforeIdentity \cup WithEnv
      BY Kinds
    <3> HIDE DEF d, tx
    <3> QED BY <2>4, <3>1, <3>2 DEF Applying, tx
  <2>6. Holds(p)' /\ Preparing(p)' /\ Undoing(p)' /\ Ending(p)'
    BY <1>1, <1>3, <1>14, <1>17, <2>1, <2>2 DEF Holds, Preparing, Undoing, Ending
  <2>7. Committed'
    BY <1>1, <1>3, <1>14, <2>1, <2>2 DEF Committed, Achieved
  <2>8. new.pc \in Inside /\ Told(mem[p].tx)' /\ Own(p)'
    BY <1>11, <2>1, <2>2, <2>5, <2>6, Kinds DEF Told, Own
  <2> QED BY <1>1, <1>2, <1>3, <1>7, <1>8, <1>10, <1>12, <1>13, <1>14, <1>15, <2>1, <2>2, <2>7, <2>8, Effected
<1> QED BY <1>7, <1>16, <1>17
LEMMA PublishEnvironmentKeeps ==
    ASSUME InstallerAssumption, InstallInv, NEW p \in Procs, PublishEnvironment(p) PROVE InstallInv'
<1> DEFINE tx == mem[p].tx
           t == mem[p].tx.id
           d == mem[p].db
<1>1. mem[p].pc = "environment" /\ UNCHANGED <<lease, journal, marker, identity, known, jobs, world>>
  BY DEF PublishEnvironment, At, aside
<1>2. PICK o \in PublishWithReference(env, t) :
         /\ Spend(o.fault) /\ env' = o.now
         /\ IF o.err THEN FailWith(p, tx, <<"prepared", "identity">>) /\ UNCHANGED pending
            ELSE /\ Mem(p, [mem[p] EXCEPT !.pc = "advance_lock", !.tx.env = o.receipt])
                 /\ Pend(p, [pending[p] EXCEPT !.env = o.receipt])
  BY DEF PublishEnvironment
<1>3. /\ mem[p].pc \in Forward /\ mem[p] \in Memory /\ tx \in Transactions /\ t \in Tx /\ Stage("environment", tx) /\ Told(tx)
      /\ mem[p].call = "apply" /\ mem[p].err = "none" /\ marker = None /\ tx.db = d /\ d \in Databases /\ journal = tx
      /\ pending[p] = OfTx(tx) /\ pending[p].id = t /\ pending[p] \in PendingRecord /\ ~\E q \in Procs : Achieved(q)
      /\ env \in EnvType /\ identity \in IdentityType /\ known \in [Procs -> SUBSET Tx] /\ EnvGood(env, user, marker)
      /\ \A e \in Databases : identity[e].nav \in Tx => identity[e].row = identity[e].nav
      /\ None \notin Tx /\ mem \in [Procs -> Memory] /\ user \in {None} \cup Contents /\ t # None /\ d # None
  BY <1>1, Before, Here
<1>4. /\ ~Written(env, t) /\ identity[d].row = t /\ t \in known[p]
      /\ \A q \in Procs \ {p} : pending[q].id # t /\ mem[q].tx.id # t /\ t \notin known[q]
  BY <1>1, Before, Kinds DEF Applying
<1>5. tx.phase = "applying" /\ tx.done = 5 /\ tx.identity /\ tx.intent /\ tx.env = NoReceipt /\ ~tx.marker
  BY <1>3, Kinds DEF Stage, WithEnv
<1>6. env.file \notin Tx
  <2>1. ASSUME env.file \in Tx PROVE FALSE
    <3>1. journal.id = env.file
      BY <1>3, <2>1 DEF InstallInv, Named, Written
    <3> QED BY <1>3, <1>4, <3>1 DEF Written
  <2> QED BY <2>1
<1>7. /\ EnvGood(o.now, user, marker) /\ Outcome(o) /\ (o.err => o.fault)
      /\ \A s \in Tx \ {t} : (o.now.file = s => env.file = s) /\ o.now.backup[s] = env.backup[s]
      /\ o.receipt # NoReceipt /\ ReceiptOf(t, o.receipt, o.now, user)
      /\ ~o.err => o.now.file = t
  <2>1. o \in PublishWithReference(env, t) /\ t \in Tx /\ ~Written(env, t) /\ env.file \notin Tx
        /\ EnvGood(env, user, marker) /\ user \in {None} \cup Contents
    BY <1>2, <1>3, <1>4, <1>6
  <2> HIDE DEF t, tx, d
  <2> QED BY <2>1, PublishOutcome
<1>8. /\ o.err \in BOOLEAN /\ o.fault \in BOOLEAN /\ faults' \in Nat /\ faults' >= faults /\ UNCHANGED <<user, edits>>
      /\ faults \in Nat
  BY <1>1, <1>2, <1>7, Spending, Here DEF Outcome, InstallInv, world
<1>9. \A s \in Tx \ {t} : Still(s)
  BY <1>1, <1>2, <1>7, <1>8 DEF Still, Quiet
<1>10. env' \in EnvType /\ StoresInv' /\ Whole'
  <2>1. env' \in EnvType
    BY <1>2, <1>7 DEF EnvGood, EnvType
  <2> QED BY <1>1, <1>2, <1>3, <1>7, <1>8, <2>1 DEF StoresInv, Whole
<1>11. Tells(tx, env', identity', marker', user', faults')
  BY <1>1, <1>3, <1>5, <1>8 DEF Tells, Told, ReceiptOf
<1>12. Told(journal)'
  BY <1>1, <1>3, <1>11 DEF Told
<1>13. known' \in [Procs -> SUBSET Tx] /\ (\A q \in Procs \ {p} : known'[q] = known[q])
  BY <1>1, <1>3
<1>14. CASE o.err
  <2> DEFINE todo == <<"prepared", "identity">>
             new == [mem[p] EXCEPT !.pc = "undo", !.then = "fail", !.tx = tx, !.todo = todo, !.bad = FALSE]
  <2>1. /\ new \in Memory /\ new.pc = "undo" /\ new.then = "fail" /\ new.tx = tx /\ new.todo = todo /\ ~new.bad
        /\ new.call = "apply" /\ new.err = "none" /\ new.db = d
        /\ mem' = [mem EXCEPT ![p] = new] /\ mem'[p] = new
    BY <1>1, <1>2, <1>3, <1>14, Going
  <2> HIDE DEF new
  <2>2. ToSet(todo) = {"prepared", "identity"} /\ pending' = pending /\ pending' = [pending EXCEPT ![p] = pending[p]]
    BY <1>2, <1>14, Here DEF ToSet
  <2>3. Undoing(p)'
    <3>1. /\ mem'[p].then = "fail" /\ mem'[p].tx.id = t /\ ToSet(mem'[p].todo) = {"prepared", "identity"} /\ t # None
          /\ mem'[p].call = "apply" /\ mem'[p].err = "none" /\ mem'[p].tx.db = mem'[p].db /\ journal'.id = t
          /\ marker' = None /\ t \in known'[p]
      BY <1>1, <1>3, <1>4, <2>1, <2>2
    <3> HIDE DEF t, tx, d, todo
    <3> QED BY <3>1 DEF Undoing
  <2>4. Holds(p)'
    BY <1>1, <1>3, <1>4, <2>2 DEF Holds
  <2>5. Own(p)'
    BY <2>1, <2>3, <2>4 DEF Own, Applying, Preparing, Ending, Forward, BeforeEnv, BeforeIdentity, WithEnv
  <2>6. Committed'
    BY <1>1, <1>3, <2>1 DEF Committed, Achieved
  <2>7. new.pc \in Inside /\ Told(mem[p].tx)' /\ Told(pending[p])'
    <3>1. Tells(OfTx(tx), env', identity', marker', user', faults')
      BY <1>11 DEF Tells, OfTx
    <3> QED BY <1>3, <1>11, <2>1, <2>2, <3>1 DEF Inside, Told
  <2> QED BY <1>1, <1>2, <1>3, <1>8, <1>9, <1>10, <1>12, <1>13, <2>1, <2>2, <2>5, <2>6, <2>7, Effected
<1>15. CASE ~o.err
  <2> DEFINE next == [tx EXCEPT !.env = o.receipt]
             new == [mem[p] EXCEPT !.pc = "advance_lock", !.tx = next]
             held == [pending[p] EXCEPT !.env = o.receipt]
  <2>1. /\ next \in Transactions /\ next.id = t /\ next.db = d /\ next.phase = "applying" /\ next.done = 5 /\ next.identity
        /\ next.intent /\ next.env = o.receipt /\ ~next.marker /\ [next EXCEPT !.env = NoReceipt] = tx
    <3>1. o.receipt \in Receipts
      BY <1>7 DEF ReceiptOf, Receipts
    <3> QED BY <1>3, <1>5, <3>1 DEF Transactions
  <2>2. held = OfTx(next) /\ held \in PendingRecord /\ held.id = t
    <3>1. OfTx(next) \in PendingRecord
      BY <2>1, OfTxType
    <3>2. held = OfTx(next)
      BY <1>3, <2>1, <3>1, SamePending DEF PendingRecord, OfTx
    <3> QED BY <2>1, <3>1, <3>2 DEF OfTx
  <2>3. mem' = [mem EXCEPT ![p] = new] /\ pending' = [pending EXCEPT ![p] = held]
    BY <1>2, <1>15 DEF Mem, Pend
  <2> HIDE DEF next, held
  <2>4. /\ new \in Memory /\ new.pc = "advance_lock" /\ new.tx = next /\ new.call = "apply" /\ new.err = "none" /\ new.db = d
    BY <1>3, <2>1 DEF Memory, Inside, Forward, WithEnv
  <2> HIDE DEF new
  <2>5. mem'[p] = new /\ pending'[p] = held
    BY <1>3, <2>3 DEF InstallInv, Types
  <2>6. Stage("advance_lock", next)
    BY <1>7, <2>1, Kinds DEF Stage, WithEnv
  <2>7. \A q \in Procs \ {p} : pending'[q].id # t /\ mem'[q].tx.id # t /\ t \notin known'[q]
    BY <1>1, <1>4, <2>3
  <2>8. Applying(p)'
    <3>1. /\ mem'[p].tx = next /\ mem'[p].pc = "advance_lock" /\ mem'[p].call = "apply" /\ mem'[p].err = "none"
          /\ mem'[p].db = d /\ d # None /\ t # None /\ marker' = None /\ next.db = d /\ next.id = t
          /\ journal' = [next EXCEPT !.env = NoReceipt] /\ pending'[p] = OfTx(next)
          /\ env'.file = t /\ identity'[d].row = t /\ t \in known'[p]
      BY <1>1, <1>2, <1>3, <1>4, <1>7, <1>15, <2>1, <2>2, <2>4, <2>5
    <3>2. "advance_lock" \notin BeforeEnv /\ BeforeIdentity \subseteq BeforeEnv
      BY Kinds
    <3> HIDE DEF d, t
    <3> QED BY <2>6, <2>7, <3>1, <3>2 DEF Applying
  <2>9. Holds(p)' /\ Preparing(p)' /\ Undoing(p)' /\ Ending(p)'
    BY <1>1, <1>3, <1>4, <2>2, <2>4, <2>5 DEF Holds, Preparing, Undoing, Ending
  <2>10. Committed'
    BY <1>1, <1>3, <2>3, <2>4, <2>5 DEF Committed, Achieved
  <2>11. Tells(next, env', identity', marker', user', faults')
    <3>1. ReceiptOf(t, next.env, env', user')
      BY <1>2, <1>7, <1>8, <2>1
    <3> QED BY <1>1, <1>3, <1>11, <2>1, <3>1 DEF Tells
  <2>12. Tells(held, env', identity', marker', user', faults')
    BY <2>2, <2>11 DEF Tells, OfTx
  <2>13. new.pc \in Inside /\ Told(mem[p].tx)' /\ Told(pending[p])' /\ Own(p)'
    BY <2>4, <2>5, <2>8, <2>9, <2>11, <2>12, Kinds DEF Told, Own
  <2> QED BY <1>1, <1>2, <1>3, <1>8, <1>9, <1>10, <1>12, <1>13, <2>2, <2>3, <2>4, <2>10, <2>13, Effected
<1> QED BY <1>8, <1>14, <1>15

LEMMA CreateMarkerKeeps ==
    ASSUME InstallerAssumption, InstallInv, NEW p \in Procs, CreateMarker(p) PROVE InstallInv'
<1> DEFINE tx == mem[p].tx
           t == mem[p].tx.id
           d == mem[p].db
<1>1. mem[p].pc = "marker" /\ UNCHANGED <<lease, journal, env, identity, known, jobs, world>>
  BY DEF CreateMarker, At, aside
<1>2. /\ mem[p].pc \in Forward /\ mem[p] \in Memory /\ tx \in Transactions /\ t \in Tx /\ Stage("marker", tx) /\ Told(tx)
      /\ mem[p].call = "apply" /\ mem[p].err = "none" /\ marker = None /\ tx.db = d /\ d \in Databases /\ journal = tx
      /\ pending[p] = OfTx(tx) /\ pending[p].id = t /\ pending[p] \in PendingRecord /\ ~\E q \in Procs : Achieved(q)
      /\ env \in EnvType /\ identity \in IdentityType /\ known \in [Procs -> SUBSET Tx] /\ EnvGood(env, user, marker)
      /\ \A e \in Databases : identity[e].nav \in Tx => identity[e].row = identity[e].nav
      /\ None \notin Tx /\ mem \in [Procs -> Memory] /\ t # None
  BY <1>1, Before, Here
<1>3. PICK o \in MarkerCreate(None, t) :
         /\ Spend(o.fault) /\ marker' = o.now
         /\ IF o.err THEN FailWith(p, tx, <<"marker", "env", "identity">>) /\ UNCHANGED pending
            ELSE Goto(p, "finalize") /\ Pend(p, NoPending)
  BY <1>2 DEF CreateMarker
<1>4. /\ identity[d].row = t /\ t \in known[p] /\ (env.file = t \/ edits > 0)
      /\ \A q \in Procs \ {p} : pending[q].id # t /\ mem[q].tx.id # t /\ t \notin known[q]
  BY <1>1, Before, Kinds DEF Applying
<1>5. tx.identity /\ tx.intent /\ tx.env # NoReceipt /\ tx.marker
  BY <1>2, Kinds DEF Stage, WithEnv
<1>6. Outcome(o) /\ o.now \in {None, t} /\ (~o.err => o.now = t) /\ (o.err => o.fault)
  BY MarkerCreated
<1>7. /\ o.err \in BOOLEAN /\ o.fault \in BOOLEAN /\ faults' \in Nat /\ faults' >= faults /\ (o.fault => faults' >= 1)
      /\ UNCHANGED <<user, edits>> /\ faults \in Nat
  BY <1>1, <1>3, <1>6, Spending, Here DEF Outcome, InstallInv, world
<1>8. \A s \in Tx \ {t} : Still(s)
  BY <1>1, <1>2, <1>3, <1>6, <1>7 DEF Still, Quiet
<1>9. marker' \in Tx \cup {None} /\ StoresInv' /\ Whole'
  <2>1. EnvGood(env, user, marker')
    BY <1>2, <1>3, <1>6 DEF EnvGood
  <2> QED BY <1>1, <1>2, <1>3, <1>4, <1>6, <1>7, <2>1 DEF StoresInv, Whole
<1>10. Tells(tx, env', identity', marker', user', faults')
  BY <1>1, <1>2, <1>5, <1>7 DEF Tells, Told
<1>11. Told(journal)' /\ known' \in [Procs -> SUBSET Tx] /\ (\A q \in Procs \ {p} : known'[q] = known[q])
  BY <1>1, <1>2, <1>10 DEF Told
<1>12. CASE o.err
  <2> DEFINE todo == <<"marker", "env", "identity">>
             new == [mem[p] EXCEPT !.pc = "undo", !.then = "fail", !.tx = tx, !.todo = todo, !.bad = FALSE]
  <2>1. /\ new \in Memory /\ new.pc = "undo" /\ new.then = "fail" /\ new.tx = tx /\ new.todo = todo /\ ~new.bad
        /\ new.call = "apply" /\ new.err = "none" /\ new.db = d
        /\ mem' = [mem EXCEPT ![p] = new] /\ mem'[p] = new
    BY <1>1, <1>2, <1>3, <1>12, Going
  <2> HIDE DEF new
  <2>2. ToSet(todo) = {"marker", "env", "identity"} /\ pending' = pending /\ pending' = [pending EXCEPT ![p] = pending[p]]
    BY <1>3, <1>12, Here DEF ToSet
  <2>3. env.file = t /\ env.backup[t] = None => user = None
    BY <1>2 DEF EnvGood
  <2>4. Undoing(p)'
    <3>1. /\ mem'[p].then = "fail" /\ mem'[p].tx.id = t /\ ToSet(mem'[p].todo) = {"marker", "env", "identity"} /\ t # None
          /\ mem'[p].call = "apply" /\ mem'[p].err = "none" /\ mem'[p].tx.db = mem'[p].db /\ journal'.id = t
          /\ marker' \in {None, t} /\ t \in known'[p] /\ mem'[p].todo = <<"marker", "env", "identity">>
          /\ pending'[p].id = t /\ faults' >= 1 /\ mem'[p].tx.env # NoReceipt
          /\ env'.file = t /\ env'.backup[t] = None => user' = None
      BY <1>1, <1>2, <1>3, <1>4, <1>5, <1>6, <1>7, <1>12, <2>1, <2>2, <2>3
    <3> HIDE DEF t, tx, d, todo
    <3> QED BY <3>1 DEF Undoing
  <2>5. Holds(p)'
    <3>1. UndoingFailed(p, "marker")'
      BY <1>2, <1>6, <1>7, <1>12, <2>1, <2>2 DEF UndoingFailed
    <3> QED BY <1>1, <1>2, <1>4, <2>2, <3>1 DEF Holds
  <2>6. Own(p)'
    BY <2>1, <2>4, <2>5 DEF Own, Applying, Preparing, Ending, Forward, BeforeEnv, BeforeIdentity, WithEnv
  <2>7. Committed'
    BY <1>1, <1>2, <2>1 DEF Committed, Achieved
  <2>8. new.pc \in Inside /\ Told(mem[p].tx)' /\ Told(pending[p])'
    <3>1. Tells(OfTx(tx), env', identity', marker', user', faults')
      BY <1>10 DEF Tells, OfTx
    <3> QED BY <1>2, <1>10, <2>1, <2>2, <3>1 DEF Inside, Told
  <2> QED BY <1>1, <1>2, <1>3, <1>7, <1>8, <1>9, <1>11, <2>1, <2>2, <2>6, <2>7, <2>8, Effected
<1>13. CASE ~o.err
  <2> DEFINE new == [mem[p] EXCEPT !.pc = "finalize"]
  <2>1. /\ new \in Memory /\ new.pc = "finalize" /\ new.tx = tx /\ new.call = "apply" /\ new.err = "none" /\ new.db = d
    BY <1>2 DEF Memory, Inside
  <2>2. mem' = [mem EXCEPT ![p] = new] /\ pending' = [pending EXCEPT ![p] = NoPending] /\ marker' = t
    BY <1>3, <1>6, <1>13 DEF Goto, Mem, Pend
  <2> HIDE DEF new
  <2>3. mem'[p] = new /\ pending'[p] = NoPending /\ NoPending \in PendingRecord /\ NoPending.id = None
    BY <1>2, <2>2, NoTransaction DEF InstallInv, Types
  <2>4. Own(p)'
    <3>1. Applying(p)' /\ Preparing(p)' /\ Undoing(p)' /\ Holds(p)'
      BY <2>1, <2>3 DEF Applying, Preparing, Undoing, Holds, Forward, BeforeEnv, BeforeIdentity, WithEnv
    <3>2. Ending(p)'
      BY <1>2, <2>1, <2>2, <2>3 DEF Ending
    <3> QED BY <3>1, <3>2 DEF Own
  <2>5. Committed'
    BY <1>2, <1>4, <2>2, <2>3 DEF Committed
  <2>6. new.pc \in Inside /\ Told(mem[p].tx)' /\ Told(pending[p])'
    BY <1>10, <2>1, <2>3, NothingTold DEF Inside, Told
  <2> QED BY <1>1, <1>2, <1>3, <1>7, <1>8, <1>9, <1>11, <2>1, <2>2, <2>3, <2>4, <2>5, <2>6, Effected
<1> QED BY <1>7, <1>12, <1>13

LEMMA FinalizeStoresKeeps ==
    ASSUME InstallerAssumption, InstallInv, NEW p \in Procs, FinalizeStores(p) PROVE InstallInv'
<1> DEFINE t == mem[p].tx.id
           next(o) == IF o.err /\ Reconciling(p) THEN "release" ELSE "cleanup"
           new(o) == [mem[p] EXCEPT !.pc = next(o), !.bad = o.err]
<1>1. /\ mem[p].pc = "finalize" /\ mem[p].pc \in Inside /\ mem[p].pc # "undo"
      /\ UNCHANGED <<lease, journal, marker, identity, pending, jobs, node, backups, user, crashes, edits>>
  BY DEF FinalizeStores, At, Inside, world
<1>2. PICK o \in Finalize(env, t, mem[p].tx.env) :
         /\ Spend(o.fault) /\ env' = o.now /\ mem' = [mem EXCEPT ![p] = new(o)]
         /\ known' = known \/ Forget(p, t)
  BY DEF FinalizeStores, Mem
<1>3. t \in Tx /\ marker = t /\ mem[p].call # "rollback" /\ EnvGood(env, user, t) /\ user \in {None} \cup Contents
  BY <1>1, Here DEF Ending, InstallInv, StoresInv, Types, TypeOK
<1>4. EnvGood(o.now, user, t) /\ TakenBack(env, o.now, t) /\ Outcome(o) /\ o.now.file = env.file
  BY <1>2, <1>3, FinalizeOutcome
<1>5. faults' \in Nat /\ faults' >= faults /\ faults' <= MaxFaults /\ faults \in Nat
  BY <1>2, <1>4, Spending, Here DEF Outcome, InstallInv
<1>6. \A s \in Tx : Still(s)
  BY <1>1, <1>2, <1>4, <1>5, TakenStill DEF InstallInv
<1>7. /\ new(o) \in Memory /\ new(o).pc = next(o) /\ new(o).tx = mem[p].tx /\ new(o).call = mem[p].call
      /\ new(o).err = mem[p].err /\ next(o) \in {"release", "cleanup"}
  <2>1. mem[p] \in Memory /\ o.err \in BOOLEAN /\ next(o) \in {"release", "cleanup"}
    BY <1>4, Here DEF Outcome
  <2> HIDE DEF next
  <2> QED BY <2>1 DEF Memory, Inside
<1> HIDE DEF new, next
<1>8. mem'[p] = new(o) /\ mem' \in [Procs -> Memory]
  BY <1>2, <1>7, Here
<1>9. known' \in [Procs -> SUBSET Tx] /\ (\A q \in Procs \ {p} : known'[q] = known[q]) /\ \A s \in known[p] : s \in known'[p] \/ s = t
  BY <1>2 DEF Forget, InstallInv, Types
<1>10. Mine(p)
  BY <1>1, <1>2, <1>9 DEF Mine
<1>11. Types'
  <2>1. Types
    BY DEF InstallInv
  <2>2. env' \in EnvType /\ identity \in IdentityType
    BY <1>2, <1>4, <2>1 DEF EnvGood, EnvType, IdentityType, Types, TypeOK
  <2>3. pending \in [Procs -> PendingRecord]
    BY <2>1 DEF Types
  <2> QED BY <1>1, <1>5, <1>8, <1>9, <2>1, <2>2, <2>3, Here, InsideTypes
<1>12. StoresInv' /\ Whole'
  BY <1>1, <1>2, <1>3, <1>4, <1>5 DEF StoresInv, Whole, InstallInv
<1>13. Named'
  <2>1. \A s \in Tx : Written(env', s) => Written(env, s)
    BY <1>6 DEF Still, Quiet, Written
  <2>2. faults' < 2 => faults < 2
    BY <1>5
  <2> QED BY <1>1, <2>1, <2>2 DEF Named, InstallInv
<1>14. Committed'
  <2>1. Achieved(p)' => Achieved(p)
    BY <1>1, <1>7, <1>8 DEF Achieved
  <2> QED BY <1>1, <1>10, <2>1, CommittedOn DEF InstallInv
<1>15. Own(p)'
  <2>1. Applying(p)' /\ Preparing(p)' /\ Undoing(p)' /\ Ending(p)'
    BY <1>1, <1>3, <1>7, <1>8 DEF Applying, Preparing, Undoing, Ending, Forward, BeforeEnv, BeforeIdentity, WithEnv
  <2>2. Holds(p)'
    <3>1. faults >= 2 => faults' >= 2
      BY <1>5
    <3>2. ~UndoingFailed(p, "recover") /\ ~UndoingFailed(p, "marker")
      BY <1>1 DEF UndoingFailed
    <3> QED BY <1>1, <1>3, <1>9, <3>1, <3>2, Here DEF Holds
  <2> QED BY <2>1, <2>2 DEF Own
<1>16. Told(journal)' /\ (journal'.id = None => journal' = NoJournal) /\ Told(pending[p])' /\ Told(mem[p].tx)'
  <2>1. \A x : x.id \in Tx \cup {None} /\ Told(x) => Tells(x, env', identity', marker', user', faults')
    BY <1>6, TellsOn DEF Told, Still
  <2>2. pending[p].id \in Tx \cup {None}
    BY Here DEF PendingRecord
  <2> QED BY <1>1, <1>7, <1>8, <2>1, <2>2, Here DEF Told
<1>17. mem'[p].pc \in Inside => lease' = p
  BY <1>1, Here
<1> QED BY <1>1, <1>5, <1>6, <1>10, <1>11, <1>12, <1>13, <1>14, <1>15, <1>16, <1>17, Assembled
-----------------------------------------------------------------------------
(* The beginning, and every step. *)

LEMMA InitInstalls == InstallerAssumption /\ Init => InstallInv
<1> SUFFICES ASSUME InstallerAssumption, Init PROVE InstallInv
  OBVIOUS
<1>1. /\ NoJournal \in Transactions /\ NoPending \in PendingRecord /\ Idle \in Memory
      /\ NoJournal.id = None /\ NoPending.id = None /\ None \notin Tx
      /\ Idle.pc = "idle" /\ Idle.tx = NoJournal /\ Idle.err = "none" /\ Idle.call = "apply"
  BY NoTransaction
<1>2. env = [file |-> user, backup |-> [t \in Tx |-> None]] /\ user \in {None} \cup Contents
  BY DEF Init
<1>3. env.file = user /\ (\A t \in Tx : env.backup[t] = None) /\ user \notin Tx
  BY <1>2 DEF InstallerAssumption
<1>4. identity \in IdentityType /\ \A d \in Databases : identity[d].row = None /\ identity[d].nav \in Seeds /\ identity[d].nav \notin Tx
  BY DEF Init, IdentityType, InstallerAssumption
<1>5. /\ mem = [p \in Procs |-> Idle] /\ pending = [p \in Procs |-> NoPending] /\ known = [p \in Procs |-> {}]
      /\ jobs = [p \in Procs |-> <<>>] /\ journal = NoJournal /\ marker = None /\ lease = Free /\ node = "gone"
      /\ faults = 0 /\ crashes = 0 /\ edits = 0 /\ backups = FALSE
  BY DEF Init
<1>6. Types
  <2>1. env \in EnvType
    BY <1>2 DEF EnvType
  <2>2. MaxFaults \in Nat /\ MaxCrashes \in Nat /\ MaxEdits \in Nat /\ JobsKept \in Nat
    BY DEF InstallerAssumption
  <2>3. /\ mem \in [Procs -> Memory] /\ pending \in [Procs -> PendingRecord] /\ known \in [Procs -> SUBSET Tx]
        /\ jobs \in [Procs -> Seq(Job)] /\ \A p \in Procs : Len(jobs[p]) <= JobsKept
    BY <1>1, <1>5, <2>2
  <2>4. \A p \in Procs : mem[p].tx \in Transactions /\ known[p] \subseteq Tx /\ pending[p] \in PendingRecord
    BY <1>1, <1>5
  <2>5. TypeOK
    <3>1. /\ lease \in Procs \cup {Free, Stale} /\ node \in {"gone", "running", "ended", "left"} /\ backups \in BOOLEAN
          /\ journal \in Transactions /\ marker \in Tx \cup {None} /\ user \in {None} \cup Contents
          /\ faults <= MaxFaults /\ crashes <= MaxCrashes /\ edits <= MaxEdits
      <4>1. 0 <= MaxFaults /\ 0 <= MaxCrashes /\ 0 <= MaxEdits
        BY <2>2
      <4>2. faults <= MaxFaults /\ crashes <= MaxCrashes /\ edits <= MaxEdits
        BY <1>5, <4>1
      <4>3. lease \in Procs \cup {Free, Stale} /\ node \in {"gone", "running", "ended", "left"} /\ backups \in BOOLEAN
        BY <1>5
      <4>4. journal \in Transactions /\ marker \in Tx \cup {None}
        BY <1>1, <1>5
      <4> QED BY <1>2, <4>2, <4>3, <4>4
    <3> QED BY <1>4, <2>1, <2>3, <2>4, <3>1 DEF TypeOK, EnvType, IdentityType, PendingRecord
  <2> QED BY <1>5, <2>3, <2>5 DEF Types
<1>7. \A t \in Tx : ~Written(env, t) /\ Nowhere(identity, t)
  BY <1>1, <1>3, <1>4 DEF Written, Nowhere, Inserted
<1>8. Named /\ StoresInv /\ Whole
  <2>1. EnvGood(env, user, marker)
    BY <1>2, <1>3 DEF EnvGood
  <2> QED BY <1>4, <1>5, <1>7, <2>1 DEF Named, StoresInv, Whole
<1>9. Records
  BY <1>1, <1>5, NothingTold DEF Records, Told
<1>10. LeaseKept /\ Committed
  BY <1>1, <1>5 DEF LeaseKept, Committed, Achieved, Inside, Forward, BeforeEnv, BeforeIdentity, WithEnv
<1>11. ASSUME NEW p \in Procs PROVE Applying(p) /\ Preparing(p) /\ Undoing(p) /\ Ending(p) /\ Holds(p)
  <2>1. mem[p] = Idle /\ pending[p] = NoPending
    BY <1>5
  <2> QED BY <1>1, <2>1 DEF Applying, Preparing, Undoing, Ending, Holds, Forward, BeforeEnv, BeforeIdentity, WithEnv
<1> QED BY <1>6, <1>8, <1>9, <1>10, <1>11 DEF InstallInv
LEMMA StepKeeps == ASSUME InstallerAssumption, InstallInv, NEW p \in Procs, Step(p) PROVE InstallInv'
<1>1. CASE FinishJob(p) \/ FinishRollback(p) \/ FinishReconcile(p) \/ Acquire(p) \/ Release(p)
  BY <1>1, FinishJobKeeps, FinishRollbackKeeps, FinishReconcileKeeps, AcquireKeeps, ReleaseKeeps
<1>2. CASE CheckInstalled(p) \/ LoadJournal(p) \/ Preflight(p) \/ CreateTransaction(p) \/ SchemaUp(p)
  BY <1>2, CheckInstalledKeeps, LoadJournalKeeps, PreflightKeeps, CreateTransactionKeeps, SchemaUpKeeps
<1>3. CASE PrepareIdentity(p) \/ InitializeIdentity(p) \/ AdvanceEnvironment(p) \/ PrepareEnvironment(p)
  BY <1>3, PrepareIdentityKeeps, InitializeIdentityKeeps, AdvanceEnvironmentKeeps, PrepareEnvironmentKeeps
<1>4. CASE PublishEnvironment(p) \/ AdvanceLock(p) \/ PrepareMarker(p) \/ CreateMarker(p)
  BY <1>4, PublishEnvironmentKeeps, AdvanceLockKeeps, PrepareMarkerKeeps, CreateMarkerKeeps
<1>5. CASE FinalizeStores(p) \/ CleanupCompleted(p) \/ RemoveJournal(p) \/ BeginRollback(p)
  BY <1>5, FinalizeStoresKeeps, CleanupCompletedKeeps, RemoveJournalKeeps, BeginRollbackKeeps
<1>6. CASE UndoMarker(p) \/ UndoEnvironment(p) \/ UndoPrepared(p) \/ RecoverIdentity(p) \/ UndoIdentity(p)
  BY <1>6, UndoMarkerKeeps, UndoEnvironmentKeeps, UndoPreparedKeeps, RecoverIdentityKeeps, UndoIdentityKeeps
<1>7. CASE EndRecovery(p) \/ PersistFailure(p) \/ EndRollback(p)
  BY <1>7, EndRecoveryKeeps, PersistFailureKeeps, EndRollbackKeeps
<1> QED BY <1>1, <1>2, <1>3, <1>4, <1>5, <1>6, <1>7 DEF Step

LEMMA NextInstalls == InstallerAssumption /\ InstallInv /\ [Next]_vars => InstallInv'
<1> SUFFICES ASSUME InstallerAssumption, InstallInv, [Next]_vars PROVE InstallInv'
  OBVIOUS
<1>1. ASSUME NEW p \in Procs, Step(p) PROVE InstallInv'
  BY <1>1, StepKeeps
<1>2. ASSUME NEW p \in Procs, Asked(p) PROVE InstallInv'
  BY <1>2, StartRollbackKeeps, ReconcileKeeps, StartKeeps DEF Asked, Retry
<1>3. ASSUME NEW p \in Procs, Crash(p) PROVE InstallInv'
  BY <1>3, CrashKeeps
<1>4. CASE NodeStart \/ NodeStop
  BY <1>4, NodeKeeps
<1>5. ASSUME NEW db \in Databases, ForeignInstall(db) PROVE InstallInv'
  BY <1>5, ForeignInstallKeeps
<1>6. ASSUME NEW c \in Contents, UserEdits(c) PROVE InstallInv'
  BY <1>6, UserEditsKeeps
<1>7. CASE UNCHANGED vars
  BY <1>7 DEF vars, stores, InstallInv, Types, TypeOK, Records, Told, Named, StoresInv, LeaseKept, Whole, Committed, Achieved,
              Applying, Preparing, Undoing, Ending, Holds, UndoingFailed
<1> QED BY <1>1, <1>2, <1>3, <1>4, <1>5, <1>6, <1>7 DEF Next

(* Why the invariant is enough. *)
LEMMA InvJournals == ASSUME InstallerAssumption, InstallInv PROVE EffectsJournaled
<1> SUFFICES ASSUME NEW t \in Tx, marker # t
             PROVE  /\ env.file = t \/ env.backup[t] # None => journal.id = t /\ journal.intent
                    /\ faults < 2 => \A d \in Databases :
                          t \in {identity[d].row, identity[d].nav} => journal.id = t /\ journal.identity /\ journal.db = d
  BY DEF EffectsJournaled
<1>1. Told(journal) /\ t # None /\ faults \in Nat /\ journal \in Transactions
  BY DEF InstallInv, Records, InstallerAssumption, Types, TypeOK
<1>2. ASSUME Written(env, t) PROVE journal.id = t /\ journal.intent
  BY <1>1, <1>2 DEF InstallInv, Named, Told, Tells
<1>3. ASSUME faults < 2, NEW d \in Databases, Inserted(identity, t, d)
      PROVE  journal.id = t /\ journal.identity /\ journal.db = d
  <2>1. ~Nowhere(identity, t)
    BY <1>3 DEF Nowhere
  <2>2. journal.id = t
    BY <1>3, <2>1 DEF InstallInv, Named
  <2> QED BY <1>1, <1>3, <2>1, <2>2 DEF Told, Tells
<1> QED BY <1>2, <1>3 DEF Written, Inserted

LEMMA InvComplete == ASSUME InstallerAssumption, InstallInv PROVE InstalledIsComplete
<1>1. (\E p \in Procs : \E j \in DOMAIN jobs[p] : jobs[p][j].state = "completed") => marker # None
  BY DEF InstallInv, Committed, Achieved
<1>2. marker # None /\ faults < 2 => (\E d \in Databases : identity[d].row = marker) /\ (env.file = marker \/ edits > 0)
  BY DEF InstallInv, Whole
<1> QED BY <1>1, <1>2 DEF InstalledIsComplete

LEMMA InvKeeps == ASSUME InstallerAssumption, InstallInv PROVE UserContentsKept
<1> SUFFICES ASSUME marker = None, user # None PROVE env.file = user \/ \E t \in Tx : env.backup[t] = user
  BY DEF UserContentsKept
<1>1. EnvGood(env, user, marker) /\ None \notin Tx
  BY DEF InstallInv, StoresInv, InstallerAssumption
<1>2. CASE env.file \in Contents
  BY <1>1, <1>2 DEF EnvGood
<1>3. CASE env.file \in Tx
  BY <1>1, <1>3 DEF EnvGood
<1>4. env.file \in {None} \cup Contents \cup Tx /\ env.file # None
  BY <1>1 DEF EnvGood
<1> QED BY <1>2, <1>3, <1>4
-----------------------------------------------------------------------------
(* Every state of the installation satisfies the invariant: each process is where its        *)
(* transaction, the stores and what it would roll back say it is.                              *)
THEOREM InstallationKept == ASSUME InstallerAssumption PROVE Spec => []InstallInv
<1>1. Init => InstallInv
  BY InitInstalls
<1>2. InstallInv /\ [Next]_vars => InstallInv'
  BY NextInstalls
<1> QED BY <1>1, <1>2, PTL DEF Spec

(* The variables of the installer are of their types, whatever is installed by whom. *)
THEOREM InstallerTypes == ASSUME InstallerAssumption PROVE Spec => []TypeOK
<1>1. InstallInv => TypeOK
  BY DEF InstallInv, Types
<1> QED BY <1>1, InstallationKept, PTL

(* Whatever a transaction has written into .env, a backup of it or a database, without       *)
(* becoming the installation, is named in the journal with its intent and its target.          *)
THEOREM EffectsAreJournaled == ASSUME InstallerAssumption PROVE Spec => []EffectsJournaled
<1>1. InstallInv => EffectsJournaled
  BY InvJournals
<1> QED BY <1>1, InstallationKept, PTL

(* What the user last put in .env is in it or in a backup, until the installation replaced it. *)
THEOREM ContentsAreKept == ASSUME InstallerAssumption PROVE Spec => []UserContentsKept
<1>1. InstallInv => UserContentsKept
  BY InvKeeps
<1> QED BY <1>1, InstallationKept, PTL

(* A marker is never there without the administrator and the .env of its transaction, and a  *)
(* job is completed only when its marker is there.                                             *)
THEOREM InstallationsAreComplete == ASSUME InstallerAssumption PROVE Spec => []InstalledIsComplete
<1>1. InstallInv => InstalledIsComplete
  BY InvComplete
<1> QED BY <1>1, InstallationKept, PTL
=============================================================================
