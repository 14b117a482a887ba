---------------------------------- MODULE Imports ----------------------------------
(* Import and export jobs (application/imports, platform/imports, transport/http/       *)
(* importexport).  A job lives in the memory of the server that accepted it; the         *)
(* database has a copy, which is written after the lock of the memory was given up.  The  *)
(* rows, the row errors and the finished file stay in that memory.  A queue shared by all  *)
(* servers brings the job to a worker.                                                     *)
(* A job and its queue task are named by the request that made them; parsing, columns and   *)
(* redaction are left out: of a file there is how many rows it has and what its row errors    *)
(* do to the database.                                                                        *)
EXTENDS Naturals, FiniteSets

CONSTANTS
    Servers, Requests, Operators,
    Asked,         \* what an operator asks for: "cancel" or "retry"
    Server,        \* where an operator, or the preview of a request, is served
    Tenant, Key, Kind,
    Rows, LongErrors, NoFields,   \* rows to process; requests whose row errors do not fit, whose fields are blank
    None,
    MaxAttempts,   \* of a queue task (3 in the code)
    MaxFaults      \* calls that fail, contexts that are done, servers that start again

ImportsAssumption ==
    /\ Server \in [Requests \cup Operators -> Servers] /\ Kind \in [Requests -> {"import", "export"}]
    /\ Asked \in [Operators -> {"cancel", "retry"}]
    /\ Rows \in [Requests -> Nat] /\ {LongErrors, NoFields} \subseteq SUBSET Requests /\ None \notin Requests
    /\ MaxAttempts \in Nat \ {0} /\ MaxFaults \in Nat

VARIABLES
    jobs,       \* by server: Service.jobs
    table,      \* gvba_import_jobs
    artifacts,  \* by server: finished files
    tasks,      \* the queue
    req,        \* Commit and StartExport
    work,       \* by server: its worker
    op,         \* Cancel and Retry
    faults

vars == <<jobs, table, artifacts, tasks, req, work, op, faults>>

Statuses == {"none", "pending", "running", "succeeded", "failed", "cancelled"}
Final == {"succeeded", "failed", "cancelled"}
NoJob == [status |-> "none", processed |-> 0, task |-> None]
NewJob == [NoJob EXCEPT !.status = "pending"]
(* "missed" (history) are the attempts of servers that do not know the job. *)
NoTask == [state |-> "none", attempts |-> 0, missed |-> 0]

(* The memory of a server: a record changes under s.mu. *)
Put(s, id, job) == jobs' = [jobs EXCEPT ![s][id] = job]
Known(s, id) == jobs[s][id].status # "none"
Runs(s) == work[s].pc # "off"    \* the servers that are there
SameKey(r, q) == Tenant[r] = Tenant[q] /\ Key[r] = Key[q]
Spend(fault) == IF fault THEN faults < MaxFaults /\ faults' = faults + 1 ELSE UNCHANGED faults

(* persist: the row of the job, if there is one, gets the copy that was taken. *)
Persist(id, copy) == table' = IF table[id].status = "none" THEN table ELSE [table EXCEPT ![id] = copy]

-----------------------------------------------------------------------------
(* A request.  "id" is the job it is answered with, "copy" what it is about to persist. *)

At(r, pc) == req[r].pc = pc
Go(r, pc) == req' = [req EXCEPT ![r].pc = pc]
quiet == <<work, op>>

(* Under the lock: a job with the key is the answer, of whatever kind it is and however far *)
(* it got; otherwise the job is made.  Another server than the preview's knows no preview.   *)
Commit(r, s) ==
    /\ At(r, "idle") /\ Runs(s)
    /\ LET same == {q \in Requests : Known(s, q) /\ SameKey(q, r)} IN
       IF Kind[r] = "import" /\ s # Server[r] THEN Go(r, "refused") /\ UNCHANGED jobs
       ELSE \/ \E q \in same : req' = [req EXCEPT ![r] = [@ EXCEPT !.pc = "accepted", !.id = q, !.at = s]] /\ UNCHANGED jobs
            \/ /\ same = {} /\ Put(s, r, NewJob)
               /\ req' = [req EXCEPT ![r] = [@ EXCEPT !.pc = "create", !.id = r, !.at = s]]
    /\ UNCHANGED <<table, artifacts, tasks, faults, quiet>>

(* Repository.Create, with its unique index of tenant, organization and key. *)
CreateRow(r) ==
    /\ At(r, "create")
    /\ \/ /\ \A q \in Requests : table[q].status # "none" => ~SameKey(q, r)
          /\ table' = [table EXCEPT ![r] = NewJob] /\ Go(r, "created") /\ UNCHANGED faults
       \/ (\E q \in Requests : table[q].status # "none" /\ SameKey(q, r)) /\ Go(r, "failed") /\ UNCHANGED <<table, faults>>
       \/ /\ Spend(TRUE) /\ Go(r, "failed")
          /\ table' \in {table, [table EXCEPT ![r] = NewJob]}
    /\ UNCHANGED <<jobs, artifacts, tasks, quiet>>

(* What Create returned goes back into the memory, over what happened to the job meanwhile. *)
TakePersisted(r) ==
    /\ At(r, "created") /\ Put(req[r].at, r, NewJob) /\ Go(r, "errors")
    /\ UNCHANGED <<table, artifacts, tasks, faults, quiet>>

(* AddErrors: the id of an error row, made of the job, the time, the column and the row, may *)
(* not fit its 64 characters.                                                                 *)
AddErrors(r) ==
    /\ At(r, "errors")
    /\ \/ r \notin LongErrors /\ Go(r, "enqueue") /\ UNCHANGED faults
       \/ r \in LongErrors /\ Go(r, "failed") /\ UNCHANGED faults
       \/ Kind[r] = "import" /\ Spend(TRUE) /\ Go(r, "failed")
    /\ UNCHANGED <<jobs, table, artifacts, tasks, quiet>>

(* The key of the queue is made of the kind and the key: it knows no tenant. *)
Queued(r) == {q \in Requests : tasks[q].state # "none" /\ Kind[q] = Kind[r] /\ Key[q] = Key[r]}
Enqueue(r) ==
    /\ At(r, "enqueue")
    /\ \/ \E q \in IF Queued(r) # {} THEN Queued(r) ELSE {r} :
            /\ tasks' = IF q = r /\ Queued(r) = {} THEN [tasks EXCEPT ![r] = [NoTask EXCEPT !.state = "pending"]] ELSE tasks
            /\ req' = [req EXCEPT ![r].pc = "queued", ![r].copy.task = q] /\ UNCHANGED faults
       \/ Spend(TRUE) /\ Go(r, "failed") /\ UNCHANGED tasks
    /\ UNCHANGED <<jobs, table, artifacts, quiet>>

NoteTask(r) ==
    /\ At(r, "queued")
    /\ LET noted == [jobs[req[r].at][r] EXCEPT !.task = req[r].copy.task] IN
       IF Known(req[r].at, r) THEN Put(req[r].at, r, noted) /\ req' = [req EXCEPT ![r].pc = "persist", ![r].copy = noted]
       ELSE Go(r, "accepted") /\ UNCHANGED jobs
    /\ UNCHANGED <<table, artifacts, tasks, faults, quiet>>
PersistTask(r) ==
    /\ At(r, "persist") /\ Persist(r, req[r].copy) /\ Go(r, "accepted")
    /\ UNCHANGED <<jobs, artifacts, tasks, faults, quiet>>

-----------------------------------------------------------------------------
(* The worker of a server, which has one task at a time. *)

NoWork == [pc |-> "idle", id |-> None, at |-> 0, fails |-> FALSE, copy |-> NoJob]
Doing(s, pc) == work[s].pc = pc
Turn(s, pc) == work' = [work EXCEPT ![s].pc = pc]
Fails(s) == work' = [work EXCEPT ![s].pc = "end", ![s].fails = TRUE]
still == <<req, op>>

(* A task that was not ended is claimed again when its lease is over. *)
Claim(s, id) ==
    /\ Doing(s, "idle") /\ tasks[id].state = "pending"
    /\ work' = [work EXCEPT ![s] = [NoWork EXCEPT !.pc = "get", !.id = id]]
    /\ tasks' = [tasks EXCEPT ![id] = [state |-> "claimed", attempts |-> @.attempts + 1,
                                       missed |-> @.missed + (IF Known(s, id) THEN 0 ELSE 1)]]
    /\ UNCHANGED <<jobs, table, artifacts, faults, still>>

(* getForWorker knows the jobs of this server only. *)
GetForWorker(s) ==
    /\ Doing(s, "get") /\ IF Known(s, work[s].id) THEN Turn(s, "mark") ELSE Fails(s)
    /\ UNCHANGED <<jobs, table, artifacts, tasks, faults, still>>

MarkRunning(s) ==
    /\ Doing(s, "mark")
    /\ LET running == [jobs[s][work[s].id] EXCEPT !.status = "running"] IN
       IF jobs[s][work[s].id].status \in {"succeeded", "cancelled"} THEN Fails(s) /\ UNCHANGED jobs
       ELSE Put(s, work[s].id, running) /\ work' = [work EXCEPT ![s].pc = "marked", ![s].copy = running]
    /\ UNCHANGED <<table, artifacts, tasks, faults, still>>

PersistRunning(s) ==
    /\ Doing(s, "marked") /\ Persist(work[s].id, work[s].copy) /\ Turn(s, "rows")
    /\ UNCHANGED <<jobs, artifacts, tasks, faults, still>>

(* A batch of the rows.  When the context is done, at a shutdown or because the lease was  *)
(* lost, the job is cancelled; at a shutdown its task is cancelled too.                      *)
UpdateProgress(s) ==
    /\ Doing(s, "rows") /\ work[s].id \notin NoFields /\ work[s].at < Rows[work[s].id]
    /\ Put(s, work[s].id, [jobs[s][work[s].id] EXCEPT !.processed = work[s].at + 1])
    /\ work' = [work EXCEPT ![s].at = @ + 1]
    /\ UNCHANGED <<table, artifacts, tasks, faults, still>>
Finish(s, status, files) ==
    /\ LET ended == [jobs[s][work[s].id] EXCEPT !.status = status, !.processed = work[s].at] IN
       Put(s, work[s].id, ended)
       /\ work' = [work EXCEPT ![s].pc = "finished", ![s].fails = status # "succeeded", ![s].copy = ended]
    /\ artifacts' = [artifacts EXCEPT ![s] = @ \cup files]
    /\ UNCHANGED <<table, tasks, still>>
Interrupt(s) == Doing(s, "rows") /\ work[s].at < Rows[work[s].id] /\ Spend(TRUE) /\ Finish(s, "cancelled", {})
FailFields(s) == Doing(s, "rows") /\ work[s].id \in NoFields /\ UNCHANGED faults /\ Finish(s, "failed", {})

(* The last write does not look at the status: a cancellation meanwhile is overwritten. *)
Complete(s) ==
    /\ Doing(s, "rows") /\ work[s].id \notin NoFields /\ work[s].at = Rows[work[s].id] /\ UNCHANGED faults
    /\ Finish(s, "succeeded", IF Kind[work[s].id] = "export" THEN {work[s].id} ELSE {})

PersistEnd(s) ==
    /\ Doing(s, "finished") /\ Turn(s, "end") /\ Persist(work[s].id, work[s].copy)
    /\ UNCHANGED <<jobs, artifacts, tasks, faults, still>>
EndTask(s) ==
    /\ Doing(s, "end") /\ work' = [work EXCEPT ![s] = NoWork]
    /\ \E state \in IF ~work[s].fails THEN {"done"}
                   ELSE {IF tasks[work[s].id].attempts < MaxAttempts THEN "pending" ELSE "dead"}
                        \cup (IF work[s].copy.status = "cancelled" THEN {"cancelled"} ELSE {}) :
            tasks' = [tasks EXCEPT ![work[s].id].state = state]
    /\ UNCHANGED <<jobs, table, artifacts, faults, still>>

-----------------------------------------------------------------------------
(* Cancel looks at the status, and then cancels; Retry writes back the record it read, and  *)
(* enqueues nothing.  Both persist afterwards.                                                *)

May == [cancel |-> {"pending", "running", "failed"}, retry |-> {"failed", "cancelled"}]
Look(o, id) ==
    /\ op[o].pc = "idle"
    /\ jobs[Server[o]][id].status \in May[Asked[o]]
    /\ op' = [op EXCEPT ![o] = [pc |-> "looked", id |-> id, copy |-> jobs[Server[o]][id]]]
    /\ UNCHANGED <<jobs, table, artifacts, tasks, req, work, faults>>
Store(o, job) ==
    /\ Put(Server[o], op[o].id, job) /\ op' = [op EXCEPT ![o].pc = "persist", ![o].copy = job]
    /\ UNCHANGED <<table, artifacts, tasks, req, work, faults>>
Looked(o, call) == op[o].pc = "looked" /\ Asked[o] = call
Cancel(o) == Looked(o, "cancel") /\ Store(o, [jobs[Server[o]][op[o].id] EXCEPT !.status = "cancelled"])
Retry(o) == Looked(o, "retry") /\ Store(o, [op[o].copy EXCEPT !.status = "pending"])
PersistOp(o) ==
    /\ op[o].pc = "persist" /\ Persist(op[o].id, op[o].copy) /\ op' = [op EXCEPT ![o].pc = "done"]
    /\ UNCHANGED <<jobs, artifacts, tasks, req, work, faults>>

(* A server that starts again has no jobs; what was in progress there is over. *)
Restart(s) ==
    /\ Runs(s) /\ Spend(TRUE)
    /\ jobs' = [jobs EXCEPT ![s] = [r \in Requests |-> NoJob]] /\ artifacts' = [artifacts EXCEPT ![s] = {}]
    /\ req' = [r \in Requests |-> IF req[r].at = s /\ req[r].pc # "accepted" THEN [req[r] EXCEPT !.pc = "failed"] ELSE req[r]]
    /\ work' = [work EXCEPT ![s] = NoWork]
    /\ op' = [o \in Operators |-> IF Server[o] = s THEN [op[o] EXCEPT !.pc = "done"] ELSE op[o]]
    /\ tasks' = [r \in Requests |-> IF work[s].id = r THEN [tasks[r] EXCEPT !.state = "pending"] ELSE tasks[r]]
    /\ UNCHANGED table

(* "active" are the requests and operations that are ever made, "up" the servers there are. *)
Start(active, up) ==
    /\ jobs = [s \in Servers |-> [r \in Requests |-> NoJob]] /\ table = [r \in Requests |-> NoJob]
    /\ artifacts = [s \in Servers |-> {}] /\ tasks = [r \in Requests |-> NoTask]
    /\ req = [r \in Requests |-> [pc |-> IF r \in active THEN "idle" ELSE "refused", id |-> None, at |-> None, copy |-> NoJob]]
    /\ work = [s \in Servers |-> IF s \in up THEN NoWork ELSE [NoWork EXCEPT !.pc = "off"]]
    /\ op = [o \in Operators |-> [pc |-> IF o \in active THEN "idle" ELSE "done", id |-> None, copy |-> NoJob]]
    /\ faults = 0
Init == Start(Requests \cup Operators, Servers)

RequestStep(r) == CreateRow(r) \/ TakePersisted(r) \/ AddErrors(r) \/ Enqueue(r) \/ NoteTask(r) \/ PersistTask(r)
WorkStep(s) ==
    \/ GetForWorker(s) \/ MarkRunning(s) \/ PersistRunning(s) \/ UpdateProgress(s) \/ FailFields(s) \/ Complete(s)
    \/ PersistEnd(s) \/ EndTask(s) \/ \E id \in Requests : Claim(s, id)
OpStep(o) == Cancel(o) \/ Retry(o) \/ PersistOp(o)
Next ==
    \/ \E r \in Requests : RequestStep(r) \/ \E s \in Servers : Commit(r, s)
    \/ \E s \in Servers : WorkStep(s) \/ Interrupt(s) \/ Restart(s)
    \/ \E o \in Operators : OpStep(o) \/ \E id \in Requests : Look(o, id)

Fairness == /\ \A r \in Requests : WF_vars(RequestStep(r)) /\ \A s \in Servers : WF_vars(WorkStep(s))
            /\ \A o \in Operators : WF_vars(OpStep(o))
Spec == Init /\ [][Next]_vars /\ Fairness
-----------------------------------------------------------------------------
Jobs == [status : Statuses, processed : Nat, task : Requests \cup {None}]
TypeOK ==
    /\ jobs \in [Servers -> [Requests -> Jobs]] /\ table \in [Requests -> Jobs]
    /\ artifacts \in [Servers -> SUBSET Requests]
    /\ \A r \in Requests : tasks[r].attempts <= MaxAttempts + faults /\ table[r].processed <= Rows[r]
    /\ \A s \in Servers : work[s].id = None \/ work[s].at <= Rows[work[s].id]
    /\ faults <= MaxFaults

(* A job that was cancelled while no worker had it, and whose request was answered, stays    *)
(* cancelled until somebody retries it: the worker the queue gives it to leaves it alone.      *)
CancelHolds ==
    [][\A s \in Servers : \A id \in Requests :
          jobs[s][id].status = "cancelled" /\ jobs'[s][id].status \notin {"cancelled", "none"}
          => \/ \E o \in Operators : op[o].id = id /\ Looked(o, "retry") /\ op'[o].pc = "persist"
             \/ work[s].id = id /\ Doing(s, "rows")
             \/ At(id, "created")]_vars

(* A job whose own request was accepted comes to an end, unless somebody retried it (nobody  *)
(* enqueues it then), the server that had it started again, or its task died of attempts        *)
(* that were all made by other servers, which know no such job (service.go:736-745).             *)
JobsSettled ==
    \A r \in Requests :
        At(r, "accepted") /\ req[r].id = r
        => \/ \E s \in Servers : req[r].at = s /\ jobs[s][r].status \in Final \cup {"none"}
           \/ \E o \in Operators : op[o].id = r /\ Asked[o] = "retry"
           \/ tasks[r].state = "dead" /\ tasks[r].missed = tasks[r].attempts
JobsEnd == []<>JobsSettled
=============================================================================
