------------------------------- MODULE TaskRuns -------------------------------
(***************************************************************************)
(* The run records of one task definition: RunService of                   *)
(* application/tasks/runs.go, the executor binding of execute.go and the   *)
(* worker that drives them, over the queue of JobContract.                 *)
(*                                                                         *)
(* A run lives in the database, its queue task in the queue, and no        *)
(* transaction spans the two: every database call and every queue call is  *)
(* a step of its own, and Update writes the whole copy that an earlier Get *)
(* read.  Enqueue holds its server's admissionMu; Cancel, Retry and the    *)
(* worker take no lock.                                                    *)
(*                                                                         *)
(* Left out: payloads, times, the log rows, other definitions and tenants, *)
(* read replicas, database calls that fail other than by a crash or a      *)
(* duplicate key.                                                          *)
(***************************************************************************)
EXTENDS Naturals, FiniteSets

CONSTANTS
    Clients,        \* calls of the API or of the scheduler, one each
    Workers,        \* worker goroutines
    Server,         \* the server process each client runs in
    Runs, QueueIds, \* identifiers newID may hand out
    Keys,           \* idempotency keys callers pass
    Calls,          \* the calls considered: a subset of {"enqueue", "cancel", "retry"}
    Policies,       \* the values of the definition's ConcurrencyPolicy considered
    Concurrency,    \* the definition's Concurrency
    MaxAttempts,    \* the definition's MaxAttempts
    FaultPoints,    \* faults considered: a subset of
                    \* {"worker", "client", "push", "stop", "late"}
    MaxFaults,      \* bound on their number
    NoRun, NoQueue, NoKey

RunsAssumption ==
    /\ Policies \subseteq {"forbid", "allow", "replace"}
    /\ Concurrency \in Nat \ {0} /\ MaxAttempts \in Nat \ {0} /\ MaxFaults \in Nat
    /\ NoRun \notin Runs /\ NoQueue \notin QueueIds /\ NoKey \notin Keys

VARIABLES
    policy,         \* the definition's ConcurrencyPolicy
    run,            \* gvba_task_runs
    qtask, qkey,    \* the queue: its tasks, and the task each key stands for
    pc, loc,        \* client calls and their locals
    wpc, wloc,      \* workers and their locals
    faults

vars == <<policy, run, qtask, qkey, pc, loc, wpc, wloc, faults>>

Active   == {"pending", "running", "failed"}
Final    == {"succeeded", "dead_letter", "cancelled"}
NoRow    == [status |-> "absent", queue |-> NoQueue, key |-> NoKey, attempts |-> 0]
RunRow   == [status : Active \cup Final \cup {"absent"}, queue : QueueIds \cup {NoQueue},
             key : Keys \cup {NoKey}, attempts : Nat]
NoQueueTask   == [status |-> "absent", attempts |-> 0]

Queue == INSTANCE JobContract WITH Jobs <- QueueIds, job <- qtask, accepted <- {}

IdleCall == [run |-> NoRun, row |-> NoRow, key |-> NoKey, todo |-> {}, skip |-> FALSE]
IdleWork == [queue |-> NoQueue, run |-> NoRun, row |-> NoRow, out |-> "none"]

Init ==
    /\ policy \in Policies
    /\ run = [r \in Runs |-> NoRow]
    /\ qtask = [q \in QueueIds |-> NoQueueTask]
    /\ qkey = [k \in Keys |-> NoQueue]
    /\ pc = [c \in Clients |-> "idle"]
    /\ loc = [c \in Clients |-> IdleCall]
    /\ wpc = [w \in Workers |-> "idle"]
    /\ wloc = [w \in Workers |-> IdleWork]
    /\ faults = 0

Fault(p) == p \in FaultPoints /\ faults < MaxFaults /\ faults' = faults + 1

ActiveRuns == {r \in Runs : run[r].status \in Active}
(* An identifier newID has not handed out. *)
Unused(q) ==
    /\ qtask[q].status = "absent"
    /\ \A r \in Runs : run[r].queue # q
    /\ \A c \in Clients : loc[c].row.queue # q

(* One of them; which one makes no difference. *)
newID(free) == IF free = {} THEN {} ELSE {CHOOSE x \in free : TRUE}

InEnqueue == {"list", "replace", "cread", "cqueue", "cwrite", "create", "push", "relink", "undo"}
Nested(c) == loc[c].key # NoKey
(* Mutant: nobody waits for admissionMu. *)
AdmittingNobody(c) == FALSE

(* Somebody of c's server is inside Enqueue and holds admissionMu. *)
Admitting(c) == \E d \in Clients : Server[d] = Server[c] /\ pc[d] \in InEnqueue /\ Nested(d)

Go(c, l)     == pc' = [pc EXCEPT ![c] = l]
Return(c)    == Go(c, "done") /\ loc' = [loc EXCEPT ![c] = IdleCall]
(* Update writes all columns of the copy, so also the key: a key that      *)
(* another run has taken meanwhile makes the call fail.                    *)
Writable(r, row) == row.key = NoKey \/ \A s \in Runs \ {r} : run[s].key # row.key
Put(r, row)  == run' = IF Writable(r, row) THEN [run EXCEPT ![r] = row] ELSE run

-----------------------------------------------------------------------------
(* EnqueueWithSource: a manual run or a trigger of the scheduler.          *)

(* The lock, then GetByIdempotency: an existing run answers the call. *)
EnqueueCall(c, k) ==
    /\ pc[c] = "idle" /\ "enqueue" \in Calls
    /\ ~Admitting(c)
    /\ IF \E r \in Runs : run[r].key = k THEN Return(c)
       ELSE Go(c, "list") /\ loc' = [loc EXCEPT ![c].key = k]
    /\ UNCHANGED <<run, qtask, qkey, faults>>

(* Mutants of ListActive: only some of the active runs are seen, or one    *)
(* too many is admitted.                                                   *)
ListSome(c, seen, room) ==
    LET n == Cardinality(seen) IN
    /\ pc[c] = "list"
    /\ IF policy = "replace"
       THEN Go(c, "replace") /\ loc' = [loc EXCEPT ![c].todo = seen]
       ELSE /\ Go(c, "create")
            /\ loc' = [loc EXCEPT ![c].skip = n > 0 /\ (policy # "allow" \/ n >= room)]
    /\ UNCHANGED <<run, qtask, qkey, faults>>
ListRunning(c) == ListSome(c, {r \in Runs : run[r].status = "running"}, Concurrency)

ListActive(c) ==
    LET n == Cardinality(ActiveRuns) IN
    /\ pc[c] = "list"
    /\ IF policy = "replace"
       THEN Go(c, "replace") /\ loc' = [loc EXCEPT ![c].todo = ActiveRuns]
       ELSE /\ Go(c, "create")
            /\ loc' = [loc EXCEPT ![c].skip = n > 0 /\ (policy # "allow" \/ n >= Concurrency)]
    /\ UNCHANGED <<run, qtask, qkey, faults>>

(* The loop that cancels the active runs one by one. *)
ReplaceNext(c) ==
    /\ pc[c] = "replace"
    /\ \/ /\ loc[c].todo = {}
          /\ Go(c, "create")
          /\ UNCHANGED loc
       \/ \E r \in loc[c].todo :
            /\ Go(c, "cread")
            /\ loc' = [loc EXCEPT ![c].todo = @ \ {r}, ![c].run = r]
    /\ UNCHANGED <<run, qtask, qkey, faults>>

(* The insert; the unique key turns a duplicate into the existing run. *)
CreateRun(c) ==
    /\ pc[c] = "create"
    /\ \/ /\ \E r \in Runs : run[r].key = loc[c].key
          /\ Return(c) /\ UNCHANGED run
       \/ /\ \A r \in Runs : run[r].key # loc[c].key
          /\ \E r \in newID({x \in Runs : run[x] = NoRow}), q \in newID({x \in QueueIds : Unused(x)}) :
                  LET row == [status |-> IF loc[c].skip THEN "cancelled" ELSE "pending",
                              queue  |-> IF loc[c].skip THEN NoQueue ELSE q,
                              key |-> loc[c].key, attempts |-> 0]
                  IN /\ Put(r, row)
                     /\ IF loc[c].skip THEN Return(c)
                        ELSE Go(c, "push") /\ loc' = [loc EXCEPT ![c].run = r, ![c].row = row]
    /\ UNCHANGED <<qtask, qkey, faults>>

(* queue.Enqueue: a known key returns the task it stands for. *)
PushTask(c) ==
    LET known == qkey[loc[c].key] IN
    /\ pc[c] = "push"
    /\ \/ /\ known = NoQueue
          /\ Queue!Submit(loc[c].row.queue)
          /\ qkey' = [qkey EXCEPT ![loc[c].key] = loc[c].row.queue]
          /\ Return(c)
       \/ /\ known # NoQueue
          /\ Go(c, "relink")
          /\ loc' = [loc EXCEPT ![c].row.queue = known]
          /\ UNCHANGED <<qtask, qkey>>
    /\ UNCHANGED <<run, faults>>

PushFails(c) ==
    /\ pc[c] \in {"push", "rpush"} /\ Fault("push")
    /\ Go(c, "undo")
    /\ UNCHANGED <<run, qtask, qkey, loc>>

(* The run points to the queue task that came back. *)
Relink(c) ==
    /\ pc[c] = "relink"
    /\ Put(loc[c].run, loc[c].row)
    /\ Return(c)
    /\ UNCHANGED <<qtask, qkey, faults>>

(* queue.unavailable: the run is marked failed, here and in Retry. *)
MarkUnqueued(c) ==
    /\ pc[c] = "undo"
    /\ Put(loc[c].run, [loc[c].row EXCEPT !.status = "failed"])
    /\ Return(c)
    /\ UNCHANGED <<qtask, qkey, faults>>

-----------------------------------------------------------------------------
(* Cancel, called by the API or by Enqueue under "replace".                *)

CancelCall(c, r) ==
    /\ pc[c] = "idle" /\ "cancel" \in Calls
    /\ run[r].status # "absent"
    /\ Go(c, "cread")
    /\ loc' = [loc EXCEPT ![c].run = r]
    /\ UNCHANGED <<run, qtask, qkey, faults>>

(* A run that is not active any more is a conflict, also for the Enqueue   *)
(* that wanted to replace it.                                              *)
CancelRead(c) ==
    LET row == run[loc[c].run] IN
    /\ pc[c] = "cread"
    /\ \/ row.status \notin Active /\ Return(c)
       \/ /\ row.status \in Active
          /\ Go(c, "cqueue")
          /\ loc' = [loc EXCEPT ![c].row = row]
    /\ UNCHANGED <<run, qtask, qkey, faults>>

(* queue.Cancel; a finished task is passed over, an unknown one ends the call. *)
CancelQueue(c) ==
    LET q == loc[c].row.queue IN
    /\ pc[c] = "cqueue"
    /\ IF q # NoQueue /\ qtask[q].status = "absent" THEN Return(c)
       ELSE Go(c, "cwrite") /\ UNCHANGED loc
    /\ IF q # NoQueue /\ qtask[q].status \in Active THEN Queue!Cancel(q) ELSE UNCHANGED qtask
    /\ UNCHANGED <<run, qkey, faults>>

CancelWrite(c) ==
    /\ pc[c] = "cwrite"
    /\ Put(loc[c].run, [loc[c].row EXCEPT !.status = "cancelled"])
    /\ IF Nested(c) /\ Writable(loc[c].run, loc[c].row) THEN Go(c, "replace") /\ loc' = [loc EXCEPT ![c].row = NoRow, ![c].run = NoRun]
       ELSE Return(c)
    /\ UNCHANGED <<qtask, qkey, faults>>

-----------------------------------------------------------------------------
(* Retry: the same run under a new queue task and a new key.               *)

RetryCall(c, r) ==
    /\ pc[c] = "idle" /\ "retry" \in Calls
    /\ run[r].status \in {"failed", "dead_letter"}
    /\ Go(c, "rget")
    /\ loc' = [loc EXCEPT ![c].run = r, ![c].row = run[r]]
    /\ UNCHANGED <<run, qtask, qkey, faults>>

RetryGet(c) ==
    /\ pc[c] = "rget"
    /\ IF loc[c].row.queue # NoQueue /\ qtask[loc[c].row.queue].status # "absent"
       THEN Go(c, "rwrite") /\ UNCHANGED loc
       ELSE Return(c)
    /\ UNCHANGED <<run, qtask, qkey, faults>>

Retried(row, q) == [row EXCEPT !.status = "pending", !.queue = q, !.key = NoKey]

RetryWrite(c) ==
    /\ pc[c] = "rwrite"
    /\ \E q \in newID({x \in QueueIds : Unused(x)}) :
         /\ Put(loc[c].run, Retried(loc[c].row, q))
         /\ loc' = [loc EXCEPT ![c].row = Retried(@, q)]
    /\ Go(c, "rpush")
    /\ UNCHANGED <<qtask, qkey, faults>>

RetryPush(c) ==
    /\ pc[c] = "rpush"
    /\ Queue!Submit(loc[c].row.queue)
    /\ Return(c)
    /\ UNCHANGED <<run, qkey, faults>>

Client(c) ==
    /\ \/ \E k \in Keys : EnqueueCall(c, k)
       \/ ListActive(c) \/ ReplaceNext(c) \/ CreateRun(c) \/ PushTask(c)
       \/ PushFails(c) \/ Relink(c) \/ MarkUnqueued(c)
       \/ \E r \in Runs : CancelCall(c, r) \/ RetryCall(c, r)
       \/ CancelRead(c) \/ CancelQueue(c) \/ CancelWrite(c)
       \/ RetryGet(c) \/ RetryWrite(c) \/ RetryPush(c)
    /\ UNCHANGED <<policy, wpc, wloc>>

-----------------------------------------------------------------------------
(* The worker: Execute of jobs/worker.go around the handler that           *)
(* BindWorker and BindExecutors build.                                     *)

WorkAt(w, l)  == wpc' = [wpc EXCEPT ![w] = l]
Settle(w, o)  == WorkAt(w, "settle") /\ wloc' = [wloc EXCEPT ![w].out = o]
Rest(w)       == WorkAt(w, "idle") /\ wloc' = [wloc EXCEPT ![w] = IdleWork]

(* A pending or failed task, or a running one whose worker is gone. *)
Claim(w, q) ==
    /\ wpc[w] = "idle"
    /\ \A v \in Workers : wloc[v].queue # q
    /\ Queue!Start(q)
    /\ WorkAt(w, "start")
    /\ wloc' = [wloc EXCEPT ![w].queue = q]
    /\ UNCHANGED <<run, qkey, faults>>

(* Get and Start: a task cancelled in between is not run. *)
StartTask(w) ==
    LET q == wloc[w].queue IN
    /\ wpc[w] = "start"
    /\ \/ qtask[q].status \in Final /\ Rest(w) /\ UNCHANGED qtask
       \/ /\ Queue!Start(q)
          /\ WorkAt(w, "lookup")
          /\ UNCHANGED wloc
    /\ UNCHANGED <<run, qkey, faults>>

(* GetByQueueTask; without a run the handler fails. *)
FindRun(w) ==
    /\ wpc[w] = "lookup"
    /\ \/ \E r \in Runs :
            /\ run[r].queue = wloc[w].queue
            /\ WorkAt(w, "markread")
            /\ wloc' = [wloc EXCEPT ![w].run = r]
       \/ (\A r \in Runs : run[r].queue # wloc[w].queue) /\ Settle(w, "err")
    /\ UNCHANGED <<run, qtask, qkey, faults>>

(* Mutant: transition does not look at the status it read. *)
MarkRunningUnchecked(w) ==
    /\ wpc[w] = "markread"
    /\ WorkAt(w, "markwrite")
    /\ wloc' = [wloc EXCEPT ![w].row = run[wloc[w].run]]
    /\ UNCHANGED <<run, qtask, qkey, faults>>

(* transition reads the run; one that is final is a conflict. *)
MarkRunningRead(w) ==
    LET row == run[wloc[w].run] IN
    /\ wpc[w] = "markread"
    /\ \/ row.status \in Final /\ Settle(w, "err")
       \/ /\ row.status \notin Final
          /\ WorkAt(w, "markwrite")
          /\ wloc' = [wloc EXCEPT ![w].row = row]
    /\ UNCHANGED <<run, qtask, qkey, faults>>

MarkRunningWrite(w) ==
    /\ wpc[w] = "markwrite"
    /\ Put(wloc[w].run, [wloc[w].row EXCEPT !.status = "running"])
    /\ IF Writable(wloc[w].run, wloc[w].row) THEN WorkAt(w, "handler") /\ UNCHANGED wloc
       ELSE Settle(w, "err")
    /\ UNCHANGED <<qtask, qkey, faults>>

(* The handler succeeds, fails, is cancelled because the watcher saw the   *)
(* queue task cancelled, or is cut short by a shutdown.  Only in the first *)
(* two cases the result is stored.                                         *)
HandlerReturns(w) ==
    /\ wpc[w] = "handler"
    /\ \/ \E o \in {"ok", "err"} :
            /\ WorkAt(w, "resread")
            /\ wloc' = [wloc EXCEPT ![w].out = o]
            /\ UNCHANGED faults
       \/ /\ qtask[wloc[w].queue].status = "cancelled"
          /\ WorkAt(w, "endread")
          /\ wloc' = [wloc EXCEPT ![w].out = "cancel"]
          /\ UNCHANGED faults
       \/ /\ Fault("stop")
          /\ WorkAt(w, "endread")
          /\ wloc' = [wloc EXCEPT ![w].out = "stop"]
    /\ UNCHANGED <<run, qtask, qkey>>

(* SetExecutionResult: no look at the status, all columns written back. *)
ResultRead(w) ==
    /\ wpc[w] = "resread"
    /\ WorkAt(w, "reswrite")
    /\ wloc' = [wloc EXCEPT ![w].row = run[wloc[w].run]]
    /\ UNCHANGED <<run, qtask, qkey, faults>>

ResultWrite(w) ==
    /\ wpc[w] = "reswrite"
    /\ Put(wloc[w].run, wloc[w].row)
    /\ WorkAt(w, "endread")
    /\ wloc' = [wloc EXCEPT ![w].out = IF Writable(wloc[w].run, wloc[w].row) THEN @ ELSE "err"]
    /\ UNCHANGED <<qtask, qkey, faults>>

(* A shutdown that is noticed after the handler succeeded: the run is left *)
(* as it is and the queue task is cancelled.                               *)
LateStop(w) ==
    /\ wpc[w] = "endread" /\ wloc[w].out = "ok" /\ Fault("late")
    /\ Settle(w, "stop")
    /\ UNCHANGED <<run, qtask, qkey>>

(* MarkSucceeded, MarkFailed, MarkCancelled: a conflict is returned by the *)
(* first, and then fails the queue task, and ignored after the others.     *)
MarkEndRead(w) ==
    LET row == run[wloc[w].run] IN
    /\ wpc[w] = "endread"
    /\ \/ row.status \in Final /\ Settle(w, IF wloc[w].out = "ok" THEN "err" ELSE wloc[w].out)
       \/ /\ row.status \notin Final
          /\ WorkAt(w, "endwrite")
          /\ wloc' = [wloc EXCEPT ![w].row = row]
    /\ UNCHANGED <<run, qtask, qkey, faults>>

Ended(row, o) ==
    IF o = "ok" THEN [row EXCEPT !.status = "succeeded"]
    ELSE IF o = "err"
    THEN [row EXCEPT !.attempts = @ + 1,
                     !.status = IF row.attempts + 1 >= MaxAttempts THEN "dead_letter" ELSE "failed"]
    ELSE [row EXCEPT !.status = "cancelled"]

MarkEndWrite(w) ==
    /\ wpc[w] = "endwrite"
    /\ Put(wloc[w].run, Ended(wloc[w].row, wloc[w].out))
    /\ Settle(w, IF wloc[w].out = "ok" /\ ~Writable(wloc[w].run, wloc[w].row) THEN "err" ELSE wloc[w].out)
    /\ UNCHANGED <<qtask, qkey, faults>>

(* Complete, Fail or Cancel of the queue; a finished task stays as it is. *)
SettleTask(w) ==
    LET q == wloc[w].queue IN
    /\ wpc[w] = "settle"
    /\ \/ qtask[q].status \in Final /\ UNCHANGED qtask
       \/ wloc[w].out = "ok" /\ Queue!Complete(q)
       \/ wloc[w].out \in {"err", "cancel"} /\ Queue!Fail(q)
       \/ wloc[w].out = "stop" /\ Queue!Cancel(q)
    /\ Rest(w)
    /\ UNCHANGED <<run, qkey, faults>>

Worker(w) ==
    /\ \/ \E q \in QueueIds : Claim(w, q)
       \/ StartTask(w) \/ FindRun(w) \/ MarkRunningRead(w) \/ MarkRunningWrite(w)
       \/ HandlerReturns(w) \/ ResultRead(w) \/ ResultWrite(w) \/ LateStop(w)
       \/ MarkEndRead(w) \/ MarkEndWrite(w) \/ SettleTask(w)
    /\ UNCHANGED <<policy, pc, loc>>

(* A worker dies or loses its claim; a server dies in the middle of a call. *)
CrashWorker(w) ==
    /\ wpc[w] # "idle" /\ Fault("worker")
    /\ Rest(w)
    /\ UNCHANGED <<policy, run, qtask, qkey, pc, loc>>

CrashClient(c) ==
    /\ pc[c] \notin {"idle", "done"} /\ Fault("client")
    /\ Return(c)
    /\ UNCHANGED <<policy, run, qtask, qkey, wpc, wloc>>

Next ==
    \/ \E c \in Clients : Client(c) \/ CrashClient(c)
    \/ \E w \in Workers : Worker(w) \/ CrashWorker(w)

Spec == Init /\ [][Next]_vars

(* Calls in progress are finished and workers poll. *)
Fairness ==
    /\ \A c \in Clients : WF_vars(pc[c] # "idle" /\ Client(c))
    /\ \A w \in Workers : WF_vars(Worker(w))

-----------------------------------------------------------------------------
(* Properties. *)

(* Every variable has its type. *)
TypeOK ==
    /\ policy \in Policies
    /\ run \in [Runs -> RunRow]
    /\ qtask \in [QueueIds -> [status : Active \cup Final \cup {"absent"}, attempts : Nat]]
    /\ qkey \in [Keys -> QueueIds \cup {NoQueue}]
    /\ \A c \in Clients : loc[c].row \in RunRow /\ loc[c].todo \subseteq Runs
    /\ \A w \in Workers : wloc[w].row \in RunRow /\ wloc[w].queue \in QueueIds \cup {NoQueue}
    /\ faults \in 0..MaxFaults

(* Under "forbid" a definition has no two active runs. *)
ForbidHolds == policy = "forbid" => Cardinality(ActiveRuns) <= 1

(* Under "forbid" the handler of a definition never runs twice at a time.  *)
OneHandler ==
    policy = "forbid" => Cardinality({w \in Workers : wpc[w] = "handler"}) <= 1

(* Under "allow" there are no more than Concurrency active runs. *)
AllowHolds == policy = "allow" => Cardinality(ActiveRuns) <= Concurrency

(* Under "replace" at most one active run has a queue task that a worker may execute. *)
ReplaceHolds ==
    policy = "replace" =>
        Cardinality({r \in ActiveRuns : run[r].queue # NoQueue
                                        /\ qtask[run[r].queue].status \in Active}) <= 1

(* The concurrency policy of a definition is kept on one server, however Enqueue and *)
(* the workers interleave.                                                            *)
PolicyHolds == ForbidHolds /\ AllowHolds /\ ReplaceHolds

(* Nobody is in the middle of a call that touches r. *)
Quiet(r) ==
    /\ \A c \in Clients : loc[c].run # r
    /\ \A w \in Workers : wloc[w].run # r /\ wloc[w].queue \notin {run[r].queue} \ {NoQueue}

(* An active run nobody works on has a queue task that is still to be      *)
(* executed: the record cannot be left behind.  Not so under "replace",    *)
(* where Enqueue cancels runs and a Cancel may race with the worker.       *)
NoOrphan ==
    policy # "replace" =>
      \A r \in ActiveRuns :
        Quiet(r) => run[r].queue # NoQueue /\ qtask[run[r].queue].status \in Active

(* A finished run does not change any more; a dead letter may be retried.  *)
(* "replace" is excepted for the same reason.                              *)
FinalStays ==
    \A r \in Runs :
        policy # "replace" /\ run[r].status \in Final =>
            \/ run'[r] = run[r]
            \/ run[r].status = "dead_letter" /\ run'[r].status = "pending"
FinalRuns == [][FinalStays]_vars

(* Every run comes to an end: at some later moment none is active. *)
EveryRunEnds == []<>(ActiveRuns = {})
=============================================================================
