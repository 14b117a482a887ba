------------------------------ MODULE RedisQueue ------------------------------
(***************************************************************************)
(* The durable job queue: platform/jobs/redis_queue.go driven by the       *)
(* worker of application/jobs/worker.go, at the grain of one Redis command *)
(* (or one Lua script) per step.                                           *)
(*                                                                         *)
(* Every server process runs one worker goroutine (Concurrency 1), one     *)
(* goroutine that enqueues and, for the processes in Cancellers, one that  *)
(* serves Cancel.  A process may crash and restart between any two         *)
(* commands; its memory (the claims map, the goroutines' locals) is lost,  *)
(* what it wrote to Redis stays.                                           *)
(*                                                                         *)
(* Abstractions.  The pending and processing lists are bags: how often a   *)
(* task is in the list, not where.  A claim owner (24 random hex digits)   *)
(* is a number that is never handed out twice.  Payloads, error texts and  *)
(* the one-year retention of the keys are left out.                        *)
(***************************************************************************)
EXTENDS Naturals

CONSTANTS
    Procs,          \* server processes
    Tasks,          \* queue task identifiers
    Keys,           \* idempotency keys
    KeyOf,          \* the idempotency key each task is enqueued under
    Registered,     \* tasks whose type has a handler in the worker's registry
    MaxAttempts,    \* attempts before a task is dead-lettered
    NoProc, NoTask, \* "nobody" and "no task"
    Cancellers,     \* processes that serve Cancel calls
    CrashPoints,    \* program points at which a crash is considered
    FaultPoints,    \* program points at which a Redis command may fail
    MayStall,       \* a live process may be slower than a lease or a lock
    MaxFailures,    \* bound on crashes, faults and stalls together
    MaxCancels      \* bound on calls of Cancel

ASSUME QueueAssumption ==
    /\ NoProc \notin Procs
    /\ NoTask \notin Tasks
    /\ KeyOf \in [Tasks -> Keys]
    /\ Registered \subseteq Tasks
    /\ MaxAttempts \in Nat \ {0}
    /\ Cancellers \subseteq Procs
    /\ MaxFailures \in Nat
    /\ MaxCancels \in Nat
    /\ MayStall \in BOOLEAN

VARIABLES
    \* Redis
    task,           \* jobs:task:<id>, the stored status and attempt count
    keyRef,         \* jobs:idempotency:<key>, the task a key stands for
    pending,        \* jobs:pending, occurrences of each task in the list
    processing,     \* jobs:processing, likewise
    lease,          \* jobs:lease:<id>, the claim owner, 0 when absent
    claimLock,      \* lock:task-claim-<id>
    enqueueLock,    \* lock:task-enqueue-<key>
    \* memory of the processes
    claims,         \* RedisQueue.claims of each process
    pc, cur, own, snap, outcome,    \* worker goroutine and its locals
    epc, ecur,                      \* enqueueing goroutine
    cpc, ccur, cown, csnap,         \* cancelling goroutine
    \* history
    issued,         \* identifiers handed out by newID
    acked,          \* tasks whose Enqueue returned without an error
    nextClaim,      \* the next unused claim owner
    failures,       \* crashes, faults and stalls so far
    cancels         \* calls of Cancel so far

redis   == <<task, keyRef, pending, processing, lease, claimLock, enqueueLock>>
worker  == <<pc, cur, own, snap, outcome>>
enq     == <<epc, ecur, issued, acked>>
canc    == <<cpc, ccur, cown, csnap, cancels>>
vars    == <<redis, claims, worker, enq, canc, nextClaim, failures>>

-----------------------------------------------------------------------------
(* Status of a stored task; "absent" when the key does not exist. *)
Live       == {"pending", "running", "failed"}
Terminal   == {"succeeded", "dead_letter", "cancelled"}
Status     == Live \cup Terminal \cup {"absent"}
TaskRecord == [status : Status, attempts : Nat]
Absent     == [status |-> "absent", attempts |-> 0]

WorkerPC  == {"idle", "rotate", "probe", "lock", "recheck", "read", "lease",
              "save", "unlock", "unlease", "exec", "start", "startw", "run",
              "fin", "finw", "after", "rel1", "rel2", "push"}
Outcome   == {"none", "claimed", "terminal", "saveFailed",
              "ok", "err", "stop", "retry"}
EnqueuePC == {"idle", "lookup", "store", "index", "append", "withdraw", "release"}
CancelPC  == {"idle", "cwrite", "cclaim", "cremove"}

(* The worker holds lock:task-claim-<cur>, or believes it does. *)
Locked  == {"recheck", "read", "lease", "save", "unlock"}
(* The worker has installed its lease and not yet given it back. *)
Holding == {"save", "exec", "start", "startw", "run", "fin", "finw", "after",
            "rel1", "unlease"}

HoldsLock(p, t)  == pc[p] \in Locked /\ cur[p] = t
HoldsLease(p, t) ==
    /\ cur[p] = t
    /\ own[p] # 0
    /\ pc[p] \in Holding \/ (pc[p] = "unlock" /\ outcome[p] \in {"claimed", "saveFailed"})

(* Mutants of the three below: a claim that forgets the failed attempts, a  *)
(* misspelt status, a limit that is off by one, a failure not counted.     *)
StartedAnew(s)       == [status |-> "running", attempts |-> 0]
CancelledMisspelt(s) == [s EXCEPT !.status = "canceled"]
FailedOnceMore(s)    ==
    IF s.status \in Terminal THEN s
    ELSE [status   |-> IF s.attempts + 1 > MaxAttempts THEN "dead_letter" ELSE "failed",
          attempts |-> s.attempts + 1]
FailedUncounted(s)   == [s EXCEPT !.status = "failed"]

(* What Start, Complete, Cancel and Fail make of the task they have read. *)
Started(s)   == [s EXCEPT !.status = "running"]
Completed(s) == [s EXCEPT !.status = "succeeded"]
Cancelled(s) == [s EXCEPT !.status = "cancelled"]
Failed(s)    ==
    IF s.status \in Terminal THEN s
    ELSE [status   |-> IF s.attempts + 1 >= MaxAttempts THEN "dead_letter" ELSE "failed",
          attempts |-> s.attempts + 1]

(* The claim this process remembers for t still owns the lease, or there is *)
(* none and the call is not made on behalf of a claim. *)
ClaimOwner(p, t) == claims[p][t] = 0 \/ lease[t] = claims[p][t]

-----------------------------------------------------------------------------
Init ==
    /\ task = [t \in Tasks |-> Absent]
    /\ keyRef = [k \in Keys |-> NoTask]
    /\ pending = [t \in Tasks |-> 0]
    /\ processing = [t \in Tasks |-> 0]
    /\ lease = [t \in Tasks |-> 0]
    /\ claimLock = [t \in Tasks |-> NoProc]
    /\ enqueueLock = [k \in Keys |-> NoProc]
    /\ claims = [p \in Procs |-> [t \in Tasks |-> 0]]
    /\ pc = [p \in Procs |-> "idle"]
    /\ cur = [p \in Procs |-> NoTask]
    /\ own = [p \in Procs |-> 0]
    /\ snap = [p \in Procs |-> Absent]
    /\ outcome = [p \in Procs |-> "none"]
    /\ epc = [p \in Procs |-> "idle"]
    /\ ecur = [p \in Procs |-> NoTask]
    /\ cpc = [p \in Procs |-> "idle"]
    /\ ccur = [p \in Procs |-> NoTask]
    /\ cown = [p \in Procs |-> 0]
    /\ csnap = [p \in Procs |-> Absent]
    /\ issued = {}
    /\ acked = {}
    /\ nextClaim = 1
    /\ failures = 0
    /\ cancels = 0

Failure ==
    /\ failures < MaxFailures
    /\ failures' = failures + 1

-----------------------------------------------------------------------------
(* Enqueue.  newID gives every call a fresh identifier; the key lock is    *)
(* SET NX, a call that does not get it returns an error and changes nothing.*)

EnqueueLock(p, t) ==
    /\ epc[p] = "idle"
    /\ t \notin issued
    /\ enqueueLock[KeyOf[t]] = NoProc
    /\ enqueueLock' = [enqueueLock EXCEPT ![KeyOf[t]] = p]
    /\ issued' = issued \cup {t}
    /\ ecur' = [ecur EXCEPT ![p] = t]
    /\ epc' = [epc EXCEPT ![p] = "lookup"]
    /\ UNCHANGED <<task, keyRef, pending, acked, failures>>

(* lookupByKey, then Get by id: a key whose task still exists answers the call. *)
EnqueueCheck(p) ==
    LET ref   == keyRef[KeyOf[ecur[p]]]
        found == ref # NoTask /\ task[ref].status # "absent" IN
    /\ epc[p] = "lookup"
    /\ \/ /\ found
          /\ acked' = acked \cup {ref}
          /\ epc' = [epc EXCEPT ![p] = "release"]
       \/ /\ ~found
          /\ epc' = [epc EXCEPT ![p] = "store"]
          /\ UNCHANGED acked
    /\ UNCHANGED <<task, keyRef, pending, enqueueLock, ecur, issued, failures>>

EnqueueSave(p) ==
    /\ epc[p] = "store"
    /\ task' = [task EXCEPT ![ecur[p]] = [status |-> "pending", attempts |-> 0]]
    /\ epc' = [epc EXCEPT ![p] = "index"]
    /\ UNCHANGED <<keyRef, pending, enqueueLock, ecur, issued, acked, failures>>

EnqueueKey(p) ==
    /\ epc[p] = "index"
    /\ keyRef' = [keyRef EXCEPT ![KeyOf[ecur[p]]] = ecur[p]]
    /\ epc' = [epc EXCEPT ![p] = "append"]
    /\ UNCHANGED <<task, pending, enqueueLock, ecur, issued, acked, failures>>

EnqueuePush(p) ==
    /\ epc[p] = "append"
    /\ pending' = [pending EXCEPT ![ecur[p]] = @ + 1]
    /\ acked' = acked \cup {ecur[p]}
    /\ epc' = [epc EXCEPT ![p] = "release"]
    /\ UNCHANGED <<task, keyRef, enqueueLock, ecur, issued, failures>>

(* A command fails.  A failed lookup counts as "no such key" and the call   *)
(* goes on; a failed saveTask ends it; later the task is deleted again,    *)
(* even if the push is undone only half: LPUSH took place, EXPIRE failed.  *)
EnqueueFault(p) ==
    /\ Failure
    /\ \/ /\ epc[p] = "lookup" /\ "lookup" \in FaultPoints
          /\ epc' = [epc EXCEPT ![p] = "store"]
          /\ UNCHANGED pending
       \/ /\ epc[p] = "store" /\ "store" \in FaultPoints
          /\ epc' = [epc EXCEPT ![p] = "release"]
          /\ UNCHANGED pending
       \/ /\ epc[p] \in {"index", "append"} \cap FaultPoints
          /\ epc' = [epc EXCEPT ![p] = "withdraw"]
          /\ UNCHANGED pending
       \/ /\ epc[p] = "append" /\ "expire" \in FaultPoints
          /\ epc' = [epc EXCEPT ![p] = "withdraw"]
          /\ pending' = [pending EXCEPT ![ecur[p]] = @ + 1]
    /\ UNCHANGED <<task, keyRef, enqueueLock, ecur, issued, acked>>

EnqueueWithdraw(p) ==
    /\ epc[p] = "withdraw"
    /\ task' = [task EXCEPT ![ecur[p]] = Absent]
    /\ epc' = [epc EXCEPT ![p] = "release"]
    /\ UNCHANGED <<keyRef, pending, enqueueLock, ecur, issued, acked, failures>>

EnqueueUnlock(p) ==
    /\ epc[p] = "release"
    /\ enqueueLock' = IF enqueueLock[KeyOf[ecur[p]]] = p
                      THEN [enqueueLock EXCEPT ![KeyOf[ecur[p]]] = NoProc]
                      ELSE enqueueLock
    /\ epc' = [epc EXCEPT ![p] = "idle"]
    /\ ecur' = [ecur EXCEPT ![p] = NoTask]
    /\ UNCHANGED <<task, keyRef, pending, issued, acked, failures>>

Enqueue(p) ==
    /\ \/ \E t \in Tasks : EnqueueLock(p, t)
       \/ EnqueueCheck(p) \/ EnqueueSave(p) \/ EnqueueKey(p) \/ EnqueuePush(p)
       \/ EnqueueFault(p) \/ EnqueueWithdraw(p) \/ EnqueueUnlock(p)
    /\ UNCHANGED <<worker, canc, processing, lease, claimLock, claims, nextClaim>>

-----------------------------------------------------------------------------
(* ClaimPending.  Whenever the code's loop continues, or returns without a *)
(* task and is called again by Worker.Run, the worker is back at "idle".   *)

Goto(p, l) == pc' = [pc EXCEPT ![p] = l]
Step(p, l) == Goto(p, l) /\ UNCHANGED <<cur, own, snap, outcome>>
Forget(p)  ==
    /\ Goto(p, "idle")
    /\ cur' = [cur EXCEPT ![p] = NoTask]
    /\ own' = [own EXCEPT ![p] = 0]
    /\ snap' = [snap EXCEPT ![p] = Absent]
    /\ outcome' = [outcome EXCEPT ![p] = "none"]

(* Mutant of MovePending: RPOP, the task leaves the list for good. *)
PopPending(p) ==
    /\ pc[p] = "idle"
    /\ \/ \E t \in Tasks :
            /\ pending[t] > 0
            /\ pending' = [pending EXCEPT ![t] = @ - 1]
            /\ cur' = [cur EXCEPT ![p] = t]
            /\ Goto(p, "probe")
       \/ /\ \A t \in Tasks : pending[t] = 0
          /\ Goto(p, "rotate")
          /\ UNCHANGED <<pending, cur>>
    /\ UNCHANGED <<processing, task, lease, claimLock, claims, own, snap, outcome,
                   nextClaim, failures>>

(* RPOPLPUSH pending processing. *)
MovePending(p) ==
    /\ pc[p] = "idle"
    /\ \/ \E t \in Tasks :
            /\ pending[t] > 0
            /\ pending' = [pending EXCEPT ![t] = @ - 1]
            /\ processing' = [processing EXCEPT ![t] = @ + 1]
            /\ cur' = [cur EXCEPT ![p] = t]
            /\ Goto(p, "probe")
       \/ /\ \A t \in Tasks : pending[t] = 0
          /\ Goto(p, "rotate")
          /\ UNCHANGED <<pending, processing, cur>>
    /\ UNCHANGED <<task, lease, claimLock, claims, own, snap, outcome, nextClaim, failures>>

(* Mutant of RotateProcessing: orphans are not looked for. *)
RotateNothing(p) ==
    /\ pc[p] = "rotate"
    /\ Step(p, "idle")
    /\ UNCHANGED <<task, pending, processing, lease, claimLock, claims, nextClaim, failures>>

(* RPOPLPUSH processing processing, the recovery of orphaned tasks. *)
RotateProcessing(p) ==
    /\ pc[p] = "rotate"
    /\ \/ \E t \in Tasks :
            /\ processing[t] > 0
            /\ cur' = [cur EXCEPT ![p] = t]
            /\ Goto(p, "probe")
       \/ /\ \A t \in Tasks : processing[t] = 0
          /\ Goto(p, "idle")
          /\ UNCHANGED cur
    /\ UNCHANGED <<task, pending, processing, lease, claimLock, claims, own, snap, outcome, nextClaim, failures>>

ProbeLease(p) ==
    /\ pc[p] = "probe"
    /\ \/ lease[cur[p]] # 0 /\ Forget(p)
       \/ /\ lease[cur[p]] = 0
          /\ Step(p, "lock")
    /\ UNCHANGED <<task, pending, processing, lease, claimLock, claims, nextClaim, failures>>

AcquireClaimLock(p) ==
    /\ pc[p] = "lock"
    /\ \/ claimLock[cur[p]] # NoProc /\ Forget(p) /\ UNCHANGED claimLock
       \/ /\ claimLock[cur[p]] = NoProc
          /\ claimLock' = [claimLock EXCEPT ![cur[p]] = p]
          /\ Step(p, "recheck")
    /\ UNCHANGED <<task, pending, processing, lease, claims, nextClaim, failures>>

(* Mutant of RecheckLease: the probe before the lock is trusted. *)
RecheckNothing(p) ==
    /\ pc[p] = "recheck"
    /\ Step(p, "read")
    /\ UNCHANGED <<task, pending, processing, lease, claimLock, claims, nextClaim, failures>>

RecheckLease(p) ==
    /\ pc[p] = "recheck"
    /\ Step(p, IF lease[cur[p]] = 0 THEN "read" ELSE "unlock")
    /\ UNCHANGED <<task, pending, processing, lease, claimLock, claims, nextClaim, failures>>

(* Mutant of ReadClaimed: a finished task is claimed like any other. *)
ReadAny(p) ==
    /\ pc[p] = "read"
    /\ snap' = [snap EXCEPT ![p] = task[cur[p]]]
    /\ Goto(p, IF task[cur[p]] # Absent THEN "lease" ELSE "unlock")
    /\ UNCHANGED <<task, pending, processing, lease, claimLock, claims, cur, own,
                   outcome, nextClaim, failures>>

ReadClaimed(p) ==
    LET s == task[cur[p]] IN
    /\ pc[p] = "read"
    /\ snap' = [snap EXCEPT ![p] = s]
    /\ Goto(p, IF s.status \in Live THEN "lease" ELSE "unlock")
    /\ outcome' = [outcome EXCEPT ![p] = IF s.status \in Terminal THEN "terminal" ELSE "none"]
    /\ UNCHANGED <<task, pending, processing, lease, claimLock, claims, cur, own, nextClaim, failures>>

(* SET of the lease, with a new random owner; not conditional. *)
InstallLease(p) ==
    /\ pc[p] = "lease"
    /\ nextClaim' = nextClaim + 1
    /\ own' = [own EXCEPT ![p] = nextClaim]
    /\ lease' = [lease EXCEPT ![cur[p]] = nextClaim]
    /\ Goto(p, "save")
    /\ UNCHANGED <<task, pending, processing, claimLock, claims, cur, snap, outcome, failures>>

(* saveTask(Running) of the copy that was read, then the claims map. *)
SaveRunning(p) ==
    /\ pc[p] = "save"
    /\ task' = [task EXCEPT ![cur[p]] = Started(snap[p])]
    /\ claims' = [claims EXCEPT ![p][cur[p]] = own[p]]
    /\ outcome' = [outcome EXCEPT ![p] = "claimed"]
    /\ Goto(p, "unlock")
    /\ UNCHANGED <<pending, processing, lease, claimLock, cur, own, snap, nextClaim, failures>>

(* A Redis command of the claim fails.  Without the lock the call returns;  *)
(* with it the lock is released first, and the lease is deleted as well if *)
(* the task had been read.                                                 *)
ClaimFault(p) ==
    /\ Failure
    /\ pc[p] \in FaultPoints
    /\ \/ pc[p] \in {"rotate", "probe", "lock"} /\ Forget(p)
       \/ /\ pc[p] \in {"recheck", "read", "lease", "save"}
          /\ outcome' = [outcome EXCEPT ![p] =
                           IF pc[p] \in {"lease", "save"} THEN "saveFailed" ELSE "none"]
          /\ Goto(p, "unlock")
          /\ UNCHANGED <<cur, own, snap>>
    /\ UNCHANGED <<task, pending, processing, lease, claimLock, claims, nextClaim>>

(* Compare-and-delete of the lock, then what the outcome calls for. *)
ReleaseClaimLock(p) ==
    /\ pc[p] = "unlock"
    /\ claimLock' = IF claimLock[cur[p]] = p THEN [claimLock EXCEPT ![cur[p]] = NoProc]
                    ELSE claimLock
    /\ \/ outcome[p] = "none" /\ Forget(p)
       \/ outcome[p] = "claimed" /\ Step(p, "exec")
       \/ outcome[p] = "terminal" /\ Step(p, "rel1")
       \/ outcome[p] = "saveFailed" /\ Step(p, "unlease")
    /\ UNCHANGED <<task, pending, processing, lease, claims, nextClaim, failures>>

(* The claim failed after the lease may have been set: DEL the lease. *)
DeleteLease(p) ==
    /\ pc[p] = "unlease"
    /\ lease' = [lease EXCEPT ![cur[p]] = 0]
    /\ Forget(p)
    /\ UNCHANGED <<task, pending, processing, claimLock, claims, nextClaim, failures>>

ClaimPending(p) ==
    /\ \/ MovePending(p) \/ RotateProcessing(p) \/ ProbeLease(p) \/ AcquireClaimLock(p)
       \/ RecheckLease(p) \/ ReadClaimed(p) \/ InstallLease(p) \/ SaveRunning(p)
       \/ ClaimFault(p) \/ ReleaseClaimLock(p) \/ DeleteLease(p)
    /\ UNCHANGED <<enq, canc, keyRef, enqueueLock>>

-----------------------------------------------------------------------------
(* Worker.Execute.  The handler is opaque: it returns nil ("ok"), an error *)
(* ("err": also a timeout, a cancelled context or a lost claim) or is cut  *)
(* short because the process shuts down ("stop").                          *)

Finish(p, o) ==
    /\ outcome' = [outcome EXCEPT ![p] = o]
    /\ Goto(p, "fin")
    /\ UNCHANGED <<cur, own, snap>>

(* The context check, Get, the handler lookup and the terminal-status return. *)
ExecuteTask(p) ==
    /\ pc[p] = "exec"
    /\ \/ Finish(p, "stop")
       \/ task[cur[p]].status = "absent" /\ Forget(p)
       \/ /\ task[cur[p]].status # "absent"
          /\ cur[p] \notin Registered
          /\ Finish(p, "err")
       \/ /\ task[cur[p]].status \in Terminal
          /\ cur[p] \in Registered
          /\ Forget(p)
       \/ /\ task[cur[p]].status \in Live
          /\ cur[p] \in Registered
          /\ Step(p, "start")
    /\ UNCHANGED <<task, pending, processing, lease, claims, failures>>

(* Start: owner check and read.  A task that is terminal by now makes Start *)
(* return ErrTaskConflict, which Execute ignores.                           *)
StartRead(p) ==
    /\ pc[p] = "start"
    /\ \/ ~ClaimOwner(p, cur[p]) /\ Forget(p)
       \/ /\ ClaimOwner(p, cur[p])
          /\ snap' = [snap EXCEPT ![p] = task[cur[p]]]
          /\ own' = [own EXCEPT ![p] = claims[p][cur[p]]]
          /\ Goto(p, IF task[cur[p]].status \in Terminal THEN "run" ELSE "startw")
          /\ UNCHANGED <<cur, outcome>>
    /\ UNCHANGED <<task, pending, processing, lease, claims, failures>>

(* SetJSONIfValue, or a plain SET when no claim is remembered. *)
StartWrite(p) ==
    /\ pc[p] = "startw"
    /\ \/ own[p] # 0 /\ lease[cur[p]] # own[p] /\ Forget(p) /\ UNCHANGED task
       \/ /\ own[p] = 0 \/ lease[cur[p]] = own[p]
          /\ task' = [task EXCEPT ![cur[p]] = Started(snap[p])]
          /\ Step(p, "run")
    /\ UNCHANGED <<pending, processing, lease, claims, failures>>

HandlerReturns(p) ==
    /\ pc[p] = "run"
    /\ \E o \in {"ok", "err", "stop"} : Finish(p, o)
    /\ UNCHANGED <<task, pending, processing, lease, claims, failures>>

(* Complete, Fail or Cancel by the worker: owner check and read. *)
FinishRead(p) ==
    LET s == task[cur[p]] IN
    /\ pc[p] = "fin"
    /\ \/ /\ \/ ~ClaimOwner(p, cur[p])
             \/ s.status = "absent"
             \/ outcome[p] # "err" /\ s.status \in Terminal
          /\ Forget(p)
       \/ /\ ClaimOwner(p, cur[p])
          /\ s.status # "absent"
          /\ outcome[p] = "err" \/ s.status \in Live
          /\ snap' = [snap EXCEPT ![p] = s]
          /\ own' = [own EXCEPT ![p] = claims[p][cur[p]]]
          /\ Goto(p, "finw")
          /\ UNCHANGED <<cur, outcome>>
    /\ UNCHANGED <<task, pending, processing, lease, claims, failures>>

Finished(p) ==
    IF outcome[p] = "ok" THEN Completed(snap[p])
    ELSE IF outcome[p] = "stop" THEN Cancelled(snap[p])
    ELSE Failed(snap[p])

FinishWrite(p) ==
    /\ pc[p] = "finw"
    /\ \/ own[p] # 0 /\ lease[cur[p]] # own[p] /\ Forget(p) /\ UNCHANGED task
       \/ /\ own[p] = 0 \/ lease[cur[p]] = own[p]
          /\ task' = [task EXCEPT ![cur[p]] = Finished(p)]
          /\ Goto(p, IF outcome[p] = "err" THEN "after" ELSE "rel1")
          /\ UNCHANGED <<cur, own, snap, outcome>>
    /\ UNCHANGED <<pending, processing, lease, claims, failures>>

(* Fail reads the task again to decide whether it goes back to pending. *)
FailRead(p) ==
    /\ pc[p] = "after"
    /\ \/ task[cur[p]].status = "absent" /\ Forget(p)
       \/ /\ task[cur[p]].status # "absent"
          /\ outcome' = [outcome EXCEPT ![p] =
                           IF task[cur[p]].status = "failed" THEN "retry" ELSE "err"]
          /\ Goto(p, "rel1")
          /\ UNCHANGED <<cur, own, snap>>
    /\ UNCHANGED <<task, pending, processing, lease, claims, failures>>

(* releaseProcessing: the claim is forgotten, then one script deletes lease *)
(* and processing entry if the lease is still this claim's.  A lease of     *)
(* somebody else ends the release without an error.                         *)
ReleaseClaim(p) ==
    LET t == cur[p]
        o == claims[p][t] IN
    /\ pc[p] = "rel1"
    /\ claims' = [claims EXCEPT ![p][t] = 0]
    /\ \/ /\ o # 0 /\ lease[t] = o
          /\ lease' = [lease EXCEPT ![t] = 0]
          /\ processing' = [processing EXCEPT ![t] = 0]
          /\ Step(p, "rel2")
       \/ /\ o # 0 /\ lease[t] # o
          /\ \/ outcome[p] = "retry" /\ Step(p, "push")
             \/ outcome[p] # "retry" /\ Forget(p)
          /\ UNCHANGED <<lease, processing>>
       \/ /\ o = 0
          /\ Goto(p, "rel2")
          /\ UNCHANGED <<lease, processing, cur, own, snap, outcome>>
    /\ UNCHANGED <<task, pending, failures>>

(* LREM processing 0 id, whoever owns the entry. *)
RemoveProcessing(p) ==
    /\ pc[p] = "rel2"
    /\ processing' = [processing EXCEPT ![cur[p]] = 0]
    /\ \/ outcome[p] = "retry" /\ Step(p, "push")
       \/ outcome[p] # "retry" /\ Forget(p)
    /\ UNCHANGED <<task, pending, lease, claims, failures>>

PushRetry(p) ==
    /\ pc[p] = "push"
    /\ pending' = [pending EXCEPT ![cur[p]] = @ + 1]
    /\ Forget(p)
    /\ UNCHANGED <<task, processing, lease, claims, failures>>

(* A Redis command of Execute fails: the error is returned, nothing retries it. *)
ExecuteFault(p) ==
    /\ Failure
    /\ pc[p] \in FaultPoints \cap {"exec", "start", "startw", "fin", "finw",
                                   "after", "rel2", "push"}
    /\ Forget(p)
    /\ UNCHANGED <<task, pending, processing, lease, claims>>

Execute(p) ==
    /\ \/ ExecuteTask(p) \/ StartRead(p) \/ StartWrite(p) \/ HandlerReturns(p)
       \/ FinishRead(p) \/ FinishWrite(p) \/ FailRead(p) \/ ReleaseClaim(p)
       \/ RemoveProcessing(p) \/ PushRetry(p) \/ ExecuteFault(p)
    /\ UNCHANGED <<enq, canc, keyRef, claimLock, enqueueLock, nextClaim>>

-----------------------------------------------------------------------------
(* Cancel, called by an HTTP handler of process p for a task that Enqueue  *)
(* has returned.  The claims map is the process's: p sees a claim only if  *)
(* its own worker made it.                                                 *)

CancelRead(p, t) ==
    /\ cpc[p] = "idle"
    /\ t \in acked
    /\ cancels < MaxCancels
    /\ cancels' = cancels + 1
    /\ ClaimOwner(p, t)
    /\ task[t].status \in Live
    /\ cown' = [cown EXCEPT ![p] = claims[p][t]]
    /\ csnap' = [csnap EXCEPT ![p] = task[t]]
    /\ ccur' = [ccur EXCEPT ![p] = t]
    /\ cpc' = [cpc EXCEPT ![p] = "cwrite"]
    /\ UNCHANGED <<task, processing, lease, claims, failures>>

CancelReturns(p) ==
    /\ cpc' = [cpc EXCEPT ![p] = "idle"]
    /\ ccur' = [ccur EXCEPT ![p] = NoTask]
    /\ cown' = [cown EXCEPT ![p] = 0]
    /\ csnap' = [csnap EXCEPT ![p] = Absent]

CancelWrite(p) ==
    LET t == ccur[p] IN
    /\ cpc[p] = "cwrite"
    /\ \/ cown[p] # 0 /\ lease[t] # cown[p] /\ CancelReturns(p) /\ UNCHANGED task
       \/ /\ cown[p] = 0 \/ lease[t] = cown[p]
          /\ task' = [task EXCEPT ![t] = Cancelled(csnap[p])]
          /\ cpc' = [cpc EXCEPT ![p] = "cclaim"]
          /\ UNCHANGED <<ccur, cown, csnap>>
    /\ UNCHANGED <<processing, lease, claims, failures, cancels>>

CancelReleaseClaim(p) ==
    LET t == ccur[p]
        o == claims[p][t] IN
    /\ cpc[p] = "cclaim"
    /\ claims' = [claims EXCEPT ![p][t] = 0]
    /\ \/ /\ o # 0 /\ lease[t] = o
          /\ lease' = [lease EXCEPT ![t] = 0]
          /\ processing' = [processing EXCEPT ![t] = 0]
          /\ cpc' = [cpc EXCEPT ![p] = "cremove"]
          /\ UNCHANGED <<ccur, cown, csnap>>
       \/ o # 0 /\ lease[t] # o /\ CancelReturns(p) /\ UNCHANGED <<lease, processing>>
       \/ /\ o = 0
          /\ cpc' = [cpc EXCEPT ![p] = "cremove"]
          /\ UNCHANGED <<lease, processing, ccur, cown, csnap>>
    /\ UNCHANGED <<task, failures, cancels>>

CancelRemoveProcessing(p) ==
    /\ cpc[p] = "cremove"
    /\ processing' = [processing EXCEPT ![ccur[p]] = 0]
    /\ CancelReturns(p)
    /\ UNCHANGED <<task, lease, claims, failures, cancels>>

(* A Redis command of Cancel fails and ends the call; the claim is forgotten *)
(* before the script that would give it up is sent.                          *)
CancelFault(p) ==
    /\ Failure
    /\ cpc[p] \in FaultPoints \ {"idle"}
    /\ CancelReturns(p)
    /\ claims' = IF cpc[p] = "cclaim" THEN [claims EXCEPT ![p][ccur[p]] = 0] ELSE claims
    /\ UNCHANGED <<task, processing, lease, cancels>>

Cancel(p) ==
    /\ p \in Cancellers
    /\ \/ \E t \in Tasks : CancelRead(p, t)
       \/ CancelWrite(p) \/ CancelReleaseClaim(p)
       \/ CancelRemoveProcessing(p) \/ CancelFault(p)
    /\ UNCHANGED <<worker, enq, keyRef, pending, claimLock, enqueueLock, nextClaim>>

-----------------------------------------------------------------------------
(* The environment.  A lease or a lock outlives its owner by its TTL (30 s *)
(* and 5 s); the heartbeat renews the lease every 10 s while the handler   *)
(* runs.  Without MayStall neither expires under a live owner.             *)

(* Outliving a live owner is a failure, and MayStall must allow it. *)
TimesOut(held) ==
    \/ ~held /\ UNCHANGED failures
    \/ held /\ MayStall /\ Failure

ExpireLease(t) ==
    /\ lease[t] # 0
    /\ TimesOut(\E p \in Procs : HoldsLease(p, t) /\ own[p] = lease[t])
    /\ lease' = [lease EXCEPT ![t] = 0]
    /\ UNCHANGED <<task, keyRef, pending, processing, claimLock, enqueueLock,
                   claims, worker, enq, canc, nextClaim>>

ExpireClaimLock(t) ==
    /\ claimLock[t] # NoProc
    /\ TimesOut(HoldsLock(claimLock[t], t))
    /\ claimLock' = [claimLock EXCEPT ![t] = NoProc]
    /\ UNCHANGED <<task, keyRef, pending, processing, lease, enqueueLock,
                   claims, worker, enq, canc, nextClaim>>

ExpireEnqueueLock(k) ==
    LET p == enqueueLock[k] IN
    /\ p # NoProc
    /\ TimesOut(epc[p] # "idle" /\ KeyOf[ecur[p]] = k)
    /\ enqueueLock' = [enqueueLock EXCEPT ![k] = NoProc]
    /\ UNCHANGED <<task, keyRef, pending, processing, lease, claimLock,
                   claims, worker, enq, canc, nextClaim>>

(* The process dies and a new one takes its place. *)
Crash(p) ==
    /\ Failure
    /\ pc[p] \in CrashPoints
    /\ epc[p] \in CrashPoints
    /\ pc[p] # "idle" \/ epc[p] # "idle" \/ cpc[p] # "idle"
    /\ claims' = [claims EXCEPT ![p] = [t \in Tasks |-> 0]]
    /\ Forget(p)
    /\ epc' = [epc EXCEPT ![p] = "idle"]
    /\ ecur' = [ecur EXCEPT ![p] = NoTask]
    /\ CancelReturns(p)
    /\ UNCHANGED <<redis, issued, acked, nextClaim, cancels>>

Next ==
    \/ \E p \in Procs : Enqueue(p) \/ ClaimPending(p) \/ Execute(p) \/ Cancel(p) \/ Crash(p)
    \/ \E t \in Tasks : ExpireLease(t) \/ ExpireClaimLock(t)
    \/ \E k \in Keys : ExpireEnqueueLock(k)

Spec == Init /\ [][Next]_vars

(* The goroutines of a live process keep running and TTLs run out.  Nobody *)
(* has to call Enqueue for a new task or Cancel, or to crash.              *)
Fairness ==
    /\ \A p \in Procs : WF_vars(ClaimPending(p) \/ Execute(p))
    /\ \A p \in Procs : WF_vars(epc[p] # "idle" /\ Enqueue(p))
    /\ \A t \in Tasks : WF_vars(ExpireLease(t)) /\ WF_vars(ExpireClaimLock(t))
    /\ \A k \in Keys : WF_vars(ExpireEnqueueLock(k))

FairSpec == Spec /\ Fairness

-----------------------------------------------------------------------------
(* Properties. *)

RedisTypes ==
    /\ task \in [Tasks -> TaskRecord]
    /\ keyRef \in [Keys -> Tasks \cup {NoTask}]
    /\ pending \in [Tasks -> Nat]
    /\ processing \in [Tasks -> Nat]
    /\ lease \in [Tasks -> Nat]
    /\ claimLock \in [Tasks -> Procs \cup {NoProc}]
    /\ enqueueLock \in [Keys -> Procs \cup {NoProc}]

WorkerTypes ==
    /\ pc \in [Procs -> WorkerPC]
    /\ cur \in [Procs -> Tasks \cup {NoTask}]
    /\ \A p \in Procs : pc[p] \notin {"idle", "rotate"} => cur[p] \in Tasks
    /\ own \in [Procs -> Nat]
    /\ snap \in [Procs -> TaskRecord]
    /\ outcome \in [Procs -> Outcome]

EnqueueTypes ==
    /\ epc \in [Procs -> EnqueuePC]
    /\ ecur \in [Procs -> Tasks \cup {NoTask}]
    /\ \A p \in Procs : epc[p] # "idle" => ecur[p] \in Tasks
    /\ issued \subseteq Tasks
    /\ acked \subseteq Tasks

CancelTypes ==
    /\ cpc \in [Procs -> CancelPC]
    /\ ccur \in [Procs -> Tasks \cup {NoTask}]
    /\ \A p \in Procs : cpc[p] # "idle" => ccur[p] \in Tasks
    /\ cown \in [Procs -> Nat]
    /\ csnap \in [Procs -> TaskRecord]
    /\ cancels \in Nat

(* Every variable has its type. *)
TypeOK ==
    /\ RedisTypes /\ WorkerTypes /\ EnqueueTypes /\ CancelTypes
    /\ claims \in [Procs -> [Tasks -> Nat]]
    /\ nextClaim \in Nat \ {0}
    /\ failures \in Nat

(* Two workers never run the handler of one task at the same time: the     *)
(* lease, checked again under the claim lock, makes the claim exclusive.   *)
MutualExclusion ==
    \A p, q \in Procs :
        pc[p] = "run" /\ pc[q] = "run" /\ cur[p] = cur[q] => p = q

(* A task whose Enqueue was acknowledged and that is not finished can be   *)
(* claimed again, whatever crashes: it is in one of the lists, or in the   *)
(* hands of a worker that is about to push it back.                        *)
NothingLost ==
    \A t \in acked :
        \/ task[t].status \in Terminal
        \/ pending[t] + processing[t] > 0
        \/ \E p \in Procs : cur[p] = t /\ pc[p] \in {"rel2", "push"} /\ outcome[p] = "retry"

(* A task is dead-lettered by its last attempt and not earlier, and never  *)
(* attempted again after it: attempts are counted once per failed run.     *)
AttemptsCounted ==
    \A t \in Tasks :
        /\ task[t].status = "dead_letter" => task[t].attempts = MaxAttempts
        /\ task[t].status \in Live => task[t].attempts < MaxAttempts

(* One idempotency key never stands for two tasks that were both accepted. *)
OneTaskPerKey ==
    \A t, u \in acked : KeyOf[t] = KeyOf[u] => t = u

(* What an acknowledged Enqueue relies on: the task is kept, attempted as  *)
(* often as agreed, and the only one under its key.                        *)
TasksHold == NothingLost /\ AttemptsCounted /\ OneTaskPerKey

(* The attempt count of a task never goes back while it exists. *)
AttemptsNeverLost ==
    [][\A t \in Tasks : task[t].attempts <= task'[t].attempts \/ task'[t] = Absent]_vars

(* Somebody is about to write t from a copy that is out of date by now. *)
StaleWriter(t) ==
    \/ \E p \in Procs : /\ cur[p] = t
                        /\ pc[p] \in {"lease", "save", "startw", "finw"}
                        /\ snap[p] # task[t]
    \/ \E p \in Procs : ccur[p] = t /\ cpc[p] = "cwrite"
    \/ \E p \in Procs : ecur[p] = t /\ epc[p] \in {"store", "index", "append", "withdraw"}

(* A task that finished, or was cancelled, while nobody was in the middle  *)
(* of writing it is finished for good: no claim, start, failure or cancel  *)
(* that begins later brings it back.                                       *)
FinalKept ==
    \A t \in Tasks :
        task[t].status \in Terminal /\ ~StaleWriter(t) => task'[t] = task[t] /\ ~StaleWriter(t)'
FinalOnceQuiet == [][FinalKept]_vars

(* While workers do not stall and nobody calls Cancel, the Redis queue is  *)
(* a queue: every step is one of the contract's, or none.                  *)
Contract == INSTANCE JobContract WITH Jobs <- Tasks, job <- task, accepted <- acked
ImplementsContract == Contract!JobSpec

(* Every accepted task is eventually finished: at some later moment no     *)
(* accepted task is open.                                                  *)
AllSettled == \A t \in acked : task[t].status \in Terminal
EveryTaskSettles == []<>AllSettled
=============================================================================
