--------------------------- MODULE RedisQueueProofs ---------------------------
(***************************************************************************)
(* What is proved of RedisQueue for any number of processes, tasks, keys,  *)
(* attempts and failures: first the types and the exclusion of the         *)
(* workers; then of the tasks that attempts are counted once and never     *)
(* lost, a finished task stays finished, nothing that was accepted is      *)
(* lost, and the queue implements JobContract; at the end, that the runs   *)
(* and the mail keep what is proved of them when MCBackground puts them    *)
(* beside the queue.                                                       *)
(***************************************************************************)
EXTENDS MCBackground, TLAPS

-----------------------------------------------------------------------------
(* Types. *)

(* The parts of TypeOK that a step of a worker can change besides its own  *)
(* variables.                                                              *)
StoreTypes == RedisTypes /\ claims \in [Procs -> [Tasks -> Nat]] /\ nextClaim \in Nat \ {0} /\ failures \in Nat

LEMMA Records ==
    ASSUME NEW s \in TaskRecord
    PROVE  /\ Started(s) \in TaskRecord /\ Completed(s) \in TaskRecord
           /\ Cancelled(s) \in TaskRecord /\ Failed(s) \in TaskRecord
BY QueueAssumption DEF Started, Completed, Cancelled, Failed, TaskRecord, Status, Live, Terminal

LEMMA AbsentRecord == Absent \in TaskRecord
BY DEF Absent, TaskRecord, Status

(* Moves of a worker's program counter. *)
LEMMA ForgetTypes == ASSUME WorkerTypes, NEW p \in Procs, Forget(p) PROVE WorkerTypes'
BY AbsentRecord DEF WorkerTypes, Forget, Goto, WorkerPC, Outcome

LEMMA StepTypes ==
    ASSUME WorkerTypes, NEW p \in Procs, NEW l \in WorkerPC, cur[p] \in Tasks, Step(p, l)
    PROVE  WorkerTypes'
BY DEF WorkerTypes, Step, Goto

LEMMA GotoTypes ==
    ASSUME WorkerTypes, NEW p \in Procs, NEW l \in WorkerPC, cur[p] \in Tasks, Goto(p, l),
           UNCHANGED cur,
           own' \in [Procs -> Nat], snap' \in [Procs -> TaskRecord], outcome' \in [Procs -> Outcome]
    PROVE  WorkerTypes'
BY DEF WorkerTypes, Goto

LEMMA CancelReturnsTypes ==
    ASSUME CancelTypes, NEW p \in Procs, CancelReturns(p), cancels' \in Nat PROVE CancelTypes'
BY AbsentRecord DEF CancelTypes, CancelReturns, CancelPC

LEMMA EnqueueKeepsTypes == ASSUME TypeOK, NEW p \in Procs, Enqueue(p) PROVE TypeOK'
<1> USE QueueAssumption, AbsentRecord DEF TypeOK, RedisTypes, EnqueueTypes, EnqueuePC
<1>0. UNCHANGED <<worker, canc, claims, nextClaim>>
  BY DEF Enqueue
<1>a. WorkerTypes' /\ CancelTypes' /\ (claims \in [Procs -> [Tasks -> Nat]] /\ nextClaim \in Nat \ {0})'
  BY <1>0 DEF worker, canc, WorkerTypes, CancelTypes
<1>1. CASE \E t \in Tasks : EnqueueLock(p, t)
  BY <1>1, <1>a DEF EnqueueLock, Enqueue
<1>2. CASE EnqueueCheck(p)
  BY <1>2, <1>a DEF EnqueueCheck, Enqueue
<1>3. CASE EnqueueSave(p)
  BY <1>3, <1>a DEF EnqueueSave, Enqueue, TaskRecord, Status, Live
<1>4. CASE EnqueueKey(p)
  BY <1>4, <1>a DEF EnqueueKey, Enqueue
<1>5. CASE EnqueuePush(p)
  BY <1>5, <1>a DEF EnqueuePush, Enqueue
<1>6. CASE EnqueueFault(p)
  <2>1. UNCHANGED <<task, keyRef, processing, lease, claimLock, enqueueLock, ecur, issued, acked>>
    BY <1>6 DEF EnqueueFault, Enqueue
  <2>2. pending' \in [Tasks -> Nat] /\ epc[p] # "idle" /\ failures' \in Nat
    BY <1>6 DEF EnqueueFault, Failure
  <2>3. \E l \in EnqueuePC : epc' = [epc EXCEPT ![p] = l]
    BY <1>6 DEF EnqueueFault
  <2>4. epc' \in [Procs -> EnqueuePC] /\ (\A q \in Procs : epc'[q] # "idle" => ecur'[q] \in Tasks)
    BY <2>1, <2>2, <2>3
  <2>5. RedisTypes' /\ EnqueueTypes'
    BY <2>1, <2>2, <2>4
  <2> QED
    BY <2>2, <2>5, <1>a
<1>7. CASE EnqueueWithdraw(p)
  BY <1>7, <1>a DEF EnqueueWithdraw, Enqueue
<1>8. CASE EnqueueUnlock(p)
  BY <1>8, <1>a DEF EnqueueUnlock, Enqueue
<1> QED
  BY <1>1, <1>2, <1>3, <1>4, <1>5, <1>6, <1>7, <1>8 DEF Enqueue

LEMMA ClaimPendingKeepsTypes == ASSUME TypeOK, NEW p \in Procs, ClaimPending(p) PROVE TypeOK'
<1>0. UNCHANGED <<enq, canc>> /\ UNCHANGED <<keyRef, enqueueLock>>
  BY DEF ClaimPending
<1>a. EnqueueTypes' /\ CancelTypes'
  BY <1>0 DEF TypeOK, enq, canc, EnqueueTypes, CancelTypes
<1>b. pc[p] \notin {"idle", "rotate"} => cur[p] \in Tasks
  BY DEF TypeOK, WorkerTypes
<1>1. CASE MovePending(p)
  <2>1. /\ UNCHANGED <<task, lease, claimLock, claims, own, snap, outcome, nextClaim, failures>>
        /\ pc[p] = "idle"
    BY <1>1 DEF MovePending
  <2>2. ASSUME UNCHANGED <<pending, processing, cur>>, Goto(p, "rotate")
        PROVE  RedisTypes' /\ WorkerTypes'
    <3>1. RedisTypes'
      BY <1>0, <2>1, <2>2 DEF TypeOK, RedisTypes
    <3>2. WorkerTypes'
      BY <2>1, <2>2 DEF TypeOK, WorkerTypes, WorkerPC, Goto
    <3> QED
      BY <3>1, <3>2
  <2>3. ASSUME NEW t \in Tasks,
               pending[t] > 0,
               pending' = [pending EXCEPT ![t] = @ - 1],
               processing' = [processing EXCEPT ![t] = @ + 1],
               cur' = [cur EXCEPT ![p] = t],
               Goto(p, "probe")
        PROVE  RedisTypes' /\ WorkerTypes'
    <3>1. pending' \in [Tasks -> Nat] /\ processing' \in [Tasks -> Nat]
      BY <2>3 DEF TypeOK, RedisTypes
    <3>2. RedisTypes'
      BY <3>1, <2>1, <1>0 DEF TypeOK, RedisTypes
    <3>3. WorkerTypes'
      BY <2>1, <2>3 DEF TypeOK, WorkerTypes, WorkerPC, Goto
    <3> QED
      BY <3>2, <3>3
  <2>4. RedisTypes' /\ WorkerTypes'
    BY <1>1, <2>2, <2>3 DEF MovePending, TypeOK, RedisTypes, WorkerTypes
  <2> QED
    BY <1>a, <2>1, <2>4 DEF TypeOK
<1>2. CASE RotateProcessing(p)
  <2>1. StoreTypes'
    BY <1>0, <1>b, <1>2, QueueAssumption DEF RotateProcessing, StoreTypes, TypeOK, RedisTypes, WorkerTypes
  <2>2. WorkerTypes'
    BY <1>b, <1>2 DEF RotateProcessing, TypeOK, RedisTypes, WorkerTypes, WorkerPC, Goto
  <2> QED
    BY <1>a, <2>1, <2>2 DEF StoreTypes, TypeOK
<1>3. CASE ProbeLease(p)
  <2>1. StoreTypes'
    BY <1>0, <1>b, <1>3, QueueAssumption DEF ProbeLease, StoreTypes, TypeOK, RedisTypes, WorkerTypes
  <2>2. WorkerTypes'
    BY <1>b, <1>3, ForgetTypes, StepTypes, GotoTypes DEF ProbeLease, TypeOK, RedisTypes, WorkerTypes, WorkerPC
  <2> QED
    BY <1>a, <2>1, <2>2 DEF StoreTypes, TypeOK
<1>4. CASE AcquireClaimLock(p)
  <2>1. StoreTypes'
    BY <1>0, <1>b, <1>4, QueueAssumption DEF AcquireClaimLock, StoreTypes, TypeOK, RedisTypes, WorkerTypes
  <2>2. WorkerTypes'
    BY <1>b, <1>4, ForgetTypes, StepTypes, GotoTypes DEF AcquireClaimLock, TypeOK, RedisTypes, WorkerTypes, WorkerPC
  <2> QED
    BY <1>a, <2>1, <2>2 DEF StoreTypes, TypeOK
<1>5. CASE RecheckLease(p)
  <2>1. StoreTypes'
    BY <1>0, <1>b, <1>5, QueueAssumption DEF RecheckLease, StoreTypes, TypeOK, RedisTypes, WorkerTypes
  <2>2. WorkerTypes'
    BY <1>b, <1>5, ForgetTypes, StepTypes, GotoTypes DEF RecheckLease, TypeOK, RedisTypes, WorkerTypes, WorkerPC
  <2> QED
    BY <1>a, <2>1, <2>2 DEF StoreTypes, TypeOK
<1>6. CASE ReadClaimed(p)
  <2>1. StoreTypes'
    BY <1>0, <1>b, <1>6, QueueAssumption DEF ReadClaimed, StoreTypes, TypeOK, RedisTypes, WorkerTypes
  <2>2. WorkerTypes'
    BY <1>b, <1>6, ForgetTypes, StepTypes, GotoTypes DEF ReadClaimed, TypeOK, RedisTypes, WorkerTypes, WorkerPC, Outcome
  <2> QED
    BY <1>a, <2>1, <2>2 DEF StoreTypes, TypeOK
<1>7. CASE InstallLease(p)
  <2>1. StoreTypes'
    BY <1>0, <1>b, <1>7, QueueAssumption DEF InstallLease, StoreTypes, TypeOK, RedisTypes, WorkerTypes
  <2>2. WorkerTypes'
    BY <1>b, <1>7, ForgetTypes, StepTypes, GotoTypes DEF InstallLease, TypeOK, RedisTypes, WorkerTypes, WorkerPC
  <2> QED
    BY <1>a, <2>1, <2>2 DEF StoreTypes, TypeOK
<1>8. CASE SaveRunning(p)
  <2>1. StoreTypes'
    BY <1>0, <1>b, <1>8, Records, QueueAssumption DEF SaveRunning, StoreTypes, TypeOK, RedisTypes, WorkerTypes
  <2>2. WorkerTypes'
    BY <1>b, <1>8, ForgetTypes, StepTypes, GotoTypes DEF SaveRunning, TypeOK, RedisTypes, WorkerTypes, WorkerPC, Outcome
  <2> QED
    BY <1>a, <2>1, <2>2 DEF StoreTypes, TypeOK
<1>9. CASE ClaimFault(p)
  <2>1. StoreTypes'
    BY <1>0, <1>b, <1>9, QueueAssumption DEF ClaimFault, StoreTypes, TypeOK, RedisTypes, WorkerTypes, Failure
  <2>2. WorkerTypes'
    BY <1>b, <1>9, ForgetTypes, StepTypes, GotoTypes DEF ClaimFault, TypeOK, RedisTypes, WorkerTypes, WorkerPC, Outcome
  <2> QED
    BY <1>a, <2>1, <2>2 DEF StoreTypes, TypeOK
<1>10. CASE ReleaseClaimLock(p)
  <2>1. StoreTypes'
    BY <1>0, <1>b, <1>10, QueueAssumption DEF ReleaseClaimLock, StoreTypes, TypeOK, RedisTypes, WorkerTypes
  <2>2. WorkerTypes'
    BY <1>b, <1>10, ForgetTypes, StepTypes, GotoTypes DEF ReleaseClaimLock, TypeOK, RedisTypes, WorkerTypes, WorkerPC
  <2> QED
    BY <1>a, <2>1, <2>2 DEF StoreTypes, TypeOK
<1>11. CASE DeleteLease(p)
  <2>1. StoreTypes'
    BY <1>0, <1>b, <1>11, QueueAssumption DEF DeleteLease, StoreTypes, TypeOK, RedisTypes, WorkerTypes
  <2>2. WorkerTypes'
    BY <1>b, <1>11, ForgetTypes, StepTypes, GotoTypes DEF DeleteLease, TypeOK, RedisTypes, WorkerTypes, WorkerPC
  <2> QED
    BY <1>a, <2>1, <2>2 DEF StoreTypes, TypeOK
<1> QED
  BY <1>1, <1>2, <1>3, <1>4, <1>5, <1>6, <1>7, <1>8, <1>9, <1>10, <1>11 DEF ClaimPending

LEMMA ExecuteKeepsTypes == ASSUME TypeOK, NEW p \in Procs, Execute(p) PROVE TypeOK'
<1>0. UNCHANGED <<enq, canc>> /\ UNCHANGED <<keyRef, claimLock, enqueueLock, nextClaim>>
  BY DEF Execute
<1>a. EnqueueTypes' /\ CancelTypes'
  BY <1>0 DEF TypeOK, enq, canc, EnqueueTypes, CancelTypes
<1>b. pc[p] \notin {"idle", "rotate"} => cur[p] \in Tasks
  BY DEF TypeOK, WorkerTypes
<1>1. CASE ExecuteTask(p)
  <2>1. StoreTypes'
    BY <1>0, <1>b, <1>1, QueueAssumption DEF ExecuteTask, StoreTypes, TypeOK, RedisTypes, WorkerTypes
  <2>2. WorkerTypes'
    BY <1>b, <1>1, ForgetTypes, StepTypes, GotoTypes DEF ExecuteTask, TypeOK, RedisTypes, WorkerTypes, WorkerPC, Outcome, Finish
  <2> QED
    BY <1>a, <2>1, <2>2 DEF StoreTypes, TypeOK
<1>2. CASE StartRead(p)
  <2>1. StoreTypes'
    <3>1. UNCHANGED <<task, pending, processing, lease, claims, failures>>
      BY <1>2 DEF StartRead
    <3> QED
      BY <1>0, <3>1 DEF StoreTypes, TypeOK, RedisTypes
  <2>2. WorkerTypes'
    <3>1. CASE Forget(p)
      BY <3>1, ForgetTypes DEF TypeOK
    <3>2. CASE ~Forget(p)
      <4>1. cur[p] \in Tasks /\ UNCHANGED <<cur, outcome>>
        BY <3>2, <1>2, <1>b DEF StartRead
      <4>2. snap' \in [Procs -> TaskRecord] /\ own' \in [Procs -> Nat]
        BY <3>2, <4>1, <1>2 DEF StartRead, TypeOK, RedisTypes, WorkerTypes
      <4>3. \E l \in {"run", "startw"} : Goto(p, l)
        BY <3>2, <1>2 DEF StartRead
      <4> QED
        BY <4>1, <4>2, <4>3, GotoTypes DEF TypeOK, WorkerTypes, WorkerPC
    <3> QED
      BY <3>1, <3>2
  <2> QED
    BY <1>a, <2>1, <2>2 DEF StoreTypes, TypeOK
<1>3. CASE StartWrite(p)
  <2>1. StoreTypes'
    BY <1>0, <1>b, <1>3, Records, QueueAssumption DEF StartWrite, StoreTypes, TypeOK, RedisTypes, WorkerTypes
  <2>2. WorkerTypes'
    BY <1>b, <1>3, ForgetTypes, StepTypes, GotoTypes DEF StartWrite, TypeOK, RedisTypes, WorkerTypes, WorkerPC
  <2> QED
    BY <1>a, <2>1, <2>2 DEF StoreTypes, TypeOK
<1>4. CASE HandlerReturns(p)
  <2>1. StoreTypes'
    BY <1>0, <1>b, <1>4, QueueAssumption DEF HandlerReturns, StoreTypes, TypeOK, RedisTypes, WorkerTypes
  <2>2. WorkerTypes'
    BY <1>b, <1>4, ForgetTypes, StepTypes, GotoTypes DEF HandlerReturns, TypeOK, RedisTypes, WorkerTypes, WorkerPC, Outcome, Finish
  <2> QED
    BY <1>a, <2>1, <2>2 DEF StoreTypes, TypeOK
<1>5. CASE FinishRead(p)
  <2>1. StoreTypes'
    <3>1. UNCHANGED <<task, pending, processing, lease, claims, failures>>
      BY <1>5 DEF FinishRead
    <3> QED
      BY <1>0, <3>1 DEF StoreTypes, TypeOK, RedisTypes
  <2>2. WorkerTypes'
    <3>1. CASE Forget(p)
      BY <3>1, ForgetTypes DEF TypeOK
    <3>2. CASE ~Forget(p)
      <4>1. cur[p] \in Tasks /\ UNCHANGED <<cur, outcome>> /\ Goto(p, "finw")
        BY <3>2, <1>5, <1>b DEF FinishRead
      <4>2. snap' \in [Procs -> TaskRecord] /\ own' \in [Procs -> Nat]
        BY <3>2, <4>1, <1>5 DEF FinishRead, TypeOK, RedisTypes, WorkerTypes
      <4> QED
        BY <4>1, <4>2, GotoTypes DEF TypeOK, WorkerTypes, WorkerPC
    <3> QED
      BY <3>1, <3>2
  <2> QED
    BY <1>a, <2>1, <2>2 DEF StoreTypes, TypeOK
<1>6. CASE FinishWrite(p)
  <2>1. StoreTypes'
    <3>1. UNCHANGED <<pending, processing, lease, claims, failures>>
      BY <1>6 DEF FinishWrite
    <3>2. Finished(p) \in TaskRecord
      BY Records DEF Finished, TypeOK, WorkerTypes
    <3>3. task' \in [Tasks -> TaskRecord]
      BY <1>6, <3>2 DEF FinishWrite, TypeOK, RedisTypes
    <3> QED
      BY <1>0, <3>1, <3>3 DEF StoreTypes, TypeOK, RedisTypes
  <2>2. WorkerTypes'
    <3>1. CASE Forget(p)
      BY <3>1, ForgetTypes DEF TypeOK
    <3>2. CASE ~Forget(p)
      <4>1. cur[p] \in Tasks /\ UNCHANGED <<cur, own, snap, outcome>>
        BY <3>2, <1>6, <1>b DEF FinishWrite
      <4>2. \E l \in {"after", "rel1"} : Goto(p, l)
        BY <3>2, <1>6 DEF FinishWrite
      <4> QED
        BY <4>1, <4>2, GotoTypes DEF TypeOK, WorkerTypes, WorkerPC
    <3> QED
      BY <3>1, <3>2
  <2> QED
    BY <1>a, <2>1, <2>2 DEF StoreTypes, TypeOK
<1>7. CASE FailRead(p)
  <2>1. StoreTypes'
    BY <1>0, <1>b, <1>7, QueueAssumption DEF FailRead, StoreTypes, TypeOK, RedisTypes, WorkerTypes
  <2>2. WorkerTypes'
    BY <1>b, <1>7, ForgetTypes, StepTypes, GotoTypes DEF FailRead, TypeOK, RedisTypes, WorkerTypes, WorkerPC, Outcome
  <2> QED
    BY <1>a, <2>1, <2>2 DEF StoreTypes, TypeOK
<1>8. CASE ReleaseClaim(p)
  <2>1. StoreTypes'
    <3>1. UNCHANGED <<task, pending, failures>> /\ cur[p] \in Tasks
      BY <1>8, <1>b DEF ReleaseClaim
    <3>2. claims' \in [Procs -> [Tasks -> Nat]]
      BY <1>8, <3>1 DEF ReleaseClaim, TypeOK
    <3>3. lease' \in [Tasks -> Nat] /\ processing' \in [Tasks -> Nat]
      BY <1>8, <3>1 DEF ReleaseClaim, TypeOK, RedisTypes
    <3> QED
      BY <1>0, <3>1, <3>2, <3>3 DEF StoreTypes, TypeOK, RedisTypes
  <2>2. WorkerTypes'
    BY <1>b, <1>8, ForgetTypes, StepTypes, GotoTypes DEF ReleaseClaim, TypeOK, RedisTypes, WorkerTypes, WorkerPC
  <2> QED
    BY <1>a, <2>1, <2>2 DEF StoreTypes, TypeOK
<1>9. CASE RemoveProcessing(p)
  <2>1. StoreTypes'
    BY <1>0, <1>b, <1>9, QueueAssumption DEF RemoveProcessing, StoreTypes, TypeOK, RedisTypes, WorkerTypes
  <2>2. WorkerTypes'
    BY <1>b, <1>9, ForgetTypes, StepTypes, GotoTypes DEF RemoveProcessing, TypeOK, RedisTypes, WorkerTypes, WorkerPC
  <2> QED
    BY <1>a, <2>1, <2>2 DEF StoreTypes, TypeOK
<1>10. CASE PushRetry(p)
  <2>1. StoreTypes'
    BY <1>0, <1>b, <1>10, QueueAssumption DEF PushRetry, StoreTypes, TypeOK, RedisTypes, WorkerTypes
  <2>2. WorkerTypes'
    BY <1>b, <1>10, ForgetTypes, StepTypes, GotoTypes DEF PushRetry, TypeOK, RedisTypes, WorkerTypes, WorkerPC
  <2> QED
    BY <1>a, <2>1, <2>2 DEF StoreTypes, TypeOK
<1>11. CASE ExecuteFault(p)
  <2>1. StoreTypes'
    BY <1>0, <1>b, <1>11, QueueAssumption DEF ExecuteFault, StoreTypes, TypeOK, RedisTypes, WorkerTypes, Failure
  <2>2. WorkerTypes'
    BY <1>b, <1>11, ForgetTypes, StepTypes, GotoTypes DEF ExecuteFault, TypeOK, RedisTypes, WorkerTypes, WorkerPC
  <2> QED
    BY <1>a, <2>1, <2>2 DEF StoreTypes, TypeOK
<1> QED
  BY <1>1, <1>2, <1>3, <1>4, <1>5, <1>6, <1>7, <1>8, <1>9, <1>10, <1>11 DEF Execute

LEMMA CancelKeepsTypes == ASSUME TypeOK, NEW p \in Procs, Cancel(p) PROVE TypeOK'
<1>0. UNCHANGED <<worker, enq>> /\ UNCHANGED <<keyRef, pending, claimLock, enqueueLock, nextClaim>>
  BY DEF Cancel
<1>a. WorkerTypes' /\ EnqueueTypes'
  BY <1>0 DEF TypeOK, worker, enq, WorkerTypes, EnqueueTypes
<1>1. CASE \E t \in Tasks : CancelRead(p, t)
  <2>1. StoreTypes'
    BY <1>0, <1>1, Records DEF CancelRead, StoreTypes, TypeOK, RedisTypes, CancelTypes
  <2>2. CancelTypes'
    BY <1>1, CancelReturnsTypes DEF CancelRead, TypeOK, RedisTypes, CancelTypes, CancelPC
  <2> QED
    BY <1>a, <2>1, <2>2 DEF StoreTypes, TypeOK
<1>2. CASE CancelWrite(p)
  <2>1. StoreTypes'
    BY <1>0, <1>2, Records DEF CancelWrite, StoreTypes, TypeOK, RedisTypes, CancelTypes
  <2>2. CancelTypes'
    BY <1>2, CancelReturnsTypes DEF CancelWrite, TypeOK, RedisTypes, CancelTypes, CancelPC
  <2> QED
    BY <1>a, <2>1, <2>2 DEF StoreTypes, TypeOK
<1>3. CASE CancelReleaseClaim(p)
  <2>1. StoreTypes'
    <3>1. UNCHANGED <<task, failures>> /\ ccur[p] \in Tasks
      BY <1>3 DEF CancelReleaseClaim, TypeOK, CancelTypes
    <3>2. claims' \in [Procs -> [Tasks -> Nat]]
      BY <1>3, <3>1 DEF CancelReleaseClaim, TypeOK
    <3>3. \/ UNCHANGED <<lease, processing>>
          \/ /\ lease' = [lease EXCEPT ![ccur[p]] = 0]
             /\ processing' = [processing EXCEPT ![ccur[p]] = 0]
      BY <1>3 DEF CancelReleaseClaim
    <3>4. lease' \in [Tasks -> Nat] /\ processing' \in [Tasks -> Nat]
      BY <3>3 DEF TypeOK, RedisTypes
    <3> QED
      BY <1>0, <3>1, <3>2, <3>4 DEF StoreTypes, TypeOK, RedisTypes
  <2>2. CancelTypes'
    BY <1>3, CancelReturnsTypes DEF CancelReleaseClaim, TypeOK, RedisTypes, CancelTypes, CancelPC
  <2> QED
    BY <1>a, <2>1, <2>2 DEF StoreTypes, TypeOK
<1>4. CASE CancelRemoveProcessing(p)
  <2>1. StoreTypes'
    BY <1>0, <1>4, Records DEF CancelRemoveProcessing, StoreTypes, TypeOK, RedisTypes, CancelTypes
  <2>2. CancelTypes'
    BY <1>4, CancelReturnsTypes DEF CancelRemoveProcessing, TypeOK, RedisTypes, CancelTypes, CancelPC
  <2> QED
    BY <1>a, <2>1, <2>2 DEF StoreTypes, TypeOK
<1>5. CASE CancelFault(p)
  <2>1. StoreTypes'
    <3>1. claims' \in [Procs -> [Tasks -> Nat]]
      <4>1. claims \in [Procs -> [Tasks -> Nat]] /\ (cpc[p] = "cclaim" => ccur[p] \in Tasks)
        BY DEF TypeOK, RedisTypes, CancelTypes
      <4>2. claims' = claims \/ (cpc[p] = "cclaim" /\ claims' = [claims EXCEPT ![p][ccur[p]] = 0])
        BY <1>5 DEF CancelFault
      <4> QED
        BY <4>1, <4>2
    <3> QED
      BY <1>0, <1>5, <3>1, Records DEF CancelFault, StoreTypes, TypeOK, RedisTypes, CancelTypes, Failure
  <2>2. CancelTypes'
    BY <1>5, CancelReturnsTypes DEF CancelFault, TypeOK, RedisTypes, CancelTypes, CancelPC
  <2> QED
    BY <1>a, <2>1, <2>2 DEF StoreTypes, TypeOK
<1> QED
  BY <1>1, <1>2, <1>3, <1>4, <1>5 DEF Cancel

LEMMA CrashKeepsTypes == ASSUME TypeOK, NEW p \in Procs, Crash(p) PROVE TypeOK'
<1>1. StoreTypes'
  BY DEF Crash, Failure, redis, StoreTypes, TypeOK, RedisTypes
<1>2. WorkerTypes' /\ CancelTypes'
  BY ForgetTypes, CancelReturnsTypes DEF Crash, TypeOK, CancelTypes
<1>3. EnqueueTypes'
  BY DEF Crash, TypeOK, EnqueueTypes, EnqueuePC
<1> QED
  BY <1>1, <1>2, <1>3 DEF StoreTypes, TypeOK

LEMMA ExpiryKeepsTypes ==
    ASSUME TypeOK,
           \/ \E t \in Tasks : ExpireLease(t) \/ ExpireClaimLock(t)
           \/ \E k \in Keys : ExpireEnqueueLock(k)
    PROVE  TypeOK'
<1>1. UNCHANGED <<worker, enq, canc, claims, nextClaim>>
  BY DEF ExpireLease, ExpireClaimLock, ExpireEnqueueLock
<1>2. WorkerTypes' /\ EnqueueTypes' /\ CancelTypes'
  BY <1>1 DEF TypeOK, worker, enq, canc, WorkerTypes, EnqueueTypes, CancelTypes
<1>3. failures' \in Nat
  BY DEF TypeOK, ExpireLease, ExpireClaimLock, ExpireEnqueueLock, TimesOut, Failure
<1>4. RedisTypes'
  <2>1. ASSUME NEW t \in Tasks, ExpireLease(t) PROVE RedisTypes'
    BY <2>1 DEF TypeOK, RedisTypes, ExpireLease
  <2>2. ASSUME NEW t \in Tasks, ExpireClaimLock(t) PROVE RedisTypes'
    BY <2>2 DEF TypeOK, RedisTypes, ExpireClaimLock
  <2>3. ASSUME NEW k \in Keys, ExpireEnqueueLock(k) PROVE RedisTypes'
    BY <2>3 DEF TypeOK, RedisTypes, ExpireEnqueueLock
  <2> QED
    BY <2>1, <2>2, <2>3
<1> QED
  BY <1>1, <1>2, <1>3, <1>4 DEF TypeOK

LEMMA InitTypes == Init => TypeOK
BY AbsentRecord, QueueAssumption
DEF Init, TypeOK, RedisTypes, WorkerTypes, EnqueueTypes, CancelTypes, WorkerPC, EnqueuePC, CancelPC, Outcome

LEMMA NextKeepsTypes == ASSUME TypeOK, [Next]_vars PROVE TypeOK'
<1>1. CASE UNCHANGED vars
  BY <1>1 DEF vars, redis, worker, enq, canc, TypeOK, RedisTypes, WorkerTypes, EnqueueTypes, CancelTypes
<1>2. CASE Next
  BY <1>2, EnqueueKeepsTypes, ClaimPendingKeepsTypes, ExecuteKeepsTypes, CancelKeepsTypes,
     CrashKeepsTypes, ExpiryKeepsTypes DEF Next
<1> QED
  BY <1>1, <1>2

(* Every variable of the queue, the workers and the callers keeps its type,*)
(* whatever crashes, fails or stalls.                                      *)
THEOREM TypeCorrect == Spec => []TypeOK
<1>1. TypeOK /\ [Next]_vars => TypeOK'
  BY NextKeepsTypes
<1> QED
  BY <1>1, InitTypes, PTL DEF Spec

-----------------------------------------------------------------------------
(* The invariant behind MutualExclusion. *)

(* The conditions under which the claim is exclusive: nobody outlives a    *)
(* lease or a lock, no SET of a lease fails and nobody calls Cancel.  What *)
(* happens without them: README, "Windows the runs leave out".             *)
Exact == ~MayStall /\ "lease" \notin FaultPoints /\ Cancellers = {}

(* The worker has taken a task up but not set a lease yet. *)
Early == {"idle", "rotate", "probe", "lock", "recheck", "read", "lease"}
(* The worker executes the task it has claimed. *)
Executing == {"exec", "start", "startw", "run", "fin", "finw", "after"}

(* A worker that set no lease has no owner token to show. *)
Tokenless(p) ==
    /\ pc[p] \in Early => own[p] = 0
    /\ outcome[p] = "terminal" => own[p] = 0
    /\ pc[p] \in Early \cup {"save"} => outcome[p] = "none"

(* The claim lock is held by whoever believes it holds it. *)
LockHeld(p) == pc[p] \in Locked => claimLock[cur[p]] = p

(* So is the lease, and under the lock, after the recheck, nobody has it. *)
LeaseHeld(p) ==
    /\ HoldsLease(p, cur[p]) => lease[cur[p]] = own[p]
    /\ pc[p] \in {"read", "lease"} => lease[cur[p]] = 0

(* A worker executes only under a claim it remembers. *)
ClaimRemembered(p) ==
    /\ \/ pc[p] \in Executing
       \/ pc[p] = "rel1" /\ outcome[p] # "terminal"
       \/ pc[p] = "unlock" /\ outcome[p] = "claimed"
       => own[p] # 0 /\ claims[p][cur[p]] = own[p]
    /\ pc[p] \in {"save", "unlease"} => own[p] # 0
    /\ pc[p] = "unlock" /\ outcome[p] = "saveFailed" => own[p] # 0

Sound(p) == Tokenless(p) /\ LockHeld(p) /\ LeaseHeld(p) /\ ClaimRemembered(p)

(* Owner tokens are fresh and belong to one process each. *)
TokensUnique ==
    /\ \A t \in Tasks : lease[t] < nextClaim
    /\ \A p \in Procs : own[p] < nextClaim
    /\ \A p \in Procs, t \in Tasks : claims[p][t] < nextClaim
    /\ \A p, q \in Procs : own[p] # 0 /\ own[p] = own[q] => p = q
    /\ \A p, q \in Procs, t \in Tasks : claims[p][t] # 0 /\ claims[p][t] = own[q] => p = q

ExclusionInv == TypeOK /\ TokensUnique /\ \A p \in Procs : Sound(p)

(* What a step of p leaves to the other processes. *)
OthersIdle(p) ==
    \A q \in Procs \ {p} :
        /\ pc'[q] = pc[q] /\ cur'[q] = cur[q] /\ own'[q] = own[q]
        /\ outcome'[q] = outcome[q] /\ claims'[q] = claims[q]

(* The step takes away no lock and no lease that another process relies on.*)
LocksRespected(p) ==
    \A q \in Procs \ {p} :
        /\ pc[q] \in Locked => claimLock'[cur[q]] = claimLock[cur[q]]
        /\ HoldsLease(q, cur[q]) \/ pc[q] \in {"read", "lease"} => lease'[cur[q]] = lease[cur[q]]

LEMMA OthersSound ==
    ASSUME ExclusionInv, NEW p \in Procs, OthersIdle(p), LocksRespected(p), NEW q \in Procs \ {p}
    PROVE  Sound(q)'
<1> DEFINE same == pc'[q] = pc[q] /\ cur'[q] = cur[q] /\ own'[q] = own[q]
                   /\ outcome'[q] = outcome[q] /\ claims'[q] = claims[q]
<1>1. same /\ Sound(q)
  BY DEF OthersIdle, ExclusionInv
<1>2. Tokenless(q)' /\ ClaimRemembered(q)'
  BY <1>1 DEF Sound, Tokenless, ClaimRemembered
<1>3. LockHeld(q)'
  BY <1>1 DEF Sound, LockHeld, LocksRespected
<1>4. LeaseHeld(q)'
  BY <1>1 DEF Sound, LeaseHeld, HoldsLease, LocksRespected
<1> QED
  BY <1>2, <1>3, <1>4 DEF Sound

(* Giving tokens back keeps the others unique. *)
LEMMA TokensReturned ==
    ASSUME TypeOK, TokensUnique, nextClaim' = nextClaim,
           \A q \in Procs : own'[q] = own[q] \/ own'[q] = 0,
           \A q \in Procs, t \in Tasks : claims'[q][t] = claims[q][t] \/ claims'[q][t] = 0,
           \A t \in Tasks : lease'[t] = lease[t] \/ lease'[t] = 0
    PROVE  TokensUnique'
BY DEF TypeOK, TokensUnique

LEMMA ForgottenSound == ASSUME TypeOK, NEW p \in Procs, Forget(p) PROVE Sound(p)'
BY DEF TypeOK, WorkerTypes, Forget, Goto, Sound, Tokenless, LockHeld, LeaseHeld, ClaimRemembered, HoldsLease, Locked, Holding, Early, Executing

LEMMA ClaimPendingExcludes ==
    ASSUME Exact, ExclusionInv, NEW p \in Procs, ClaimPending(p)
    PROVE  TokensUnique' /\ \A q \in Procs : Sound(q)'
<1>a. TypeOK /\ TokensUnique /\ Sound(p) /\ WorkerTypes
  BY DEF ExclusionInv, TypeOK
<1>1. CASE MovePending(p)
  <2>1. OthersIdle(p)
    BY <1>1, <1>a DEF MovePending, OthersIdle, TypeOK, WorkerTypes, Goto, Step, Forget
  <2>2. LocksRespected(p)
    BY <1>1 DEF MovePending, LocksRespected
  <2>3. Sound(p)'
    BY <1>1, <1>a, ForgottenSound DEF MovePending, Goto, Step, WorkerTypes, Sound, Tokenless, LockHeld, LeaseHeld, ClaimRemembered, HoldsLease, Locked, Holding, Early, Executing
  <2>4. TokensUnique'
    BY <1>1, <1>a, TokensReturned DEF MovePending, Goto, Step, Forget, WorkerTypes
  <2> QED
    BY <2>1, <2>2, <2>3, <2>4, OthersSound
<1>2. CASE RotateProcessing(p)
  <2>1. OthersIdle(p)
    BY <1>2, <1>a DEF RotateProcessing, OthersIdle, TypeOK, WorkerTypes, Goto, Step, Forget
  <2>2. LocksRespected(p)
    BY <1>2 DEF RotateProcessing, LocksRespected
  <2>3. Sound(p)'
    BY <1>2, <1>a, ForgottenSound DEF RotateProcessing, Goto, Step, WorkerTypes, Sound, Tokenless, LockHeld, LeaseHeld, ClaimRemembered, HoldsLease, Locked, Holding, Early, Executing
  <2>4. TokensUnique'
    BY <1>2, <1>a, TokensReturned DEF RotateProcessing, Goto, Step, Forget, WorkerTypes
  <2> QED
    BY <2>1, <2>2, <2>3, <2>4, OthersSound
<1>3. CASE ProbeLease(p)
  <2>1. OthersIdle(p)
    BY <1>3, <1>a DEF ProbeLease, OthersIdle, TypeOK, WorkerTypes, Goto, Step, Forget
  <2>2. LocksRespected(p)
    BY <1>3 DEF ProbeLease, LocksRespected
  <2>3. Sound(p)'
    BY <1>3, <1>a, ForgottenSound DEF ProbeLease, Goto, Step, WorkerTypes, Sound, Tokenless, LockHeld, LeaseHeld, ClaimRemembered, HoldsLease, Locked, Holding, Early, Executing
  <2>4. TokensUnique'
    BY <1>3, <1>a, TokensReturned DEF ProbeLease, Goto, Step, Forget, WorkerTypes
  <2> QED
    BY <2>1, <2>2, <2>3, <2>4, OthersSound
<1>4. CASE AcquireClaimLock(p)
  <2>1. OthersIdle(p)
    BY <1>4, <1>a DEF AcquireClaimLock, OthersIdle, TypeOK, WorkerTypes, Goto, Step, Forget
  <2>2. LocksRespected(p)
    <3> SUFFICES ASSUME NEW q \in Procs \ {p}, pc[q] \in Locked
                 PROVE  claimLock'[cur[q]] = claimLock[cur[q]]
      BY <1>4 DEF AcquireClaimLock, LocksRespected
    <3>1. claimLock[cur[q]] = q
      BY DEF ExclusionInv, Sound, LockHeld
    <3> QED
      BY <1>4, <1>a, <3>1, QueueAssumption DEF AcquireClaimLock, TypeOK, RedisTypes, WorkerTypes, Locked
  <2>3. Sound(p)'
    <3>1. CASE Forget(p)
      BY <3>1, <1>a, ForgottenSound
    <3>2. CASE claimLock' = [claimLock EXCEPT ![cur[p]] = p] /\ Step(p, "recheck")
      BY <3>2, <1>4, <1>a DEF AcquireClaimLock, Goto, Step, WorkerTypes, TypeOK, RedisTypes, Sound, Tokenless, LockHeld, LeaseHeld, ClaimRemembered, HoldsLease, Locked, Holding, Early, Executing
    <3> QED
      BY <3>1, <3>2, <1>4 DEF AcquireClaimLock
  <2>4. TokensUnique'
    BY <1>4, <1>a, TokensReturned DEF AcquireClaimLock, Goto, Step, Forget, WorkerTypes
  <2> QED
    BY <2>1, <2>2, <2>3, <2>4, OthersSound
<1>5. CASE RecheckLease(p)
  <2>1. OthersIdle(p)
    BY <1>5, <1>a DEF RecheckLease, OthersIdle, TypeOK, WorkerTypes, Goto, Step, Forget
  <2>2. LocksRespected(p)
    BY <1>5 DEF RecheckLease, LocksRespected
  <2>3. Sound(p)'
    BY <1>5, <1>a, ForgottenSound DEF RecheckLease, Goto, Step, WorkerTypes, Sound, Tokenless, LockHeld, LeaseHeld, ClaimRemembered, HoldsLease, Locked, Holding, Early, Executing
  <2>4. TokensUnique'
    BY <1>5, <1>a, TokensReturned DEF RecheckLease, Goto, Step, Forget, WorkerTypes
  <2> QED
    BY <2>1, <2>2, <2>3, <2>4, OthersSound
<1>6. CASE ReadClaimed(p)
  <2>1. OthersIdle(p)
    BY <1>6, <1>a DEF ReadClaimed, OthersIdle, TypeOK, WorkerTypes, Goto, Step, Forget
  <2>2. LocksRespected(p)
    BY <1>6 DEF ReadClaimed, LocksRespected
  <2>3. Sound(p)'
    <3>1. pc[p] = "read" /\ UNCHANGED <<lease, claimLock, claims, cur, own>>
      BY <1>6 DEF ReadClaimed
    <3>2. /\ pc'[p] \in {"lease", "unlock"}
          /\ pc'[p] = "lease" => outcome'[p] = "none"
          /\ outcome'[p] \in {"none", "terminal"}
      BY <1>6, <1>a DEF ReadClaimed, Goto, WorkerTypes, Live, Terminal
    <3> QED
      BY <3>1, <3>2, <1>a DEF Sound, Tokenless, LockHeld, LeaseHeld, ClaimRemembered, HoldsLease, Locked, Holding, Early, Executing
  <2>4. TokensUnique'
    BY <1>6, <1>a, TokensReturned DEF ReadClaimed, Goto, Step, Forget, WorkerTypes
  <2> QED
    BY <2>1, <2>2, <2>3, <2>4, OthersSound
<1>7. CASE InstallLease(p)
  <2>1. OthersIdle(p)
    BY <1>7, <1>a DEF InstallLease, OthersIdle, TypeOK, WorkerTypes, Goto, Step, Forget
  <2>2. LocksRespected(p)
    <3> SUFFICES ASSUME NEW q \in Procs \ {p}, HoldsLease(q, cur[q]) \/ pc[q] \in {"read", "lease"}
                 PROVE  cur[q] # cur[p]
      BY <1>7, <1>a DEF InstallLease, LocksRespected, TypeOK, RedisTypes
    <3>1. pc[p] \in Locked /\ pc[p] = "lease"
      BY <1>7 DEF InstallLease, Locked
    <3>2. claimLock[cur[p]] = p /\ lease[cur[p]] = 0
      BY <3>1, <1>a DEF Sound, LockHeld, LeaseHeld
    <3>3. pc[q] \in {"read", "lease"} => claimLock[cur[q]] = q
      BY DEF ExclusionInv, Sound, LockHeld, Locked
    <3>4. HoldsLease(q, cur[q]) => lease[cur[q]] # 0
      BY DEF ExclusionInv, Sound, LeaseHeld, HoldsLease
    <3> QED
      BY <3>2, <3>3, <3>4
  <2>3. Sound(p)'
    BY <1>7, <1>a DEF InstallLease, Goto, TypeOK, RedisTypes, WorkerTypes, Sound, Tokenless, LockHeld, LeaseHeld, ClaimRemembered, HoldsLease, Locked, Holding, Early, Executing
  <2>4. TokensUnique'
    BY <1>7, <1>a DEF InstallLease, Goto, TokensUnique, TypeOK, RedisTypes, WorkerTypes
  <2> QED
    BY <2>1, <2>2, <2>3, <2>4, OthersSound
<1>8. CASE SaveRunning(p)
  <2>1. OthersIdle(p)
    BY <1>8, <1>a DEF SaveRunning, OthersIdle, TypeOK, WorkerTypes, Goto, Step, Forget
  <2>2. LocksRespected(p)
    BY <1>8 DEF SaveRunning, LocksRespected
  <2>3. Sound(p)'
    BY <1>8, <1>a DEF SaveRunning, Goto, TypeOK, RedisTypes, WorkerTypes, Sound, Tokenless, LockHeld, LeaseHeld, ClaimRemembered, HoldsLease, Locked, Holding, Early, Executing
  <2>4. TokensUnique'
    BY <1>8, <1>a DEF SaveRunning, Goto, TokensUnique, TypeOK, RedisTypes, WorkerTypes
  <2> QED
    BY <2>1, <2>2, <2>3, <2>4, OthersSound
<1>9. CASE ClaimFault(p)
  <2>1. OthersIdle(p)
    BY <1>9, <1>a DEF ClaimFault, OthersIdle, TypeOK, WorkerTypes, Goto, Step, Forget
  <2>2. LocksRespected(p)
    BY <1>9 DEF ClaimFault, LocksRespected
  <2>3. Sound(p)'
    BY <1>9, <1>a, ForgottenSound DEF ClaimFault, Exact, Goto, WorkerTypes, Sound, Tokenless, LockHeld, LeaseHeld, ClaimRemembered, HoldsLease, Locked, Holding, Early, Executing
  <2>4. TokensUnique'
    BY <1>9, <1>a, TokensReturned DEF ClaimFault, Goto, Step, Forget, WorkerTypes
  <2> QED
    BY <2>1, <2>2, <2>3, <2>4, OthersSound
<1>10. CASE ReleaseClaimLock(p)
  <2>1. OthersIdle(p)
    BY <1>10, <1>a DEF ReleaseClaimLock, OthersIdle, TypeOK, WorkerTypes, Goto, Step, Forget
  <2>2. LocksRespected(p)
    <3> SUFFICES ASSUME NEW q \in Procs \ {p}, pc[q] \in Locked
                 PROVE  claimLock'[cur[q]] = claimLock[cur[q]]
      BY <1>10 DEF ReleaseClaimLock, LocksRespected
    <3>1. claimLock[cur[q]] = q
      BY DEF ExclusionInv, Sound, LockHeld
    <3> QED
      BY <1>10, <1>a, <3>1 DEF ReleaseClaimLock, TypeOK, RedisTypes
  <2>3. Sound(p)'
    BY <1>10, <1>a, ForgottenSound DEF ReleaseClaimLock, Goto, Step, WorkerTypes, Sound, Tokenless, LockHeld, LeaseHeld, ClaimRemembered, HoldsLease, Locked, Holding, Early, Executing
  <2>4. TokensUnique'
    BY <1>10, <1>a, TokensReturned DEF ReleaseClaimLock, Goto, Step, Forget, WorkerTypes
  <2> QED
    BY <2>1, <2>2, <2>3, <2>4, OthersSound
<1>11. CASE DeleteLease(p)
  <2>1. OthersIdle(p)
    BY <1>11, <1>a DEF DeleteLease, OthersIdle, TypeOK, WorkerTypes, Goto, Step, Forget
  <2>2. LocksRespected(p)
    <3> SUFFICES ASSUME NEW q \in Procs \ {p}, HoldsLease(q, cur[q]) \/ pc[q] \in {"read", "lease"}
                 PROVE  cur[q] # cur[p]
      BY <1>11, <1>a DEF DeleteLease, LocksRespected, TypeOK, RedisTypes
    <3>1. lease[cur[p]] = own[p] /\ own[p] # 0
      BY <1>11, <1>a DEF DeleteLease, Sound, LeaseHeld, ClaimRemembered, HoldsLease, Holding
    <3>2. pc[q] \in {"read", "lease"} => lease[cur[q]] = 0
      BY DEF ExclusionInv, Sound, LeaseHeld
    <3>3. HoldsLease(q, cur[q]) => lease[cur[q]] = own[q]
      BY DEF ExclusionInv, Sound, LeaseHeld
    <3> QED
      BY <3>1, <3>2, <3>3, <1>a DEF TokensUnique
  <2>3. Sound(p)'
    BY <1>11, <1>a, ForgottenSound DEF DeleteLease, Goto, Step, WorkerTypes, Sound, Tokenless, LockHeld, LeaseHeld, ClaimRemembered, HoldsLease, Locked, Holding, Early, Executing
  <2>4. TokensUnique'
    BY <1>11, <1>a, TokensReturned DEF DeleteLease, Goto, Step, Forget, WorkerTypes
  <2> QED
    BY <2>1, <2>2, <2>3, <2>4, OthersSound
<1> QED
  BY <1>1, <1>2, <1>3, <1>4, <1>5, <1>6, <1>7, <1>8, <1>9, <1>10, <1>11 DEF ClaimPending

LEMMA ExecuteExcludes ==
    ASSUME Exact, ExclusionInv, NEW p \in Procs, Execute(p)
    PROVE  TokensUnique' /\ \A q \in Procs : Sound(q)'
<1>a. TypeOK /\ TokensUnique /\ Sound(p) /\ WorkerTypes
  BY DEF ExclusionInv, TypeOK
<1>b. UNCHANGED <<claimLock, nextClaim>>
  BY DEF Execute
<1>1. CASE ExecuteTask(p)
  <2>1. OthersIdle(p)
    BY <1>1, <1>a DEF ExecuteTask, OthersIdle, TypeOK, WorkerTypes, Goto, Step, Forget, Finish
  <2>2. LocksRespected(p)
    BY <1>1, <1>b DEF ExecuteTask, LocksRespected
  <2>3. Sound(p)'
    BY <1>1, <1>a, <1>b, ForgottenSound DEF ExecuteTask, Goto, Step, WorkerTypes, Sound, Tokenless, LockHeld, LeaseHeld, ClaimRemembered, HoldsLease, Locked, Holding, Early, Executing, Finish
  <2>4. TokensUnique'
    BY <1>1, <1>a, <1>b, TokensReturned DEF ExecuteTask, Goto, Step, Forget, WorkerTypes, Finish
  <2> QED
    BY <2>1, <2>2, <2>3, <2>4, OthersSound
<1>2. CASE StartRead(p)
  <2>0. own[p] = claims[p][cur[p]]
    BY <1>2, <1>a DEF StartRead, Sound, ClaimRemembered, Executing
  <2>1. OthersIdle(p)
    BY <1>2, <1>a DEF StartRead, OthersIdle, TypeOK, WorkerTypes, Goto, Step, Forget
  <2>2. LocksRespected(p)
    BY <1>2, <1>b DEF StartRead, LocksRespected
  <2>3. Sound(p)'
    BY <1>2, <2>0, <1>a, <1>b, ForgottenSound DEF StartRead, Goto, Step, WorkerTypes, Sound, Tokenless, LockHeld, LeaseHeld, ClaimRemembered, HoldsLease, Locked, Holding, Early, Executing
  <2>4. TokensUnique'
    BY <1>2, <2>0, <1>a, <1>b, TokensReturned DEF StartRead, Goto, Step, Forget, WorkerTypes
  <2> QED
    BY <2>1, <2>2, <2>3, <2>4, OthersSound
<1>3. CASE StartWrite(p)
  <2>1. OthersIdle(p)
    BY <1>3, <1>a DEF StartWrite, OthersIdle, TypeOK, WorkerTypes, Goto, Step, Forget
  <2>2. LocksRespected(p)
    BY <1>3, <1>b DEF StartWrite, LocksRespected
  <2>3. Sound(p)'
    BY <1>3, <1>a, <1>b, ForgottenSound DEF StartWrite, Goto, Step, WorkerTypes, Sound, Tokenless, LockHeld, LeaseHeld, ClaimRemembered, HoldsLease, Locked, Holding, Early, Executing
  <2>4. TokensUnique'
    BY <1>3, <1>a, <1>b, TokensReturned DEF StartWrite, Goto, Step, Forget, WorkerTypes
  <2> QED
    BY <2>1, <2>2, <2>3, <2>4, OthersSound
<1>4. CASE HandlerReturns(p)
  <2>1. OthersIdle(p)
    BY <1>4, <1>a DEF HandlerReturns, OthersIdle, TypeOK, WorkerTypes, Goto, Step, Forget, Finish
  <2>2. LocksRespected(p)
    BY <1>4, <1>b DEF HandlerReturns, LocksRespected
  <2>3. Sound(p)'
    BY <1>4, <1>a, <1>b, ForgottenSound DEF HandlerReturns, Goto, Step, WorkerTypes, Sound, Tokenless, LockHeld, LeaseHeld, ClaimRemembered, HoldsLease, Locked, Holding, Early, Executing, Finish
  <2>4. TokensUnique'
    BY <1>4, <1>a, <1>b, TokensReturned DEF HandlerReturns, Goto, Step, Forget, WorkerTypes, Finish
  <2> QED
    BY <2>1, <2>2, <2>3, <2>4, OthersSound
<1>5. CASE FinishRead(p)
  <2>0. own[p] = claims[p][cur[p]]
    BY <1>5, <1>a DEF FinishRead, Sound, ClaimRemembered, Executing
  <2>1. OthersIdle(p)
    BY <1>5, <1>a DEF FinishRead, OthersIdle, TypeOK, WorkerTypes, Goto, Step, Forget
  <2>2. LocksRespected(p)
    BY <1>5, <1>b DEF FinishRead, LocksRespected
  <2>3. Sound(p)'
    BY <1>5, <2>0, <1>a, <1>b, ForgottenSound DEF FinishRead, Goto, Step, WorkerTypes, Sound, Tokenless, LockHeld, LeaseHeld, ClaimRemembered, HoldsLease, Locked, Holding, Early, Executing
  <2>4. TokensUnique'
    BY <1>5, <2>0, <1>a, <1>b, TokensReturned DEF FinishRead, Goto, Step, Forget, WorkerTypes
  <2> QED
    BY <2>1, <2>2, <2>3, <2>4, OthersSound
<1>6. CASE FinishWrite(p)
  <2>1. OthersIdle(p)
    BY <1>6, <1>a DEF FinishWrite, OthersIdle, TypeOK, WorkerTypes, Goto, Step, Forget
  <2>2. LocksRespected(p)
    BY <1>6, <1>b DEF FinishWrite, LocksRespected
  <2>3. Sound(p)'
    BY <1>6, <1>a, <1>b, ForgottenSound DEF FinishWrite, Goto, Step, WorkerTypes, Sound, Tokenless, LockHeld, LeaseHeld, ClaimRemembered, HoldsLease, Locked, Holding, Early, Executing
  <2>4. TokensUnique'
    BY <1>6, <1>a, <1>b, TokensReturned DEF FinishWrite, Goto, Step, Forget, WorkerTypes
  <2> QED
    BY <2>1, <2>2, <2>3, <2>4, OthersSound
<1>7. CASE FailRead(p)
  <2>1. OthersIdle(p)
    BY <1>7, <1>a DEF FailRead, OthersIdle, TypeOK, WorkerTypes, Goto, Step, Forget
  <2>2. LocksRespected(p)
    BY <1>7, <1>b DEF FailRead, LocksRespected
  <2>3. Sound(p)'
    BY <1>7, <1>a, <1>b, ForgottenSound DEF FailRead, Goto, Step, WorkerTypes, Sound, Tokenless, LockHeld, LeaseHeld, ClaimRemembered, HoldsLease, Locked, Holding, Early, Executing
  <2>4. TokensUnique'
    BY <1>7, <1>a, <1>b, TokensReturned DEF FailRead, Goto, Step, Forget, WorkerTypes
  <2> QED
    BY <2>1, <2>2, <2>3, <2>4, OthersSound
<1>8. CASE ReleaseClaim(p)
  <2>1. OthersIdle(p)
    BY <1>8, <1>a DEF ReleaseClaim, OthersIdle, TypeOK, WorkerTypes, Goto, Step, Forget
  <2>2. LocksRespected(p)
    <3> SUFFICES ASSUME NEW q \in Procs \ {p}, HoldsLease(q, cur[q]) \/ pc[q] \in {"read", "lease"},
                        lease' = [lease EXCEPT ![cur[p]] = 0],
                        claims[p][cur[p]] # 0, lease[cur[p]] = claims[p][cur[p]]
                 PROVE  cur[q] # cur[p]
      <4>1. cur[p] \in Tasks /\ lease \in [Tasks -> Nat]
        BY <1>8, <1>a DEF ReleaseClaim, WorkerTypes, TypeOK, RedisTypes
      <4>2. CASE UNCHANGED lease
        BY <4>2, <1>b DEF LocksRespected
      <4>3. ASSUME NEW q \in Procs, HoldsLease(q, cur[q]) \/ pc[q] \in {"read", "lease"}
            PROVE  cur[q] \in Tasks
        BY <4>3, <1>a DEF WorkerTypes, HoldsLease, Holding
      <4>4. CASE /\ claims[p][cur[p]] # 0 /\ lease[cur[p]] = claims[p][cur[p]]
                 /\ lease' = [lease EXCEPT ![cur[p]] = 0]
        BY <1>b, <4>1, <4>3, <4>4 DEF LocksRespected
      <4> QED
        BY <1>8, <4>2, <4>4 DEF ReleaseClaim
    <3>1. pc[q] \in {"read", "lease"} => lease[cur[q]] = 0
      BY DEF ExclusionInv, Sound, LeaseHeld
    <3>2. HoldsLease(q, cur[q]) => lease[cur[q]] = own[q]
      BY DEF ExclusionInv, Sound, LeaseHeld
    <3>3. cur[p] \in Tasks
      BY <1>8, <1>a DEF ReleaseClaim, WorkerTypes
    <3> QED
      BY <3>1, <3>2, <3>3, <1>a DEF TokensUnique
  <2>3. Sound(p)'
    BY <1>8, <1>a, <1>b, ForgottenSound DEF ReleaseClaim, Goto, Step, WorkerTypes, Sound, Tokenless, LockHeld, LeaseHeld, ClaimRemembered, HoldsLease, Locked, Holding, Early, Executing
  <2>4. TokensUnique'
    <3>1. \A q \in Procs : own'[q] = own[q] \/ own'[q] = 0
      BY <1>8, <1>a DEF ReleaseClaim, Goto, Step, Forget, WorkerTypes
    <3>2. \A q \in Procs, t \in Tasks : claims'[q][t] = claims[q][t] \/ claims'[q][t] = 0
      BY <1>8, <1>a DEF ReleaseClaim, TypeOK
    <3>3. \A t \in Tasks : lease'[t] = lease[t] \/ lease'[t] = 0
      BY <1>8, <1>a DEF ReleaseClaim, TypeOK, RedisTypes
    <3> QED
      BY <3>1, <3>2, <3>3, <1>a, <1>b, TokensReturned
  <2> QED
    BY <2>1, <2>2, <2>3, <2>4, OthersSound
<1>9. CASE RemoveProcessing(p)
  <2>1. OthersIdle(p)
    BY <1>9, <1>a DEF RemoveProcessing, OthersIdle, TypeOK, WorkerTypes, Goto, Step, Forget
  <2>2. LocksRespected(p)
    BY <1>9, <1>b DEF RemoveProcessing, LocksRespected
  <2>3. Sound(p)'
    BY <1>9, <1>a, <1>b, ForgottenSound DEF RemoveProcessing, Goto, Step, WorkerTypes, Sound, Tokenless, LockHeld, LeaseHeld, ClaimRemembered, HoldsLease, Locked, Holding, Early, Executing
  <2>4. TokensUnique'
    BY <1>9, <1>a, <1>b, TokensReturned DEF RemoveProcessing, Goto, Step, Forget, WorkerTypes
  <2> QED
    BY <2>1, <2>2, <2>3, <2>4, OthersSound
<1>10. CASE PushRetry(p)
  <2>1. OthersIdle(p)
    BY <1>10, <1>a DEF PushRetry, OthersIdle, TypeOK, WorkerTypes, Goto, Step, Forget
  <2>2. LocksRespected(p)
    BY <1>10, <1>b DEF PushRetry, LocksRespected
  <2>3. Sound(p)'
    BY <1>10, <1>a, <1>b, ForgottenSound DEF PushRetry, Goto, Step, WorkerTypes, Sound, Tokenless, LockHeld, LeaseHeld, ClaimRemembered, HoldsLease, Locked, Holding, Early, Executing
  <2>4. TokensUnique'
    BY <1>10, <1>a, <1>b, TokensReturned DEF PushRetry, Goto, Step, Forget, WorkerTypes
  <2> QED
    BY <2>1, <2>2, <2>3, <2>4, OthersSound
<1>11. CASE ExecuteFault(p)
  <2>1. OthersIdle(p)
    BY <1>11, <1>a DEF ExecuteFault, OthersIdle, TypeOK, WorkerTypes, Goto, Step, Forget
  <2>2. LocksRespected(p)
    BY <1>11, <1>b DEF ExecuteFault, LocksRespected
  <2>3. Sound(p)'
    BY <1>11, <1>a, <1>b, ForgottenSound DEF ExecuteFault, Goto, Step, WorkerTypes, Sound, Tokenless, LockHeld, LeaseHeld, ClaimRemembered, HoldsLease, Locked, Holding, Early, Executing
  <2>4. TokensUnique'
    BY <1>11, <1>a, <1>b, TokensReturned DEF ExecuteFault, Goto, Step, Forget, WorkerTypes
  <2> QED
    BY <2>1, <2>2, <2>3, <2>4, OthersSound
<1> QED
  BY <1>1, <1>2, <1>3, <1>4, <1>5, <1>6, <1>7, <1>8, <1>9, <1>10, <1>11 DEF Execute

LEMMA NextExcludes == ASSUME Exact, ExclusionInv, [Next]_vars PROVE ExclusionInv'
<1>1. TypeOK'
  BY NextKeepsTypes DEF ExclusionInv
<1>2. ASSUME UNCHANGED <<worker, claims, nextClaim, lease, claimLock>>
      PROVE  TokensUnique' /\ \A q \in Procs : Sound(q)'
  BY <1>2 DEF ExclusionInv, worker, TokensUnique, Sound, Tokenless, LockHeld, LeaseHeld, ClaimRemembered, HoldsLease
<1>3. ASSUME NEW p \in Procs, Enqueue(p) PROVE TokensUnique' /\ \A q \in Procs : Sound(q)'
  BY <1>2, <1>3 DEF Enqueue
<1>4. ASSUME NEW p \in Procs, Cancel(p) PROVE FALSE
  BY <1>4 DEF Cancel, Exact
<1>5. ASSUME NEW p \in Procs, Crash(p) PROVE TokensUnique' /\ \A q \in Procs : Sound(q)'
  <2>1. TypeOK /\ TokensUnique
    BY DEF ExclusionInv
  <2>2. OthersIdle(p)
    BY <1>5, <2>1 DEF Crash, OthersIdle, TypeOK, WorkerTypes, Forget, Goto
  <2>3. LocksRespected(p)
    BY <1>5 DEF Crash, redis, LocksRespected
  <2>4. Sound(p)'
    BY <1>5, <2>1, ForgottenSound DEF Crash
  <2>5. TokensUnique'
    BY <1>5, <2>1, TokensReturned DEF Crash, redis, Forget, TypeOK, WorkerTypes
  <2> QED
    BY <2>2, <2>3, <2>4, <2>5, OthersSound
<1>6. ASSUME NEW t \in Tasks, ExpireLease(t) PROVE TokensUnique' /\ \A q \in Procs : Sound(q)'
  <2>1. UNCHANGED <<worker, claims, nextClaim, claimLock>> /\ lease' = [lease EXCEPT ![t] = 0]
    BY <1>6 DEF ExpireLease
  <2>2. \A q \in Procs : HoldsLease(q, t) => own[q] # lease[t]
    BY <1>6 DEF ExpireLease, TimesOut, Exact
  <2>3. TokensUnique'
    BY <2>1, TokensReturned DEF ExclusionInv, worker, TypeOK, RedisTypes
  <2>4. ASSUME NEW q \in Procs PROVE Sound(q)'
    <3>1. Sound(q)
      BY DEF ExclusionInv
    <3>2. Tokenless(q)' /\ LockHeld(q)' /\ ClaimRemembered(q)'
      BY <2>1, <3>1 DEF worker, Sound, Tokenless, LockHeld, ClaimRemembered
    <3>3. LeaseHeld(q)'
      BY <2>1, <2>2, <3>1 DEF worker, Sound, LeaseHeld, HoldsLease, ExclusionInv, TypeOK, RedisTypes
    <3> QED
      BY <3>2, <3>3 DEF Sound
  <2> QED
    BY <2>3, <2>4
<1>7. ASSUME NEW t \in Tasks, ExpireClaimLock(t) PROVE TokensUnique' /\ \A q \in Procs : Sound(q)'
  <2>1. UNCHANGED <<worker, claims, nextClaim, lease>> /\ claimLock' = [claimLock EXCEPT ![t] = NoProc]
    BY <1>7 DEF ExpireClaimLock
  <2>2. ~HoldsLock(claimLock[t], t)
    BY <1>7 DEF ExpireClaimLock, TimesOut, Exact
  <2>3. TokensUnique'
    BY <2>1 DEF ExclusionInv, worker, TokensUnique
  <2>4. ASSUME NEW q \in Procs PROVE Sound(q)'
    <3>1. Sound(q)
      BY DEF ExclusionInv
    <3>2. Tokenless(q)' /\ LeaseHeld(q)' /\ ClaimRemembered(q)'
      BY <2>1, <3>1 DEF worker, Sound, Tokenless, LeaseHeld, HoldsLease, ClaimRemembered
    <3>3. LockHeld(q)'
      BY <2>1, <2>2, <3>1 DEF worker, Sound, LockHeld, HoldsLock, ExclusionInv, TypeOK, RedisTypes
    <3> QED
      BY <3>2, <3>3 DEF Sound
  <2> QED
    BY <2>3, <2>4
<1>8. ASSUME NEW k \in Keys, ExpireEnqueueLock(k) PROVE TokensUnique' /\ \A q \in Procs : Sound(q)'
  BY <1>2, <1>8 DEF ExpireEnqueueLock
<1>9. CASE UNCHANGED vars
  BY <1>1, <1>2, <1>9 DEF vars, redis, ExclusionInv
<1> QED
  BY <1>1, <1>3, <1>4, <1>5, <1>6, <1>7, <1>8, <1>9, ClaimPendingExcludes, ExecuteExcludes
  DEF Next, ExclusionInv

LEMMA InitExcludes == Init => ExclusionInv
<1> SUFFICES ASSUME Init PROVE ExclusionInv
  OBVIOUS
<1>1. TypeOK
  BY InitTypes
<1>2. TokensUnique
  BY DEF Init, TokensUnique
<1>3. ASSUME NEW p \in Procs PROVE Sound(p)
  BY DEF Init, Sound, Tokenless, LockHeld, LeaseHeld, ClaimRemembered, HoldsLease, Locked, Holding, Early, Executing
<1> QED
  BY <1>1, <1>2, <1>3 DEF ExclusionInv

(* No task's handler is ever run by two workers at a time: for any number  *)
(* of workers and tasks, with crashes anywhere and failed commands         *)
(* anywhere but at the SET of a lease.                                     *)
THEOREM Exclusion == ASSUME Exact PROVE Spec => []MutualExclusion
<1>1. ExclusionInv /\ [Next]_vars => ExclusionInv'
  BY NextExcludes
<1>2. ExclusionInv => MutualExclusion
  <2> SUFFICES ASSUME ExclusionInv, NEW p \in Procs, NEW q \in Procs,
                      pc[p] = "run", pc[q] = "run", cur[p] = cur[q]
               PROVE  p = q
    BY DEF MutualExclusion
  <2>1. own[p] # 0 /\ own[q] # 0
    BY DEF ExclusionInv, Sound, ClaimRemembered, Executing
  <2>2. lease[cur[p]] = own[p] /\ lease[cur[q]] = own[q]
    BY <2>1 DEF ExclusionInv, Sound, LeaseHeld, HoldsLease, Holding
  <2> QED
    BY <2>1, <2>2 DEF ExclusionInv, TokensUnique
<1> QED
  BY <1>1, <1>2, InitExcludes, PTL DEF Spec

-----------------------------------------------------------------------------
(* What a step changes. *)

Listed(t) == pending[t] > 0 \/ processing[t] > 0
Handed(t) == Listed(t) \/ \E p \in Procs : cur[p] = t

(* A step of the worker of p, seen from everybody else: it writes no task  *)
(* but its current one, and takes that one from a list.                    *)
WorkerFrame(p) ==
    /\ \A q \in Procs \ {p} : pc'[q] = pc[q] /\ cur'[q] = cur[q] /\ snap'[q] = snap[q] /\ outcome'[q] = outcome[q]
    /\ \A t \in Tasks : t # cur[p] => task'[t] = task[t] /\ (Listed(t)' => Listed(t))
    /\ cur'[p] \in Tasks => cur'[p] = cur[p] \/ Listed(cur'[p])

LEMMA ClaimFrame == ASSUME TypeOK, NEW p \in Procs, ClaimPending(p) PROVE WorkerFrame(p)
<1>1. CASE MovePending(p)
  <2>0. /\ UNCHANGED <<task, snap, outcome>>
        /\ \A q \in Procs \ {p} : pc'[q] = pc[q] /\ cur'[q] = cur[q]
    BY <1>1 DEF MovePending, TypeOK, WorkerTypes, Goto
  <2>1. CASE UNCHANGED <<pending, processing, cur>>
    BY <2>0, <2>1 DEF WorkerFrame, Listed
  <2>2. CASE \E t \in Tasks :
               /\ pending[t] > 0
               /\ pending' = [pending EXCEPT ![t] = pending[t] - 1]
               /\ processing' = [processing EXCEPT ![t] = processing[t] + 1]
               /\ cur' = [cur EXCEPT ![p] = t]
    BY <2>0, <2>2 DEF WorkerFrame, Listed, TypeOK, RedisTypes, WorkerTypes
  <2> QED
    BY <1>1, <2>1, <2>2 DEF MovePending
<1>2. CASE RotateProcessing(p)
  BY <1>2, QueueAssumption DEF RotateProcessing, WorkerFrame, Listed, TypeOK, RedisTypes, WorkerTypes, Goto, Step, Forget, Finish
<1>3. CASE ProbeLease(p)
  BY <1>3, QueueAssumption DEF ProbeLease, WorkerFrame, Listed, TypeOK, RedisTypes, WorkerTypes, Goto, Step, Forget, Finish
<1>4. CASE AcquireClaimLock(p)
  BY <1>4, QueueAssumption DEF AcquireClaimLock, WorkerFrame, Listed, TypeOK, RedisTypes, WorkerTypes, Goto, Step, Forget, Finish
<1>5. CASE RecheckLease(p)
  BY <1>5, QueueAssumption DEF RecheckLease, WorkerFrame, Listed, TypeOK, RedisTypes, WorkerTypes, Goto, Step, Forget, Finish
<1>6. CASE ReadClaimed(p)
  BY <1>6, QueueAssumption DEF ReadClaimed, WorkerFrame, Listed, TypeOK, RedisTypes, WorkerTypes, Goto, Step, Forget, Finish
<1>7. CASE InstallLease(p)
  BY <1>7, QueueAssumption DEF InstallLease, WorkerFrame, Listed, TypeOK, RedisTypes, WorkerTypes, Goto, Step, Forget, Finish
<1>8. CASE SaveRunning(p)
  BY <1>8, QueueAssumption DEF SaveRunning, WorkerFrame, Listed, TypeOK, RedisTypes, WorkerTypes, Goto, Step, Forget, Finish
<1>9. CASE ClaimFault(p)
  BY <1>9, QueueAssumption DEF ClaimFault, WorkerFrame, Listed, TypeOK, RedisTypes, WorkerTypes, Goto, Step, Forget, Finish
<1>10. CASE ReleaseClaimLock(p)
  BY <1>10, QueueAssumption DEF ReleaseClaimLock, WorkerFrame, Listed, TypeOK, RedisTypes, WorkerTypes, Goto, Step, Forget, Finish
<1>11. CASE DeleteLease(p)
  BY <1>11, QueueAssumption DEF DeleteLease, WorkerFrame, Listed, TypeOK, RedisTypes, WorkerTypes, Goto, Step, Forget, Finish
<1> QED
  BY <1>1, <1>2, <1>3, <1>4, <1>5, <1>6, <1>7, <1>8, <1>9, <1>10, <1>11 DEF ClaimPending

LEMMA ExecuteFrame == ASSUME TypeOK, NEW p \in Procs, Execute(p) PROVE WorkerFrame(p)
<1>1. CASE ExecuteTask(p)
  BY <1>1, QueueAssumption DEF ExecuteTask, WorkerFrame, Listed, TypeOK, RedisTypes, WorkerTypes, Goto, Step, Forget, Finish
<1>2. CASE StartRead(p)
  BY <1>2, QueueAssumption DEF StartRead, WorkerFrame, Listed, TypeOK, RedisTypes, WorkerTypes, Goto, Step, Forget, Finish
<1>3. CASE StartWrite(p)
  BY <1>3, QueueAssumption DEF StartWrite, WorkerFrame, Listed, TypeOK, RedisTypes, WorkerTypes, Goto, Step, Forget, Finish
<1>4. CASE HandlerReturns(p)
  BY <1>4, QueueAssumption DEF HandlerReturns, WorkerFrame, Listed, TypeOK, RedisTypes, WorkerTypes, Goto, Step, Forget, Finish
<1>5. CASE FinishRead(p)
  BY <1>5, QueueAssumption DEF FinishRead, WorkerFrame, Listed, TypeOK, RedisTypes, WorkerTypes, Goto, Step, Forget, Finish
<1>6. CASE FinishWrite(p)
  BY <1>6, QueueAssumption DEF FinishWrite, WorkerFrame, Listed, TypeOK, RedisTypes, WorkerTypes, Goto, Step, Forget, Finish
<1>7. CASE FailRead(p)
  BY <1>7, QueueAssumption DEF FailRead, WorkerFrame, Listed, TypeOK, RedisTypes, WorkerTypes, Goto, Step, Forget, Finish
<1>8. CASE ReleaseClaim(p)
  BY <1>8, QueueAssumption DEF ReleaseClaim, WorkerFrame, Listed, TypeOK, RedisTypes, WorkerTypes, Goto, Step, Forget, Finish
<1>9. CASE RemoveProcessing(p)
  BY <1>9, QueueAssumption DEF RemoveProcessing, WorkerFrame, Listed, TypeOK, RedisTypes, WorkerTypes, Goto, Step, Forget, Finish
<1>10. CASE PushRetry(p)
  BY <1>10, QueueAssumption DEF PushRetry, WorkerFrame, Listed, TypeOK, RedisTypes, WorkerTypes, Goto, Step, Forget, Finish
<1>11. CASE ExecuteFault(p)
  BY <1>11, QueueAssumption DEF ExecuteFault, WorkerFrame, Listed, TypeOK, RedisTypes, WorkerTypes, Goto, Step, Forget, Finish
<1> QED
  BY <1>1, <1>2, <1>3, <1>4, <1>5, <1>6, <1>7, <1>8, <1>9, <1>10, <1>11 DEF Execute

(* The points at which a worker is about to write from a copy it has read. *)
Writing == {"lease", "save", "startw", "finw"}

(* A worker that is about to write has read a task it may write so.        *)
Working(p) ==
    /\ pc[p] \in {"lease", "save"} => snap[p].status \in Live
    /\ pc[p] = "startw" => snap[p].status \notin Terminal
    /\ pc[p] \in {"fin", "finw"} => outcome[p] \in {"ok", "err", "stop"}
    /\ pc[p] = "finw" => snap[p].status # "absent" /\ (outcome[p] = "err" \/ snap[p].status \in Live)

(* The writes of a worker, and what it takes copies of. *)
WorkerWrites(p) ==
    \/ UNCHANGED task
    \/ pc[p] \in {"save", "startw"} /\ task' = [task EXCEPT ![cur[p]] = Started(snap[p])]
    \/ pc[p] = "finw" /\ task' = [task EXCEPT ![cur[p]] = Finished(p)]
WorkerReads(p) ==
    /\ snap'[p] \in {snap[p], Absent} \/ (cur[p] \in Tasks /\ snap'[p] = task[cur[p]])
    /\ pc'[p] \in Writing =>
         /\ UNCHANGED task /\ cur'[p] = cur[p]
         /\ snap'[p] = task[cur[p]] \/ (pc[p] = "lease" /\ snap'[p] = snap[p])

LEMMA ClaimWrites == ASSUME TypeOK, NEW p \in Procs, Working(p), ClaimPending(p) PROVE Working(p)' /\ WorkerWrites(p) /\ WorkerReads(p)
<1>1. CASE MovePending(p)
  BY <1>1, QueueAssumption DEF MovePending, Working, WorkerWrites, WorkerReads, Writing, Live, Terminal, Absent, TypeOK, RedisTypes, WorkerTypes, Goto, Step, Forget, Finish
<1>2. CASE RotateProcessing(p)
  BY <1>2, QueueAssumption DEF RotateProcessing, Working, WorkerWrites, WorkerReads, Writing, Live, Terminal, Absent, TypeOK, RedisTypes, WorkerTypes, Goto, Step, Forget, Finish
<1>3. CASE ProbeLease(p)
  BY <1>3, QueueAssumption DEF ProbeLease, Working, WorkerWrites, WorkerReads, Writing, Live, Terminal, Absent, TypeOK, RedisTypes, WorkerTypes, Goto, Step, Forget, Finish
<1>4. CASE AcquireClaimLock(p)
  BY <1>4, QueueAssumption DEF AcquireClaimLock, Working, WorkerWrites, WorkerReads, Writing, Live, Terminal, Absent, TypeOK, RedisTypes, WorkerTypes, Goto, Step, Forget, Finish
<1>5. CASE RecheckLease(p)
  BY <1>5, QueueAssumption DEF RecheckLease, Working, WorkerWrites, WorkerReads, Writing, Live, Terminal, Absent, TypeOK, RedisTypes, WorkerTypes, Goto, Step, Forget, Finish
<1>6. CASE ReadClaimed(p)
  BY <1>6, QueueAssumption DEF ReadClaimed, Working, WorkerWrites, WorkerReads, Writing, Live, Terminal, Absent, TypeOK, RedisTypes, WorkerTypes, Goto, Step, Forget, Finish
<1>7. CASE InstallLease(p)
  BY <1>7, QueueAssumption DEF InstallLease, Working, WorkerWrites, WorkerReads, Writing, Live, Terminal, Absent, TypeOK, RedisTypes, WorkerTypes, Goto, Step, Forget, Finish
<1>8. CASE SaveRunning(p)
  BY <1>8, QueueAssumption DEF SaveRunning, Working, WorkerWrites, WorkerReads, Writing, Live, Terminal, Absent, TypeOK, RedisTypes, WorkerTypes, Goto, Step, Forget, Finish
<1>9. CASE ClaimFault(p)
  BY <1>9, QueueAssumption DEF ClaimFault, Working, WorkerWrites, WorkerReads, Writing, Live, Terminal, Absent, TypeOK, RedisTypes, WorkerTypes, Goto, Step, Forget, Finish
<1>10. CASE ReleaseClaimLock(p)
  BY <1>10, QueueAssumption DEF ReleaseClaimLock, Working, WorkerWrites, WorkerReads, Writing, Live, Terminal, Absent, TypeOK, RedisTypes, WorkerTypes, Goto, Step, Forget, Finish
<1>11. CASE DeleteLease(p)
  BY <1>11, QueueAssumption DEF DeleteLease, Working, WorkerWrites, WorkerReads, Writing, Live, Terminal, Absent, TypeOK, RedisTypes, WorkerTypes, Goto, Step, Forget, Finish
<1> QED
  BY <1>1, <1>2, <1>3, <1>4, <1>5, <1>6, <1>7, <1>8, <1>9, <1>10, <1>11 DEF ClaimPending

LEMMA ExecuteWrites == ASSUME TypeOK, NEW p \in Procs, Working(p), Execute(p) PROVE Working(p)' /\ WorkerWrites(p) /\ WorkerReads(p)
<1>1. CASE ExecuteTask(p)
  BY <1>1, QueueAssumption DEF ExecuteTask, Working, WorkerWrites, WorkerReads, Writing, Live, Terminal, Absent, TypeOK, RedisTypes, WorkerTypes, Goto, Step, Forget, Finish
<1>2. CASE StartRead(p)
  BY <1>2, QueueAssumption DEF StartRead, Working, WorkerWrites, WorkerReads, Writing, Live, Terminal, Absent, TypeOK, RedisTypes, WorkerTypes, Goto, Step, Forget, Finish
<1>3. CASE StartWrite(p)
  BY <1>3, QueueAssumption DEF StartWrite, Working, WorkerWrites, WorkerReads, Writing, Live, Terminal, Absent, TypeOK, RedisTypes, WorkerTypes, Goto, Step, Forget, Finish
<1>4. CASE HandlerReturns(p)
  BY <1>4, QueueAssumption DEF HandlerReturns, Working, WorkerWrites, WorkerReads, Writing, Live, Terminal, Absent, TypeOK, RedisTypes, WorkerTypes, Goto, Step, Forget, Finish
<1>5. CASE FinishRead(p)
  BY <1>5, QueueAssumption DEF FinishRead, Working, WorkerWrites, WorkerReads, Writing, Live, Terminal, Absent, TypeOK, RedisTypes, WorkerTypes, Goto, Step, Forget, Finish
<1>6. CASE FinishWrite(p)
  BY <1>6, QueueAssumption DEF FinishWrite, Working, WorkerWrites, WorkerReads, Writing, Live, Terminal, Absent, TypeOK, RedisTypes, WorkerTypes, Goto, Step, Forget, Finish
<1>7. CASE FailRead(p)
  BY <1>7, QueueAssumption DEF FailRead, Working, WorkerWrites, WorkerReads, Writing, Live, Terminal, Absent, TypeOK, RedisTypes, WorkerTypes, Goto, Step, Forget, Finish
<1>8. CASE ReleaseClaim(p)
  BY <1>8, QueueAssumption DEF ReleaseClaim, Working, WorkerWrites, WorkerReads, Writing, Live, Terminal, Absent, TypeOK, RedisTypes, WorkerTypes, Goto, Step, Forget, Finish
<1>9. CASE RemoveProcessing(p)
  BY <1>9, QueueAssumption DEF RemoveProcessing, Working, WorkerWrites, WorkerReads, Writing, Live, Terminal, Absent, TypeOK, RedisTypes, WorkerTypes, Goto, Step, Forget, Finish
<1>10. CASE PushRetry(p)
  BY <1>10, QueueAssumption DEF PushRetry, Working, WorkerWrites, WorkerReads, Writing, Live, Terminal, Absent, TypeOK, RedisTypes, WorkerTypes, Goto, Step, Forget, Finish
<1>11. CASE ExecuteFault(p)
  BY <1>11, QueueAssumption DEF ExecuteFault, Working, WorkerWrites, WorkerReads, Writing, Live, Terminal, Absent, TypeOK, RedisTypes, WorkerTypes, Goto, Step, Forget, Finish
<1> QED
  BY <1>1, <1>2, <1>3, <1>4, <1>5, <1>6, <1>7, <1>8, <1>9, <1>10, <1>11 DEF Execute

(* Of a call of Cancel, likewise.                                          *)
CancelFrame(p) ==
    /\ \A q \in Procs \ {p} : cpc'[q] = cpc[q] /\ ccur'[q] = ccur[q] /\ csnap'[q] = csnap[q]
    /\ \A t \in Tasks : Listed(t)' => Listed(t)
    /\ ccur'[p] \in Tasks => ccur'[p] = ccur[p] \/ ccur'[p] \in acked
    /\ \/ UNCHANGED task
       \/ cpc[p] = "cwrite" /\ task' = [task EXCEPT ![ccur[p]] = Cancelled(csnap[p])]
    /\ csnap'[p] \in {csnap[p], Absent} \/ (csnap'[p] = task[ccur'[p]] /\ ccur'[p] \in Tasks)
    /\ cpc'[p] = "cwrite" => ccur'[p] \in Tasks /\ task[ccur'[p]].status \in Live /\ csnap'[p] = task[ccur'[p]] /\ UNCHANGED task

LEMMA CancelWrites == ASSUME TypeOK, NEW p \in Procs, Cancel(p) PROVE CancelFrame(p)
<1>0. CASE \E t \in Tasks : CancelRead(p, t)
  BY <1>0, QueueAssumption DEF Cancel, CancelRead, CancelFrame, Listed, CancelReturns, TypeOK, RedisTypes, CancelTypes
<1>1. CASE CancelWrite(p)
  BY <1>1, QueueAssumption DEF CancelWrite, CancelFrame, Listed, CancelReturns, TypeOK, RedisTypes, CancelTypes, Cancel
<1>2. CASE CancelReleaseClaim(p)
  BY <1>2, QueueAssumption DEF CancelReleaseClaim, CancelFrame, Listed, CancelReturns, TypeOK, RedisTypes, CancelTypes, Cancel
<1>3. CASE CancelRemoveProcessing(p)
  BY <1>3, QueueAssumption DEF CancelRemoveProcessing, CancelFrame, Listed, CancelReturns, TypeOK, RedisTypes, CancelTypes, Cancel
<1>4. CASE CancelFault(p)
  BY <1>4, QueueAssumption DEF CancelFault, CancelFrame, Listed, CancelReturns, TypeOK, RedisTypes, CancelTypes, Cancel
<1> QED
  BY <1>0, <1>1, <1>2, <1>3, <1>4 DEF Cancel

-----------------------------------------------------------------------------
(* Identifiers are fresh: a task is unknown to everybody until the call of *)
(* Enqueue that made its identifier has stored it.                         *)

Unborn(t) ==
    /\ task[t] = Absent /\ t \notin acked /\ ~Handed(t)
    /\ \A p \in Procs : ccur[p] # t
    /\ \A k \in Keys : keyRef[k] # t

Identity ==
    /\ \A p \in Procs : epc[p] # "idle" => ecur[p] \in issued
    /\ \A p, q \in Procs : epc[p] # "idle" /\ epc[q] # "idle" /\ ecur[p] = ecur[q] => p = q
    /\ \A t \in Tasks \ issued : Unborn(t)
    /\ \A p \in Procs : epc[p] \in {"lookup", "store"} => Unborn(ecur[p])

IdentityInv == TypeOK /\ Identity /\ \A p \in Procs : Working(p)

LEMMA WorkerKeepsUnborn ==
    ASSUME TypeOK, NEW p \in Procs, WorkerFrame(p), UNCHANGED <<acked, ccur, keyRef>>,
           NEW t \in Tasks, Unborn(t)
    PROVE  Unborn(t)'
<1>1. t # cur[p] /\ t # cur'[p]
  BY QueueAssumption DEF Unborn, Handed, WorkerFrame, TypeOK, WorkerTypes
<1>2. \A q \in Procs : cur'[q] # t
  BY <1>1 DEF WorkerFrame, Unborn, Handed
<1> QED
  BY <1>1, <1>2 DEF WorkerFrame, Unborn, Handed

LEMMA CancelKeepsUnborn ==
    ASSUME TypeOK, NEW p \in Procs, CancelFrame(p), UNCHANGED <<acked, cur, keyRef>>,
           NEW t \in Tasks, Unborn(t)
    PROVE  Unborn(t)'
<1>1. t # ccur[p] /\ t # ccur'[p]
  BY DEF Unborn, CancelFrame
<1>2. \A q \in Procs : ccur'[q] # t
  BY <1>1 DEF CancelFrame, Unborn
<1>3. task'[t] = task[t]
  <2>1. CASE UNCHANGED task
    BY <2>1
  <2>2. CASE cpc[p] = "cwrite" /\ task' = [task EXCEPT ![ccur[p]] = Cancelled(csnap[p])]
    BY <1>1, <2>2 DEF TypeOK, RedisTypes
  <2> QED
    BY <2>1, <2>2 DEF CancelFrame
<1> QED
  BY <1>2, <1>3 DEF CancelFrame, Unborn, Handed

(* Nothing of Identity but Unborn depends on what a worker or a Cancel does. *)
LEMMA IdentityKept ==
    ASSUME Identity, UNCHANGED <<epc, ecur, issued>>, TypeOK,
           \A t \in Tasks : Unborn(t) => Unborn(t)'
    PROVE  Identity'
BY DEF Identity, TypeOK, EnqueueTypes

LEMMA EnqueueKeepsIdentity == ASSUME TypeOK, Identity, NEW p \in Procs, Enqueue(p) PROVE Identity'
<1>0. UNCHANGED <<cur, ccur, processing>>
  BY DEF Enqueue, worker, canc
<1>1. ASSUME NEW t \in Tasks, EnqueueLock(p, t) PROVE Identity'
  <2>1. \A u \in Tasks : Unborn(u)' = Unborn(u)
    BY <1>0, <1>1 DEF EnqueueLock, Unborn, Handed, Listed
  <2> QED
    BY <1>1, <2>1 DEF EnqueueLock, Identity, TypeOK, EnqueueTypes
<1>2. CASE EnqueueCheck(p)
  <2>1. ASSUME NEW u \in Tasks, Unborn(u) PROVE Unborn(u)'
    BY <1>0, <1>2, <2>1, QueueAssumption DEF EnqueueCheck, Unborn, Handed, Listed, Absent, TypeOK, RedisTypes, EnqueueTypes
  <2>2. UNCHANGED <<ecur, issued>> /\ epc[p] = "lookup" /\ \E l \in {"store", "release"} : epc' = [epc EXCEPT ![p] = l]
    BY <1>2 DEF EnqueueCheck
  <2> QED
    BY <2>1, <2>2 DEF Identity, TypeOK, EnqueueTypes
<1>3. CASE EnqueueSave(p)
  <2>1. ASSUME NEW u \in Tasks, Unborn(u), u # ecur[p] PROVE Unborn(u)'
    BY <1>0, <1>3, <2>1 DEF EnqueueSave, Unborn, Handed, Listed, TypeOK, RedisTypes
  <2> QED
    BY <1>3, <2>1 DEF EnqueueSave, Identity, TypeOK, EnqueueTypes
<1>4. CASE EnqueueKey(p)
  <2>1. ASSUME NEW u \in Tasks, Unborn(u), u # ecur[p] PROVE Unborn(u)'
    BY <1>0, <1>4, <2>1, QueueAssumption DEF EnqueueKey, Unborn, Handed, Listed, TypeOK, RedisTypes, EnqueueTypes
  <2> QED
    BY <1>4, <2>1 DEF EnqueueKey, Identity, TypeOK, EnqueueTypes
<1>5. CASE EnqueuePush(p)
  <2>1. ASSUME NEW u \in Tasks, Unborn(u), u # ecur[p] PROVE Unborn(u)'
    BY <1>0, <1>5, <2>1, QueueAssumption DEF EnqueuePush, Unborn, Handed, Listed, TypeOK, RedisTypes, EnqueueTypes
  <2> QED
    BY <1>5, <2>1 DEF EnqueuePush, Identity, TypeOK, EnqueueTypes
<1>6. CASE EnqueueFault(p)
  <2>1. ASSUME NEW u \in Tasks, Unborn(u), epc[p] = "append" => u # ecur[p] PROVE Unborn(u)'
    BY <1>0, <1>6, <2>1, QueueAssumption DEF EnqueueFault, Unborn, Handed, Listed, TypeOK, RedisTypes, EnqueueTypes
  <2>2. /\ UNCHANGED <<ecur, issued>>
        /\ \E l \in {"store", "release", "withdraw"} : epc' = [epc EXCEPT ![p] = l] /\ (l = "store" => epc[p] = "lookup")
        /\ epc[p] # "idle"
    BY <1>6 DEF EnqueueFault
  <2> QED
    BY <2>1, <2>2 DEF Identity, TypeOK, EnqueueTypes
<1>7. CASE EnqueueWithdraw(p)
  <2>1. ASSUME NEW u \in Tasks, Unborn(u) PROVE Unborn(u)'
    BY <1>0, <1>7, <2>1 DEF EnqueueWithdraw, Unborn, Handed, Listed, TypeOK, RedisTypes
  <2> QED
    BY <1>7, <2>1 DEF EnqueueWithdraw, Identity, TypeOK, EnqueueTypes
<1>8. CASE EnqueueUnlock(p)
  <2>1. ASSUME NEW u \in Tasks, Unborn(u) PROVE Unborn(u)'
    BY <1>0, <1>8, <2>1 DEF EnqueueUnlock, Unborn, Handed, Listed
  <2> QED
    BY <1>8, <2>1 DEF EnqueueUnlock, Identity, TypeOK, EnqueueTypes
<1> QED
  BY <1>1, <1>2, <1>3, <1>4, <1>5, <1>6, <1>7, <1>8 DEF Enqueue

(* A crash and the end of a TTL write nothing but locks, leases and the    *)
(* memory of the process that dies.                                        *)
LEMMA WorkersStayReady ==
    ASSUME TypeOK, [Next]_vars, \A p \in Procs : Working(p)
    PROVE  \A p \in Procs : Working(p)'
<1>1. ASSUME NEW p \in Procs, ClaimPending(p) \/ Execute(p), NEW q \in Procs PROVE Working(q)'
  <2>1. Working(p)' /\ WorkerFrame(p)
    BY <1>1, ClaimWrites, ExecuteWrites, ClaimFrame, ExecuteFrame
  <2> QED
    BY <2>1 DEF WorkerFrame, Working
<1>2. CASE UNCHANGED worker
  BY <1>2 DEF worker, Working
<1>3. ASSUME NEW p \in Procs, Crash(p), NEW q \in Procs PROVE Working(q)'
  BY <1>3 DEF Crash, Forget, Goto, Working, TypeOK, WorkerTypes
<1> QED
  BY <1>1, <1>2, <1>3 DEF Next, Enqueue, Cancel, ExpireLease, ExpireClaimLock, ExpireEnqueueLock, vars

LEMMA NextKeepsIdentity == ASSUME IdentityInv, [Next]_vars PROVE IdentityInv'
<1>0. TypeOK /\ Identity /\ TypeOK' /\ \A p \in Procs : Working(p)'
  BY WorkersStayReady, NextKeepsTypes DEF IdentityInv
<1>1. ASSUME NEW p \in Procs, ClaimPending(p) \/ Execute(p) PROVE Identity'
  <2>1. UNCHANGED <<enq, canc, keyRef>>
    BY <1>1 DEF ClaimPending, Execute
  <2>2. WorkerFrame(p)
    BY <1>0, <1>1, ClaimFrame, ExecuteFrame
  <2> QED
    BY <1>0, <2>1, <2>2, WorkerKeepsUnborn, IdentityKept DEF enq, canc
<1>2. ASSUME NEW p \in Procs, Cancel(p) PROVE Identity'
  BY <1>0, <1>2, CancelWrites, CancelKeepsUnborn, IdentityKept DEF Cancel, enq, worker
<1>3. ASSUME NEW p \in Procs, Crash(p) PROVE Identity'
  <2>1. UNCHANGED <<task, keyRef, pending, processing, acked, issued>>
    BY <1>3 DEF Crash, redis
  <2>2. /\ cur' = [cur EXCEPT ![p] = NoTask] /\ ccur' = [ccur EXCEPT ![p] = NoTask]
        /\ epc' = [epc EXCEPT ![p] = "idle"] /\ ecur' = [ecur EXCEPT ![p] = NoTask]
    BY <1>3 DEF Crash, Forget, CancelReturns
  <2>3. \A t \in Tasks : Unborn(t) => Unborn(t)'
    BY <1>0, <2>1, <2>2, QueueAssumption DEF Unborn, Handed, Listed, TypeOK, WorkerTypes, CancelTypes
  <2> QED
    BY <1>0, <2>1, <2>2, <2>3 DEF Identity, TypeOK, EnqueueTypes
<1>4. CASE UNCHANGED <<task, keyRef, pending, processing, enq, canc, worker>>
  BY <1>0, <1>4 DEF Identity, Unborn, Handed, Listed, enq, canc, worker, IdentityInv
<1> QED
  BY <1>0, <1>1, <1>2, <1>3, <1>4, EnqueueKeepsIdentity
  DEF Next, ExpireLease, ExpireClaimLock, ExpireEnqueueLock, vars, redis, IdentityInv

LEMMA InitIdentity == Init => IdentityInv
<1> SUFFICES ASSUME Init PROVE IdentityInv
  OBVIOUS
<1>1. TypeOK
  BY InitTypes
<1>2. Identity
  BY QueueAssumption DEF Init, Identity, Unborn, Handed, Listed
<1>3. \A p \in Procs : Working(p)
  BY DEF Init, Working
<1> QED
  BY <1>1, <1>2, <1>3 DEF IdentityInv

-----------------------------------------------------------------------------
(* A finished task stays finished unless somebody is about to write it.    *)

LEMMA WorkerKeepsFinal ==
    ASSUME IdentityInv, NEW p \in Procs, ClaimPending(p) \/ Execute(p)
    PROVE  FinalKept
<1>0. /\ WorkerFrame(p) /\ WorkerWrites(p) /\ WorkerReads(p) /\ Working(p)
      /\ TypeOK
      /\ UNCHANGED <<epc, ecur, cpc, ccur>>
  BY ClaimWrites, ExecuteWrites, ClaimFrame, ExecuteFrame DEF IdentityInv, ClaimPending, Execute, enq, canc
<1> SUFFICES ASSUME NEW t \in Tasks, task[t].status \in Terminal, ~StaleWriter(t)
             PROVE  task'[t] = task[t] /\ ~StaleWriter(t)'
  BY DEF FinalKept
<1>1. task'[t] = task[t]
  <2>1. CASE UNCHANGED task
    BY <2>1
  <2>2. CASE pc[p] \in {"save", "startw"}
    <3>1. cur[p] = t => snap[p] = task[t]
      BY <2>2 DEF StaleWriter
    <3>2. cur[p] # t
      BY <1>0, <2>2, <3>1 DEF Working, Live, Terminal
    <3> QED
      BY <1>0, <3>2 DEF WorkerFrame
  <2>3. CASE pc[p] = "finw" /\ task' = [task EXCEPT ![cur[p]] = Finished(p)]
    <3>1. CASE cur[p] # t
      BY <1>0, <3>1 DEF WorkerFrame
    <3>2. CASE cur[p] = t
      <4>1. snap[p] = task[t]
        BY <2>3, <3>2 DEF StaleWriter
      <4>2. Finished(p) = task[t]
        BY <1>0, <2>3, <4>1 DEF Working, Finished, Failed, Live, Terminal
      <4> QED
        BY <1>0, <2>3, <3>2, <4>2 DEF TypeOK, RedisTypes
    <3> QED
      BY <3>1, <3>2
  <2> QED
    BY <1>0, <2>1, <2>2, <2>3 DEF WorkerWrites
<1>2. ASSUME NEW q \in Procs, cur'[q] = t, pc'[q] \in Writing PROVE snap'[q] = task'[t]
  <2>1. CASE q # p
    BY <1>0, <1>1, <1>2, <2>1 DEF WorkerFrame, StaleWriter, Writing
  <2>2. CASE q = p
    BY <1>0, <1>1, <1>2, <2>2 DEF WorkerReads, StaleWriter, Writing
  <2> QED
    BY <2>1, <2>2
<1> QED
  BY <1>0, <1>1, <1>2 DEF StaleWriter, Writing

LEMMA CancelKeepsFinal ==
    ASSUME IdentityInv, NEW p \in Procs, Cancel(p)
    PROVE  FinalKept
<1>0. CancelFrame(p) /\ TypeOK /\ UNCHANGED <<pc, cur, snap, epc, ecur>>
  BY CancelWrites DEF IdentityInv, Cancel, worker, enq
<1> SUFFICES ASSUME NEW t \in Tasks, task[t].status \in Terminal, ~StaleWriter(t)
             PROVE  task'[t] = task[t] /\ ~StaleWriter(t)'
  BY DEF FinalKept
<1>1. task'[t] = task[t]
  <2>1. CASE UNCHANGED task
    BY <2>1
  <2>2. CASE cpc[p] = "cwrite" /\ task' = [task EXCEPT ![ccur[p]] = Cancelled(csnap[p])]
    BY <1>0, <2>2 DEF StaleWriter, TypeOK, RedisTypes
  <2> QED
    BY <1>0, <2>1, <2>2 DEF CancelFrame
<1>2. \A q \in Procs : ~(ccur'[q] = t /\ cpc'[q] = "cwrite")
  BY <1>0 DEF CancelFrame, StaleWriter, Live, Terminal
<1> QED
  BY <1>0, <1>1, <1>2 DEF StaleWriter

LEMMA EnqueueKeepsFinal ==
    ASSUME IdentityInv, NEW p \in Procs, Enqueue(p)
    PROVE  FinalKept
<1>0. TypeOK /\ Identity /\ UNCHANGED <<pc, cur, snap, cpc, ccur>>
  BY DEF IdentityInv, Enqueue, worker, canc
<1> SUFFICES ASSUME NEW t \in Tasks, task[t].status \in Terminal, ~StaleWriter(t)
             PROVE  task'[t] = task[t] /\ ~StaleWriter(t)'
  BY DEF FinalKept
<1>1. task'[t] = task[t]
  BY <1>0 DEF Enqueue, EnqueueLock, EnqueueCheck, EnqueueSave, EnqueueKey, EnqueuePush, EnqueueFault,
              EnqueueWithdraw, EnqueueUnlock, StaleWriter, TypeOK, RedisTypes
<1>2. ~Unborn(t)
  BY DEF Unborn, Absent, Terminal
<1>3. ASSUME NEW q \in Procs, ecur'[q] = t PROVE epc'[q] \notin {"store", "index", "append", "withdraw"}
  <2>1. epc[q] = "lookup" => ecur[q] # t
    BY <1>0, <1>2 DEF Identity
  <2>2. epc[q] \in {"store", "index", "append", "withdraw"} => ecur[q] # t
    BY DEF StaleWriter
  <2> QED
    BY <1>0, <1>3, <2>1, <2>2
    DEF Enqueue, EnqueueLock, EnqueueCheck, EnqueueSave, EnqueueKey, EnqueuePush, EnqueueFault,
        EnqueueWithdraw, EnqueueUnlock, TypeOK, EnqueueTypes
<1> QED
  BY <1>0, <1>1, <1>3 DEF StaleWriter

(* Once a task is finished and nobody is in the middle of writing it, no   *)
(* claim, failure, call of Cancel or call of Enqueue that begins later     *)
(* changes it: whatever crashes, fails, stalls or is cancelled.            *)
THEOREM FinalForGood == Spec => FinalOnceQuiet
<1>1. IdentityInv /\ [Next]_vars => [FinalKept]_vars
  <2> SUFFICES ASSUME IdentityInv, Next PROVE FinalKept
    OBVIOUS
  <2>1. ASSUME NEW p \in Procs, Crash(p) PROVE FinalKept
    <3>1. UNCHANGED task /\ TypeOK
      BY <2>1 DEF Crash, redis, IdentityInv
    <3>2. /\ pc' = [pc EXCEPT ![p] = "idle"] /\ cur' = [cur EXCEPT ![p] = NoTask]
          /\ snap' = [snap EXCEPT ![p] = Absent]
          /\ cpc' = [cpc EXCEPT ![p] = "idle"] /\ ccur' = [ccur EXCEPT ![p] = NoTask]
          /\ epc' = [epc EXCEPT ![p] = "idle"] /\ ecur' = [ecur EXCEPT ![p] = NoTask]
      BY <2>1 DEF Crash, Forget, Goto, CancelReturns
    <3> QED
      BY <3>1, <3>2 DEF FinalKept, StaleWriter, TypeOK, WorkerTypes, CancelTypes, EnqueueTypes
  <2>2. CASE UNCHANGED <<task, worker, canc, enq>>
    BY <2>2 DEF FinalKept, StaleWriter, worker, canc, enq
  <2> QED
    BY <2>1, <2>2, WorkerKeepsFinal, CancelKeepsFinal, EnqueueKeepsFinal
    DEF Next, ExpireLease, ExpireClaimLock, ExpireEnqueueLock
<1> QED
  BY <1>1, InitIdentity, NextKeepsIdentity, PTL DEF Spec, FinalOnceQuiet

-----------------------------------------------------------------------------
(* Attempts are counted: in the store and in every copy.                   *)

Counted(r) ==
    /\ r.status = "dead_letter" => r.attempts = MaxAttempts
    /\ r.status \in Live => r.attempts < MaxAttempts
    /\ r.status = "absent" => r.attempts = 0

CountedInv ==
    /\ TypeOK
    /\ \A p \in Procs : Working(p) /\ Counted(snap[p]) /\ Counted(csnap[p])
    /\ \A t \in Tasks : Counted(task[t])

LEMMA AbsentCounted == Counted(Absent)
BY DEF Absent, Counted, Live

LEMMA StartedCounted ==
    ASSUME NEW r \in TaskRecord, Counted(r), r.status \notin Terminal PROVE Counted(Started(r))
BY QueueAssumption DEF Counted, Started, TaskRecord, Status, Live, Terminal

LEMMA FinishedCounted ==
    ASSUME NEW r \in TaskRecord, Counted(r), r.status # "absent"
    PROVE  Counted(Completed(r)) /\ Counted(Cancelled(r)) /\ Counted(Failed(r))
<1>1. Counted(Completed(r)) /\ Counted(Cancelled(r))
  BY DEF Counted, Completed, Cancelled, TaskRecord, Live
<1>2. CASE r.status \in Terminal
  BY <1>1, <1>2 DEF Failed
<1>3. CASE r.status \in Live
  BY <1>1, <1>3, QueueAssumption DEF Failed, Counted, TaskRecord, Live, Terminal
<1> QED
  BY <1>2, <1>3 DEF TaskRecord, Status

LEMMA NextKeepsCounted == ASSUME CountedInv, [Next]_vars PROVE CountedInv'
<1>0. TypeOK' /\ (\A p \in Procs : Working(p)') /\ TypeOK
  BY NextKeepsTypes, WorkersStayReady DEF CountedInv
<1> SUFFICES /\ \A t \in Tasks : Counted(task[t])'
             /\ \A q \in Procs : Counted(snap[q])' /\ Counted(csnap[q])'
  BY <1>0 DEF CountedInv
<1>1. ASSUME NEW p \in Procs, ClaimPending(p) \/ Execute(p)
      PROVE  /\ \A t \in Tasks : Counted(task[t])'
             /\ \A q \in Procs : Counted(snap[q])' /\ Counted(csnap[q])'
  <2>1. WorkerFrame(p) /\ WorkerWrites(p) /\ WorkerReads(p) /\ UNCHANGED csnap /\ Working(p)
    BY <1>0, <1>1, ClaimWrites, ExecuteWrites, ClaimFrame, ExecuteFrame DEF ClaimPending, Execute, canc, CountedInv
  <2>2. snap[p] \in TaskRecord /\ Counted(snap[p]) /\ (pc[p] \notin {"idle", "rotate"} => cur[p] \in Tasks)
    BY <1>0 DEF CountedInv, TypeOK, WorkerTypes
  <2>3. ASSUME NEW t \in Tasks PROVE Counted(task'[t])
    <3>1. CASE UNCHANGED task
      BY <3>1 DEF CountedInv
    <3>2. CASE pc[p] \in {"save", "startw"} /\ task' = [task EXCEPT ![cur[p]] = Started(snap[p])]
      <4>1. Counted(Started(snap[p]))
        BY <2>1, <2>2, <3>2, StartedCounted DEF Working, Live, Terminal
      <4> QED
        BY <1>0, <3>2, <4>1 DEF CountedInv, TypeOK, RedisTypes
    <3>3. CASE pc[p] = "finw" /\ task' = [task EXCEPT ![cur[p]] = Finished(p)]
      <4>1. Counted(Finished(p))
        BY <2>1, <2>2, <3>3, FinishedCounted DEF Working, Finished
      <4> QED
        BY <1>0, <3>3, <4>1 DEF CountedInv, TypeOK, RedisTypes
    <3> QED
      BY <2>1, <3>1, <3>2, <3>3 DEF WorkerWrites
  <2>4. ASSUME NEW q \in Procs PROVE Counted(snap'[q])
    BY <2>1, AbsentCounted DEF WorkerFrame, WorkerReads, CountedInv
  <2> QED
    BY <2>1, <2>3, <2>4 DEF CountedInv
<1>2. ASSUME NEW p \in Procs, Cancel(p)
      PROVE  /\ \A t \in Tasks : Counted(task[t])'
             /\ \A q \in Procs : Counted(snap[q])' /\ Counted(csnap[q])'
  <2>1. CancelFrame(p) /\ UNCHANGED snap
    BY <1>0, <1>2, CancelWrites DEF Cancel, worker
  <2>2. \A t \in Tasks : Counted(task'[t])
    <3>1. csnap[p] \in TaskRecord /\ Counted(csnap[p])
      BY <1>0 DEF CountedInv, TypeOK, CancelTypes
    <3>2. Counted(Cancelled(csnap[p]))
      BY <3>1 DEF Counted, Cancelled, TaskRecord, Live
    <3> QED
      BY <1>0, <2>1, <3>2 DEF CancelFrame, CountedInv, TypeOK, RedisTypes
  <2> QED
    BY <2>1, <2>2, AbsentCounted DEF CancelFrame, CountedInv
<1>3. ASSUME NEW p \in Procs, Enqueue(p)
      PROVE  /\ \A t \in Tasks : Counted(task[t])'
             /\ \A q \in Procs : Counted(snap[q])' /\ Counted(csnap[q])'
  <2>1. Counted([status |-> "pending", attempts |-> 0])
    BY QueueAssumption DEF Counted, Live
  <2>2. UNCHANGED <<snap, csnap>>
    BY <1>3 DEF Enqueue, worker, canc
  <2>3. \E r : (r = Absent \/ r = [status |-> "pending", attempts |-> 0]) /\ (UNCHANGED task \/ task' = [task EXCEPT ![ecur[p]] = r])
    BY <1>3 DEF Enqueue, EnqueueLock, EnqueueCheck, EnqueueSave, EnqueueKey, EnqueuePush, EnqueueFault,
                EnqueueWithdraw, EnqueueUnlock
  <2> QED
    BY <1>0, <2>1, <2>2, <2>3, AbsentCounted DEF CountedInv, TypeOK, RedisTypes
<1>4. ASSUME NEW p \in Procs, Crash(p)
      PROVE  /\ \A t \in Tasks : Counted(task[t])'
             /\ \A q \in Procs : Counted(snap[q])' /\ Counted(csnap[q])'
  BY <1>0, <1>4, AbsentCounted DEF Crash, redis, Forget, CancelReturns, CountedInv, TypeOK, WorkerTypes, CancelTypes
<1>5. CASE UNCHANGED <<task, worker, canc>>
  BY <1>5 DEF CountedInv, worker, canc
<1> QED
  BY <1>1, <1>2, <1>3, <1>4, <1>5 DEF Next, ExpireLease, ExpireClaimLock, ExpireEnqueueLock, vars, redis

(* A task is dead-lettered by its last attempt, not earlier, and is never  *)
(* open with its attempts used up: the third part of TasksHold, whatever   *)
(* crashes, fails, stalls or is cancelled.                                 *)
THEOREM CountedOnce == Spec => []AttemptsCounted
<1>1. Init => CountedInv
  <2> SUFFICES ASSUME Init PROVE CountedInv
    OBVIOUS
  <2> QED
    BY InitTypes, AbsentCounted DEF Init, CountedInv, Working
<1>2. CountedInv => AttemptsCounted
  BY DEF CountedInv, Counted, AttemptsCounted
<1> QED
  BY <1>1, <1>2, NextKeepsCounted, PTL DEF Spec

-----------------------------------------------------------------------------
(* Attempts are never lost, where the claim is exclusive.                  *)

(* A worker about to write knows the task as it is, unless the call of     *)
(* Enqueue that stored it has withdrawn it.                                *)
CurrentCopy(p) == pc[p] \in Writing => snap[p] = task[cur[p]] \/ task[cur[p]] = Absent

AttemptsInv == ExclusionInv /\ IdentityInv /\ \A p \in Procs : CurrentCopy(p)

LEMMA OneWriter ==
    ASSUME ExclusionInv, NEW p \in Procs, NEW q \in Procs, cur[p] = cur[q],
           pc[p] \in {"save", "startw", "finw"}, pc[q] \in Writing \cup {"after"}
    PROVE  p = q
<1>1. own[p] # 0 /\ lease[cur[p]] = own[p]
  BY DEF ExclusionInv, Sound, ClaimRemembered, LeaseHeld, HoldsLease, Holding, Executing
<1>2. pc[q] # "lease"
  BY <1>1 DEF ExclusionInv, Sound, LeaseHeld
<1>3. own[q] # 0 /\ lease[cur[q]] = own[q]
  BY <1>2 DEF ExclusionInv, Sound, ClaimRemembered, LeaseHeld, HoldsLease, Holding, Executing, Writing
<1> QED
  BY <1>1, <1>3 DEF ExclusionInv, TokensUnique

(* What Enqueue does to the tasks. *)
EnqueueWrites(p) ==
    \/ UNCHANGED task
    \/ epc[p] = "store" /\ task' = [task EXCEPT ![ecur[p]] = [status |-> "pending", attempts |-> 0]]
    \/ epc[p] = "withdraw" /\ task' = [task EXCEPT ![ecur[p]] = Absent]

LEMMA EnqueueWritten == ASSUME NEW p \in Procs, Enqueue(p) PROVE EnqueueWrites(p)
BY DEF EnqueueWrites, Enqueue, EnqueueLock, EnqueueCheck, EnqueueSave, EnqueueKey, EnqueuePush, EnqueueFault,
       EnqueueWithdraw, EnqueueUnlock

LEMMA NextKeepsAttemptsInv == ASSUME Exact, AttemptsInv, [Next]_vars PROVE AttemptsInv'
<1>0. ExclusionInv' /\ IdentityInv' /\ ExclusionInv /\ TypeOK /\ Identity
  BY NextExcludes, NextKeepsIdentity DEF AttemptsInv, IdentityInv
<1> SUFFICES ASSUME NEW q \in Procs, pc'[q] \in Writing
             PROVE  snap'[q] = task'[cur'[q]] \/ task'[cur'[q]] = Absent
  BY <1>0 DEF AttemptsInv, CurrentCopy
<1>1. ASSUME NEW p \in Procs, ClaimPending(p) \/ Execute(p)
      PROVE  snap'[q] = task'[cur'[q]] \/ task'[cur'[q]] = Absent
  <2>0. WorkerFrame(p) /\ WorkerWrites(p) /\ WorkerReads(p)
    BY <1>0, <1>1, ClaimWrites, ExecuteWrites, ClaimFrame, ExecuteFrame DEF AttemptsInv, IdentityInv
  <2>1. CASE q = p
    BY <2>0, <2>1 DEF WorkerReads, AttemptsInv, CurrentCopy, Writing
  <2>2. CASE q # p
    <3>1. pc[q] \in Writing /\ cur[q] \in Tasks /\ cur'[q] = cur[q] /\ snap'[q] = snap[q]
      BY <1>0, <2>0, <2>2 DEF WorkerFrame, Writing, TypeOK, WorkerTypes
    <3>2. task'[cur[q]] = task[cur[q]]
      BY <1>0, <2>0, <2>2, <3>1, OneWriter DEF WorkerFrame, WorkerWrites
    <3> QED
      BY <3>1, <3>2 DEF AttemptsInv, CurrentCopy
  <2> QED
    BY <2>1, <2>2
<1>2. ASSUME NEW p \in Procs, Enqueue(p)
      PROVE  snap'[q] = task'[cur'[q]] \/ task'[cur'[q]] = Absent
  <2>1. UNCHANGED worker /\ EnqueueWrites(p)
    BY <1>2, EnqueueWritten DEF Enqueue
  <2>2. epc[p] = "store" => cur[q] # ecur[p]
    BY <1>0 DEF Identity, Unborn, Handed
  <2> QED
    BY <1>0, <2>1, <2>2 DEF EnqueueWrites, AttemptsInv, CurrentCopy, worker, TypeOK, RedisTypes, WorkerTypes, Writing
<1>3. ASSUME NEW p \in Procs, Cancel(p) PROVE FALSE
  BY <1>3 DEF Cancel, Exact
<1>4. ASSUME NEW p \in Procs, Crash(p)
      PROVE  snap'[q] = task'[cur'[q]] \/ task'[cur'[q]] = Absent
  BY <1>0, <1>4 DEF Crash, redis, Forget, Goto, AttemptsInv, CurrentCopy, Writing, TypeOK, WorkerTypes
<1>5. CASE UNCHANGED <<task, worker>>
  BY <1>5 DEF AttemptsInv, CurrentCopy, worker
<1> QED
  BY <1>1, <1>2, <1>3, <1>4, <1>5 DEF Next, ExpireLease, ExpireClaimLock, ExpireEnqueueLock, vars, redis

LEMMA InitAttempts == Init => AttemptsInv
<1> SUFFICES ASSUME Init PROVE AttemptsInv
  OBVIOUS
<1>1. ExclusionInv
  BY InitExcludes
<1>2. IdentityInv
  BY InitIdentity
<1> QED
  BY <1>1, <1>2 DEF Init, AttemptsInv, CurrentCopy, Writing

LEMMA MoreAttempts ==
    ASSUME NEW r \in TaskRecord
    PROVE  /\ r.attempts <= Started(r).attempts /\ r.attempts <= Completed(r).attempts
           /\ r.attempts <= Cancelled(r).attempts /\ r.attempts <= Failed(r).attempts
BY DEF TaskRecord, Started, Completed, Cancelled, Failed

AttemptsKept == \A t \in Tasks : task[t].attempts <= task'[t].attempts \/ task'[t] = Absent

LEMMA NextKeepsAttempts == ASSUME Exact, AttemptsInv, [Next]_vars PROVE AttemptsKept
<1>0. TypeOK /\ Identity /\ task \in [Tasks -> TaskRecord]
  BY DEF AttemptsInv, IdentityInv, TypeOK, RedisTypes
<1>1. CASE UNCHANGED task
  BY <1>0, <1>1 DEF AttemptsKept, TaskRecord
<1>2. ASSUME NEW p \in Procs, ClaimPending(p) \/ Execute(p) PROVE AttemptsKept
  <2>0. WorkerWrites(p) /\ snap[p] \in TaskRecord /\ CurrentCopy(p)
    BY <1>0, <1>2, ClaimWrites, ExecuteWrites DEF AttemptsInv, IdentityInv, TypeOK, WorkerTypes
  <2> SUFFICES ASSUME NEW r, task' = [task EXCEPT ![cur[p]] = r], pc[p] \in Writing,
                      r.attempts \in Nat, snap[p].attempts <= r.attempts
               PROVE  AttemptsKept
    <3>1. CASE pc[p] \in {"save", "startw"} /\ task' = [task EXCEPT ![cur[p]] = Started(snap[p])]
      <4>1. Started(snap[p]) \in TaskRecord /\ snap[p].attempts <= Started(snap[p]).attempts
        BY <2>0, MoreAttempts, Records
      <4> QED
        BY <3>1, <4>1 DEF TaskRecord, Writing
    <3>2. CASE pc[p] = "finw" /\ task' = [task EXCEPT ![cur[p]] = Finished(p)]
      <4>1. Finished(p) \in TaskRecord /\ snap[p].attempts <= Finished(p).attempts
        BY <2>0, MoreAttempts, Records DEF Finished
      <4> QED
        BY <3>2, <4>1 DEF TaskRecord, Writing
    <3> QED
      BY <1>1, <2>0, <3>1, <3>2 DEF WorkerWrites
  <2>1. cur[p] \in Tasks
    BY <1>0 DEF TypeOK, WorkerTypes, Writing
  <2>2. task[cur[p]].attempts <= r.attempts
    BY <1>0, <2>0, <2>1 DEF CurrentCopy, Absent, TaskRecord
  <2> QED
    BY <1>0, <2>1, <2>2 DEF AttemptsKept, TaskRecord
<1>3. ASSUME NEW p \in Procs, Enqueue(p) PROVE AttemptsKept
  <2>1. EnqueueWrites(p) /\ (epc[p] = "store" => task[ecur[p]] = Absent)
    BY <1>0, <1>3, EnqueueWritten DEF Identity, Unborn
  <2> QED
    BY <1>0, <2>1 DEF EnqueueWrites, AttemptsKept, Absent, TaskRecord
<1>4. ASSUME NEW p \in Procs, Cancel(p) PROVE FALSE
  BY <1>4 DEF Cancel, Exact
<1> QED
  BY <1>1, <1>2, <1>3, <1>4 DEF Next, Crash, ExpireLease, ExpireClaimLock, ExpireEnqueueLock, vars, redis

(* No failed attempt is forgotten by a claim, a start or a failure that    *)
(* writes an older copy: for any number of workers and tasks, with crashes *)
(* anywhere and failed commands anywhere but at the SET of a lease.        *)
THEOREM AttemptsStay == ASSUME Exact PROVE Spec => AttemptsNeverLost
<1>1. AttemptsInv /\ [Next]_vars => [AttemptsKept]_vars
  BY NextKeepsAttempts
<1>2. AttemptsInv /\ [Next]_vars => AttemptsInv'
  BY NextKeepsAttemptsInv
<1> QED
  BY <1>1, <1>2, InitAttempts, PTL DEF Spec, AttemptsNeverLost, AttemptsKept

-----------------------------------------------------------------------------
(* The queue implements the contract.                                      *)

(* Besides, a task is not pushed by an Enqueue that goes on to withdraw it.*)
Faithful == Exact /\ "expire" \notin FaultPoints

(* A call of Enqueue has its key to itself, and its task until it is       *)
(* pushed.                                                                 *)
Enqueuing(p) ==
    /\ epc[p] # "idle" => enqueueLock[KeyOf[ecur[p]]] = p
    /\ epc[p] \in {"index", "append", "withdraw"} =>
         /\ task[ecur[p]] = [status |-> "pending", attempts |-> 0]
         /\ ecur[p] \notin acked
         /\ ~Handed(ecur[p])

(* A task in a list, in the hands of a worker or accepted is stored, and a *)
(* key stands for a task of its own.                                       *)
Known ==
    /\ \A t \in Tasks : Handed(t) \/ t \in acked => task[t].status # "absent"
    /\ \A k \in Keys : keyRef[k] \in Tasks => KeyOf[keyRef[k]] = k

ContractInv == AttemptsInv /\ Known /\ \A p \in Procs : Enqueuing(p)

LEMMA PendingRecord == [status |-> "pending", attempts |-> 0] # Absent
BY DEF Absent

LEMMA WrittenPresent ==
    ASSUME NEW p \in Procs, Working(p), snap[p] \in TaskRecord
    PROVE  /\ Started(snap[p]).status # "absent"
           /\ pc[p] = "finw" => Finished(p).status # "absent"
BY DEF Started, Finished, Working, Completed, Cancelled, Failed, TaskRecord

LEMMA WorkerKeepsContract ==
    ASSUME ContractInv, NEW p \in Procs, ClaimPending(p) \/ Execute(p)
    PROVE  Known' /\ \A q \in Procs : Enqueuing(q)'
<1>0. /\ WorkerFrame(p) /\ WorkerWrites(p) /\ TypeOK /\ Working(p)
      /\ snap[p] \in TaskRecord /\ UNCHANGED <<enq, keyRef, enqueueLock>>
  BY ClaimWrites, ExecuteWrites, ClaimFrame, ExecuteFrame
  DEF ContractInv, AttemptsInv, IdentityInv, TypeOK, WorkerTypes, ClaimPending, Execute
<1>1. ASSUME NEW t \in Tasks PROVE Handed(t)' => Handed(t)
  BY <1>0 DEF WorkerFrame, Handed
<1>2. ASSUME NEW t \in Tasks, task[t].status # "absent" PROVE task'[t].status # "absent"
  BY <1>0, <1>2, WrittenPresent DEF WorkerWrites, TypeOK, RedisTypes
<1>3. Known'
  BY <1>0, <1>1, <1>2 DEF ContractInv, Known, enq
<1>4. ASSUME NEW q \in Procs PROVE Enqueuing(q)'
  <2>1. ecur[q] \in Tasks \/ epc[q] = "idle"
    BY <1>0 DEF TypeOK, EnqueueTypes
  <2>2. ASSUME epc[q] \in {"index", "append", "withdraw"} PROVE task'[ecur[q]] = task[ecur[q]] /\ ~Handed(ecur[q])'
    <3>1. cur[p] # ecur[q] /\ ~Handed(ecur[q])
      BY <2>2 DEF ContractInv, Enqueuing, Handed
    <3> QED
      BY <1>0, <1>1, <2>1, <2>2, <3>1 DEF WorkerFrame, enq
  <2> QED
    BY <1>0, <2>2 DEF ContractInv, Enqueuing, enq
<1> QED
  BY <1>3, <1>4

LEMMA EnqueueKeepsContract ==
    ASSUME Faithful, ContractInv, NEW p \in Procs, Enqueue(p)
    PROVE  Known' /\ \A q \in Procs : Enqueuing(q)'
<1>0. /\ UNCHANGED <<cur, processing>> /\ TypeOK /\ Identity /\ QueueAssumption
      /\ ecur[p] \in Tasks \/ epc[p] = "idle"
  BY QueueAssumption DEF Enqueue, worker, ContractInv, AttemptsInv, IdentityInv, TypeOK, EnqueueTypes
<1>a. ASSUME NEW q \in Procs, q # p, epc[p] # "idle", epc[q] # "idle" PROVE KeyOf[ecur[q]] # KeyOf[ecur[p]] /\ ecur[q] # ecur[p]
  BY <1>a DEF ContractInv, Enqueuing
<1>b. ASSUME NEW q \in Procs, q # p PROVE epc'[q] = epc[q] /\ ecur'[q] = ecur[q]
  BY <1>0, <1>b DEF Enqueue, EnqueueLock, EnqueueCheck, EnqueueSave, EnqueueKey, EnqueuePush, EnqueueFault,
       EnqueueWithdraw, EnqueueUnlock, TypeOK, EnqueueTypes
<1>c. ASSUME NEW q \in Procs PROVE ecur[q] \in Tasks \/ epc[q] = "idle"
  BY <1>0 DEF TypeOK, EnqueueTypes
<1>1. ASSUME NEW t \in Tasks, EnqueueLock(p, t) PROVE Known' /\ \A q \in Procs : Enqueuing(q)'
  <2>1. UNCHANGED <<task, keyRef, pending, acked>> /\ epc'[p] = "lookup" /\ ecur'[p] = t
    BY <1>0, <1>1 DEF EnqueueLock, TypeOK, EnqueueTypes
  <2>2. Known'
    BY <1>0, <2>1 DEF ContractInv, Known, Handed, Listed
  <2>3. enqueueLock'[KeyOf[t]] = p /\ \A q \in Procs \ {p} : epc[q] # "idle" => enqueueLock'[KeyOf[ecur[q]]] = q
    BY <1>0, <1>1, <1>c DEF EnqueueLock, ContractInv, Enqueuing, TypeOK, RedisTypes
  <2>4. ASSUME NEW q \in Procs PROVE Enqueuing(q)'
    BY <1>0, <1>b, <2>1, <2>3 DEF ContractInv, Enqueuing, Handed, Listed
  <2> QED
    BY <2>2, <2>4
<1>2. CASE EnqueueCheck(p)
  <2>1. UNCHANGED <<task, keyRef, pending, enqueueLock, ecur>> /\ epc[p] = "lookup" /\ epc'[p] \in {"release", "store"}
    BY <1>0, <1>2 DEF EnqueueCheck, TypeOK, EnqueueTypes
  <2>2. ASSUME NEW t \in Tasks, t \in acked' \ acked
        PROVE  t = keyRef[KeyOf[ecur[p]]] /\ task[t].status # "absent"
    BY <1>2, <2>2 DEF EnqueueCheck
  <2>3. Known'
    BY <1>0, <2>1, <2>2 DEF ContractInv, Known, Handed, Listed
  <2>4. ASSUME NEW q \in Procs, q # p, epc[q] # "idle", ecur[q] \notin acked PROVE ecur[q] \notin acked'
    <3>1. ecur[q] # keyRef[KeyOf[ecur[p]]]
      BY <1>0, <1>a, <1>c, <2>1, <2>4 DEF ContractInv, Known
    <3> QED
      BY <1>c, <2>2, <2>4, <3>1
  <2>5. ASSUME NEW q \in Procs PROVE Enqueuing(q)'
    BY <1>0, <1>b, <2>1, <2>4 DEF ContractInv, Enqueuing, Handed, Listed
  <2> QED
    BY <2>3, <2>5
<1>3. CASE EnqueueSave(p)
  <2>1. /\ UNCHANGED <<keyRef, pending, enqueueLock, ecur, acked>> /\ epc[p] = "store" /\ epc'[p] = "index"
        /\ task' = [task EXCEPT ![ecur[p]] = [status |-> "pending", attempts |-> 0]]
    BY <1>0, <1>3 DEF EnqueueSave, TypeOK, EnqueueTypes
  <2>2. Unborn(ecur[p])
    BY <1>0, <2>1 DEF Identity
  <2>3. Known'
    BY <1>0, <2>1 DEF ContractInv, Known, Handed, Listed, TypeOK, RedisTypes
  <2>4. ASSUME NEW q \in Procs PROVE Enqueuing(q)'
    BY <1>0, <1>a, <1>b, <1>c, <2>1, <2>2 DEF ContractInv, Enqueuing, Handed, Listed, Unborn, TypeOK, RedisTypes
  <2> QED
    BY <2>3, <2>4
<1>4. CASE EnqueueKey(p)
  <2>1. /\ UNCHANGED <<task, pending, enqueueLock, ecur, acked>> /\ epc[p] = "index" /\ epc'[p] = "append"
        /\ keyRef' = [keyRef EXCEPT ![KeyOf[ecur[p]]] = ecur[p]]
    BY <1>0, <1>4 DEF EnqueueKey, TypeOK, EnqueueTypes
  <2>2. Known'
    BY <1>0, <2>1 DEF ContractInv, Known, Handed, Listed, TypeOK, RedisTypes
  <2>3. ASSUME NEW q \in Procs PROVE Enqueuing(q)'
    BY <1>0, <1>b, <2>1 DEF ContractInv, Enqueuing, Handed, Listed
  <2> QED
    BY <2>2, <2>3
<1>5. CASE EnqueuePush(p)
  <2>1. /\ UNCHANGED <<task, keyRef, enqueueLock, ecur>> /\ epc[p] = "append" /\ epc'[p] = "release"
        /\ pending' = [pending EXCEPT ![ecur[p]] = pending[ecur[p]] + 1] /\ acked' = acked \cup {ecur[p]}
    BY <1>0, <1>5 DEF EnqueuePush, TypeOK, EnqueueTypes
  <2>2. task[ecur[p]].status # "absent"
    BY <2>1 DEF ContractInv, Enqueuing
  <2>3. ASSUME NEW t \in Tasks, t # ecur[p] PROVE (Handed(t)' <=> Handed(t)) /\ (t \in acked' <=> t \in acked)
    BY <1>0, <2>1, <2>3 DEF Handed, Listed, TypeOK, RedisTypes
  <2>4. Known'
    BY <1>0, <2>1, <2>2, <2>3 DEF ContractInv, Known
  <2>5. ASSUME NEW q \in Procs PROVE Enqueuing(q)'
    BY <1>0, <1>a, <1>b, <1>c, <2>1, <2>3 DEF ContractInv, Enqueuing
  <2> QED
    BY <2>4, <2>5
<1>6. CASE EnqueueFault(p)
  <2>1. UNCHANGED <<task, keyRef, pending, enqueueLock, ecur, acked>> /\ epc[p] # "idle"
    BY <1>6 DEF EnqueueFault, Faithful
  <2>2. epc'[p] = "withdraw" => epc[p] \in {"index", "append"}
    BY <1>0, <1>6 DEF EnqueueFault, TypeOK, EnqueueTypes
  <2>3. epc'[p] \in {"store", "release", "withdraw"}
    BY <1>0, <1>6 DEF EnqueueFault, TypeOK, EnqueueTypes
  <2>4. Known'
    BY <1>0, <2>1 DEF ContractInv, Known, Handed, Listed
  <2>5. ASSUME NEW q \in Procs PROVE Enqueuing(q)'
    BY <1>0, <1>b, <2>1, <2>2, <2>3 DEF ContractInv, Enqueuing, Handed, Listed
  <2> QED
    BY <2>4, <2>5
<1>7. CASE EnqueueWithdraw(p)
  <2>1. /\ UNCHANGED <<keyRef, pending, enqueueLock, ecur, acked>> /\ epc[p] = "withdraw" /\ epc'[p] = "release"
        /\ task' = [task EXCEPT ![ecur[p]] = Absent]
    BY <1>0, <1>7 DEF EnqueueWithdraw, TypeOK, EnqueueTypes
  <2>2. ecur[p] \notin acked /\ ~Handed(ecur[p])
    BY <2>1 DEF ContractInv, Enqueuing
  <2>3. Known'
    BY <1>0, <2>1, <2>2 DEF ContractInv, Known, Handed, Listed, TypeOK, RedisTypes
  <2>4. ASSUME NEW q \in Procs PROVE Enqueuing(q)'
    BY <1>0, <1>a, <1>b, <1>c, <2>1 DEF ContractInv, Enqueuing, Handed, Listed, TypeOK, RedisTypes
  <2> QED
    BY <2>3, <2>4
<1>8. CASE EnqueueUnlock(p)
  <2>1. UNCHANGED <<task, keyRef, pending, acked>> /\ epc[p] # "idle" /\ epc'[p] = "idle"
    BY <1>0, <1>8 DEF EnqueueUnlock, TypeOK, EnqueueTypes
  <2>2. \A k \in Keys : k # KeyOf[ecur[p]] => enqueueLock'[k] = enqueueLock[k]
    BY <1>0, <1>8 DEF EnqueueUnlock, TypeOK, RedisTypes
  <2>3. Known'
    BY <1>0, <2>1 DEF ContractInv, Known, Handed, Listed
  <2>4. ASSUME NEW q \in Procs PROVE Enqueuing(q)'
    BY <1>0, <1>a, <1>b, <1>c, <2>1, <2>2 DEF ContractInv, Enqueuing, Handed, Listed
  <2> QED
    BY <2>3, <2>4
<1> QED
  BY <1>1, <1>2, <1>3, <1>4, <1>5, <1>6, <1>7, <1>8 DEF Enqueue

LEMMA NextKeepsContract == ASSUME Faithful, ContractInv, [Next]_vars PROVE ContractInv'
<1>0. AttemptsInv' /\ TypeOK
  BY NextKeepsAttemptsInv DEF Faithful, ContractInv, AttemptsInv, IdentityInv
<1>1. ASSUME NEW p \in Procs, Cancel(p) PROVE FALSE
  BY <1>1 DEF Cancel, Faithful, Exact
<1>2. ASSUME NEW p \in Procs, Crash(p) PROVE ContractInv'
  <2>1. UNCHANGED <<task, keyRef, pending, processing, enqueueLock, acked>>
    BY <1>2 DEF Crash, redis
  <2>2. /\ cur' = [cur EXCEPT ![p] = NoTask]
        /\ epc' = [epc EXCEPT ![p] = "idle"] /\ ecur' = [ecur EXCEPT ![p] = NoTask]
    BY <1>2 DEF Crash, Forget
  <2>3. \A t \in Tasks : Handed(t)' => Handed(t)
    BY <1>0, <2>1, <2>2, QueueAssumption DEF Handed, Listed, TypeOK, WorkerTypes
  <2>4. Known'
    BY <2>1, <2>3 DEF ContractInv, Known
  <2>5. ASSUME NEW q \in Procs PROVE Enqueuing(q)'
    BY <1>0, <2>1, <2>2, <2>3 DEF ContractInv, Enqueuing, TypeOK, EnqueueTypes
  <2> QED
    BY <1>0, <2>4, <2>5 DEF ContractInv
<1>3. ASSUME NEW k \in Keys, ExpireEnqueueLock(k) PROVE ContractInv'
  <2>1. /\ UNCHANGED <<task, keyRef, pending, processing, cur, epc, ecur, acked>>
        /\ enqueueLock' = [enqueueLock EXCEPT ![k] = NoProc]
    BY <1>3 DEF ExpireEnqueueLock, worker, enq
  <2>2. ASSUME NEW q \in Procs, epc[q] # "idle", enqueueLock[KeyOf[ecur[q]]] = q PROVE KeyOf[ecur[q]] # k
    BY <1>3, <2>2 DEF ExpireEnqueueLock, TimesOut, Faithful, Exact
  <2>3. Known'
    BY <2>1 DEF ContractInv, Known, Handed, Listed
  <2>4. ASSUME NEW q \in Procs PROVE Enqueuing(q)'
    BY <1>0, <2>1, <2>2, QueueAssumption DEF ContractInv, Enqueuing, Handed, Listed, TypeOK, RedisTypes, EnqueueTypes
  <2> QED
    BY <1>0, <2>3, <2>4 DEF ContractInv
<1>4. CASE UNCHANGED <<task, keyRef, pending, processing, enqueueLock, worker, enq>>
  BY <1>0, <1>4 DEF ContractInv, Known, Enqueuing, Handed, Listed, worker, enq
<1> QED
  BY <1>0, <1>1, <1>2, <1>3, <1>4, WorkerKeepsContract, EnqueueKeepsContract
  DEF Next, ExpireLease, ExpireClaimLock, vars, redis, ContractInv

LEMMA WorkerStepAllowed ==
    ASSUME Faithful, ContractInv, NEW p \in Procs, ClaimPending(p) \/ Execute(p)
    PROVE  [Contract!JobNext]_(Contract!jobVars)
<1>0. /\ WorkerWrites(p) /\ TypeOK /\ Working(p) /\ CurrentCopy(p) /\ UNCHANGED acked
      /\ task \in [Tasks -> TaskRecord]
  BY ClaimWrites, ExecuteWrites
  DEF ContractInv, AttemptsInv, IdentityInv, TypeOK, RedisTypes, ClaimPending, Execute, enq
<1>1. CASE UNCHANGED task
  BY <1>0, <1>1 DEF Contract!jobVars
<1>a. ASSUME pc[p] \in {"save", "startw", "finw"} PROVE cur[p] \in Tasks /\ snap[p] = task[cur[p]] /\ task[cur[p]].status # "absent"
  <2>1. cur[p] \in Tasks
    BY <1>0, <1>a DEF TypeOK, WorkerTypes
  <2>2. task[cur[p]].status # "absent"
    BY <2>1 DEF ContractInv, Known, Handed
  <2> QED
    BY <1>0, <1>a, <2>1, <2>2 DEF CurrentCopy, Writing, Absent
<1>2. CASE pc[p] \in {"save", "startw"} /\ task' = [task EXCEPT ![cur[p]] = Started(snap[p])]
  <2>1. snap[p].status \in Live
    BY <1>0, <1>2, <1>a DEF Working, TaskRecord, Status
  <2>2. task' = [task EXCEPT ![cur[p]].status = "running"]
    BY <1>2, <1>a DEF Started
  <2>3. Contract!Start(cur[p])
    BY <1>0, <1>2, <1>a, <2>1, <2>2 DEF Contract!Start, Contract!Move, Contract!Open, Live
  <2> QED
    BY <1>2, <1>a, <2>3 DEF Contract!JobNext
<1>3. CASE pc[p] = "finw" /\ task' = [task EXCEPT ![cur[p]] = Finished(p)]
  <2>1. CASE snap[p].status \in Terminal
    <3>1. Finished(p) = snap[p]
      BY <1>0, <1>3, <2>1 DEF Working, Finished, Failed, Live, Terminal
    <3>2. UNCHANGED task
      BY <1>0, <1>3, <1>a, <3>1
    <3> QED
      BY <1>1, <3>2
  <2>2. CASE snap[p].status \in Live
    <3>1. CASE outcome[p] = "ok"
      <4>1. Contract!Complete(cur[p])
        BY <1>0, <1>3, <1>a, <2>2, <3>1 DEF Finished, Completed, Contract!Complete, Contract!Move, Contract!Open, Live
      <4> QED
        BY <1>3, <1>a, <4>1 DEF Contract!JobNext
    <3>2. CASE outcome[p] = "stop"
      <4>1. Contract!Cancel(cur[p])
        BY <1>0, <1>3, <1>a, <2>2, <3>2 DEF Finished, Cancelled, Contract!Cancel, Contract!Move, Contract!Open, Live
      <4> QED
        BY <1>3, <1>a, <4>1 DEF Contract!JobNext
    <3>3. CASE outcome[p] = "err"
      <4>1. Contract!Fail(cur[p])
        BY <1>0, <1>3, <1>a, <2>2, <3>3 DEF Finished, Failed, Contract!Fail, Contract!Open, Live, Terminal
      <4> QED
        BY <1>3, <1>a, <4>1 DEF Contract!JobNext
    <3> QED
      BY <1>0, <1>3, <3>1, <3>2, <3>3 DEF Working
  <2> QED
    BY <1>0, <1>3, <1>a, <2>1, <2>2 DEF TaskRecord, Status
<1> QED
  BY <1>0, <1>1, <1>2, <1>3 DEF WorkerWrites

LEMMA EnqueueStepAllowed ==
    ASSUME Faithful, ContractInv, NEW p \in Procs, Enqueue(p)
    PROVE  [Contract!JobNext]_(Contract!jobVars)
<1>0. TypeOK /\ Identity /\ (epc[p] = "idle" \/ ecur[p] \in Tasks) /\ task \in [Tasks -> TaskRecord]
  BY DEF ContractInv, AttemptsInv, IdentityInv, TypeOK, EnqueueTypes, RedisTypes
<1>1. CASE UNCHANGED <<task, acked>>
  BY <1>1 DEF Contract!jobVars
<1>2. CASE EnqueueCheck(p)
  <2>1. CASE UNCHANGED acked
    BY <1>1, <1>2, <2>1 DEF EnqueueCheck
  <2>2. CASE acked' = acked \cup {keyRef[KeyOf[ecur[p]]]} /\ keyRef[KeyOf[ecur[p]]] # NoTask
             /\ task[keyRef[KeyOf[ecur[p]]]].status # "absent"
    <3>1. keyRef[KeyOf[ecur[p]]] \in Tasks
      BY <1>0, <1>2, <2>2, QueueAssumption DEF EnqueueCheck, TypeOK, RedisTypes
    <3>2. Contract!Accept(keyRef[KeyOf[ecur[p]]])
      BY <1>2, <2>2 DEF EnqueueCheck, Contract!Accept
    <3> QED
      BY <3>1, <3>2 DEF Contract!JobNext
  <2> QED
    BY <1>2, <2>1, <2>2 DEF EnqueueCheck
<1>3. CASE EnqueueSave(p)
  <2>1. Contract!Submit(ecur[p])
    BY <1>0, <1>3 DEF EnqueueSave, Identity, Unborn, Absent, Contract!Submit
  <2> QED
    BY <1>0, <1>3, <2>1 DEF EnqueueSave, Contract!JobNext
<1>4. CASE EnqueuePush(p)
  <2>1. Contract!Accept(ecur[p])
    BY <1>4 DEF EnqueuePush, ContractInv, Enqueuing, Contract!Accept
  <2> QED
    BY <1>0, <1>4, <2>1 DEF EnqueuePush, Contract!JobNext
<1>5. CASE EnqueueWithdraw(p)
  <2>1. /\ task[ecur[p]] = [status |-> "pending", attempts |-> 0] /\ ecur[p] \notin acked
        /\ task' = [task EXCEPT ![ecur[p]] = Absent] /\ UNCHANGED acked
    BY <1>5 DEF EnqueueWithdraw, ContractInv, Enqueuing
  <2>2. [task[ecur[p]] EXCEPT !.status = "absent"] = Absent /\ task[ecur[p]].status = "pending"
    BY <2>1 DEF Absent
  <2>3. Contract!Withdraw(ecur[p])
    <3> HIDE DEF Absent
    <3> QED
      BY <2>1, <2>2 DEF Contract!Withdraw
  <2> QED
    BY <1>0, <1>5, <2>3 DEF EnqueueWithdraw, Contract!JobNext
<1> QED
  BY <1>1, <1>2, <1>3, <1>4, <1>5 DEF Enqueue, EnqueueLock, EnqueueKey, EnqueueFault, EnqueueUnlock

LEMMA InitContract == Init => ContractInv
<1> SUFFICES ASSUME Init PROVE ContractInv
  OBVIOUS
<1>1. AttemptsInv
  BY InitAttempts
<1>2. Known /\ \A p \in Procs : Enqueuing(p)
  BY QueueAssumption DEF Init, Known, Handed, Listed, Enqueuing
<1> QED
  BY <1>1, <1>2 DEF ContractInv

LEMMA NextAllowed == ASSUME Faithful, ContractInv, [Next]_vars PROVE [Contract!JobNext]_(Contract!jobVars)
<1>1. CASE UNCHANGED <<task, acked>>
  BY <1>1 DEF Contract!jobVars
<1>2. ASSUME NEW p \in Procs, Cancel(p) PROVE FALSE
  BY <1>2 DEF Cancel, Faithful, Exact
<1> QED
  BY <1>1, <1>2, WorkerStepAllowed, EnqueueStepAllowed
  DEF Next, Crash, ExpireLease, ExpireClaimLock, ExpireEnqueueLock, vars, redis, enq

(* While nobody outlives a lease or a lock, no SET of a lease and no       *)
(* EXPIRE of an Enqueue fails and nobody calls Cancel, the queue in Redis  *)
(* is the queue of the contract: each step is one operation of MemoryQueue *)
(* or none, for any number of servers, with crashes anywhere.              *)
THEOREM Refinement == ASSUME Faithful PROVE Spec => ImplementsContract
<1>1. Init => Contract!JobInit
  BY DEF Init, Contract!JobInit, Absent
<1>2. ContractInv /\ [Next]_vars => [Contract!JobNext]_(Contract!jobVars)
  BY NextAllowed
<1> QED
  BY <1>1, <1>2, InitContract, NextKeepsContract, PTL DEF Spec, ImplementsContract, Contract!JobSpec

-----------------------------------------------------------------------------
(* Nothing that was accepted is lost.                                      *)

(* Besides, no server dies and no command fails between the removal of a   *)
(* failed task from one list and its push to the other, no server dies     *)
(* between the key and the list in Enqueue, and no lookup by key fails.    *)
Careful ==
    /\ Faithful
    /\ FaultPoints \cap {"lookup", "rel2", "push"} = {}
    /\ CrashPoints \cap {"rel2", "push", "append", "withdraw"} = {}

(* The task will be worked on again, or need not be. *)
Kept(t) ==
    \/ task[t].status \in Terminal
    \/ Listed(t)
    \/ \E p \in Procs : cur[p] = t /\ pc[p] \in {"rel2", "push"} /\ outcome[p] = "retry"

(* An accepted task is the one its key stands for; a task its key stands   *)
(* for is kept or just being pushed.                                       *)
Keyed ==
    /\ \A t \in acked : keyRef[KeyOf[t]] = t
    /\ \A t \in Tasks : task[t].status # "absent" /\ keyRef[KeyOf[t]] = t =>
          Kept(t) \/ \E p \in Procs : epc[p] \in {"append", "withdraw"} /\ ecur[p] = t

(* Nothing is accepted under a key while a call of Enqueue stores a task.  *)
Promised(p) ==
    /\ epc[p] \in {"store", "index", "append", "withdraw"} => \A t \in acked : KeyOf[t] # KeyOf[ecur[p]]
    /\ epc[p] = "index" => keyRef[KeyOf[ecur[p]]] # ecur[p]
    /\ epc[p] = "append" => keyRef[KeyOf[ecur[p]]] = ecur[p]

(* A worker removes a task from the list for good only when it is finished.*)
Settled(p) ==
    /\ pc[p] = "after" => task[cur[p]].status \in Terminal \cup {"failed"}
    /\ pc[p] \in {"rel1", "rel2"} /\ outcome[p] # "retry" => task[cur[p]].status \in Terminal
    /\ pc[p] = "unlock" /\ outcome[p] = "terminal" => task[cur[p]].status \in Terminal
    /\ pc[p] = "push" => outcome[p] = "retry"

TaskInv == ContractInv /\ Keyed /\ \A p \in Procs : Promised(p) /\ Settled(p)

LEMMA TerminalStays ==
    ASSUME Faithful, ContractInv, [Next]_vars, NEW t \in Tasks, task[t].status \in Terminal
    PROVE  task'[t] = task[t]
<1>0. task \in [Tasks -> TaskRecord]
  BY DEF ContractInv, AttemptsInv, IdentityInv, TypeOK, RedisTypes
<1>1. CASE UNCHANGED Contract!jobVars
  BY <1>1 DEF Contract!jobVars
<1>2. ASSUME NEW j \in Tasks,
             \/ Contract!Submit(j) \/ Contract!Withdraw(j) \/ Contract!Accept(j)
             \/ Contract!Start(j) \/ Contract!Complete(j) \/ Contract!Fail(j) \/ Contract!Cancel(j)
      PROVE  task'[t] = task[t]
  <2>1. CASE UNCHANGED task
    BY <2>1
  <2>2. CASE j # t /\ \E r : task' = [task EXCEPT ![j] = r]
    BY <1>0, <2>2
  <2>3. task[j].status \in Terminal => UNCHANGED task
    BY <1>2 DEF Contract!Submit, Contract!Withdraw, Contract!Accept, Contract!Start, Contract!Complete,
         Contract!Fail, Contract!Cancel, Contract!Move, Contract!Open, Terminal
  <2>4. UNCHANGED task \/ \E r : task' = [task EXCEPT ![j] = r]
    BY <1>2 DEF Contract!Submit, Contract!Withdraw, Contract!Accept, Contract!Start, Contract!Complete,
         Contract!Fail, Contract!Cancel, Contract!Move
  <2> QED
    BY <2>1, <2>2, <2>3, <2>4
<1> QED
  BY <1>1, <1>2, NextAllowed DEF Contract!JobNext

LEMMA WorkerKeepsTasks ==
    ASSUME Careful, TaskInv, NEW p \in Procs, ClaimPending(p) \/ Execute(p)
    PROVE  Keyed' /\ \A q \in Procs : Promised(q)'
<1>0. /\ WorkerFrame(p) /\ WorkerWrites(p) /\ TypeOK /\ Settled(p) /\ Exact
      /\ UNCHANGED <<epc, ecur, acked, keyRef>>
      /\ p \in Procs
      /\ pc[p] \notin {"idle", "rotate"} => cur[p] \in Tasks
  BY ClaimWrites, ExecuteWrites, ClaimFrame, ExecuteFrame
  DEF TaskInv, ContractInv, AttemptsInv, IdentityInv, TypeOK, WorkerTypes, ClaimPending, Execute, enq, Careful, Faithful
<1>1. ASSUME NEW t \in Tasks, task'[t].status # "absent" PROVE task[t].status # "absent"
  <2>1. CASE t = cur[p]
    BY <2>1 DEF TaskInv, ContractInv, Known, Handed
  <2>2. CASE t # cur[p]
    BY <1>0, <1>1, <2>2 DEF WorkerFrame
  <2> QED
    BY <2>1, <2>2
<1>2. ASSUME NEW t \in Tasks, Kept(t) PROVE Kept(t)'
  <2>1. CASE task[t].status \in Terminal
    <3>1. [Next]_vars
      BY DEF Next
    <3> QED
      BY <2>1, <3>1, TerminalStays DEF Kept, Careful, TaskInv
  <2>2. CASE task[t].status \notin Terminal /\ Listed(t)
    <3>1. CASE pc[p] \in {"rel1", "rel2"} /\ cur[p] = t
      <4>1. outcome[p] = "retry"
        BY <1>0, <2>2, <3>1 DEF Settled
      <4>2. CASE ReleaseClaim(p)
        BY <1>0, <2>2, <3>1, <4>1, <4>2 DEF ReleaseClaim, Kept, Listed, Goto, Step, TypeOK, WorkerTypes
      <4>3. CASE RemoveProcessing(p)
        BY <1>0, <2>2, <3>1, <4>1, <4>3 DEF RemoveProcessing, Kept, Goto, Step, TypeOK, WorkerTypes
      <4>4. CASE ExecuteFault(p)
        BY <1>0, <2>2, <3>1, <4>4 DEF ExecuteFault, Kept, Listed
      <4> QED
        BY <1>0, <3>1, <4>2, <4>3, <4>4
        DEF ClaimPending, Execute, MovePending, RotateProcessing, ProbeLease, AcquireClaimLock,
            RecheckLease, ReadClaimed, InstallLease, SaveRunning, ClaimFault, ReleaseClaimLock, DeleteLease,
            ExecuteTask, StartRead, StartWrite, HandlerReturns, FinishRead, FinishWrite, FailRead, PushRetry
    <3>2. CASE ~(pc[p] \in {"rel1", "rel2"} /\ cur[p] = t)
      <4>1. CASE MovePending(p)
        BY <1>0, <2>2, <4>1 DEF MovePending, Kept, Listed, TypeOK, RedisTypes
      <4>2. CASE ReleaseClaim(p) \/ RemoveProcessing(p) \/ PushRetry(p)
        BY <1>0, <2>2, <3>2, <4>2 DEF ReleaseClaim, RemoveProcessing, PushRetry, Kept, Listed, TypeOK, RedisTypes
      <4>3. CASE UNCHANGED <<pending, processing>>
        BY <2>2, <4>3 DEF Kept, Listed
      <4> QED
        BY <4>1, <4>2, <4>3
        DEF ClaimPending, Execute, RotateProcessing, ProbeLease, AcquireClaimLock,
            RecheckLease, ReadClaimed, InstallLease, SaveRunning, ClaimFault, ReleaseClaimLock, DeleteLease,
            ExecuteTask, StartRead, StartWrite, HandlerReturns, FinishRead, FinishWrite, FailRead, ExecuteFault
    <3> QED
      BY <3>1, <3>2
  <2>3. ASSUME NEW q \in Procs, cur[q] = t, pc[q] \in {"rel2", "push"}, outcome[q] = "retry" PROVE Kept(t)'
    <3>1. CASE q # p
      BY <1>0, <2>3, <3>1 DEF WorkerFrame, Kept
    <3>2. CASE q = p
      <4>1. CASE RemoveProcessing(p)
        BY <1>0, <2>3, <3>2, <4>1 DEF RemoveProcessing, Kept, Goto, Step, TypeOK, WorkerTypes
      <4>2. CASE PushRetry(p)
        BY <1>0, <2>3, <3>2, <4>2 DEF PushRetry, Kept, Listed, TypeOK, RedisTypes
      <4>3. ~ExecuteFault(p) /\ ~ClaimFault(p)
        BY <2>3, <3>2 DEF ExecuteFault, ClaimFault, Careful
      <4> QED
        BY <2>3, <3>2, <4>1, <4>2, <4>3
        DEF ClaimPending, Execute, MovePending, RotateProcessing, ProbeLease, AcquireClaimLock,
            RecheckLease, ReadClaimed, InstallLease, SaveRunning, ReleaseClaimLock, DeleteLease,
            ExecuteTask, StartRead, StartWrite, HandlerReturns, FinishRead, FinishWrite, FailRead, ReleaseClaim
    <3> QED
      BY <3>1, <3>2
  <2> QED
    BY <1>2, <2>1, <2>2, <2>3 DEF Kept
<1>3. Keyed'
  BY <1>0, <1>1, <1>2 DEF TaskInv, Keyed
<1> QED
  BY <1>0, <1>3 DEF TaskInv, Promised

LEMMA WorkerStaysSettled ==
    ASSUME Careful, TaskInv, NEW p \in Procs, ClaimPending(p) \/ Execute(p), NEW q \in Procs
    PROVE  Settled(q)'
<1>0. /\ WorkerFrame(p) /\ WorkerWrites(p) /\ TypeOK /\ Working(p) /\ Settled(p) /\ Sound(p) /\ ExclusionInv
      /\ task \in [Tasks -> TaskRecord] /\ WorkerTypes
      /\ pc[p] \notin {"idle", "rotate"} => cur[p] \in Tasks
  BY ClaimWrites, ExecuteWrites, ClaimFrame, ExecuteFrame
  DEF TaskInv, ContractInv, AttemptsInv, IdentityInv, ExclusionInv, TypeOK, RedisTypes, WorkerTypes
<1>1. ASSUME NEW t \in Tasks, task[t].status \in Terminal PROVE task'[t].status \in Terminal
  BY <1>1, TerminalStays DEF Careful, TaskInv, Next
<1>2. CASE q # p
  <2>1. Settled(q) /\ (pc[q] \in {"after", "rel1", "rel2", "unlock"} => cur[q] \in Tasks)
    BY <1>0 DEF TaskInv, WorkerTypes
  <2>2. pc[q] = "after" => task'[cur[q]] = task[cur[q]]
    BY <1>0, <1>2, <2>1, OneWriter DEF WorkerFrame, WorkerWrites
  <2> QED
    BY <1>0, <1>1, <1>2, <2>1, <2>2 DEF WorkerFrame, Settled
<1>3. CASE q = p
  <2>1. CASE ReadClaimed(p)
    BY <1>0, <1>3, <2>1 DEF ReadClaimed, Settled, Goto, WorkerTypes
  <2>2. CASE RecheckLease(p)
    BY <1>0, <1>3, <2>2 DEF RecheckLease, Settled, Goto, Step, WorkerTypes, Sound, Tokenless, Early
  <2>3. CASE ReleaseClaimLock(p)
    BY <1>0, <1>3, <2>3 DEF ReleaseClaimLock, Settled, Goto, Step, Forget, WorkerTypes
  <2>4. CASE SaveRunning(p)
    BY <1>0, <1>3, <2>4 DEF SaveRunning, Settled, Goto, WorkerTypes
  <2>5. CASE ClaimFault(p)
    BY <1>0, <1>3, <2>5 DEF ClaimFault, Settled, Goto, Forget, WorkerTypes
  <2>6. CASE FinishWrite(p)
    <3>1. CASE Forget(p)
      BY <1>0, <1>3, <3>1 DEF Forget, Goto, Settled, WorkerTypes
    <3>2. CASE ~Forget(p)
      <4>1. pc[p] = "finw" /\ task' = [task EXCEPT ![cur[p]] = Finished(p)] /\ UNCHANGED <<cur, outcome>>
            /\ pc'[p] = IF outcome[p] = "err" THEN "after" ELSE "rel1"
        BY <1>0, <2>6, <3>2 DEF FinishWrite, Goto, WorkerTypes
      <4>2. outcome[p] = "err" => Finished(p).status \in Terminal \cup {"failed"}
        BY <1>0, <4>1 DEF Finished, Failed, Terminal, WorkerTypes, TaskRecord
      <4>3. outcome[p] # "err" => Finished(p).status \in Terminal /\ outcome[p] # "retry"
        BY <1>0, <4>1 DEF Working, Finished, Completed, Cancelled, Terminal, WorkerTypes, TaskRecord
      <4> QED
        BY <1>0, <1>3, <4>1, <4>2, <4>3 DEF Settled
    <3> QED
      BY <3>1, <3>2
  <2>7. CASE FailRead(p)
    BY <1>0, <1>3, <2>7 DEF FailRead, Settled, Goto, Forget, WorkerTypes
  <2>8. CASE ReleaseClaim(p)
    BY <1>0, <1>3, <2>8 DEF ReleaseClaim, Settled, Goto, Step, Forget, WorkerTypes
  <2>9. CASE RemoveProcessing(p)
    BY <1>0, <1>3, <2>9 DEF RemoveProcessing, Settled, Goto, Step, Forget, WorkerTypes
  <2>10. CASE pc'[p] \notin {"after", "rel1", "rel2", "unlock", "push"}
    BY <1>3, <2>10 DEF Settled
  <2>11. \/ ReadClaimed(p) \/ RecheckLease(p) \/ ReleaseClaimLock(p) \/ SaveRunning(p) \/ ClaimFault(p) \/ FinishWrite(p)
         \/ FailRead(p) \/ ReleaseClaim(p) \/ RemoveProcessing(p)
         \/ pc'[p] \notin {"after", "rel1", "rel2", "unlock", "push"}
    BY <1>0 DEF ClaimPending, Execute, MovePending, RotateProcessing, ProbeLease, AcquireClaimLock, InstallLease,
         DeleteLease, ExecuteTask, StartRead, StartWrite, HandlerReturns, FinishRead, PushRetry, ExecuteFault,
         Goto, Step, Forget, Finish, WorkerTypes
  <2> QED
    BY <2>1, <2>2, <2>3, <2>4, <2>5, <2>6, <2>7, <2>8, <2>9, <2>10, <2>11
<1> QED
  BY <1>2, <1>3

LEMMA EnqueueKeepsTasks ==
    ASSUME Careful, TaskInv, NEW p \in Procs, Enqueue(p)
    PROVE  Keyed' /\ \A q \in Procs : Promised(q)' /\ Settled(q)'
<1>0. /\ UNCHANGED <<pc, cur, outcome, processing>> /\ TypeOK /\ Identity /\ Enqueuing(p) /\ Promised(p)
      /\ ecur[p] \in Tasks \/ epc[p] = "idle"
      /\ EnqueueWrites(p)
      /\ Known /\ Keyed
  BY EnqueueWritten
  DEF Enqueue, worker, TaskInv, ContractInv, AttemptsInv, IdentityInv, TypeOK, EnqueueTypes
<1>a. ASSUME NEW q \in Procs, q # p, epc[p] # "idle", epc[q] # "idle" PROVE KeyOf[ecur[q]] # KeyOf[ecur[p]]
  BY <1>a DEF TaskInv, ContractInv, Enqueuing
<1>b. ASSUME NEW q \in Procs, q # p PROVE epc'[q] = epc[q] /\ ecur'[q] = ecur[q]
  BY <1>0, <1>b DEF Enqueue, EnqueueLock, EnqueueCheck, EnqueueSave, EnqueueKey, EnqueuePush, EnqueueFault,
       EnqueueWithdraw, EnqueueUnlock, TypeOK, EnqueueTypes
<1>c. ASSUME NEW q \in Procs PROVE ecur[q] \in Tasks \/ epc[q] = "idle"
  BY <1>0 DEF TypeOK, EnqueueTypes
<1>d. ASSUME NEW t \in Tasks, Handed(t) PROVE task'[t] = task[t]
  <2>1. epc[p] = "store" => ecur[p] # t
    BY <1>0, <1>d DEF Identity, Unborn
  <2>2. epc[p] = "withdraw" => ecur[p] # t
    BY <1>0, <1>d DEF Enqueuing
  <2> QED
    BY <1>0, <2>1, <2>2 DEF EnqueueWrites, TypeOK, RedisTypes
<1>e. ASSUME NEW q \in Procs PROVE Settled(q)'
  BY <1>0, <1>d DEF Settled, TaskInv, Handed, TypeOK, WorkerTypes
<1>f. ASSUME NEW t \in Tasks, Kept(t), task'[t] = task[t] PROVE Kept(t)'
  <2>1. pending'[t] >= pending[t]
    BY <1>0 DEF Enqueue, EnqueueLock, EnqueueCheck, EnqueueSave, EnqueueKey, EnqueuePush, EnqueueFault,
         EnqueueWithdraw, EnqueueUnlock, TypeOK, RedisTypes
  <2>2. pending'[t] \in Nat
    BY NextKeepsTypes, <1>0 DEF Next, TypeOK, RedisTypes
  <2> QED
    BY <1>0, <1>f, <2>1, <2>2 DEF Kept, Listed, TypeOK, RedisTypes
<1>1. ASSUME NEW t \in Tasks, EnqueueLock(p, t) PROVE Keyed' /\ \A q \in Procs : Promised(q)'
  <2>1. UNCHANGED <<task, keyRef, acked>> /\ epc[p] = "idle" /\ epc'[p] = "lookup" /\ ecur'[p] = t
    BY <1>0, <1>1 DEF EnqueueLock, TypeOK, EnqueueTypes
  <2>2. Keyed'
    BY <1>0, <1>b, <1>f, <2>1 DEF Keyed
  <2>3. ASSUME NEW q \in Procs PROVE Promised(q)'
    BY <1>b, <2>1 DEF TaskInv, Promised
  <2> QED
    BY <2>2, <2>3
<1>2. CASE EnqueueCheck(p)
  <2>0. UNCHANGED <<task, keyRef, ecur>> /\ epc[p] = "lookup" /\ epc'[p] \in {"release", "store"}
    BY <1>0, <1>2 DEF EnqueueCheck, TypeOK, EnqueueTypes
  <2>1. CASE /\ keyRef[KeyOf[ecur[p]]] # NoTask /\ acked' = acked \cup {keyRef[KeyOf[ecur[p]]]}
             /\ epc'[p] = "release"
    <3>1. keyRef[KeyOf[ecur[p]]] \in Tasks /\ KeyOf[keyRef[KeyOf[ecur[p]]]] = KeyOf[ecur[p]]
      BY <1>0, <2>0, <2>1, QueueAssumption DEF Known, TypeOK, RedisTypes
    <3>2. Keyed'
      BY <1>0, <1>b, <1>f, <2>0, <2>1, <3>1 DEF Keyed
    <3>3. ASSUME NEW q \in Procs PROVE Promised(q)'
      BY <1>a, <1>b, <2>0, <2>1, <3>1 DEF TaskInv, Promised
    <3> QED
      BY <1>e, <3>2, <3>3
  <2>2. CASE /\ ~(keyRef[KeyOf[ecur[p]]] # NoTask /\ task[keyRef[KeyOf[ecur[p]]]].status # "absent")
             /\ UNCHANGED acked /\ epc'[p] = "store"
    <3>1. \A t \in acked : KeyOf[t] # KeyOf[ecur[p]]
      BY <1>0, <2>2, QueueAssumption DEF Keyed, Known, TypeOK, EnqueueTypes
    <3>2. Keyed'
      BY <1>0, <1>b, <1>f, <2>0, <2>2 DEF Keyed
    <3>3. ASSUME NEW q \in Procs PROVE Promised(q)'
      BY <1>b, <2>0, <2>2, <3>1 DEF TaskInv, Promised
    <3> QED
      BY <1>e, <3>2, <3>3
  <2> QED
    BY <1>0, <1>2, <2>1, <2>2 DEF EnqueueCheck, TypeOK, EnqueueTypes
<1>3. CASE EnqueueSave(p)
  <2>1. /\ UNCHANGED <<keyRef, ecur, acked>> /\ epc[p] = "store" /\ epc'[p] = "index"
        /\ task' = [task EXCEPT ![ecur[p]] = [status |-> "pending", attempts |-> 0]]
    BY <1>0, <1>3 DEF EnqueueSave, TypeOK, EnqueueTypes
  <2>2. keyRef[KeyOf[ecur[p]]] # ecur[p]
    BY <1>0, <2>1, QueueAssumption DEF Identity, Unborn
  <2>3. Keyed'
    BY <1>0, <1>b, <1>f, <2>1, <2>2 DEF Keyed, TypeOK, RedisTypes
  <2>4. ASSUME NEW q \in Procs PROVE Promised(q)'
    BY <1>b, <2>1, <2>2 DEF TaskInv, Promised
  <2> QED
    BY <1>e, <2>3, <2>4
<1>4. CASE EnqueueKey(p)
  <2>1. /\ UNCHANGED <<task, ecur, acked>> /\ epc[p] = "index" /\ epc'[p] = "append"
        /\ keyRef' = [keyRef EXCEPT ![KeyOf[ecur[p]]] = ecur[p]]
    BY <1>0, <1>4 DEF EnqueueKey, TypeOK, EnqueueTypes
  <2>2. KeyOf[ecur[p]] \in Keys /\ keyRef'[KeyOf[ecur[p]]] = ecur[p]
    BY <1>0, <2>1, QueueAssumption DEF TypeOK, RedisTypes
  <2>3. ASSUME NEW t \in acked PROVE keyRef'[KeyOf[t]] = t
    BY <1>0, <2>1, QueueAssumption DEF Keyed, Promised, TypeOK, RedisTypes, EnqueueTypes
  <2>4. ASSUME NEW t \in Tasks, task[t].status # "absent", keyRef'[KeyOf[t]] = t
        PROVE  Kept(t)' \/ \E q \in Procs : epc'[q] \in {"append", "withdraw"} /\ ecur'[q] = t
    <3>1. CASE t = ecur[p]
      BY <2>1, <3>1
    <3>2. CASE t # ecur[p]
      <4>1. keyRef[KeyOf[t]] = t
        BY <1>0, <2>1, <2>2, <2>4, <3>2, QueueAssumption DEF TypeOK, RedisTypes
      <4> QED
        BY <1>0, <1>b, <1>f, <2>1, <2>4, <3>2, <4>1 DEF Keyed
    <3> QED
      BY <3>1, <3>2
  <2>5. ASSUME NEW q \in Procs PROVE Promised(q)'
    <3>1. CASE q = p
      BY <1>0, <2>1, <2>2, <3>1 DEF Promised
    <3>2. CASE q # p
      BY <1>0, <1>a, <1>b, <1>c, <2>1, <3>2, QueueAssumption DEF TaskInv, Promised, TypeOK, RedisTypes
    <3> QED
      BY <3>1, <3>2
  <2> QED
    BY <1>e, <2>1, <2>3, <2>4, <2>5 DEF Keyed
<1>5. CASE EnqueuePush(p)
  <2>1. /\ UNCHANGED <<task, keyRef, ecur>> /\ epc[p] = "append" /\ epc'[p] = "release"
        /\ pending' = [pending EXCEPT ![ecur[p]] = pending[ecur[p]] + 1] /\ acked' = acked \cup {ecur[p]}
    BY <1>0, <1>5 DEF EnqueuePush, TypeOK, EnqueueTypes
  <2>2. Kept(ecur[p])'
    BY <1>0, <2>1 DEF Kept, Listed, TypeOK, RedisTypes
  <2>3. Keyed'
    BY <1>0, <1>b, <1>f, <2>1, <2>2 DEF Keyed, Promised
  <2>4. ASSUME NEW q \in Procs PROVE Promised(q)'
    BY <1>a, <1>b, <2>1 DEF TaskInv, Promised
  <2> QED
    BY <1>e, <2>3, <2>4
<1>6. CASE EnqueueFault(p)
  <2>1. UNCHANGED <<task, keyRef, ecur, acked>>
    BY <1>6 DEF EnqueueFault
  <2>2. /\ epc'[p] \in {"release", "withdraw"}
        /\ epc'[p] = "withdraw" => epc[p] \in {"index", "append"}
        /\ epc[p] \notin {"withdraw", "idle"}
        /\ epc[p] = "append" => epc'[p] = "withdraw"
    BY <1>0, <1>6 DEF EnqueueFault, Careful, Faithful, TypeOK, EnqueueTypes
  <2>3. Keyed'
    BY <1>0, <1>b, <1>f, <2>1, <2>2 DEF Keyed
  <2>4. ASSUME NEW q \in Procs PROVE Promised(q)'
    BY <1>b, <2>1, <2>2 DEF TaskInv, Promised
  <2> QED
    BY <1>e, <2>3, <2>4
<1>7. CASE EnqueueWithdraw(p)
  <2>1. /\ UNCHANGED <<keyRef, ecur, acked>> /\ epc[p] = "withdraw" /\ epc'[p] = "release"
        /\ task' = [task EXCEPT ![ecur[p]] = Absent]
    BY <1>0, <1>7 DEF EnqueueWithdraw, TypeOK, EnqueueTypes
  <2>2. Keyed'
    BY <1>0, <1>b, <1>f, <2>1 DEF Keyed, Absent, TypeOK, RedisTypes
  <2>3. ASSUME NEW q \in Procs PROVE Promised(q)'
    BY <1>b, <2>1 DEF TaskInv, Promised
  <2> QED
    BY <1>e, <2>2, <2>3
<1>8. CASE EnqueueUnlock(p)
  <2>1. UNCHANGED <<task, keyRef, acked>> /\ epc[p] = "release" /\ epc'[p] = "idle"
    BY <1>0, <1>8 DEF EnqueueUnlock, TypeOK, EnqueueTypes
  <2>2. Keyed'
    BY <1>0, <1>b, <1>f, <2>1 DEF Keyed
  <2>3. ASSUME NEW q \in Procs PROVE Promised(q)'
    BY <1>b, <2>1 DEF TaskInv, Promised
  <2> QED
    BY <1>e, <2>2, <2>3
<1> QED
  BY <1>e, <1>1, <1>2, <1>3, <1>4, <1>5, <1>6, <1>7, <1>8 DEF Enqueue

LEMMA NextKeepsTasks == ASSUME Careful, TaskInv, [Next]_vars PROVE TaskInv'
<1>0. ContractInv' /\ TypeOK
  BY NextKeepsContract DEF Careful, TaskInv, ContractInv, AttemptsInv, IdentityInv
<1>1. ASSUME NEW p \in Procs, Cancel(p) PROVE FALSE
  BY <1>1 DEF Cancel, Careful, Faithful, Exact
<1>2. ASSUME NEW p \in Procs, ClaimPending(p) \/ Execute(p) PROVE TaskInv'
  BY <1>0, <1>2, WorkerKeepsTasks, WorkerStaysSettled DEF TaskInv
<1>3. ASSUME NEW p \in Procs, Enqueue(p) PROVE TaskInv'
  BY <1>0, <1>3, EnqueueKeepsTasks DEF TaskInv
<1>4. ASSUME NEW p \in Procs, Crash(p) PROVE TaskInv'
  <2>1. /\ UNCHANGED <<task, keyRef, pending, processing, acked>>
        /\ pc[p] \notin {"rel2", "push"} /\ epc[p] \notin {"append", "withdraw"}
    BY <1>4 DEF Crash, redis, Careful
  <2>2. /\ pc' = [pc EXCEPT ![p] = "idle"] /\ cur' = [cur EXCEPT ![p] = NoTask]
        /\ outcome' = [outcome EXCEPT ![p] = "none"]
        /\ epc' = [epc EXCEPT ![p] = "idle"] /\ ecur' = [ecur EXCEPT ![p] = NoTask]
    BY <1>4 DEF Crash, Forget, Goto
  <2>3. \A q \in Procs \ {p} : /\ pc'[q] = pc[q] /\ cur'[q] = cur[q] /\ outcome'[q] = outcome[q]
                                /\ epc'[q] = epc[q] /\ ecur'[q] = ecur[q]
    BY <1>0, <2>2 DEF TypeOK, WorkerTypes, EnqueueTypes
  <2>4. pc'[p] = "idle" /\ epc'[p] = "idle"
    BY <1>0, <2>2 DEF TypeOK, WorkerTypes, EnqueueTypes
  <2>5. \A t \in Tasks : Kept(t) => Kept(t)'
    BY <2>1, <2>3 DEF Kept, Listed
  <2>6. Keyed'
    BY <2>1, <2>3, <2>5 DEF TaskInv, Keyed
  <2>7. ASSUME NEW q \in Procs PROVE Promised(q)' /\ Settled(q)'
    BY <2>1, <2>3, <2>4 DEF TaskInv, Promised, Settled
  <2> QED
    BY <1>0, <2>6, <2>7 DEF TaskInv
<1>5. CASE UNCHANGED <<task, keyRef, pending, processing, worker, enq>>
  BY <1>0, <1>5 DEF TaskInv, Keyed, Kept, Listed, Promised, Settled, worker, enq
<1> QED
  BY <1>1, <1>2, <1>3, <1>4, <1>5 DEF Next, ExpireLease, ExpireClaimLock, ExpireEnqueueLock, vars, redis

(* What an acknowledged Enqueue relies on: the task is kept until it is    *)
(* finished, attempted as often as agreed, and the only one under its key, *)
(* for any number of servers, tasks, keys, crashes and failures outside    *)
(* the windows that Careful names.                                         *)
THEOREM NothingIsLost == ASSUME Careful PROVE Spec => []TasksHold
<1>1. Init => TaskInv
  <2> SUFFICES ASSUME Init PROVE TaskInv
    OBVIOUS
  <2>1. ContractInv
    BY InitContract
  <2>2. Keyed /\ \A p \in Procs : Promised(p) /\ Settled(p)
    BY QueueAssumption DEF Init, Keyed, Promised, Settled, Absent
  <2> QED
    BY <2>1, <2>2 DEF TaskInv
<1>2. TaskInv /\ [Next]_vars => TaskInv'
  BY NextKeepsTasks
<1>3. TaskInv => NothingLost /\ OneTaskPerKey
  <2> SUFFICES ASSUME TaskInv PROVE NothingLost /\ OneTaskPerKey
    OBVIOUS
  <2>1. ASSUME NEW t \in acked PROVE Kept(t) /\ t \in Tasks
    <3>1. t \in Tasks /\ task[t].status # "absent" /\ keyRef[KeyOf[t]] = t
      BY DEF TaskInv, Keyed, ContractInv, Known, AttemptsInv, IdentityInv, TypeOK, EnqueueTypes
    <3>2. \A p \in Procs : epc[p] \in {"append", "withdraw"} => ecur[p] # t
      BY DEF TaskInv, ContractInv, Enqueuing
    <3> QED
      BY <3>1, <3>2 DEF TaskInv, Keyed
  <2>2. NothingLost
    BY <2>1 DEF NothingLost, Kept, Listed, TaskInv, ContractInv, AttemptsInv, IdentityInv, TypeOK, RedisTypes
  <2>3. OneTaskPerKey
    BY DEF TaskInv, Keyed, OneTaskPerKey
  <2> QED
    BY <2>2, <2>3
<1> QED
  BY <1>1, <1>2, <1>3, CountedOnce, PTL DEF Spec, TasksHold

-----------------------------------------------------------------------------
(* The runs and the mail in MCBackground: each has its invariant, whichever of the three *)
(* moves, as a step of one leaves the variables of the others.                            *)

backgroundVars == <<part, queueVars, runVars, mailVars>>
BackgroundInv == R!PolicyInv /\ M!MailInv

LEMMA MailStarts ==
    ASSUME NEW accounts, NEW sends, NEW edits, NEW running, M!Start(accounts, sends, edits, running)
    PROVE  M!MailInv
<1> DEFINE arrived == running \cap (Sends \cup Editors)
<1>1. /\ [i \in Sends |-> IF i \in running THEN "new" ELSE "done"] = [i \in Sends |-> IF i \in arrived THEN "new" ELSE "done"]
      /\ [e \in Editors |-> IF e \in running THEN "new" ELSE "done"] = [e \in Editors |-> IF e \in arrived THEN "new" ELSE "done"]
  OBVIOUS
<1>2. M!Start(accounts, sends, edits, arrived)
  BY <1>1 DEF M!Start
<1>3. /\ accounts \in [MailAccounts -> M!Account] /\ sends \in [Sends -> M!Request]
      /\ edits \in [Editors -> M!EditRequest] /\ arrived \in SUBSET (Sends \cup Editors)
  BY DEF M!Start
<1> HIDE DEF arrived
<1>4. M!Init
  BY <1>2, <1>3 DEF M!Init
<1> QED BY <1>4, MCAssumption, M!InitTypes, M!InitCalls, M!InitKeys, M!InitFresh DEF M!MailInv

LEMMA BackgroundStart == MCInit => BackgroundInv
<1> SUFFICES ASSUME MCInit PROVE BackgroundInv
  OBVIOUS
<1>1. R!PolicyInv
  BY MCAssumption, R!InitPolicy DEF MCInit
<1>2. M!MailInv
  BY MailStarts DEF MCInit, MailInit, MailRest
<1> QED BY <1>1, <1>2 DEF BackgroundInv

LEMMA OneServer == R!Triggered
BY MCAssumption DEF R!Triggered

LEMMA BackgroundKept == BackgroundInv /\ [MCNext]_backgroundVars => BackgroundInv'
<1> SUFFICES ASSUME BackgroundInv, [MCNext]_backgroundVars PROVE BackgroundInv'
  OBVIOUS
<1>1. [R!Next]_(R!vars)
  BY DEF MCNext, backgroundVars, runVars, R!vars
<1>2. R!PolicyInv'
  BY <1>1, MCAssumption, OneServer, R!NextKeepsPolicy DEF BackgroundInv
<1>3. [M!Next]_(M!vars)
  BY DEF MCNext, backgroundVars, mailVars, M!vars, M!stored, M!memory, M!sending, M!editing, M!history
<1>4. M!MailInv'
  BY <1>3, MCAssumption, M!StepTypes, M!StepCalls, M!StepKeys, M!StepFresh DEF BackgroundInv, M!MailInv
<1> QED BY <1>2, <1>4 DEF BackgroundInv

LEMMA BackgroundAlways == MCSpec => []BackgroundInv
<1>1. MCSpec => MCInit /\ [][MCNext]_backgroundVars
  BY DEF MCSpec, backgroundVars
<1> QED BY <1>1, BackgroundStart, BackgroundKept, PTL

(* Beside the queue and the mail the runs of a task with policy "forbid" keep their types and    *)
(* have one handler at a time, for any number of callers of one server, workers, runs and tasks. *)
THEOREM OneHandlerAtATime == MCSpec => []OneHandler
<1>1. R!PolicyInv => R!TypeOK
  BY DEF R!PolicyInv, R!TypeInv
<1>2. R!PolicyInv => R!OneHandler
  BY MCAssumption, OneServer, R!HandlersApart
<1>3. BackgroundInv => OneHandler
  BY <1>1, <1>2 DEF BackgroundInv, OneHandler
<1> QED BY <1>3, BackgroundAlways, PTL

(* Beside the queue and the runs a message goes out once under its key and what is recorded  *)
(* of it is true, for any number of calls, servers, accounts and keys.                        *)
THEOREM MailIsKept == MCSpec => []MailHolds
<1>1. BackgroundInv => MailHolds
  BY MCAssumption, M!Implied DEF BackgroundInv, MailHolds
<1> QED BY <1>1, BackgroundAlways, PTL

(* A deleted mail account stays deleted beside the queue and the runs, too. *)
THEOREM DeletedAccountsStay == MCSpec => DeletedForGood
<1> DEFINE Stays == \A a \in MailAccounts : account[a].state = "deleted" => account'[a] = account[a]
<1>1. BackgroundInv /\ [MCNext]_backgroundVars => [Stays]_(M!vars)
  <2> SUFFICES ASSUME BackgroundInv, [MCNext]_backgroundVars PROVE [Stays]_(M!vars)
    OBVIOUS
  <2>1. [M!Next]_(M!vars)
    BY DEF MCNext, backgroundVars, mailVars, M!vars, M!stored, M!memory, M!sending, M!editing, M!history
  <2> QED BY <2>1, M!DeletedStays DEF BackgroundInv, M!MailInv
<1>2. MCSpec => [][MCNext]_backgroundVars
  BY DEF MCSpec, backgroundVars
<1> QED BY <1>1, <1>2, BackgroundAlways, PTL DEF DeletedForGood, M!DeletedForGood
=============================================================================
