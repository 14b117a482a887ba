---------------------------- MODULE TaskRunsProofs ----------------------------
(***************************************************************************)
(* What TaskRuns keeps for any number of callers, workers, runs and tasks, *)
(* of any concurrency and any number of attempts: in general the types,    *)
(* and that a run nobody is about to write stays as it ended; and of a     *)
(* definition that one server triggers and nobody cancels or retries, that *)
(* its policy holds, that under "forbid" one handler runs at a time, that  *)
(* a finished run does not change, and that no active run is left without  *)
(* a task of the queue.                                                    *)
(***************************************************************************)
EXTENDS TaskRuns, FiniteSetTheorems, TLAPS

-----------------------------------------------------------------------------
(* Types. *)

Status    == Active \cup Final \cup {"absent"}
CallPoint == {"idle", "done", "list", "replace", "cread", "cqueue", "cwrite", "create", "push", "relink",
              "undo", "rget", "rwrite", "rpush"}
CallLocal == [run : Runs \cup {NoRun}, row : RunRow, key : Keys \cup {NoKey}, todo : SUBSET Runs, skip : BOOLEAN]
WorkPoint == {"idle", "start", "lookup", "markread", "markwrite", "handler", "resread", "reswrite", "endread",
              "endwrite", "settle"}
WorkLocal == [queue : QueueIds \cup {NoQueue}, run : Runs \cup {NoRun}, row : RunRow,
              out : {"none", "ok", "err", "cancel", "stop"}]

(* A call that has reached l knows its run, or its key. *)
CallShape(l, m) ==
    /\ l \in {"cread", "cqueue", "cwrite", "push", "relink", "undo", "rget", "rwrite", "rpush"} => m.run \in Runs
    /\ l \in {"list", "replace", "create", "push"} => m.key \in Keys

(* A worker that is not idle has a task, from "markread" on a run. *)
WorkShape(l, m) ==
    /\ l # "idle" => m.queue \in QueueIds
    /\ l \in {"markread", "markwrite", "handler", "resread", "reswrite", "endread", "endwrite"} => m.run \in Runs

TypeInv ==
    /\ TypeOK
    /\ pc \in [Clients -> CallPoint] /\ loc \in [Clients -> CallLocal]
    /\ \A c \in Clients : CallShape(pc[c], loc[c])
    /\ wpc \in [Workers -> WorkPoint] /\ wloc \in [Workers -> WorkLocal]
    /\ \A w \in Workers : WorkShape(wpc[w], wloc[w])

LEMMA NoRowTyped == NoRow \in RunRow /\ IdleCall \in CallLocal /\ IdleWork \in WorkLocal
BY DEF NoRow, RunRow, IdleCall, CallLocal, IdleWork, WorkLocal

LEMMA NewIsFree == ASSUME NEW F, NEW x \in newID(F) PROVE x \in F
<1>1. F # {}
  BY DEF newID
<1>2. x = CHOOSE y \in F : TRUE
  BY <1>1 DEF newID
<1> QED
  BY <1>1, <1>2

LEMMA PutTypes ==
    ASSUME run \in [Runs -> RunRow], NEW r, NEW row \in RunRow, Put(r, row)
    PROVE  run' \in [Runs -> RunRow]
BY DEF Put

LEMMA QueueTypes ==
    ASSUME qtask \in [QueueIds -> [status : Status, attempts : Nat]], NEW q \in QueueIds,
           \/ Queue!Submit(q) \/ Queue!Start(q) \/ Queue!Complete(q) \/ Queue!Cancel(q) \/ Queue!Fail(q)
    PROVE  qtask' \in [QueueIds -> [status : Status, attempts : Nat]]
<1> DEFINE T == [status : Status, attempts : Nat]
<1>1. CASE Queue!Submit(q)
  <2>1. [status |-> "pending", attempts |-> 0] \in T
    BY DEF Status, Active
  <2>2. qtask' = [qtask EXCEPT ![q] = [status |-> "pending", attempts |-> 0]]
    BY <1>1 DEF Queue!Submit
  <2> HIDE DEF T
  <2> QED
    BY <2>1, <2>2 DEF T
<1>2. CASE \E to \in {"running", "succeeded", "cancelled"} : Queue!Move(q, to)
  <2>1. PICK to \in {"running", "succeeded", "cancelled"} : qtask' = [qtask EXCEPT ![q].status = to]
    BY <1>2 DEF Queue!Move
  <2>2. [qtask[q] EXCEPT !.status = to] \in T
    BY DEF Status, Active, Final
  <2>3. qtask' = [qtask EXCEPT ![q] = [qtask[q] EXCEPT !.status = to]]
    BY <2>1
  <2> HIDE DEF T
  <2> QED
    BY <2>2, <2>3 DEF T
<1>3. CASE Queue!Fail(q)
  <2> DEFINE m == [status |-> IF qtask[q].attempts + 1 >= MaxAttempts THEN "dead_letter" ELSE "failed",
                   attempts |-> qtask[q].attempts + 1]
  <2>1. m \in T
    BY DEF Status, Active, Final
  <2>2. qtask' = [qtask EXCEPT ![q] = m]
    BY <1>3 DEF Queue!Fail
  <2> HIDE DEF T, m
  <2> QED
    BY <2>1, <2>2 DEF T
<1> QED
  BY <1>1, <1>2, <1>3 DEF Queue!Start, Queue!Complete, Queue!Cancel

(* What a client's step does to where it is and what it remembers. *)
Moved(c) ==
    /\ pc' = [pc EXCEPT ![c] = pc'[c]] /\ loc' = [loc EXCEPT ![c] = loc'[c]]
    /\ pc'[c] \in CallPoint /\ loc'[c] \in CallLocal /\ CallShape(pc'[c], loc'[c])

LEMMA MovedTo ==
    ASSUME TypeInv, NEW c \in Clients, NEW l \in CallPoint, NEW m \in CallLocal, Go(c, l),
           loc' = [loc EXCEPT ![c] = m], CallShape(l, m)
    PROVE  Moved(c)
BY DEF TypeInv, Moved, Go

LEMMA ReturnMoves == ASSUME TypeInv, NEW c \in Clients, Return(c) PROVE Moved(c)
BY NoRowTyped, MovedTo DEF Return, CallPoint, CallShape

LEMMA StayMoves ==
    ASSUME TypeInv, NEW c \in Clients, NEW l \in CallPoint, Go(c, l), UNCHANGED loc, CallShape(l, loc[c])
    PROVE  Moved(c)
<1>1. loc[c] \in CallLocal /\ loc' = [loc EXCEPT ![c] = loc[c]]
  BY DEF TypeInv
<1> QED
  BY <1>1, MovedTo

LEMMA EnqueueMoves ==
    ASSUME TypeInv, NEW c \in Clients,
           (\E k \in Keys : EnqueueCall(c, k)) \/ ListActive(c) \/ ReplaceNext(c) \/ CreateRun(c)
    PROVE  Moved(c)
<1>0. loc[c] \in CallLocal /\ CallShape(pc[c], loc[c])
  BY DEF TypeInv
<1>1. ASSUME NEW k \in Keys, EnqueueCall(c, k) PROVE Moved(c)
  <2>1. CASE Return(c)
    BY <2>1, ReturnMoves
  <2>2. CASE Go(c, "list") /\ loc' = [loc EXCEPT ![c].key = k]
    <3> DEFINE m == [loc[c] EXCEPT !.key = k]
    <3>1. m \in CallLocal /\ CallShape("list", m) /\ "list" \in CallPoint
      BY <1>0 DEF CallLocal, CallShape, CallPoint
    <3>2. loc' = [loc EXCEPT ![c] = m]
      BY <2>2 DEF TypeInv
    <3> HIDE DEF m
    <3> QED
      BY <2>2, <3>1, <3>2, MovedTo
  <2> QED
    BY <1>1, <2>1, <2>2 DEF EnqueueCall
<1>2. CASE ListActive(c)
  <2>1. pc[c] = "list"
    BY <1>2 DEF ListActive
  <2>2. ASSUME NEW S \in SUBSET Runs, Go(c, "replace"), loc' = [loc EXCEPT ![c].todo = S] PROVE Moved(c)
    <3> DEFINE m == [loc[c] EXCEPT !.todo = S]
    <3>1. m \in CallLocal /\ CallShape("replace", m) /\ "replace" \in CallPoint
      BY <1>0, <2>1 DEF CallLocal, CallShape, CallPoint
    <3>2. loc' = [loc EXCEPT ![c] = m]
      BY <2>2 DEF TypeInv
    <3> HIDE DEF m
    <3> QED
      BY <2>2, <3>1, <3>2, MovedTo
  <2>3. ASSUME NEW b \in BOOLEAN, Go(c, "create"), loc' = [loc EXCEPT ![c].skip = b] PROVE Moved(c)
    <3> DEFINE m == [loc[c] EXCEPT !.skip = b]
    <3>1. m \in CallLocal /\ CallShape("create", m) /\ "create" \in CallPoint
      BY <1>0, <2>1 DEF CallLocal, CallShape, CallPoint
    <3>2. loc' = [loc EXCEPT ![c] = m]
      BY <2>3 DEF TypeInv
    <3> HIDE DEF m
    <3> QED
      BY <2>3, <3>1, <3>2, MovedTo
  <2>4. ActiveRuns \in SUBSET Runs
    BY DEF ActiveRuns
  <2>5. CASE policy = "replace"
    BY <1>2, <2>2, <2>4, <2>5 DEF ListActive
  <2>6. CASE policy # "replace"
    <3> DEFINE b == Cardinality(ActiveRuns) > 0 /\ (policy # "allow" \/ Cardinality(ActiveRuns) >= Concurrency)
    <3>1. Go(c, "create") /\ loc' = [loc EXCEPT ![c].skip = b]
      BY <1>2, <2>6 DEF ListActive
    <3>2. b \in BOOLEAN
      OBVIOUS
    <3> HIDE DEF b
    <3> QED
      BY <2>3, <3>1, <3>2
  <2> QED
    BY <2>5, <2>6
<1>3. CASE ReplaceNext(c)
  <2>1. pc[c] = "replace"
    BY <1>3 DEF ReplaceNext
  <2>2. CASE Go(c, "create") /\ UNCHANGED loc
    BY <1>0, <2>1, <2>2, StayMoves DEF CallShape, CallPoint
  <2>3. ASSUME NEW r \in loc[c].todo, Go(c, "cread"), loc' = [loc EXCEPT ![c].todo = @ \ {r}, ![c].run = r]
        PROVE  Moved(c)
    <3> DEFINE m == [loc[c] EXCEPT !.todo = @ \ {r}, !.run = r]
    <3>1. m \in CallLocal /\ CallShape("cread", m) /\ "cread" \in CallPoint
      BY <1>0, <2>1 DEF CallLocal, CallShape, CallPoint
    <3>2. loc' = [loc EXCEPT ![c] = m]
      BY <2>3 DEF TypeInv
    <3> HIDE DEF m
    <3> QED
      BY <2>3, <3>1, <3>2, MovedTo
  <2> QED
    BY <1>3, <2>2, <2>3 DEF ReplaceNext
<1>4. CASE CreateRun(c)
  <2>1. CASE Return(c)
    BY <2>1, ReturnMoves
  <2>2. CASE ~Return(c)
    <3>1. PICK r \in newID({x \in Runs : run[x] = NoRow}), q \in newID({x \in QueueIds : Unused(x)}) :
             /\ Go(c, "push")
             /\ loc' = [loc EXCEPT ![c].run = r,
                                   ![c].row = [status |-> "pending", queue |-> q, key |-> loc[c].key, attempts |-> 0]]
      BY <1>4, <2>2 DEF CreateRun
    <3>2. r \in Runs /\ q \in QueueIds
      BY NewIsFree
    <3>3. pc[c] = "create"
      BY <1>4 DEF CreateRun
    <3> DEFINE row == [status |-> "pending", queue |-> q, key |-> loc[c].key, attempts |-> 0]
               m == [loc[c] EXCEPT !.run = r, !.row = row]
    <3>4. row \in RunRow
      BY <1>0, <3>2 DEF RunRow, CallLocal, Active
    <3>5. m \in CallLocal /\ CallShape("push", m) /\ "push" \in CallPoint
      <4> HIDE DEF row
      <4> QED
        BY <1>0, <3>2, <3>3, <3>4 DEF CallLocal, CallShape, CallPoint
    <3>6. loc' = [loc EXCEPT ![c] = m]
      BY <3>1 DEF TypeInv
    <3> HIDE DEF m, row
    <3> QED
      BY <3>1, <3>5, <3>6, MovedTo
  <2> QED
    BY <2>1, <2>2
<1> QED
  BY <1>1, <1>2, <1>3, <1>4

LEMMA OtherCallsMove ==
    ASSUME TypeInv, NEW c \in Clients,
           \/ PushTask(c) \/ PushFails(c) \/ Relink(c) \/ MarkUnqueued(c)
           \/ \E r \in Runs : CancelCall(c, r) \/ RetryCall(c, r)
           \/ CancelRead(c) \/ CancelQueue(c) \/ CancelWrite(c) \/ RetryGet(c) \/ RetryWrite(c) \/ RetryPush(c)
    PROVE  Moved(c)
<1>0. /\ loc[c] \in CallLocal /\ CallShape(pc[c], loc[c]) /\ loc[c].row \in RunRow
      /\ run \in [Runs -> RunRow] /\ loc \in [Clients -> CallLocal]
  BY DEF TypeInv, TypeOK
<1>1. CASE Return(c)
  BY <1>1, ReturnMoves
<1>2. CASE UNCHANGED loc /\ \E l \in CallPoint : Go(c, l) /\ CallShape(l, loc[c])
  BY <1>2, StayMoves
<1>3. CASE PushTask(c)
  <2>1. pc[c] = "push" /\ qkey[loc[c].key] \in QueueIds \cup {NoQueue}
    BY <1>0, <1>3 DEF PushTask, TypeInv, TypeOK, CallShape
  <2>2. CASE Go(c, "relink") /\ loc' = [loc EXCEPT ![c].row.queue = qkey[loc[c].key]]
    <3> DEFINE row == [loc[c].row EXCEPT !.queue = qkey[loc[c].key]]
               m == [loc[c] EXCEPT !.row = row]
    <3>1. row \in RunRow
      BY <1>0, <2>1 DEF RunRow
    <3>2. m \in CallLocal /\ CallShape("relink", m) /\ "relink" \in CallPoint
      <4> HIDE DEF row
      <4> QED
        BY <1>0, <2>1, <3>1 DEF CallLocal, CallShape, CallPoint
    <3>3. loc' = [loc EXCEPT ![c] = m]
      BY <1>0, <2>2
    <3> HIDE DEF m, row
    <3> QED
      BY <2>2, <3>2, <3>3, MovedTo
  <2> QED
    BY <1>1, <1>3, <2>2 DEF PushTask
<1>4. CASE PushFails(c) \/ CancelQueue(c) \/ RetryGet(c)
  <2>1. Return(c) \/ (UNCHANGED loc /\ \E l \in CallPoint : Go(c, l) /\ CallShape(l, loc[c]))
    <3>1. CASE PushFails(c)
      <4>1. pc[c] \in {"push", "rpush"} /\ Go(c, "undo") /\ UNCHANGED loc
        BY <3>1 DEF PushFails
      <4> QED
        BY <1>0, <4>1 DEF CallShape, CallPoint
    <3>2. CASE CancelQueue(c)
      <4>1. Return(c) \/ (pc[c] = "cqueue" /\ Go(c, "cwrite") /\ UNCHANGED loc)
        BY <3>2 DEF CancelQueue, Return, Go
      <4> QED
        BY <1>0, <4>1 DEF CallShape, CallPoint
    <3>3. CASE RetryGet(c)
      <4>1. Return(c) \/ (pc[c] = "rget" /\ Go(c, "rwrite") /\ UNCHANGED loc)
        BY <3>3 DEF RetryGet, Return, Go
      <4> QED
        BY <1>0, <4>1 DEF CallShape, CallPoint
    <3> QED
      BY <1>4, <3>1, <3>2, <3>3
  <2> QED
    BY <1>1, <1>2, <2>1
<1>5. CASE Relink(c) \/ MarkUnqueued(c) \/ RetryPush(c)
  BY <1>1, <1>5 DEF Relink, MarkUnqueued, RetryPush
<1>6. ASSUME NEW r \in Runs, CancelCall(c, r) PROVE Moved(c)
  <2> DEFINE m == [loc[c] EXCEPT !.run = r]
  <2>1. m \in CallLocal /\ CallShape("cread", m) /\ "cread" \in CallPoint
    BY <1>0 DEF CallLocal, CallShape, CallPoint
  <2>2. loc' = [loc EXCEPT ![c] = m] /\ Go(c, "cread")
    BY <1>0, <1>6 DEF CancelCall
  <2> HIDE DEF m
  <2> QED
    BY <2>1, <2>2, MovedTo
<1>7. ASSUME NEW r \in Runs, RetryCall(c, r) PROVE Moved(c)
  <2> DEFINE m == [loc[c] EXCEPT !.run = r, !.row = run[r]]
  <2>1. m \in CallLocal /\ CallShape("rget", m) /\ "rget" \in CallPoint
    BY <1>0 DEF CallLocal, CallShape, CallPoint
  <2>2. loc' = [loc EXCEPT ![c] = m] /\ Go(c, "rget")
    BY <1>0, <1>7 DEF RetryCall
  <2> HIDE DEF m
  <2> QED
    BY <2>1, <2>2, MovedTo
<1>8. CASE CancelRead(c)
  <2>1. pc[c] = "cread" /\ run[loc[c].run] \in RunRow
    BY <1>0, <1>8 DEF CancelRead, CallShape
  <2>2. CASE Go(c, "cqueue") /\ loc' = [loc EXCEPT ![c].row = run[loc[c].run]]
    <3> DEFINE m == [loc[c] EXCEPT !.row = run[loc[c].run]]
    <3>1. m \in CallLocal /\ CallShape("cqueue", m) /\ "cqueue" \in CallPoint
      BY <1>0, <2>1 DEF CallLocal, CallShape, CallPoint
    <3>2. loc' = [loc EXCEPT ![c] = m]
      BY <1>0, <2>2
    <3> HIDE DEF m
    <3> QED
      BY <2>2, <3>1, <3>2, MovedTo
  <2> QED
    BY <1>1, <1>8, <2>2 DEF CancelRead
<1>9. CASE CancelWrite(c)
  <2>1. CASE Nested(c) /\ Go(c, "replace") /\ loc' = [loc EXCEPT ![c].row = NoRow, ![c].run = NoRun]
    <3> DEFINE m == [loc[c] EXCEPT !.row = NoRow, !.run = NoRun]
    <3>1. m \in CallLocal /\ CallShape("replace", m) /\ "replace" \in CallPoint
      BY <1>0, <2>1, NoRowTyped DEF CallLocal, CallShape, CallPoint, Nested
    <3>2. loc' = [loc EXCEPT ![c] = m]
      BY <1>0, <2>1
    <3> HIDE DEF m
    <3> QED
      BY <2>1, <3>1, <3>2, MovedTo
  <2> QED
    BY <1>1, <1>9, <2>1 DEF CancelWrite
<1>10. CASE RetryWrite(c)
  <2>1. PICK q \in newID({x \in QueueIds : Unused(x)}) : loc' = [loc EXCEPT ![c].row = Retried(@, q)]
    BY <1>10 DEF RetryWrite
  <2>2. q \in QueueIds /\ pc[c] = "rwrite" /\ Go(c, "rpush")
    BY <1>10, NewIsFree DEF RetryWrite
  <2> DEFINE row == Retried(loc[c].row, q)
             m == [loc[c] EXCEPT !.row = row]
  <2>3. row \in RunRow
    BY <1>0, <2>2 DEF RunRow, Retried, Active
  <2>4. m \in CallLocal /\ CallShape("rpush", m) /\ "rpush" \in CallPoint
    <3> HIDE DEF row
    <3> QED
      BY <1>0, <2>2, <2>3 DEF CallLocal, CallShape, CallPoint
  <2>5. loc' = [loc EXCEPT ![c] = m]
    <3>1. loc' = [loc EXCEPT ![c] = [loc[c] EXCEPT !.row = Retried(loc[c].row, q)]]
      BY <1>0, <2>1
    <3> QED
      BY <3>1
  <2> HIDE DEF m, row
  <2> QED
    BY <2>2, <2>4, <2>5, MovedTo
<1> QED
  BY <1>3, <1>4, <1>5, <1>6, <1>7, <1>8, <1>9, <1>10

LEMMA ClientMoves == ASSUME TypeInv, NEW c \in Clients, Client(c) PROVE Moved(c)
BY EnqueueMoves, OtherCallsMove DEF Client

LEMMA ClientStores ==
    ASSUME TypeInv, NEW c \in Clients, Client(c)
    PROVE  /\ run' \in [Runs -> RunRow]
           /\ qtask' \in [QueueIds -> [status : Status, attempts : Nat]]
           /\ qkey' \in [Keys -> QueueIds \cup {NoQueue}]
<1>0. /\ loc[c] \in CallLocal /\ loc[c].row \in RunRow /\ run \in [Runs -> RunRow]
      /\ qtask \in [QueueIds -> [status : Status, attempts : Nat]]
      /\ qkey \in [Keys -> QueueIds \cup {NoQueue}] /\ loc[c].key \in Keys \cup {NoKey}
  BY DEF TypeInv, TypeOK, Status, CallLocal
<1>1. run' \in [Runs -> RunRow]
  <2>1. CASE UNCHANGED run
    BY <1>0, <2>1
  <2>2. CASE \E r : \E row \in RunRow : Put(r, row)
    BY <1>0, <2>2, PutTypes
  <2>3. CASE CreateRun(c)
    <3>1. CASE UNCHANGED run
      BY <1>0, <3>1
    <3>2. CASE ~UNCHANGED run
      <4>1. PICK r \in Runs, q \in newID({x \in QueueIds : Unused(x)}) :
               Put(r, [status |-> IF loc[c].skip THEN "cancelled" ELSE "pending",
                       queue |-> IF loc[c].skip THEN NoQueue ELSE q, key |-> loc[c].key, attempts |-> 0])
        BY <2>3, <3>2, NewIsFree DEF CreateRun
      <4>2. [status |-> IF loc[c].skip THEN "cancelled" ELSE "pending",
             queue |-> IF loc[c].skip THEN NoQueue ELSE q, key |-> loc[c].key, attempts |-> 0] \in RunRow
        BY <1>0, NewIsFree DEF RunRow, Active, Final
      <4> QED
        BY <1>0, <4>1, <4>2, PutTypes
    <3> QED
      BY <3>1, <3>2
  <2>4. CASE Relink(c) \/ MarkUnqueued(c) \/ CancelWrite(c)
    <3>1. /\ [loc[c].row EXCEPT !.status = "failed"] \in RunRow
          /\ [loc[c].row EXCEPT !.status = "cancelled"] \in RunRow
      BY <1>0 DEF RunRow, Active, Final
    <3> QED
      BY <1>0, <2>2, <2>4, <3>1 DEF Relink, MarkUnqueued, CancelWrite
  <2>5. CASE RetryWrite(c)
    <3>1. PICK q \in newID({x \in QueueIds : Unused(x)}) : Put(loc[c].run, Retried(loc[c].row, q))
      BY <2>5 DEF RetryWrite
    <3>2. Retried(loc[c].row, q) \in RunRow
      BY <1>0, NewIsFree DEF RunRow, Retried, Active
    <3> QED
      BY <2>2, <3>1, <3>2
  <2>6. \/ UNCHANGED run \/ CreateRun(c) \/ Relink(c) \/ MarkUnqueued(c) \/ CancelWrite(c) \/ RetryWrite(c)
    BY DEF Client, EnqueueCall, ListActive, ReplaceNext, PushTask, PushFails, CancelCall, RetryCall, CancelRead,
         CancelQueue, RetryGet, RetryPush
  <2> QED
    BY <2>1, <2>3, <2>4, <2>5, <2>6
<1>2. qtask' \in [QueueIds -> [status : Status, attempts : Nat]]
  <2>1. CASE UNCHANGED qtask
    BY <1>0, <2>1
  <2>2. \A q : Queue!Submit(q) \/ Queue!Cancel(q) => q \in QueueIds
             \/ qtask' \in [QueueIds -> [status : Status, attempts : Nat]]
    BY <1>0 DEF Queue!Submit, Queue!Cancel, Queue!Move
  <2>3. CASE \E q : Queue!Submit(q) \/ Queue!Cancel(q)
    BY <1>0, <2>2, <2>3, QueueTypes
  <2>4. UNCHANGED qtask \/ \E q : Queue!Submit(q) \/ Queue!Cancel(q)
    BY DEF Client, EnqueueCall, ListActive, ReplaceNext, CreateRun, PushTask, PushFails, Relink, MarkUnqueued,
         CancelCall, RetryCall, CancelRead, CancelQueue, CancelWrite, RetryGet, RetryWrite, RetryPush
  <2> QED
    BY <2>1, <2>3, <2>4
<1>3. qkey' \in [Keys -> QueueIds \cup {NoQueue}]
  <2>1. UNCHANGED qkey \/ qkey' = [qkey EXCEPT ![loc[c].key] = loc[c].row.queue]
    BY DEF Client, EnqueueCall, ListActive, ReplaceNext, CreateRun, PushTask, PushFails, Relink, MarkUnqueued,
         CancelCall, RetryCall, CancelRead, CancelQueue, CancelWrite, RetryGet, RetryWrite, RetryPush
  <2> QED
    BY <1>0, <2>1 DEF RunRow
<1> QED
  BY <1>1, <1>2, <1>3

(* The same of a worker's step. *)
WorkMoved(w) ==
    /\ wpc' = [wpc EXCEPT ![w] = wpc'[w]] /\ wloc' = [wloc EXCEPT ![w] = wloc'[w]]
    /\ wpc'[w] \in WorkPoint /\ wloc'[w] \in WorkLocal /\ WorkShape(wpc'[w], wloc'[w])

LEMMA WorkMovedTo ==
    ASSUME TypeInv, NEW w \in Workers, NEW l \in WorkPoint, NEW m \in WorkLocal, WorkAt(w, l),
           wloc' = [wloc EXCEPT ![w] = m], WorkShape(l, m)
    PROVE  WorkMoved(w)
BY DEF TypeInv, WorkMoved, WorkAt

LEMMA RestMoves == ASSUME TypeInv, NEW w \in Workers, Rest(w) PROVE WorkMoved(w)
BY NoRowTyped, WorkMovedTo DEF Rest, WorkPoint, WorkShape

LEMMA StayWorks ==
    ASSUME TypeInv, NEW w \in Workers, NEW l \in WorkPoint, WorkAt(w, l), UNCHANGED wloc, WorkShape(l, wloc[w])
    PROVE  WorkMoved(w)
<1>1. wloc[w] \in WorkLocal /\ wloc' = [wloc EXCEPT ![w] = wloc[w]]
  BY DEF TypeInv
<1> QED
  BY <1>1, WorkMovedTo

LEMMA OutMoves ==
    ASSUME TypeInv, NEW w \in Workers, wpc[w] # "idle", NEW l \in WorkPoint,
           NEW o \in {"none", "ok", "err", "cancel", "stop"}, WorkAt(w, l), wloc' = [wloc EXCEPT ![w].out = o],
           WorkShape(l, wloc[w])
    PROVE  WorkMoved(w)
<1> DEFINE m == [wloc[w] EXCEPT !.out = o]
<1>1. m \in WorkLocal /\ WorkShape(l, m)
  BY DEF TypeInv, WorkLocal, WorkShape
<1>2. wloc' = [wloc EXCEPT ![w] = m]
  BY DEF TypeInv
<1> HIDE DEF m
<1> QED
  BY <1>1, <1>2, WorkMovedTo

LEMMA SettleMoves ==
    ASSUME TypeInv, NEW w \in Workers, wpc[w] # "idle", NEW o \in {"none", "ok", "err", "cancel", "stop"}, Settle(w, o)
    PROVE  WorkMoved(w)
<1>1. WorkShape("settle", wloc[w]) /\ "settle" \in WorkPoint
  BY DEF TypeInv, WorkShape, WorkPoint
<1> QED
  BY <1>1, OutMoves DEF Settle

LEMMA CopyMoves ==
    ASSUME TypeInv, NEW w \in Workers, wpc[w] # "idle", wloc[w].run \in Runs,
           NEW l \in {"markwrite", "reswrite", "endwrite"}, WorkAt(w, l),
           wloc' = [wloc EXCEPT ![w].row = run[wloc[w].run]]
    PROVE  WorkMoved(w)
<1> DEFINE m == [wloc[w] EXCEPT !.row = run[wloc[w].run]]
<1>1. m \in WorkLocal /\ WorkShape(l, m) /\ l \in WorkPoint
  BY DEF TypeInv, TypeOK, WorkLocal, WorkShape, WorkPoint
<1>2. wloc' = [wloc EXCEPT ![w] = m]
  BY DEF TypeInv
<1> HIDE DEF m
<1> QED
  BY <1>1, <1>2, WorkMovedTo

LEMMA WorkerMoves == ASSUME TypeInv, NEW w \in Workers, Worker(w) PROVE WorkMoved(w)
<1>0. wloc[w] \in WorkLocal /\ WorkShape(wpc[w], wloc[w]) /\ wloc[w].out \in {"none", "ok", "err", "cancel", "stop"}
  BY DEF TypeInv, WorkLocal
<1>1. ASSUME NEW q \in QueueIds, Claim(w, q) PROVE WorkMoved(w)
  <2> DEFINE m == [wloc[w] EXCEPT !.queue = q]
  <2>1. m \in WorkLocal /\ WorkShape("start", m) /\ "start" \in WorkPoint
    BY <1>0 DEF WorkLocal, WorkShape, WorkPoint
  <2>2. wloc' = [wloc EXCEPT ![w] = m] /\ WorkAt(w, "start")
    BY <1>1 DEF TypeInv, Claim
  <2> HIDE DEF m
  <2> QED
    BY <2>1, <2>2, WorkMovedTo
<1>2. CASE StartTask(w)
  <2>1. wpc[w] = "start"
    BY <1>2 DEF StartTask
  <2> QED
    BY <1>0, <1>2, <2>1, RestMoves, StayWorks DEF StartTask, WorkShape, WorkPoint
<1>3. CASE FindRun(w)
  <2>1. wpc[w] = "lookup"
    BY <1>3 DEF FindRun
  <2>2. ASSUME NEW r \in Runs, WorkAt(w, "markread"), wloc' = [wloc EXCEPT ![w].run = r] PROVE WorkMoved(w)
    <3> DEFINE m == [wloc[w] EXCEPT !.run = r]
    <3>1. m \in WorkLocal /\ WorkShape("markread", m) /\ "markread" \in WorkPoint
      BY <1>0, <2>1 DEF WorkLocal, WorkShape, WorkPoint
    <3>2. wloc' = [wloc EXCEPT ![w] = m]
      BY <2>2 DEF TypeInv
    <3> HIDE DEF m
    <3> QED
      BY <2>2, <3>1, <3>2, WorkMovedTo
  <2> QED
    BY <1>3, <2>1, <2>2, SettleMoves DEF FindRun
<1>4. CASE MarkRunningRead(w) \/ ResultRead(w)
  <2>1. wpc[w] \in {"markread", "resread"} /\ wloc[w].run \in Runs
    BY <1>0, <1>4 DEF MarkRunningRead, ResultRead, WorkShape
  <2> QED
    BY <1>4, <2>1, SettleMoves, CopyMoves DEF MarkRunningRead, ResultRead
<1>5. CASE MarkRunningWrite(w)
  <2>1. wpc[w] = "markwrite"
    BY <1>5 DEF MarkRunningWrite
  <2> QED
    BY <1>0, <1>5, <2>1, SettleMoves, StayWorks DEF MarkRunningWrite, WorkShape, WorkPoint
<1>6. CASE HandlerReturns(w)
  <2>1. wpc[w] = "handler"
    BY <1>6 DEF HandlerReturns
  <2>2. PICK o \in {"ok", "err", "cancel", "stop"}, l \in {"resread", "endread"} :
           WorkAt(w, l) /\ wloc' = [wloc EXCEPT ![w].out = o]
    BY <1>6 DEF HandlerReturns
  <2>3. l \in WorkPoint /\ WorkShape(l, wloc[w])
    BY <1>0, <2>1 DEF WorkShape, WorkPoint
  <2> QED
    BY <2>1, <2>2, <2>3, OutMoves
<1>7. CASE ResultWrite(w)
  <2> DEFINE o == IF Writable(wloc[w].run, wloc[w].row) THEN wloc[w].out ELSE "err"
  <2>1. wpc[w] = "reswrite" /\ WorkAt(w, "endread") /\ o \in {"none", "ok", "err", "cancel", "stop"}
    BY <1>0, <1>7 DEF ResultWrite
  <2>2. wloc' = [wloc EXCEPT ![w].out = o]
    BY <1>7 DEF ResultWrite
  <2>3. "endread" \in WorkPoint /\ WorkShape("endread", wloc[w])
    BY <1>0, <2>1 DEF WorkShape, WorkPoint
  <2> HIDE DEF o
  <2> QED
    BY <2>1, <2>2, <2>3, OutMoves
<1>8. CASE LateStop(w)
  BY <1>8, SettleMoves DEF LateStop
<1>9. CASE MarkEndRead(w)
  <2>1. wpc[w] = "endread" /\ wloc[w].run \in Runs
    BY <1>0, <1>9 DEF MarkEndRead, WorkShape
  <2>2. (IF wloc[w].out = "ok" THEN "err" ELSE wloc[w].out) \in {"none", "ok", "err", "cancel", "stop"}
    BY <1>0
  <2> QED
    BY <1>9, <2>1, <2>2, SettleMoves, CopyMoves DEF MarkEndRead
<1>10. CASE MarkEndWrite(w)
  <2>1. (IF wloc[w].out = "ok" /\ ~Writable(wloc[w].run, wloc[w].row) THEN "err" ELSE wloc[w].out)
           \in {"none", "ok", "err", "cancel", "stop"}
    BY <1>0
  <2> QED
    BY <1>10, <2>1, SettleMoves DEF MarkEndWrite
<1>11. CASE SettleTask(w)
  BY <1>11, RestMoves DEF SettleTask
<1> QED
  BY <1>1, <1>2, <1>3, <1>4, <1>5, <1>6, <1>7, <1>8, <1>9, <1>10, <1>11 DEF Worker

LEMMA EndedTypes ==
    ASSUME RunsAssumption, NEW row \in RunRow, NEW o
    PROVE  Ended(row, o) \in RunRow
<1>1. row.attempts \in Nat /\ MaxAttempts \in Nat
  BY DEF RunsAssumption, RunRow
<1>2. CASE o = "err"
  <2> DEFINE n == row.attempts + 1
             s == IF n >= MaxAttempts THEN "dead_letter" ELSE "failed"
  <2>1. n \in Nat /\ s \in Active \cup Final
    BY <1>1 DEF Active, Final
  <2>2. Ended(row, o) = [row EXCEPT !.attempts = n, !.status = s]
    BY <1>2 DEF Ended
  <2> HIDE DEF n, s
  <2> QED
    BY <2>1, <2>2 DEF RunRow
<1>3. CASE o # "err"
  BY <1>3 DEF RunRow, Ended, Final
<1> QED
  BY <1>2, <1>3

LEMMA WorkerStores ==
    ASSUME RunsAssumption, TypeInv, NEW w \in Workers, Worker(w)
    PROVE  /\ run' \in [Runs -> RunRow]
           /\ qtask' \in [QueueIds -> [status : Status, attempts : Nat]]
<1>0. /\ wloc[w].row \in RunRow /\ run \in [Runs -> RunRow] /\ WorkShape(wpc[w], wloc[w])
      /\ qtask \in [QueueIds -> [status : Status, attempts : Nat]]
  BY DEF TypeInv, TypeOK, Status
<1>1. run' \in [Runs -> RunRow]
  <2>1. [wloc[w].row EXCEPT !.status = "running"] \in RunRow /\ Ended(wloc[w].row, wloc[w].out) \in RunRow
    BY <1>0, EndedTypes DEF RunRow, Active, Final
  <2>2. UNCHANGED run \/ \E r : \E row \in RunRow : Put(r, row)
    BY <1>0, <2>1 DEF Worker, Claim, StartTask, FindRun, MarkRunningRead, MarkRunningWrite, HandlerReturns, ResultRead,
         ResultWrite, LateStop, MarkEndRead, MarkEndWrite, SettleTask
  <2> QED
    BY <1>0, <2>2, PutTypes
<1>2. UNCHANGED qtask \/ \E q \in QueueIds : Queue!Start(q) \/ Queue!Complete(q) \/ Queue!Cancel(q) \/ Queue!Fail(q)
  BY <1>0 DEF Worker, Claim, StartTask, FindRun, MarkRunningRead, MarkRunningWrite, HandlerReturns, ResultRead,
       ResultWrite, LateStop, MarkEndRead, MarkEndWrite, SettleTask, WorkShape
<1>3. qtask' \in [QueueIds -> [status : Status, attempts : Nat]]
  BY <1>0, <1>2, QueueTypes
<1> QED
  BY <1>1, <1>3

LEMMA FaultTypes ==
    ASSUME RunsAssumption, TypeInv, NEW p, Fault(p)
    PROVE  faults' \in 0..MaxFaults
BY DEF TypeInv, TypeOK, Fault, RunsAssumption

LEMMA NextKeepsTypes == ASSUME RunsAssumption, TypeInv, [Next]_vars PROVE TypeInv'
<1>1. ASSUME NEW c \in Clients, Moved(c), UNCHANGED <<policy, wpc, wloc>>,
             run' \in [Runs -> RunRow], qtask' \in [QueueIds -> [status : Status, attempts : Nat]],
             qkey' \in [Keys -> QueueIds \cup {NoQueue}], faults' \in 0..MaxFaults
      PROVE  TypeInv'
  <2>1. /\ pc' \in [Clients -> CallPoint] /\ loc' \in [Clients -> CallLocal]
        /\ \A d \in Clients : CallShape(pc'[d], loc'[d])
    BY <1>1 DEF TypeInv, Moved
  <2>2. \A d \in Clients : loc'[d].row \in RunRow /\ loc'[d].todo \subseteq Runs
    BY <2>1 DEF CallLocal
  <2> QED
    BY <1>1, <2>1, <2>2 DEF TypeInv, TypeOK, Status
<1>2. ASSUME NEW w \in Workers, WorkMoved(w), UNCHANGED <<policy, pc, loc, qkey>>,
             run' \in [Runs -> RunRow], qtask' \in [QueueIds -> [status : Status, attempts : Nat]],
             faults' \in 0..MaxFaults
      PROVE  TypeInv'
  <2>1. /\ wpc' \in [Workers -> WorkPoint] /\ wloc' \in [Workers -> WorkLocal]
        /\ \A v \in Workers : WorkShape(wpc'[v], wloc'[v])
    BY <1>2 DEF TypeInv, WorkMoved
  <2>2. \A v \in Workers : wloc'[v].row \in RunRow /\ wloc'[v].queue \in QueueIds \cup {NoQueue}
    BY <2>1 DEF WorkLocal
  <2> QED
    BY <1>2, <2>1, <2>2 DEF TypeInv, TypeOK, Status
<1>3. /\ run \in [Runs -> RunRow] /\ qtask \in [QueueIds -> [status : Status, attempts : Nat]]
      /\ qkey \in [Keys -> QueueIds \cup {NoQueue}] /\ faults \in 0..MaxFaults
  BY DEF TypeInv, TypeOK, Status
<1>4. ASSUME NEW c \in Clients, Client(c) PROVE TypeInv'
  <2>1. faults' \in 0..MaxFaults
    BY <1>3, <1>4, FaultTypes DEF Client, EnqueueCall, ListActive, ReplaceNext, CreateRun, PushTask, PushFails, Relink,
         MarkUnqueued, CancelCall, RetryCall, CancelRead, CancelQueue, CancelWrite, RetryGet, RetryWrite, RetryPush
  <2>2. UNCHANGED <<policy, wpc, wloc>>
    BY <1>4 DEF Client
  <2> QED
    BY <1>1, <1>4, <2>1, <2>2, ClientMoves, ClientStores
<1>5. ASSUME NEW w \in Workers, Worker(w) PROVE TypeInv'
  <2>1. faults' \in 0..MaxFaults
    BY <1>3, <1>5, FaultTypes DEF Worker, Claim, StartTask, FindRun, MarkRunningRead, MarkRunningWrite, HandlerReturns,
         ResultRead, ResultWrite, LateStop, MarkEndRead, MarkEndWrite, SettleTask
  <2>2. UNCHANGED <<policy, pc, loc, qkey>>
    BY <1>5 DEF Worker, Claim, StartTask, FindRun, MarkRunningRead, MarkRunningWrite, HandlerReturns,
         ResultRead, ResultWrite, LateStop, MarkEndRead, MarkEndWrite, SettleTask
  <2> QED
    BY <1>2, <1>5, <2>1, <2>2, WorkerMoves, WorkerStores
<1>6. ASSUME NEW c \in Clients, CrashClient(c) PROVE TypeInv'
  BY <1>1, <1>3, <1>6, FaultTypes, ReturnMoves DEF CrashClient
<1>7. ASSUME NEW w \in Workers, CrashWorker(w) PROVE TypeInv'
  BY <1>2, <1>3, <1>7, FaultTypes, RestMoves DEF CrashWorker
<1>8. CASE UNCHANGED vars
  BY <1>8 DEF TypeInv, TypeOK, vars
<1> QED
  BY <1>4, <1>5, <1>6, <1>7, <1>8 DEF Next

LEMMA InitTypes == ASSUME RunsAssumption, Init PROVE TypeInv
<1>1. TypeOK
  BY NoRowTyped DEF RunsAssumption, Init, TypeOK, NoQueueTask, CallLocal, WorkLocal, IdleCall, IdleWork, Active, Final
<1> QED
  BY <1>1, NoRowTyped DEF Init, TypeInv, CallPoint, WorkPoint, CallShape, WorkShape

(* The runs, the queue and what calls and workers remember keep their      *)
(* types, with every call and every fault.                                 *)
THEOREM TypeCorrect == ASSUME RunsAssumption PROVE Spec => []TypeOK
<1>1. Init => TypeInv
  BY InitTypes
<1>2. TypeInv /\ [Next]_vars => TypeInv'
  BY NextKeepsTypes
<1>3. TypeInv => TypeOK
  BY DEF TypeInv
<1> QED
  BY <1>1, <1>2, <1>3, PTL DEF Spec

-----------------------------------------------------------------------------
(* The policies.  One server triggers the definition, and nobody cancels   *)
(* or retries its runs: admissionMu is of one process, and a Cancel may be *)
(* overwritten by a worker that had read the run before.                   *)

Triggered == Calls \subseteq {"enqueue"} /\ \A c, d \in Clients : Server[c] = Server[d]

Called    == {"list", "create", "push", "undo"}
Handling  == {"markread", "markwrite", "handler", "resread", "reswrite", "endread", "endwrite"}
Executing == Handling \ {"markread", "markwrite"}

(* The number of active runs that the policy admits. *)
Room == IF policy = "allow" THEN Concurrency ELSE 1

(* A call of Enqueue is alone, has seen room for its run, and until the    *)
(* task is in the queue the run is as it was created.                      *)
CallInv(c) ==
    /\ pc[c] \in {"idle", "done"} \cup Called
    /\ pc[c] \in Called => loc[c].key \in Keys /\ \A d \in Clients : pc[d] \in Called => d = c
    /\ pc[c] = "create" /\ ~loc[c].skip => Cardinality(ActiveRuns) < Room
    /\ pc[c] \in {"push", "undo"} =>
         /\ run[loc[c].run] = loc[c].row
         /\ loc[c].row.status = "pending" /\ loc[c].row.queue \in QueueIds /\ loc[c].row.key = loc[c].key
         /\ qtask[loc[c].row.queue].status = "absent"
    /\ pc[c] = "push" => qkey[loc[c].key] = NoQueue

(* A run has a key and, when it is active, a queue task of its own. *)
RowInv(r) ==
    /\ run[r] = NoRow \/ (run[r].status # "absent" /\ run[r].key \in Keys)
    /\ run[r].status \in Active => run[r].queue \in QueueIds
    /\ \A s \in Runs : run[s].key = run[r].key /\ run[r].key # NoKey => s = r
    /\ \A s \in Runs : run[s].queue = run[r].queue /\ run[r].queue # NoQueue => s = r

KeyInv == \A k \in Keys : qkey[k] # NoQueue => \E r \in Runs : run[r].key = k

(* A worker has a task to itself, and with it the run: what it has read    *)
(* of the run is still true when it writes.                                *)
WorkInv(w) ==
    /\ wpc[w] # "idle" =>
         /\ qtask[wloc[w].queue].status # "absent"
         /\ \A v \in Workers : wpc[v] # "idle" /\ wloc[v].queue = wloc[w].queue => v = w
    /\ wpc[w] \in Handling => run[wloc[w].run].queue = wloc[w].queue
    /\ wpc[w] \in {"markwrite", "reswrite", "endwrite"} => wloc[w].row = run[wloc[w].run]
    /\ wpc[w] = "markwrite" => run[wloc[w].run].status \in Active
    /\ wpc[w] \in Executing => run[wloc[w].run].status = "running"

RoomInv == IsFiniteSet(ActiveRuns) /\ Cardinality(ActiveRuns) <= Room

RunsInv ==
    /\ RoomInv /\ KeyInv
    /\ \A c \in Clients : CallInv(c)
    /\ \A r \in Runs : RowInv(r)
    /\ \A w \in Workers : WorkInv(w)

PolicyInv == TypeInv /\ (policy # "replace" => RunsInv)

(* Facts about numbers of runs. *)
LEMMA RoomPositive == ASSUME RunsAssumption PROVE Room \in Nat \ {0}
BY DEF RunsAssumption, Room

LEMMA FewerFit ==
    ASSUME RunsAssumption, RoomInv, UNCHANGED policy, ActiveRuns' \subseteq ActiveRuns
    PROVE  RoomInv' /\ Cardinality(ActiveRuns') <= Cardinality(ActiveRuns) /\ Room' = Room
<1>1. IsFiniteSet(ActiveRuns') /\ Cardinality(ActiveRuns') <= Cardinality(ActiveRuns)
  BY FS_Subset DEF RoomInv
<1>2. Cardinality(ActiveRuns) \in Nat /\ Cardinality(ActiveRuns') \in Nat /\ Room \in Nat /\ Room' = Room
  BY <1>1, FS_CardinalityType, RoomPositive DEF RoomInv, Room
<1> QED
  BY <1>1, <1>2 DEF RoomInv

(* A row is written by whoever knows it: key and task stay. *)
Rewrites(x, row) ==
    /\ x \in Runs /\ row \in RunRow /\ run' = [run EXCEPT ![x] = row]
    /\ row.status # "absent" /\ row.queue = run[x].queue /\ row.key = run[x].key
    /\ run[x].status \in Active \/ row = run[x]

LEMMA KnownWrites ==
    ASSUME TypeInv, \A r \in Runs : RowInv(r), NEW x \in Runs, NEW row \in RunRow, row.key = run[x].key
    PROVE  Writable(x, row) /\ (Put(x, row) => run' = [run EXCEPT ![x] = row])
BY DEF RowInv, Writable, Put

LEMMA RewriteKeepsRows ==
    ASSUME TypeInv, \A r \in Runs : RowInv(r), NEW x, NEW row, Rewrites(x, row)
    PROVE  /\ \A r \in Runs : RowInv(r)'
           /\ ActiveRuns' \subseteq ActiveRuns
           /\ KeyInv /\ UNCHANGED qkey => KeyInv'
<1>1. /\ run' \in [Runs -> RunRow] /\ run \in [Runs -> RunRow] /\ run'[x] = row /\ x \in Runs
      /\ \A r \in Runs \ {x} : run'[r] = run[r]
  BY DEF Rewrites, TypeInv, TypeOK
<1>2. \A r \in Runs : run'[r].key = run[r].key /\ run'[r].queue = run[r].queue
  BY <1>1 DEF Rewrites
<1>3. run[x].status \in Active => run[x] # NoRow
  BY DEF Active, NoRow
<1>4. ASSUME NEW r \in Runs PROVE RowInv(r)'
  <2>1. RowInv(r)
    OBVIOUS
  <2>2. run'[r] = NoRow \/ (run'[r].status # "absent" /\ run'[r].key \in Keys)
    BY <1>1, <1>2, <1>3, <2>1 DEF RowInv, Rewrites
  <2>3. run'[r].status \in Active => run'[r].queue \in QueueIds
    BY <1>1, <1>2, <2>1 DEF RowInv, Rewrites
  <2> QED
    BY <1>2, <2>1, <2>2, <2>3 DEF RowInv
<1>5. ActiveRuns' \subseteq ActiveRuns
  BY <1>1 DEF ActiveRuns, Rewrites
<1>6. KeyInv /\ UNCHANGED qkey => KeyInv'
  BY <1>2 DEF KeyInv
<1> QED
  BY <1>4, <1>5, <1>6

(* A client's step that writes neither runs nor the queue. *)
LEMMA CallKeeps ==
    ASSUME RunsInv, NEW c \in Clients, UNCHANGED <<policy, run, qtask, qkey, wpc, wloc>>,
           \A d \in Clients \ {c} : pc'[d] = pc[d] /\ loc'[d] = loc[d],
           pc'[c] \in Called => pc[c] \in Called \/ \A d \in Clients : pc[d] \notin Called,
           CallInv(c)'
    PROVE  RunsInv'
<1>1. ActiveRuns' = ActiveRuns /\ Room' = Room
  BY DEF ActiveRuns, Room
<1>2. RoomInv' /\ KeyInv' /\ \A r \in Runs : RowInv(r)'
  BY <1>1 DEF RunsInv, RoomInv, KeyInv, RowInv
<1>3. \A w \in Workers : WorkInv(w)'
  BY DEF RunsInv, WorkInv
<1>4. ASSUME NEW d \in Clients \ {c} PROVE CallInv(d)'
  <2>1. CallInv(d)
    BY DEF RunsInv
  <2>2. pc'[d] \in Called => pc'[c] \notin Called
    BY <2>1 DEF CallInv
  <2> QED
    BY <1>1, <2>1, <2>2 DEF CallInv
<1> QED
  BY <1>2, <1>3, <1>4 DEF RunsInv

(* A worker's step that writes no run. *)
LEMMA WorkKeeps ==
    ASSUME TypeInv, RunsInv, NEW w \in Workers, UNCHANGED <<policy, run, qkey, pc, loc>>,
           \A q \in QueueIds : (qtask'[q].status = "absent") = (qtask[q].status = "absent"),
           \A v \in Workers \ {w} : wpc'[v] = wpc[v] /\ wloc'[v] = wloc[v],
           WorkInv(w)'
    PROVE  RunsInv'
<1>1. ActiveRuns' = ActiveRuns /\ Room' = Room
  BY DEF ActiveRuns, Room
<1>2. RoomInv' /\ KeyInv' /\ \A r \in Runs : RowInv(r)'
  BY <1>1 DEF RunsInv, RoomInv, KeyInv, RowInv
<1>3. ASSUME NEW v \in Workers \ {w} PROVE WorkInv(v)'
  <2>1. WorkInv(v) /\ (wpc[v] # "idle" => wloc[v].queue \in QueueIds)
    BY DEF RunsInv, TypeInv, WorkShape
  <2>2. wpc'[w] # "idle" /\ wpc'[v] # "idle" => wloc'[w].queue # wloc'[v].queue
    BY DEF WorkInv
  <2> QED
    BY <2>1, <2>2 DEF WorkInv
<1>4. \A c \in Clients : CallInv(c)'
  BY <1>1 DEF RunsInv, CallInv
<1> QED
  BY <1>2, <1>3, <1>4 DEF RunsInv

(* A worker's step that writes its run. *)
LEMMA WorkWrites ==
    ASSUME RunsAssumption, TypeInv, RunsInv, NEW w \in Workers, wpc[w] \in Handling,
           UNCHANGED <<policy, qtask, qkey, pc, loc>>,
           \A v \in Workers \ {w} : wpc'[v] = wpc[v] /\ wloc'[v] = wloc[v],
           NEW row, Rewrites(wloc[w].run, row), WorkInv(w)'
    PROVE  RunsInv'
<1> DEFINE x == wloc[w].run
<1>0. /\ x \in Runs /\ run[x].queue = wloc[w].queue /\ wloc[w].queue \in QueueIds
      /\ qtask[wloc[w].queue].status # "absent" /\ wpc[w] # "idle"
      /\ \A r \in Runs \ {x} : run'[r] = run[r]
  BY DEF RunsInv, WorkInv, TypeInv, TypeOK, WorkShape, Handling, Rewrites
<1>1. RoomInv' /\ Cardinality(ActiveRuns') <= Cardinality(ActiveRuns) /\ Room' = Room
  BY RewriteKeepsRows, FewerFit DEF RunsInv
<1>2. KeyInv' /\ \A r \in Runs : RowInv(r)'
  BY RewriteKeepsRows DEF RunsInv
<1>3. ASSUME NEW v \in Workers \ {w} PROVE WorkInv(v)'
  <2>1. WorkInv(v)
    BY DEF RunsInv
  <2>2. wpc'[w] # "idle" /\ wpc'[v] # "idle" => wloc'[w].queue # wloc'[v].queue
    BY DEF WorkInv
  <2>3. wpc[v] \in Handling => wloc[v].run # x /\ wloc[v].run \in Runs
    <3>1. wpc[v] # "idle" => wloc[v].queue # wloc[w].queue
      BY <1>0, <2>1 DEF WorkInv
    <3> QED
      BY <1>0, <2>1, <3>1 DEF WorkInv, TypeInv, WorkShape, Handling
  <2>4. wpc[v] \in Handling => run'[wloc[v].run] = run[wloc[v].run]
    BY <1>0, <2>3
  <2> QED
    BY <2>1, <2>2, <2>4 DEF WorkInv, Handling, Executing
<1>4. ASSUME NEW c \in Clients PROVE CallInv(c)'
  <2>1. CallInv(c)
    BY DEF RunsInv
  <2>2. pc[c] \in {"push", "undo"} => run'[loc[c].run] = run[loc[c].run]
    <3>1. pc[c] \in {"push", "undo"} => loc[c].run \in Runs /\ loc[c].run # x
      BY <1>0, <2>1 DEF CallInv, TypeInv, CallShape
    <3> QED
      BY <1>0, <3>1
  <2>3. Cardinality(ActiveRuns) < Room => Cardinality(ActiveRuns') < Room'
    <3>1. Cardinality(ActiveRuns) \in Nat /\ Cardinality(ActiveRuns') \in Nat /\ Room \in Nat
      BY <1>1, FS_CardinalityType, RoomPositive DEF RunsInv, RoomInv
    <3> QED
      BY <1>1, <3>1
  <2> QED
    BY <2>1, <2>2, <2>3 DEF CallInv
<1> QED
  BY <1>1, <1>2, <1>3, <1>4 DEF RunsInv

-----------------------------------------------------------------------------
(* The steps of Enqueue. *)

LEMMA TriggeredSteps ==
    ASSUME Triggered, RunsInv, policy # "replace", NEW c \in Clients, Client(c)
    PROVE  \/ \E k \in Keys : EnqueueCall(c, k)
           \/ ListActive(c) \/ CreateRun(c) \/ PushTask(c) \/ PushFails(c) \/ MarkUnqueued(c)
<1>1. pc[c] \in {"idle", "done"} \cup Called
  BY DEF RunsInv, CallInv
<1>2. /\ ~ReplaceNext(c) /\ ~Relink(c) /\ ~CancelRead(c) /\ ~CancelQueue(c) /\ ~CancelWrite(c)
      /\ ~RetryGet(c) /\ ~RetryWrite(c) /\ ~RetryPush(c)
  BY <1>1 DEF Called, ReplaceNext, Relink, CancelRead, CancelQueue, CancelWrite, RetryGet, RetryWrite, RetryPush
<1>3. \A r \in Runs : ~CancelCall(c, r) /\ ~RetryCall(c, r)
  BY DEF Triggered, CancelCall, RetryCall
<1> QED
  BY <1>2, <1>3 DEF Client

LEMMA EnqueueCallKeeps ==
    ASSUME Triggered, RunsAssumption, TypeInv, RunsInv, NEW c \in Clients, NEW k \in Keys, EnqueueCall(c, k),
           UNCHANGED <<policy, wpc, wloc>>
    PROVE  RunsInv'
<1>1. UNCHANGED <<run, qtask, qkey>> /\ \A d \in Clients \ {c} : pc'[d] = pc[d] /\ loc'[d] = loc[d]
  BY DEF EnqueueCall, Return, Go, TypeInv
<1>2. CASE Return(c)
  <2>1. pc'[c] = "done"
    BY <1>2 DEF Return, Go, TypeInv
  <2>2. CallInv(c)'
    BY <2>1 DEF CallInv, Called
  <2> QED
    BY <1>1, <2>1, <2>2, CallKeeps DEF Called
<1>3. CASE Go(c, "list") /\ loc' = [loc EXCEPT ![c].key = k]
  <2>1. \A d \in Clients : pc[d] \notin Called
    BY DEF EnqueueCall, Admitting, Triggered, InEnqueue, Nested, Called, RunsInv, CallInv, RunsAssumption
  <2>2. pc'[c] = "list" /\ loc'[c].key = k
    BY <1>3 DEF Go, TypeInv, CallLocal
  <2>3. CallInv(c)'
    BY <1>1, <2>1, <2>2 DEF CallInv, Called
  <2> QED
    BY <1>1, <2>1, <2>3, CallKeeps
<1> QED
  BY <1>2, <1>3 DEF EnqueueCall

LEMMA ListActiveKeeps ==
    ASSUME RunsAssumption, TypeInv, RunsInv, policy # "replace", NEW c \in Clients, ListActive(c),
           UNCHANGED <<policy, wpc, wloc>>
    PROVE  RunsInv'
<1> DEFINE n == Cardinality(ActiveRuns)
           b == n > 0 /\ (policy # "allow" \/ n >= Concurrency)
<1>1. /\ pc[c] = "list" /\ UNCHANGED <<run, qtask, qkey>>
      /\ Go(c, "create") /\ loc' = [loc EXCEPT ![c].skip = b]
  BY DEF ListActive
<1>2. /\ \A d \in Clients \ {c} : pc'[d] = pc[d] /\ loc'[d] = loc[d]
      /\ pc'[c] = "create" /\ loc'[c].skip = b /\ loc'[c].key = loc[c].key
  BY <1>1 DEF Go, TypeInv, CallLocal
<1>3. ~b => n < Room
  <2>1. n \in Nat /\ Concurrency \in Nat \ {0}
    BY FS_CardinalityType DEF RunsInv, RoomInv, RunsAssumption
  <2> QED
    BY <2>1 DEF Room
<1>4. n' = n /\ Room' = Room
  BY <1>1 DEF ActiveRuns, Room
<1>5. CallInv(c)'
  <2> HIDE DEF b
  <2>1. CallInv(c)
    BY DEF RunsInv
  <2> QED
    BY <1>1, <1>2, <1>3, <1>4, <2>1 DEF CallInv, Called
<1> QED
  BY <1>1, <1>2, <1>5, CallKeeps DEF Called

(* One more run fits when there was room for it. *)
LEMMA OneMoreFits ==
    ASSUME RunsAssumption, RoomInv, UNCHANGED policy, Cardinality(ActiveRuns) < Room, NEW r,
           ActiveRuns' = ActiveRuns \cup {r}
    PROVE  RoomInv'
<1>1. IsFiniteSet(ActiveRuns') /\ Cardinality(ActiveRuns') \in {Cardinality(ActiveRuns), Cardinality(ActiveRuns) + 1}
  BY FS_AddElement DEF RoomInv
<1>2. Cardinality(ActiveRuns) \in Nat /\ Room \in Nat /\ Room' = Room
  BY FS_CardinalityType, RoomPositive DEF RoomInv, Room
<1> QED
  BY <1>1, <1>2 DEF RoomInv

LEMMA CreateRunKeeps ==
    ASSUME RunsAssumption, TypeInv, RunsInv, NEW c \in Clients, CreateRun(c), UNCHANGED <<policy, wpc, wloc>>
    PROVE  RunsInv'
<1>0. /\ pc[c] = "create" /\ UNCHANGED <<qtask, qkey>> /\ CallInv(c) /\ loc[c].key \in Keys
      /\ \A d \in Clients \ {c} : pc'[d] = pc[d] /\ loc'[d] = loc[d] /\ pc[d] \notin Called
      /\ run \in [Runs -> RunRow]
  <2>1. pc[c] = "create" /\ UNCHANGED <<qtask, qkey>>
    BY DEF CreateRun
  <2>2. CallInv(c)
    BY DEF RunsInv
  <2>3. \A d \in Clients \ {c} : pc'[d] = pc[d] /\ loc'[d] = loc[d]
    <3>1. Moved(c)
      BY EnqueueMoves
    <3> QED
      BY <3>1 DEF Moved, TypeInv
  <2> QED
    BY <2>1, <2>2, <2>3 DEF TypeInv, TypeOK, CallInv, Called
<1>1. CASE UNCHANGED run
  <2>1. pc'[c] = "done"
    <3>1. CASE Return(c)
      BY <3>1 DEF Return, Go, TypeInv
    <3>2. CASE ~Return(c)
      <4>1. PICK r \in newID({x \in Runs : run[x] = NoRow}), q \in newID({x \in QueueIds : Unused(x)}) :
               /\ Put(r, [status |-> "pending", queue |-> q, key |-> loc[c].key, attempts |-> 0])
               /\ \A t \in Runs : run[t].key # loc[c].key
        BY <3>2 DEF CreateRun
      <4>2. r \in Runs /\ run[r] = NoRow
        BY NewIsFree
      <4>3. run'[r].status = "pending"
        BY <1>0, <4>1, <4>2 DEF Put, Writable
      <4> QED
        BY <1>1, <4>2, <4>3 DEF NoRow
    <3> QED
      BY <3>1, <3>2
  <2>2. CallInv(c)'
    BY <2>1 DEF CallInv, Called
  <2> QED
    BY <1>0, <1>1, <2>1, <2>2, CallKeeps DEF Called
<1>2. CASE ~UNCHANGED run
  <2>1. PICK r \in newID({x \in Runs : run[x] = NoRow}), q \in newID({x \in QueueIds : Unused(x)}) :
           LET row == [status |-> IF loc[c].skip THEN "cancelled" ELSE "pending",
                       queue  |-> IF loc[c].skip THEN NoQueue ELSE q,
                       key |-> loc[c].key, attempts |-> 0]
           IN /\ \A t \in Runs : run[t].key # loc[c].key
              /\ Put(r, row)
              /\ IF loc[c].skip THEN Return(c)
                 ELSE Go(c, "push") /\ loc' = [loc EXCEPT ![c].run = r, ![c].row = row]
    BY <1>2 DEF CreateRun
  <2> DEFINE row == [status |-> IF loc[c].skip THEN "cancelled" ELSE "pending",
                     queue  |-> IF loc[c].skip THEN NoQueue ELSE q, key |-> loc[c].key, attempts |-> 0]
  <2>2. /\ r \in Runs /\ run[r] = NoRow /\ q \in QueueIds
        /\ qtask[q].status = "absent" /\ \A s \in Runs : run[s].queue # q
    BY NewIsFree DEF Unused
  <2>3. /\ row.key = loc[c].key /\ row.status = (IF loc[c].skip THEN "cancelled" ELSE "pending")
        /\ row.queue = (IF loc[c].skip THEN NoQueue ELSE q)
    OBVIOUS
  <2>4. run' = [run EXCEPT ![r] = row]
    BY <2>1 DEF Put, Writable
  <2> HIDE DEF row
  <2>5. run'[r] = row /\ \A s \in Runs \ {r} : run'[s] = run[s]
    BY <1>0, <2>2, <2>4
  <2>6. /\ NoRow.status = "absent" /\ NoRow.queue = NoQueue /\ NoRow.key = NoKey
        /\ row.status # "absent" /\ (row.status \in Active <=> ~loc[c].skip) /\ row # NoRow
    BY <2>3 DEF NoRow, Active
  <2>7. ASSUME NEW s \in Runs PROVE RowInv(s)'
    <3>1. RowInv(s) /\ RowInv(r)
      BY <2>2 DEF RunsInv
    <3>2. CASE s = r
      <4>1. run'[r].status \in Active => run'[r].queue \in QueueIds
        BY <2>2, <2>3, <2>5, <2>6
      <4>2. \A t \in Runs : run'[t].key = run'[r].key => t = r
        BY <2>1, <2>3, <2>5
      <4>3. \A t \in Runs : run'[t].queue = run'[r].queue /\ run'[r].queue # NoQueue => t = r
        BY <2>2, <2>3, <2>5
      <4> QED
        BY <1>0, <2>3, <2>5, <2>6, <3>2, <4>1, <4>2, <4>3 DEF RowInv
    <3>3. CASE s # r
      <4>1. run'[s] = run[s] /\ run[s].key # row.key /\ (row.queue # NoQueue => run[s].queue # row.queue)
        BY <2>1, <2>2, <2>3, <2>5, <3>3
      <4>2. \A t \in Runs : run'[t].key = run'[s].key /\ run'[s].key # NoKey => t = s
        BY <2>5, <3>1, <4>1 DEF RowInv
      <4>3. \A t \in Runs : run'[t].queue = run'[s].queue /\ run'[s].queue # NoQueue => t = s
        BY <2>5, <3>1, <4>1 DEF RowInv
      <4> QED
        BY <3>1, <4>1, <4>2, <4>3 DEF RowInv
    <3> QED
      BY <3>2, <3>3
  <2>8. KeyInv'
    <3>1. \A k \in Keys : (\E t \in Runs : run[t].key = k) => \E t \in Runs : run'[t].key = k
      BY <2>2, <2>5, <2>6, <1>0 DEF RunsAssumption
    <3> QED
      BY <1>0, <3>1 DEF RunsInv, KeyInv
  <2>9. RoomInv'
    <3>1. CASE loc[c].skip
      <4>1. ActiveRuns' \subseteq ActiveRuns
        BY <2>2, <2>5, <2>6, <3>1 DEF ActiveRuns
      <4> QED
        BY <4>1, FewerFit DEF RunsInv
    <3>2. CASE ~loc[c].skip
      <4>1. ActiveRuns' = ActiveRuns \cup {r}
        BY <2>2, <2>5, <2>6, <3>2 DEF ActiveRuns
      <4>2. Cardinality(ActiveRuns) < Room
        BY <1>0, <3>2 DEF CallInv
      <4> QED
        BY <4>1, <4>2, OneMoreFits DEF RunsInv
    <3> QED
      BY <3>1, <3>2
  <2>10. ASSUME NEW w \in Workers PROVE WorkInv(w)'
    <3>1. WorkInv(w) /\ (wpc[w] \in Handling => wloc[w].run \in Runs /\ wloc[w].queue \in QueueIds)
      BY DEF RunsInv, TypeInv, WorkShape, Handling
    <3>2. wpc[w] \in Handling => run'[wloc[w].run] = run[wloc[w].run]
      BY <2>2, <2>5, <2>6, <3>1 DEF WorkInv, RunsAssumption
    <3> QED
      BY <1>0, <3>1, <3>2 DEF WorkInv, Handling, Executing
  <2>11. ASSUME NEW d \in Clients \ {c} PROVE CallInv(d)'
    <3>1. CallInv(d) /\ pc[d] \notin Called
      BY <1>0 DEF RunsInv
    <3> QED
      BY <1>0, <3>1 DEF CallInv, Called
  <2>12. CallInv(c)'
    <3>1. CASE loc[c].skip
      <4>1. pc'[c] = "done"
        BY <2>1, <3>1 DEF Return, Go, TypeInv
      <4> QED
        BY <4>1 DEF CallInv, Called
    <3>2. CASE ~loc[c].skip
      <4>1. Go(c, "push") /\ loc' = [loc EXCEPT ![c].run = r, ![c].row = row]
        BY <2>1, <3>2 DEF row
      <4>2. pc'[c] = "push" /\ loc'[c].run = r /\ loc'[c].row = row /\ loc'[c].key = loc[c].key
        BY <4>1 DEF Go, TypeInv, CallLocal
      <4>3. qkey[loc[c].key] = NoQueue
        BY <1>0, <2>1 DEF RunsInv, KeyInv
      <4>4. \A d \in Clients : pc'[d] \in Called => d = c
        BY <1>0
      <4> QED
        BY <1>0, <2>2, <2>3, <2>5, <3>2, <4>2, <4>3, <4>4 DEF CallInv, Called
    <3> QED
      BY <3>1, <3>2
  <2> QED
    BY <2>7, <2>8, <2>9, <2>10, <2>11, <2>12 DEF RunsInv
<1> QED
  BY <1>1, <1>2

LEMMA PushKeeps ==
    ASSUME RunsAssumption, TypeInv, RunsInv, NEW c \in Clients, PushTask(c) \/ PushFails(c),
           UNCHANGED <<policy, wpc, wloc>>
    PROVE  RunsInv'
<1>0. CallInv(c)
  BY DEF RunsInv
<1>1. CASE PushFails(c)
  <2>1. pc[c] = "push" /\ Go(c, "undo") /\ UNCHANGED <<run, qtask, qkey, loc>>
    BY <1>0, <1>1 DEF PushFails, CallInv, Called
  <2>2. pc'[c] = "undo" /\ \A d \in Clients \ {c} : pc'[d] = pc[d]
    BY <2>1 DEF Go, TypeInv
  <2>3. CallInv(c)'
    BY <1>0, <2>1, <2>2 DEF CallInv, Called
  <2> QED
    BY <2>1, <2>2, <2>3, CallKeeps DEF Called
<1>2. CASE PushTask(c)
  <2> DEFINE q == loc[c].row.queue
             k == loc[c].key
  <2>1. /\ pc[c] = "push" /\ UNCHANGED run /\ qkey[k] = NoQueue /\ q \in QueueIds /\ k \in Keys
        /\ loc[c].run \in Runs /\ run[loc[c].run].key = k
    BY <1>0, <1>2 DEF PushTask, CallInv, Called, TypeInv, CallShape
  <2>2. /\ qtask' = [qtask EXCEPT ![q] = [status |-> "pending", attempts |-> 0]]
        /\ qkey' = [qkey EXCEPT ![k] = q] /\ Return(c)
    BY <1>2, <2>1 DEF PushTask, Queue!Submit
  <2>3. pc'[c] = "done" /\ \A d \in Clients \ {c} : pc'[d] = pc[d] /\ loc'[d] = loc[d]
    BY <2>2 DEF Return, Go, TypeInv
  <2>4. \A t \in QueueIds : qtask[t].status # "absent" => qtask'[t].status # "absent"
    BY <2>2 DEF TypeInv, TypeOK
  <2>5. ActiveRuns' = ActiveRuns /\ Room' = Room
    BY <2>1 DEF ActiveRuns, Room
  <2>6. RoomInv' /\ \A r \in Runs : RowInv(r)'
    BY <2>1, <2>5 DEF RunsInv, RoomInv, RowInv
  <2>7. KeyInv'
    <3>1. \A j \in Keys \ {k} : qkey'[j] = qkey[j]
      BY <2>2 DEF TypeInv, TypeOK
    <3> QED
      BY <2>1, <3>1 DEF RunsInv, KeyInv
  <2>8. ASSUME NEW w \in Workers PROVE WorkInv(w)'
    <3>1. WorkInv(w) /\ (wpc[w] # "idle" => wloc[w].queue \in QueueIds)
      BY DEF RunsInv, TypeInv, WorkShape
    <3> QED
      BY <2>1, <2>4, <3>1 DEF WorkInv
  <2>9. CallInv(c)'
    BY <2>3 DEF CallInv, Called
  <2>10. ASSUME NEW d \in Clients \ {c} PROVE CallInv(d)'
    <3>1. CallInv(d) /\ pc[d] \notin Called
      BY <1>0, <2>1 DEF RunsInv, CallInv, Called
    <3> QED
      BY <2>3, <3>1 DEF CallInv, Called
  <2> QED
    BY <2>6, <2>7, <2>8, <2>9, <2>10 DEF RunsInv
<1> QED
  BY <1>1, <1>2

LEMMA MarkUnqueuedKeeps ==
    ASSUME RunsAssumption, TypeInv, RunsInv, NEW c \in Clients, MarkUnqueued(c), UNCHANGED <<policy, wpc, wloc>>
    PROVE  RunsInv' /\ Rewrites(loc[c].run, [loc[c].row EXCEPT !.status = "failed"])
<1> DEFINE x == loc[c].run
           row == [loc[c].row EXCEPT !.status = "failed"]
<1>0. CallInv(c) /\ pc[c] = "undo" /\ UNCHANGED <<qtask, qkey>> /\ Return(c)
  BY DEF MarkUnqueued, RunsInv
<1>1. /\ run[x] = loc[c].row /\ x \in Runs /\ loc[c].row \in RunRow /\ run[x].status = "pending"
      /\ run[x].queue \in QueueIds /\ qtask[run[x].queue].status = "absent"
  BY <1>0 DEF CallInv, TypeInv, TypeOK, CallShape
<1>2. row \in RunRow /\ row.status = "failed" /\ row.queue = run[x].queue /\ row.key = run[x].key
  BY <1>1 DEF RunRow, Active
<1>3. Put(x, row)
  BY DEF MarkUnqueued
<1>4. Rewrites(x, row)
  <2> HIDE DEF row
  <2> QED
    BY <1>1, <1>2, <1>3, KnownWrites DEF Rewrites, Active, RunsInv
<1>5. pc'[c] = "done" /\ \A d \in Clients \ {c} : pc'[d] = pc[d] /\ loc'[d] = loc[d]
  BY <1>0 DEF Return, Go, TypeInv
<1>6. RoomInv' /\ KeyInv' /\ \A r \in Runs : RowInv(r)'
  <2> HIDE DEF row
  <2> QED
    BY <1>0, <1>4, RewriteKeepsRows, FewerFit DEF RunsInv
<1>7. \A r \in Runs \ {x} : run'[r] = run[r]
  BY <1>4 DEF Rewrites, TypeInv, TypeOK
<1>8. ASSUME NEW w \in Workers PROVE WorkInv(w)'
  <2>1. WorkInv(w)
    BY DEF RunsInv
  <2>2. wpc[w] \in Handling => wloc[w].run \in Runs /\ wloc[w].run # x
    BY <1>1, <2>1 DEF WorkInv, Handling, TypeInv, WorkShape
  <2>3. wpc[w] \in Handling => run'[wloc[w].run] = run[wloc[w].run]
    BY <1>7, <2>2
  <2> QED
    BY <1>0, <2>1, <2>3 DEF WorkInv, Handling, Executing
<1>9. CallInv(c)'
  BY <1>5 DEF CallInv, Called
<1>10. ASSUME NEW d \in Clients \ {c} PROVE CallInv(d)'
  <2>1. CallInv(d) /\ pc[d] \notin Called
    BY <1>0 DEF RunsInv, CallInv, Called
  <2> QED
    BY <1>5, <2>1 DEF CallInv, Called
<1>11. RunsInv'
  BY <1>6, <1>8, <1>9, <1>10 DEF RunsInv
<1> QED
  BY <1>4, <1>11

LEMMA CrashClientKeeps ==
    ASSUME TypeInv, RunsInv, NEW c \in Clients, CrashClient(c)
    PROVE  RunsInv'
<1>1. /\ UNCHANGED <<policy, run, qtask, qkey, wpc, wloc>>
      /\ pc'[c] = "done" /\ \A d \in Clients \ {c} : pc'[d] = pc[d] /\ loc'[d] = loc[d]
  BY DEF CrashClient, Return, Go, TypeInv
<1>2. CallInv(c)'
  BY <1>1 DEF CallInv, Called
<1> QED
  BY <1>1, <1>2, CallKeeps DEF Called

-----------------------------------------------------------------------------
(* The steps of a worker. *)

LEMMA ClaimKeeps ==
    ASSUME TypeInv, RunsInv, NEW w \in Workers, NEW q \in QueueIds, Claim(w, q), UNCHANGED <<policy, pc, loc>>
    PROVE  RunsInv'
<1>1. /\ UNCHANGED <<run, qkey>> /\ \A v \in Workers \ {w} : wpc'[v] = wpc[v] /\ wloc'[v] = wloc[v]
      /\ wpc'[w] = "start" /\ wloc'[w].queue = q /\ \A v \in Workers : wloc[v].queue # q
  BY DEF Claim, WorkAt, TypeInv, WorkLocal
<1>2. qtask[q].status \in Queue!Open /\ qtask' = [qtask EXCEPT ![q].status = "running"]
  BY DEF Claim, Queue!Start, Queue!Move
<1>3. /\ \A t \in QueueIds : (qtask'[t].status = "absent") = (qtask[t].status = "absent")
      /\ qtask'[q].status # "absent"
  BY <1>2 DEF Queue!Open, TypeInv, TypeOK
<1>4. WorkInv(w)'
  BY <1>1, <1>3 DEF WorkInv, Handling, Executing
<1> QED
  BY <1>1, <1>3, <1>4, WorkKeeps

(* A worker's step that leaves runs and tasks alone. *)
LEMMA WorkStays ==
    ASSUME TypeInv, RunsInv, NEW w \in Workers, UNCHANGED <<policy, run, qtask, qkey, pc, loc>>, WorkMoved(w),
           WorkInv(w)'
    PROVE  RunsInv'
<1>1. \A v \in Workers \ {w} : wpc'[v] = wpc[v] /\ wloc'[v] = wloc[v]
  BY DEF WorkMoved, TypeInv
<1> QED
  BY <1>1, WorkKeeps

LEMMA RestKeeps ==
    ASSUME TypeInv, RunsInv, NEW w \in Workers, Rest(w), UNCHANGED <<policy, run, qkey, pc, loc>>,
           \A q \in QueueIds : (qtask'[q].status = "absent") = (qtask[q].status = "absent")
    PROVE  RunsInv'
<1>1. wpc'[w] = "idle" /\ \A v \in Workers \ {w} : wpc'[v] = wpc[v] /\ wloc'[v] = wloc[v]
  BY DEF Rest, WorkAt, TypeInv
<1>2. WorkInv(w)'
  BY <1>1 DEF WorkInv, Handling, Executing
<1> QED
  BY <1>1, <1>2, WorkKeeps

LEMMA SettleKeeps ==
    ASSUME TypeInv, RunsInv, NEW w \in Workers, wpc[w] # "idle", NEW o, Settle(w, o),
           UNCHANGED <<policy, run, qtask, qkey, pc, loc>>
    PROVE  RunsInv'
<1>1. /\ wpc'[w] = "settle" /\ wloc'[w].queue = wloc[w].queue
      /\ \A v \in Workers \ {w} : wpc'[v] = wpc[v] /\ wloc'[v] = wloc[v]
  BY DEF Settle, WorkAt, TypeInv, WorkLocal
<1>2. WorkInv(w)'
  BY <1>1 DEF RunsInv, WorkInv, Handling, Executing
<1> QED
  BY <1>1, <1>2, WorkKeeps

(* What an operation of the queue does to a task that exists. *)
LEMMA TaskStays ==
    ASSUME TypeInv, NEW q \in QueueIds, UNCHANGED qtask \/ Queue!Start(q) \/ Queue!Complete(q) \/ Queue!Cancel(q) \/ Queue!Fail(q)
    PROVE  \A t \in QueueIds : (qtask'[t].status = "absent") = (qtask[t].status = "absent")
<1>1. CASE \E to \in {"running", "succeeded", "cancelled"} : Queue!Move(q, to)
  BY <1>1 DEF Queue!Move, Queue!Open, TypeInv, TypeOK
<1>2. CASE Queue!Fail(q)
  BY <1>2 DEF Queue!Fail, Queue!Open, TypeInv, TypeOK
<1> QED
  BY <1>1, <1>2 DEF Queue!Start, Queue!Complete, Queue!Cancel

LEMMA ReadsKeep ==
    ASSUME RunsAssumption, TypeInv, RunsInv, NEW w \in Workers, UNCHANGED <<policy, pc, loc>>,
           \/ StartTask(w) \/ FindRun(w) \/ MarkRunningRead(w) \/ HandlerReturns(w) \/ ResultRead(w) \/ LateStop(w)
           \/ MarkEndRead(w) \/ SettleTask(w)
    PROVE  RunsInv'
<1>0. /\ WorkInv(w) /\ wpc[w] # "idle" /\ wloc[w].queue \in QueueIds /\ wloc \in [Workers -> WorkLocal]
      /\ UNCHANGED <<run, qkey>> /\ WorkMoved(w)
  BY WorkerMoves DEF StartTask, FindRun, MarkRunningRead, HandlerReturns, ResultRead, LateStop, MarkEndRead, SettleTask,
       RunsInv, TypeInv, WorkShape, Worker
<1>1. CASE StartTask(w)
  <2>1. CASE Rest(w) /\ UNCHANGED qtask
    BY <1>0, <2>1, RestKeeps
  <2>2. CASE Queue!Start(wloc[w].queue) /\ WorkAt(w, "lookup") /\ UNCHANGED wloc
    <3>1. \A t \in QueueIds : (qtask'[t].status = "absent") = (qtask[t].status = "absent")
      BY <1>0, <2>2, TaskStays
    <3>2. wpc'[w] = "lookup" /\ \A v \in Workers \ {w} : wpc'[v] = wpc[v]
      BY <2>2 DEF WorkAt, TypeInv
    <3>3. WorkInv(w)'
      BY <1>0, <2>2, <3>1, <3>2 DEF WorkInv, Handling, Executing
    <3> QED
      BY <1>0, <2>2, <3>1, <3>2, <3>3, WorkKeeps
  <2> QED
    BY <1>1, <2>1, <2>2 DEF StartTask
<1>2. CASE FindRun(w)
  <2>1. UNCHANGED qtask
    BY <1>2 DEF FindRun
  <2>2. ASSUME NEW r \in Runs, run[r].queue = wloc[w].queue, WorkAt(w, "markread"), wloc' = [wloc EXCEPT ![w].run = r]
        PROVE  RunsInv'
    <3>1. /\ wpc'[w] = "markread" /\ wloc'[w].run = r /\ wloc'[w].queue = wloc[w].queue
          /\ \A v \in Workers \ {w} : wpc'[v] = wpc[v] /\ wloc'[v] = wloc[v]
      BY <1>0, <2>2 DEF WorkAt, TypeInv, WorkLocal
    <3>2. WorkInv(w)'
      BY <1>0, <2>1, <2>2, <3>1 DEF WorkInv, Handling, Executing
    <3> QED
      BY <1>0, <2>1, <3>2, WorkStays
  <2> QED
    BY <1>0, <1>2, <2>1, <2>2, SettleKeeps DEF FindRun
<1>3. CASE MarkRunningRead(w) \/ MarkEndRead(w) \/ ResultRead(w)
  <2>1. /\ UNCHANGED qtask /\ wloc[w].run \in Runs /\ run[wloc[w].run].queue = wloc[w].queue
        /\ wpc[w] \in {"markread", "endread", "resread"} /\ run[wloc[w].run] \in RunRow
        /\ wpc[w] \in {"endread", "resread"} => run[wloc[w].run].status = "running"
    BY <1>0, <1>3 DEF MarkRunningRead, MarkEndRead, ResultRead, WorkInv, Handling, Executing, TypeInv, TypeOK, WorkShape
  <2>2. ASSUME NEW l \in {"markwrite", "reswrite", "endwrite"}, WorkAt(w, l),
               wloc' = [wloc EXCEPT ![w].row = run[wloc[w].run]],
               l = "markwrite" => run[wloc[w].run].status \in Active,
               l # "markwrite" => run[wloc[w].run].status = "running"
        PROVE  RunsInv'
    <3>1. /\ wpc'[w] = l /\ wloc'[w].run = wloc[w].run /\ wloc'[w].queue = wloc[w].queue
          /\ wloc'[w].row = run[wloc[w].run]
          /\ \A v \in Workers \ {w} : wpc'[v] = wpc[v] /\ wloc'[v] = wloc[v]
      BY <1>0, <2>2 DEF WorkAt, TypeInv, WorkLocal
    <3>2. WorkInv(w)'
      BY <1>0, <2>1, <2>2, <3>1 DEF WorkInv, Handling, Executing
    <3> QED
      BY <1>0, <2>1, <3>2, WorkStays
  <2>3. run[wloc[w].run].status \notin Final => run[wloc[w].run].status \in Active
    <3>1. run[wloc[w].run].queue # NoQueue
      BY <1>0, <2>1 DEF RunsAssumption
    <3>2. run[wloc[w].run] # NoRow
      BY <3>1 DEF NoRow
    <3>3. run[wloc[w].run].status # "absent"
      BY <2>1, <3>2 DEF RunsInv, RowInv
    <3> QED
      BY <2>1, <3>3 DEF RunRow
  <2>4. CASE MarkRunningRead(w)
    BY <1>0, <2>1, <2>2, <2>3, <2>4, SettleKeeps DEF MarkRunningRead
  <2>5. CASE MarkEndRead(w)
    BY <1>0, <2>1, <2>2, <2>5, SettleKeeps DEF MarkEndRead
  <2>6. CASE ResultRead(w)
    BY <2>1, <2>2, <2>6 DEF ResultRead
  <2> QED
    BY <1>3, <2>4, <2>5, <2>6
<1>4. CASE HandlerReturns(w)
  <2>1. PICK o \in {"ok", "err", "cancel", "stop"}, l \in {"resread", "endread"} : WorkAt(w, l) /\ wloc' = [wloc EXCEPT ![w].out = o]
    BY <1>4 DEF HandlerReturns
  <2>2. wpc[w] = "handler" /\ UNCHANGED qtask
    BY <1>4 DEF HandlerReturns
  <2>3. wpc'[w] = l /\ wloc'[w].run = wloc[w].run /\ wloc'[w].queue = wloc[w].queue
    BY <1>0, <2>1 DEF WorkAt, TypeInv, WorkLocal
  <2>4. \A v \in Workers \ {w} : wpc'[v] = wpc[v] /\ wloc'[v] = wloc[v]
    BY <2>1 DEF WorkAt, TypeInv
  <2>5. WorkInv(w)'
    BY <1>0, <2>1, <2>2, <2>3, <2>4 DEF WorkInv, Handling, Executing
  <2> QED
    BY <1>0, <2>2, <2>5, WorkStays
<1>5. CASE LateStop(w)
  BY <1>0, <1>5, SettleKeeps DEF LateStop
<1>6. CASE SettleTask(w)
  <2>1. UNCHANGED qtask \/ Queue!Complete(wloc[w].queue) \/ Queue!Fail(wloc[w].queue) \/ Queue!Cancel(wloc[w].queue)
    BY <1>6 DEF SettleTask
  <2>2. \A t \in QueueIds : (qtask'[t].status = "absent") = (qtask[t].status = "absent")
    BY <1>0, <2>1, TaskStays
  <2> QED
    BY <1>0, <1>6, <2>2, RestKeeps DEF SettleTask
<1> QED
  BY <1>1, <1>2, <1>3, <1>4, <1>5, <1>6

(* A worker writes what it read, and nothing has changed since. *)
LEMMA WritesKeep ==
    ASSUME RunsAssumption, TypeInv, RunsInv, NEW w \in Workers, UNCHANGED <<policy, pc, loc>>,
           MarkRunningWrite(w) \/ ResultWrite(w) \/ MarkEndWrite(w)
    PROVE  RunsInv' /\ \E row : Rewrites(wloc[w].run, row)
<1> DEFINE x == wloc[w].run
<1>0. /\ WorkInv(w) /\ wpc[w] \in {"markwrite", "reswrite", "endwrite"} /\ wloc[w].queue \in QueueIds
      /\ x \in Runs /\ UNCHANGED <<qtask, qkey>> /\ run \in [Runs -> RunRow]
  BY DEF MarkRunningWrite, ResultWrite, MarkEndWrite, RunsInv, TypeInv, TypeOK, WorkShape
<1>1. /\ wloc[w].row = run[x] /\ run[x] \in RunRow /\ run[x].status \in Active
      /\ run[x].queue = wloc[w].queue /\ qtask[wloc[w].queue].status # "absent"
  BY <1>0 DEF WorkInv, Handling, Executing, Active
<1>2. \A v \in Workers \ {w} : wpc'[v] = wpc[v] /\ wloc'[v] = wloc[v]
  <2>1. WorkMoved(w)
    BY WorkerMoves DEF Worker
  <2> QED
    BY <2>1 DEF WorkMoved, TypeInv
<1>3. CASE MarkRunningWrite(w)
  <2> DEFINE row == [wloc[w].row EXCEPT !.status = "running"]
  <2>1. row \in RunRow /\ row.status = "running" /\ row.queue = run[x].queue /\ row.key = run[x].key
    BY <1>1 DEF RunRow, Active
  <2>2. Put(x, row)
    BY <1>3 DEF MarkRunningWrite
  <2>3. Rewrites(x, row)
    <3> HIDE DEF row
    <3> QED
      BY <1>0, <1>1, <2>1, <2>2, KnownWrites DEF Rewrites, RunsInv
  <2>4. wpc[w] = "markwrite" /\ wpc'[w] = "handler" /\ UNCHANGED wloc
    <3>1. Writable(x, wloc[w].row)
      BY <1>0, <1>1, KnownWrites DEF RunsInv
    <3> QED
      BY <1>3, <3>1 DEF MarkRunningWrite, WorkAt, TypeInv
  <2> HIDE DEF row
  <2>5. run'[x] = row
    BY <1>0, <2>3 DEF Rewrites
  <2>6. WorkInv(w)'
    BY <1>0, <1>1, <1>2, <2>1, <2>4, <2>5 DEF WorkInv, Handling, Executing
  <2>7. wpc[w] \in Handling
    BY <2>4 DEF Handling
  <2> QED
    BY <1>0, <1>2, <2>3, <2>6, <2>7, WorkWrites
<1>4. CASE ResultWrite(w)
  <2>1. Writable(x, wloc[w].row) /\ run' = [run EXCEPT ![x] = run[x]]
    BY <1>0, <1>1, <1>4, KnownWrites DEF ResultWrite, RunsInv
  <2>2. Rewrites(x, run[x])
    BY <1>0, <1>1, <2>1 DEF Rewrites, Active
  <2>3. /\ wpc[w] = "reswrite" /\ wpc'[w] = "endread" /\ wloc'[w].run = x /\ wloc'[w].queue = wloc[w].queue
    BY <1>4 DEF ResultWrite, WorkAt, TypeInv, WorkLocal
  <2>4. run' = run
    BY <1>0, <2>1
  <2>5. WorkInv(w)'
    BY <1>0, <1>1, <1>2, <2>3, <2>4 DEF WorkInv, Handling, Executing
  <2>6. wpc[w] \in Handling
    BY <2>3 DEF Handling
  <2> QED
    BY <1>0, <1>2, <2>2, <2>5, <2>6, WorkWrites
<1>5. CASE MarkEndWrite(w)
  <2> DEFINE row == Ended(wloc[w].row, wloc[w].out)
  <2>1. row \in RunRow
    BY <1>1, EndedTypes
  <2>2. row.status # "absent" /\ row.queue = run[x].queue /\ row.key = run[x].key
    BY <1>1 DEF Ended, RunRow
  <2>3. Put(x, row)
    BY <1>5 DEF MarkEndWrite
  <2>4. Rewrites(x, row)
    <3> HIDE DEF row
    <3> QED
      BY <1>0, <1>1, <2>1, <2>2, <2>3, KnownWrites DEF Rewrites, RunsInv
  <2>5. wpc[w] = "endwrite" /\ wpc'[w] = "settle" /\ wloc'[w].queue = wloc[w].queue
    BY <1>5 DEF MarkEndWrite, Settle, WorkAt, TypeInv, WorkLocal
  <2>6. WorkInv(w)'
    BY <1>0, <1>2, <2>5 DEF WorkInv, Handling, Executing
  <2>7. wpc[w] \in Handling
    BY <2>5 DEF Handling
  <2> HIDE DEF row
  <2> QED
    BY <1>0, <1>2, <2>4, <2>6, <2>7, WorkWrites
<1> QED
  BY <1>3, <1>4, <1>5

LEMMA NextKeepsPolicy ==
    ASSUME RunsAssumption, Triggered, PolicyInv, [Next]_vars
    PROVE  PolicyInv'
<1>1. TypeInv'
  BY NextKeepsTypes DEF PolicyInv
<1>2. UNCHANGED policy
  BY DEF Next, Client, Worker, CrashWorker, CrashClient, vars
<1> SUFFICES ASSUME TypeInv, RunsInv, policy # "replace" PROVE RunsInv'
  BY <1>1, <1>2 DEF PolicyInv
<1>3. ASSUME NEW c \in Clients, Client(c) PROVE RunsInv'
  <2>1. UNCHANGED <<policy, wpc, wloc>>
    BY <1>3 DEF Client
  <2> QED
    BY <1>3, <2>1, TriggeredSteps, EnqueueCallKeeps, ListActiveKeeps, CreateRunKeeps, PushKeeps, MarkUnqueuedKeeps
<1>4. ASSUME NEW w \in Workers, Worker(w) PROVE RunsInv'
  <2>1. UNCHANGED <<policy, pc, loc>>
    BY <1>4 DEF Worker
  <2> QED
    BY <1>4, <2>1, ClaimKeeps, ReadsKeep, WritesKeep DEF Worker
<1>5. ASSUME NEW w \in Workers, CrashWorker(w) PROVE RunsInv'
  BY <1>5, RestKeeps DEF CrashWorker
<1>6. CASE UNCHANGED vars
  BY <1>6 DEF RunsInv, RoomInv, KeyInv, CallInv, RowInv, WorkInv, ActiveRuns, Room, vars
<1> QED
  BY <1>3, <1>4, <1>5, <1>6, CrashClientKeeps DEF Next

LEMMA InitPolicy == ASSUME RunsAssumption, Init PROVE PolicyInv
<1>1. ActiveRuns = {}
  BY DEF Init, ActiveRuns, NoRow, Active
<1>2. RoomInv
  BY <1>1, FS_EmptySet, RoomPositive DEF RoomInv
<1>3. RunsInv
  BY <1>2 DEF Init, RunsInv, KeyInv, CallInv, RowInv, WorkInv, NoRow, Active, Called, Handling, Executing
<1> QED
  BY <1>3, InitTypes DEF PolicyInv

LEMMA PolicyKept == ASSUME RunsAssumption, Triggered PROVE Spec => []PolicyInv
<1>1. Init => PolicyInv
  BY InitPolicy
<1>2. PolicyInv /\ [Next]_vars => PolicyInv'
  BY NextKeepsPolicy
<1> QED
  BY <1>1, <1>2, PTL DEF Spec

LEMMA RoomHolds == PolicyInv => ForbidHolds /\ AllowHolds
BY DEF PolicyInv, RunsInv, RoomInv, Room, ForbidHolds, AllowHolds

(* One server that only triggers a definition keeps its policy, however    *)
(* its callers and workers interleave, crash or lose the queue: under      *)
(* "forbid" no two runs are active, under "allow" no more than             *)
(* Concurrency.                                                            *)
THEOREM PolicyKeeps == ASSUME RunsAssumption, Triggered PROVE Spec => [](ForbidHolds /\ AllowHolds)
BY RoomHolds, PolicyKept, PTL

(* Of two active runs admitted under "forbid" there is only one, and a     *)
(* handler has a run to itself.                                            *)
LEMMA OneActive ==
    ASSUME RunsAssumption, PolicyInv, policy = "forbid", NEW r \in ActiveRuns, NEW s \in ActiveRuns
    PROVE  r = s
<1>1. IsFiniteSet(ActiveRuns) /\ Cardinality(ActiveRuns) <= 1
  BY DEF PolicyInv, RunsInv, RoomInv, Room
<1>2. Cardinality({r, s}) <= Cardinality(ActiveRuns) /\ IsFiniteSet({r, s})
  BY <1>1, FS_Subset
<1> SUFFICES ASSUME r # s PROVE FALSE
  OBVIOUS
<1>3. Cardinality({r, s}) = 2
  <2>1. Cardinality({r}) = 1 /\ IsFiniteSet({r})
    BY FS_Singleton
  <2>2. {r} \cup {s} = {r, s} /\ s \notin {r}
    OBVIOUS
  <2> QED
    BY <2>1, <2>2, FS_AddElement
<1>4. Cardinality(ActiveRuns) \in Nat
  BY <1>1, FS_CardinalityType
<1> QED
  BY <1>1, <1>2, <1>3, <1>4

LEMMA HandlersAgree ==
    ASSUME RunsAssumption, PolicyInv, policy = "forbid", NEW v \in Workers, NEW w \in Workers,
           wpc[v] = "handler", wpc[w] = "handler"
    PROVE  v = w
<1>1. /\ wloc[v].run \in ActiveRuns /\ wloc[w].run \in ActiveRuns
      /\ run[wloc[v].run].queue = wloc[v].queue /\ run[wloc[w].run].queue = wloc[w].queue
  BY DEF PolicyInv, RunsInv, WorkInv, Handling, Executing, TypeInv, WorkShape, ActiveRuns, Active
<1>2. wloc[v].run = wloc[w].run
  BY <1>1, OneActive
<1> QED
  BY <1>1, <1>2 DEF PolicyInv, RunsInv, WorkInv

LEMMA HandlersApart == ASSUME RunsAssumption, PolicyInv PROVE OneHandler
<1> SUFFICES ASSUME policy = "forbid" PROVE Cardinality({w \in Workers : wpc[w] = "handler"}) <= 1
  BY DEF OneHandler
<1> DEFINE H == {w \in Workers : wpc[w] = "handler"}
<1>1. \A v, w \in H : v = w
  BY HandlersAgree
<1>2. Cardinality(H) <= 1
  <2> HIDE DEF H
  <2>1. CASE H = {}
    BY <2>1, FS_EmptySet
  <2>2. CASE H # {}
    <3>1. PICK w \in H : H = {w}
      BY <1>1, <2>2
    <3>2. Cardinality({w}) = 1
      BY FS_Singleton
    <3> QED
      BY <3>1, <3>2
  <2> QED
    BY <2>1, <2>2
<1> QED
  BY <1>2

(* Under "forbid" the handler of a definition never runs twice at a time,  *)
(* for any number of workers: the run a handler works on is active, there  *)
(* is one, and its queue task is claimed by one worker.                    *)
THEOREM HandlerAlone == ASSUME RunsAssumption, Triggered PROVE Spec => []OneHandler
<1>1. PolicyInv => OneHandler
  BY HandlersApart
<1> QED
  BY <1>1, PolicyKept, PTL

LEMMA FinalKept == ASSUME RunsAssumption, Triggered, PolicyInv, [Next]_vars PROVE [FinalStays]_vars
<1>1. UNCHANGED policy
  BY DEF Next, Client, Worker, CrashWorker, CrashClient, vars
<1> SUFFICES ASSUME TypeInv, RunsInv, policy # "replace", NEW r \in Runs, run[r].status \in Final
             PROVE  run'[r] = run[r]
  BY DEF PolicyInv, FinalStays
<1>2. \A x, row : Rewrites(x, row) => run'[r] = run[r]
  BY DEF Rewrites, TypeInv, TypeOK, Active, Final
<1>3. ASSUME NEW c \in Clients, Client(c) PROVE run'[r] = run[r]
  <2>1. UNCHANGED <<policy, wpc, wloc>>
    BY <1>3 DEF Client
  <2>2. CASE UNCHANGED run
    BY <2>2
  <2>3. CASE MarkUnqueued(c)
    BY <1>2, <2>1, <2>3, MarkUnqueuedKeeps
  <2>4. CASE CreateRun(c) /\ ~UNCHANGED run
    <3>1. PICK x \in newID({y \in Runs : run[y] = NoRow}) : \E row : Put(x, row)
      BY <2>4 DEF CreateRun
    <3>2. x \in Runs /\ run[x] = NoRow
      BY NewIsFree
    <3>3. x # r
      BY <3>2 DEF NoRow, Final
    <3> QED
      BY <3>1, <3>3 DEF Put, TypeInv, TypeOK
  <2> QED
    BY <1>3, <2>2, <2>3, <2>4, TriggeredSteps DEF EnqueueCall, ListActive, PushTask, PushFails
<1>4. ASSUME NEW w \in Workers, Worker(w) PROVE run'[r] = run[r]
  <2>1. UNCHANGED <<policy, pc, loc>>
    BY <1>4 DEF Worker
  <2>2. CASE UNCHANGED run
    BY <2>2
  <2>3. CASE MarkRunningWrite(w) \/ ResultWrite(w) \/ MarkEndWrite(w)
    BY <1>2, <2>1, <2>3, WritesKeep
  <2> QED
    BY <1>4, <2>2, <2>3 DEF Worker, Claim, StartTask, FindRun, MarkRunningRead, HandlerReturns, ResultRead, LateStop,
         MarkEndRead, SettleTask
<1> QED
  BY <1>3, <1>4 DEF Next, CrashWorker, CrashClient, vars

(* A run that has ended is not written again: every write is of a run that *)
(* was active when it was read and is so still.                            *)
THEOREM EndedStay == ASSUME RunsAssumption, Triggered PROVE Spec => FinalRuns
<1>1. PolicyInv /\ [Next]_vars => [FinalStays]_vars
  BY FinalKept
<1> QED
  BY <1>1, PolicyKept, PTL DEF Spec, FinalRuns

-----------------------------------------------------------------------------
(* Run and task together.  No transaction spans them, so what ties them is *)
(* the order of the steps: the task follows the run, and its attempts      *)
(* never run ahead of the run's.                                           *)

(* An active run has a task that is still to be executed, and its attempts *)
(* are not used up; without a task its Enqueue is about to create it.      *)
Carried(r) ==
    run[r].status \in Active =>
        /\ run[r].attempts < MaxAttempts
        /\ \/ qtask[run[r].queue].status = "absent" /\ \E c \in Clients : pc[c] = "push" /\ loc[c].run = r
           \/ qtask[run[r].queue].status \in Active /\ qtask[run[r].queue].attempts <= run[r].attempts

(* A worker settles a task after its run: the run has ended, or it failed  *)
(* once more than the task.                                                *)
Settled(q, o) ==
    \E r \in Runs : /\ run[r].queue = q
                    /\ \/ run[r].status \in Final
                       \/ o = "err" /\ run[r].attempts > qtask[q].attempts

LinkInv ==
    /\ \A r \in Runs : Carried(r)
    /\ \A w \in Workers : wpc[w] = "settle" => Settled(wloc[w].queue, wloc[w].out)
    /\ \A q \in QueueIds : qtask[q].status # "absent" => \E r \in Runs : run[r].queue = q
    /\ \A c \in Clients : pc[c] # "undo"

(* Neither a server that dies inside Enqueue nor a queue that fails, nor a *)
(* shutdown noticed only after the handler: those leave orphans.           *)
SafeFaults == FaultPoints \subseteq {"worker", "stop"}

(* A worker's step that writes no run and at most starts a task. *)
LEMMA ReadsLink ==
    ASSUME TypeInv, RunsInv, LinkInv, NEW w \in Workers, UNCHANGED <<run, pc, loc>>,
           UNCHANGED qtask \/ \E q \in QueueIds : Queue!Start(q),
           \A v \in Workers \ {w} : wpc'[v] = wpc[v] /\ wloc'[v] = wloc[v],
           wpc'[w] = "settle" => wloc'[w].queue \in QueueIds /\ Settled(wloc'[w].queue, wloc'[w].out)
    PROVE  LinkInv'
<1>1. \A q \in QueueIds : /\ qtask'[q].attempts = qtask[q].attempts
                          /\ (qtask'[q].status = "absent") = (qtask[q].status = "absent")
                          /\ qtask[q].status \in Active => qtask'[q].status \in Active
  BY DEF Queue!Start, Queue!Move, Queue!Open, Active, TypeInv, TypeOK
<1>2. ASSUME NEW r \in Runs PROVE Carried(r)'
  <2>1. Carried(r)
    BY DEF LinkInv
  <2> SUFFICES ASSUME run[r].status \in Active PROVE Carried(r)'
    BY DEF Carried
  <2>2. run[r].queue \in QueueIds
    BY DEF RunsInv, RowInv
  <2> QED
    BY <1>1, <2>1, <2>2 DEF Carried
<1>3. \A q \in QueueIds : \A o : Settled(q, o) => Settled(q, o)'
  BY <1>1 DEF Settled
<1>4. ASSUME NEW v \in Workers, wpc'[v] = "settle" PROVE Settled(wloc[v].queue, wloc[v].out)'
  <2>1. CASE v = w
    BY <1>3, <1>4, <2>1
  <2>2. CASE v # w
    <3>1. Settled(wloc[v].queue, wloc[v].out) /\ wloc[v].queue \in QueueIds
      BY <1>4, <2>2 DEF LinkInv, TypeInv, WorkShape
    <3> QED
      BY <1>3, <2>2, <3>1
  <2> QED
    BY <2>1, <2>2
<1> QED
  BY <1>1, <1>2, <1>4 DEF LinkInv

(* A worker's step that writes its run, whose task exists. *)
LEMMA WritesLink ==
    ASSUME RunsAssumption, TypeInv, RunsInv, LinkInv, NEW w \in Workers, UNCHANGED <<qtask, pc, loc>>,
           \A v \in Workers \ {w} : wpc'[v] = wpc[v] /\ wloc'[v] = wloc[v],
           wpc[w] \in Handling, NEW row, Rewrites(wloc[w].run, row),
           row.status \in Active => row.attempts < MaxAttempts /\ row.attempts >= run[wloc[w].run].attempts,
           run[wloc[w].run].status \in Active,
           wpc'[w] = "settle" => /\ wloc'[w].queue = wloc[w].queue
                                 /\ \/ row.status \in Final
                                    \/ wloc'[w].out = "err" /\ row.attempts > run[wloc[w].run].attempts
    PROVE  LinkInv'
<1> DEFINE x == wloc[w].run
           q == wloc[w].queue
<1>0. /\ x \in Runs /\ run[x].queue = q /\ q \in QueueIds /\ qtask[q].status # "absent"
      /\ run'[x] = row /\ row.queue = q /\ row \in RunRow
      /\ \A r \in Runs \ {x} : run'[r] = run[r]
  BY DEF RunsInv, WorkInv, TypeInv, TypeOK, WorkShape, Handling, Rewrites
<1>1. qtask[q].status \in Active /\ qtask[q].attempts <= run[x].attempts
  BY <1>0 DEF LinkInv, Carried
<1>2. run[x].attempts \in Nat /\ row.attempts \in Nat /\ qtask[q].attempts \in Nat
  BY <1>0 DEF TypeInv, TypeOK, RunRow
<1>3. ASSUME NEW r \in Runs PROVE Carried(r)'
  <2>1. CASE r = x
    BY <1>0, <1>1, <1>2, <2>1 DEF Carried
  <2>2. CASE r # x
    BY <1>0, <2>2 DEF LinkInv, Carried
  <2> QED
    BY <2>1, <2>2
<1>4. ASSUME NEW v \in Workers, wpc'[v] = "settle" PROVE Settled(wloc[v].queue, wloc[v].out)'
  <2>1. CASE v = w
    BY <1>0, <1>1, <1>2, <1>4, <2>1 DEF Settled
  <2>2. CASE v # w
    <3>1. PICK r \in Runs : /\ run[r].queue = wloc[v].queue
                            /\ \/ run[r].status \in Final
                               \/ wloc[v].out = "err" /\ run[r].attempts > qtask[wloc[v].queue].attempts
      BY <1>4, <2>2 DEF LinkInv, Settled
    <3>2. wloc[v].queue # q
      BY <1>4, <2>2 DEF RunsInv, WorkInv, Handling
    <3>3. run'[r] = run[r]
      BY <1>0, <3>1, <3>2
    <3> QED
      BY <2>2, <3>1, <3>3 DEF Settled
  <2> QED
    BY <2>1, <2>2
<1>5. \A t \in QueueIds : (\E r \in Runs : run[r].queue = t) => \E r \in Runs : run'[r].queue = t
  BY <1>0
<1> QED
  BY <1>3, <1>4, <1>5 DEF LinkInv

(* The last step of an execution: the task is completed, failed or         *)
(* cancelled, and never ahead of its run.                                  *)
LEMMA SettleLinks ==
    ASSUME RunsAssumption, TypeInv, RunsInv, LinkInv, NEW w \in Workers, SettleTask(w), UNCHANGED <<pc, loc>>
    PROVE  LinkInv'
<1> DEFINE q == wloc[w].queue
<1>0. /\ wpc[w] = "settle" /\ q \in QueueIds /\ UNCHANGED run /\ Rest(w)
      /\ qtask \in [QueueIds -> [status : Status, attempts : Nat]] /\ run \in [Runs -> RunRow]
  BY DEF SettleTask, TypeInv, TypeOK, WorkShape, Status
<1>1. wpc'[w] = "idle" /\ \A v \in Workers \ {w} : wpc'[v] = wpc[v] /\ wloc'[v] = wloc[v]
  BY <1>0 DEF Rest, WorkAt, TypeInv
<1>2. PICK r \in Runs : /\ run[r].queue = q
                        /\ \/ run[r].status \in Final
                           \/ wloc[w].out = "err" /\ run[r].attempts > qtask[q].attempts
  BY <1>0 DEF LinkInv, Settled
<1>3. \A t \in QueueIds \ {q} : qtask'[t] = qtask[t]
  BY <1>0 DEF SettleTask, Queue!Complete, Queue!Cancel, Queue!Fail, Queue!Move
<1>4. qtask[q].status # "absent" /\ qtask'[q].status # "absent"
  <2>1. qtask[q].status # "absent"
    BY <1>0 DEF RunsInv, WorkInv
  <2>2. UNCHANGED qtask \/ Queue!Complete(q) \/ Queue!Fail(q) \/ Queue!Cancel(q)
    BY DEF SettleTask
  <2> QED
    BY <1>0, <2>1, <2>2, TaskStays
<1>5. \A s \in Runs \ {r} : run[s].queue # q
  <2>1. RowInv(r) /\ q # NoQueue
    BY <1>0 DEF RunsInv, RunsAssumption
  <2> QED
    BY <1>2, <2>1 DEF RowInv
<1>6. Carried(r)'
  <2>1. CASE run[r].status \in Final
    BY <1>0, <2>1 DEF Carried, Active, Final
  <2>2. CASE qtask[q].status \in Final
    <3>1. Carried(r)
      BY DEF LinkInv
    <3> QED
      BY <1>0, <1>2, <2>2, <3>1 DEF Carried, Active, Final
  <2>3. CASE run[r].status \notin Final /\ qtask[q].status \notin Final
    <3>1. Queue!Fail(q) /\ run[r].attempts > qtask[q].attempts
      BY <1>2, <2>3 DEF SettleTask
    <3>2. run[r].attempts \in Nat /\ qtask[q].attempts \in Nat /\ MaxAttempts \in Nat
      BY <1>0 DEF RunRow, RunsAssumption
    <3>3. qtask'[q] = [status |-> IF qtask[q].attempts + 1 >= MaxAttempts THEN "dead_letter" ELSE "failed",
                       attempts |-> qtask[q].attempts + 1]
      BY <1>0, <3>1 DEF Queue!Fail
    <3>4. run[r].status \in Active => run[r].attempts < MaxAttempts
      BY DEF LinkInv, Carried
    <3>5. run[r].status \in Active => qtask'[q].status = "failed" /\ qtask'[q].attempts <= run[r].attempts
      BY <3>1, <3>2, <3>3, <3>4
    <3> QED
      BY <1>0, <1>2, <3>4, <3>5 DEF Carried, Active
  <2> QED
    BY <2>1, <2>2, <2>3
<1>7. ASSUME NEW s \in Runs \ {r} PROVE Carried(s)'
  <2>1. Carried(s) /\ (run[s].status \in Active => run[s].queue \in QueueIds \ {q})
    BY <1>5 DEF LinkInv, RunsInv, RowInv
  <2> QED
    BY <1>0, <1>3, <2>1 DEF Carried
<1>8. ASSUME NEW v \in Workers, wpc'[v] = "settle" PROVE Settled(wloc[v].queue, wloc[v].out)'
  <2>1. v # w /\ Settled(wloc[v].queue, wloc[v].out) /\ wloc[v].queue \in QueueIds
    BY <1>1, <1>8 DEF LinkInv, TypeInv, WorkShape
  <2>2. wloc[v].queue # q
    BY <1>0, <1>1, <1>8, <2>1 DEF RunsInv, WorkInv
  <2> QED
    BY <1>0, <1>1, <1>3, <2>1, <2>2 DEF Settled
<1>9. \A t \in QueueIds : qtask'[t].status # "absent" => \E s \in Runs : run'[s].queue = t
  BY <1>0, <1>3, <1>4 DEF LinkInv
<1> QED
  BY <1>0, <1>6, <1>7, <1>8, <1>9 DEF LinkInv

LEMMA WorkerLinks ==
    ASSUME RunsAssumption, SafeFaults, TypeInv, RunsInv, LinkInv, NEW w \in Workers, Worker(w)
    PROVE  LinkInv'
<1>0. /\ UNCHANGED <<policy, pc, loc>> /\ WorkInv(w) /\ wloc[w] \in WorkLocal /\ WorkShape(wpc[w], wloc[w])
      /\ run \in [Runs -> RunRow]
  BY DEF Worker, RunsInv, TypeInv, TypeOK
<1>1. \A v \in Workers \ {w} : wpc'[v] = wpc[v] /\ wloc'[v] = wloc[v]
  <2>1. WorkMoved(w)
    BY WorkerMoves
  <2> QED
    BY <2>1 DEF WorkMoved, TypeInv
<1>2. ASSUME NEW q \in QueueIds, Claim(w, q) PROVE LinkInv'
  <2>1. wpc'[w] # "settle" /\ UNCHANGED run /\ Queue!Start(q)
    BY <1>2 DEF Claim, WorkAt, TypeInv
  <2> QED
    BY <1>0, <1>1, <2>1, ReadsLink
<1>3. CASE StartTask(w)
  <2>1. wpc'[w] # "settle" /\ UNCHANGED run /\ wloc[w].queue \in QueueIds
        /\ (UNCHANGED qtask \/ Queue!Start(wloc[w].queue))
    BY <1>0, <1>3 DEF StartTask, WorkAt, Rest, TypeInv, WorkShape
  <2> QED
    BY <1>0, <1>1, <2>1, ReadsLink
<1>4. CASE FindRun(w)
  <2>1. wpc[w] = "lookup" /\ UNCHANGED <<run, qtask>> /\ wloc[w].queue \in QueueIds
    BY <1>0, <1>4 DEF FindRun, WorkShape
  <2>2. \E r \in Runs : run[r].queue = wloc[w].queue
    BY <1>0, <2>1 DEF WorkInv, LinkInv
  <2>3. wpc'[w] # "settle"
    BY <1>4, <2>2 DEF FindRun, WorkAt, TypeInv
  <2> QED
    BY <1>0, <1>1, <2>1, <2>3, ReadsLink
<1>5. ASSUME wpc[w] \in Handling, UNCHANGED <<run, qtask>>, wpc'[w] = "settle" => run[wloc[w].run].status \in Final,
             wloc'[w].queue = wloc[w].queue
      PROVE  LinkInv'
  <2>1. wloc[w].run \in Runs /\ wloc[w].queue \in QueueIds /\ run[wloc[w].run].queue = wloc[w].queue
    BY <1>0, <1>5 DEF WorkInv, WorkShape, Handling
  <2>2. wpc'[w] = "settle" => Settled(wloc'[w].queue, wloc'[w].out)
    BY <1>5, <2>1 DEF Settled
  <2> QED
    BY <1>0, <1>1, <1>5, <2>1, <2>2, ReadsLink
<1>6. CASE MarkRunningRead(w) \/ MarkEndRead(w)
  <2>1. wpc[w] \in Handling /\ UNCHANGED <<run, qtask>>
    BY <1>6 DEF MarkRunningRead, MarkEndRead, Handling
  <2>2. wloc'[w].queue = wloc[w].queue
    BY <1>6 DEF MarkRunningRead, MarkEndRead, Settle, TypeInv, WorkLocal
  <2>3. wpc'[w] = "settle" => run[wloc[w].run].status \in Final
    BY <1>6 DEF MarkRunningRead, MarkEndRead, WorkAt, TypeInv
  <2> QED
    BY <1>5, <2>1, <2>2, <2>3
<1>7. CASE HandlerReturns(w) \/ ResultRead(w)
  <2>1. wpc[w] \in Handling /\ UNCHANGED <<run, qtask>>
    BY <1>7 DEF HandlerReturns, ResultRead, Handling
  <2>2. wloc'[w].queue = wloc[w].queue
    BY <1>7 DEF HandlerReturns, ResultRead, TypeInv, WorkLocal
  <2>3. wpc'[w] # "settle"
    BY <1>7 DEF HandlerReturns, ResultRead, WorkAt, TypeInv
  <2> QED
    BY <1>5, <2>1, <2>2, <2>3
<1>8. CASE MarkRunningWrite(w) \/ ResultWrite(w) \/ MarkEndWrite(w)
  <2> DEFINE x == wloc[w].run
  <2>1. /\ wpc[w] \in {"markwrite", "reswrite", "endwrite"} /\ x \in Runs /\ UNCHANGED qtask /\ wpc[w] \in Handling
        /\ wloc[w].row = run[x] /\ run[x] \in RunRow /\ run[x].status \in Active
    BY <1>0, <1>8 DEF MarkRunningWrite, ResultWrite, MarkEndWrite, WorkInv, WorkShape, Handling, Executing, Active
  <2>2. Writable(x, wloc[w].row) /\ run[x].attempts < MaxAttempts /\ run[x].attempts \in Nat /\ MaxAttempts \in Nat
    BY <2>1, KnownWrites DEF RunsInv, LinkInv, Carried, RunRow, RunsAssumption
  <2>3. CASE MarkRunningWrite(w)
    <3> DEFINE row == [run[x] EXCEPT !.status = "running"]
    <3>1. Put(x, row) /\ row \in RunRow /\ row.status = "running" /\ row.queue = run[x].queue /\ row.key = run[x].key
          /\ row.attempts = run[x].attempts
      BY <2>1, <2>3 DEF MarkRunningWrite, RunRow, Active
    <3>2. wpc'[w] # "settle"
      BY <2>2, <2>3 DEF MarkRunningWrite, WorkAt, TypeInv
    <3> HIDE DEF row
    <3>3. Rewrites(x, row)
      BY <2>1, <3>1, KnownWrites DEF Rewrites, RunsInv
    <3> QED
      BY <1>0, <1>1, <2>1, <2>2, <3>1, <3>2, <3>3, WritesLink
  <2>4. CASE ResultWrite(w)
    <3>1. Put(x, run[x]) /\ wpc'[w] # "settle"
      BY <2>1, <2>4 DEF ResultWrite, WorkAt, TypeInv
    <3>2. Rewrites(x, run[x])
      BY <2>1, <3>1, KnownWrites DEF Rewrites, RunsInv, Active
    <3> QED
      BY <1>0, <1>1, <2>1, <2>2, <3>1, <3>2, WritesLink
  <2>5. CASE MarkEndWrite(w)
    <3> DEFINE o == wloc[w].out
               row == Ended(run[x], o)
    <3>1. Put(x, row) /\ row \in RunRow
      BY <2>1, <2>5, EndedTypes DEF MarkEndWrite
    <3>2. /\ row.status # "absent" /\ row.queue = run[x].queue /\ row.key = run[x].key
          /\ row.status \in Final \/ (o = "err" /\ row.status = "failed" /\ row.attempts = run[x].attempts + 1
                                      /\ run[x].attempts + 1 < MaxAttempts)
      BY <2>1, <2>2 DEF Ended, RunRow, Final
    <3>3. wloc'[w].queue = wloc[w].queue /\ wloc'[w].out = o
      BY <2>2, <2>5 DEF MarkEndWrite, Settle, TypeInv, WorkLocal
    <3> HIDE DEF row, o
    <3>4. Rewrites(x, row)
      BY <2>1, <3>1, <3>2, KnownWrites DEF Rewrites, RunsInv
    <3>5. /\ row.status \in Active => row.attempts < MaxAttempts /\ row.attempts >= run[x].attempts
          /\ row.status \in Final \/ (wloc'[w].out = "err" /\ row.attempts > run[x].attempts)
      BY <2>2, <3>2, <3>3 DEF Active, Final
    <3> QED
      BY <1>0, <1>1, <2>1, <3>3, <3>4, <3>5, WritesLink
  <2> QED
    BY <1>8, <2>3, <2>4, <2>5
<1>9. ~LateStop(w)
  BY DEF LateStop, Fault, SafeFaults
<1> QED
  BY <1>0, <1>2, <1>3, <1>4, <1>6, <1>7, <1>8, <1>9, SettleLinks DEF Worker

LEMMA ClientLinks ==
    ASSUME RunsAssumption, Triggered, SafeFaults, TypeInv, RunsInv, LinkInv, policy # "replace",
           NEW c \in Clients, Client(c)
    PROVE  LinkInv'
<1>0. /\ UNCHANGED <<wpc, wloc>> /\ CallInv(c) /\ run \in [Runs -> RunRow] /\ pc[c] # "undo"
      /\ qtask \in [QueueIds -> [status : Status, attempts : Nat]]
  BY DEF Client, RunsInv, TypeInv, TypeOK, Status, LinkInv
<1>1. /\ \A d \in Clients \ {c} : pc'[d] = pc[d] /\ loc'[d] = loc[d]
      /\ loc \in [Clients -> CallLocal] /\ pc \in [Clients -> CallPoint]
  <2>1. Moved(c)
    BY ClientMoves
  <2> QED
    BY <2>1 DEF Moved, TypeInv
<1>2. ASSUME (\E k \in Keys : EnqueueCall(c, k)) \/ ListActive(c) PROVE LinkInv'
  <2>1. UNCHANGED <<run, qtask>> /\ pc[c] # "push" /\ pc'[c] \in {"done", "list", "create"}
    BY <1>1, <1>2 DEF EnqueueCall, ListActive, Return, Go
  <2>2. ASSUME NEW r \in Runs PROVE Carried(r)'
    <3>1. Carried(r)
      BY DEF LinkInv
    <3> QED
      BY <1>1, <2>1, <3>1 DEF Carried
  <2>3. \A d \in Clients : pc'[d] # "undo"
    BY <1>1, <2>1 DEF LinkInv
  <2> QED
    BY <1>0, <2>1, <2>2, <2>3 DEF LinkInv, Settled
<1>3. CASE CreateRun(c)
  <2>1. UNCHANGED qtask /\ pc[c] = "create"
    BY <1>3 DEF CreateRun
  <2>2. CASE UNCHANGED run /\ Return(c)
    <3>1. pc'[c] = "done"
      BY <1>1, <2>2 DEF Return, Go
    <3>2. ASSUME NEW r \in Runs PROVE Carried(r)'
      <4>1. Carried(r)
        BY DEF LinkInv
      <4> QED
        BY <1>1, <2>1, <2>2, <3>1, <4>1 DEF Carried
    <3>3. \A d \in Clients : pc'[d] # "undo"
      BY <1>1, <3>1 DEF LinkInv
    <3> QED
      BY <1>0, <2>1, <2>2, <3>2, <3>3 DEF LinkInv, Settled
  <2>3. CASE ~(UNCHANGED run /\ Return(c))
    <3>1. PICK r \in newID({x \in Runs : run[x] = NoRow}), q \in newID({x \in QueueIds : Unused(x)}) :
             LET row == [status |-> IF loc[c].skip THEN "cancelled" ELSE "pending",
                         queue  |-> IF loc[c].skip THEN NoQueue ELSE q,
                         key |-> loc[c].key, attempts |-> 0]
             IN /\ Put(r, row)
                /\ IF loc[c].skip THEN Return(c)
                   ELSE Go(c, "push") /\ loc' = [loc EXCEPT ![c].run = r, ![c].row = row]
      BY <1>3, <2>3 DEF CreateRun
    <3>2. r \in Runs /\ run[r] = NoRow /\ q \in QueueIds /\ Unused(q)
      BY NewIsFree
    <3> DEFINE row == [status |-> IF loc[c].skip THEN "cancelled" ELSE "pending",
                       queue  |-> IF loc[c].skip THEN NoQueue ELSE q,
                       key |-> loc[c].key, attempts |-> 0]
    <3>3. \A s \in Runs \ {r} : run'[s] = run[s]
      BY <1>0, <3>1 DEF Put
    <3>4. \A t \in QueueIds : (\E s \in Runs : run[s].queue = t) => \E s \in Runs : s # r /\ run[s].queue = t
      BY <3>2 DEF NoRow, RunsAssumption
    <3>5. run'[r] = run[r] \/ (run'[r] = row /\ ~loc[c].skip => /\ pc'[c] = "push" /\ loc'[c].run = r)
      BY <1>0, <1>1, <3>1, <3>2 DEF Put, Go, CallLocal
    <3>6. run'[r] = run[r] \/ run'[r] = row
      BY <1>0, <3>1, <3>2 DEF Put
    <3>7. pc'[c] \in {"done", "push"}
      BY <1>1, <3>1 DEF Return, Go
    <3>8. qtask[q].status = "absent" /\ MaxAttempts > 0
      BY <3>2 DEF Unused, RunsAssumption
    <3>9. Carried(r)'
      <4>1. CASE run'[r] = run[r]
        BY <3>2, <4>1 DEF Carried, NoRow, Active
      <4>2. CASE run'[r] = row /\ loc[c].skip
        BY <4>2 DEF Carried, Active
      <4>3. CASE run'[r] = row /\ ~loc[c].skip /\ run'[r] # run[r]
        BY <2>1, <3>5, <3>8, <4>3 DEF Carried, Active
      <4> QED
        BY <3>6, <4>1, <4>2, <4>3
    <3>10. ASSUME NEW s \in Runs \ {r} PROVE Carried(s)'
      <4>1. Carried(s) /\ run'[s] = run[s]
        BY <3>3 DEF LinkInv
      <4> QED
        BY <1>1, <2>1, <4>1 DEF Carried
    <3>11. ASSUME NEW w \in Workers, wpc[w] = "settle" PROVE Settled(wloc[w].queue, wloc[w].out)'
      <4>1. Settled(wloc[w].queue, wloc[w].out) /\ wloc[w].queue \in QueueIds
        BY <3>11 DEF LinkInv, TypeInv, WorkShape
      <4>2. PICK s \in Runs : /\ run[s].queue = wloc[w].queue
                              /\ \/ run[s].status \in Final
                                 \/ wloc[w].out = "err" /\ run[s].attempts > qtask[wloc[w].queue].attempts
        BY <4>1 DEF Settled
      <4>3. s # r
        BY <3>2, <4>1, <4>2 DEF NoRow, RunsAssumption
      <4>4. run'[s] = run[s]
        BY <3>3, <4>3
      <4> QED
        BY <1>0, <2>1, <4>2, <4>4 DEF Settled
    <3>12. \A t \in QueueIds : qtask'[t].status # "absent" => \E s \in Runs : run'[s].queue = t
      BY <2>1, <3>3, <3>4 DEF LinkInv
    <3>13. \A d \in Clients : pc'[d] # "undo"
      BY <1>1, <3>7 DEF LinkInv
    <3> QED
      BY <1>0, <3>9, <3>10, <3>11, <3>12, <3>13 DEF LinkInv
  <2> QED
    BY <2>2, <2>3
<1>4. CASE PushTask(c)
  <2> DEFINE q == loc[c].row.queue
             x == loc[c].run
  <2>1. /\ pc[c] = "push" /\ UNCHANGED run /\ q \in QueueIds /\ x \in Runs /\ run[x] = loc[c].row
        /\ qkey[loc[c].key] = NoQueue
    BY <1>0, <1>4 DEF PushTask, CallInv, TypeInv, CallShape
  <2>2. qtask' = [qtask EXCEPT ![q] = [status |-> "pending", attempts |-> 0]] /\ Return(c) /\ qtask[q].status = "absent"
    BY <1>4, <2>1 DEF PushTask, Queue!Submit
  <2>3. pc'[c] = "done" /\ qtask'[q] = [status |-> "pending", attempts |-> 0]
        /\ \A t \in QueueIds \ {q} : qtask'[t] = qtask[t]
    BY <1>0, <1>1, <2>1, <2>2 DEF Return, Go
  <2>4. \A s \in Runs \ {x} : run[s].queue # q
    <3>1. RowInv(x) /\ q # NoQueue
      BY <2>1 DEF RunsInv, RunsAssumption
    <3> QED
      BY <2>1, <3>1 DEF RowInv
  <2>5. ASSUME NEW s \in Runs, s = x PROVE Carried(s)'
    <3>1. Carried(s) /\ run'[s] = run[s] /\ run[s].queue = q
      BY <2>1, <2>5 DEF LinkInv
    <3>2. run[s].attempts \in Nat /\ qtask'[q].status \in Active /\ qtask'[q].attempts = 0
      BY <1>0, <2>1, <2>3 DEF Active, RunRow
    <3> QED
      BY <3>1, <3>2 DEF Carried
  <2>6. ASSUME NEW s \in Runs \ {x} PROVE Carried(s)'
    <3>1. Carried(s) /\ (run[s].status \in Active => run[s].queue \in QueueIds \ {q})
      BY <2>4 DEF LinkInv, RunsInv, RowInv
    <3>2. \A d \in Clients : loc[d].run = s => d # c
      OBVIOUS
    <3> QED
      BY <1>1, <2>1, <2>3, <3>1, <3>2 DEF Carried
  <2>7. ASSUME NEW w \in Workers, wpc[w] = "settle" PROVE Settled(wloc[w].queue, wloc[w].out)'
    <3>1. Settled(wloc[w].queue, wloc[w].out) /\ wloc[w].queue \in QueueIds
      BY <2>7 DEF LinkInv, TypeInv, WorkShape
    <3>2. wloc[w].queue # q
      BY <2>2, <2>7 DEF RunsInv, WorkInv
    <3> QED
      BY <1>0, <2>1, <2>3, <3>1, <3>2 DEF Settled
  <2>8. \A t \in QueueIds : qtask'[t].status # "absent" => \E s \in Runs : run'[s].queue = t
    BY <2>1, <2>3 DEF LinkInv
  <2>9. \A d \in Clients : pc'[d] # "undo"
    BY <1>1, <2>3 DEF LinkInv
  <2>10. \A s \in Runs : Carried(s)'
    BY <2>5, <2>6
  <2>11. \A w \in Workers : wpc'[w] = "settle" => Settled(wloc[w].queue, wloc[w].out)'
    BY <1>0, <2>7
  <2> QED
    BY <2>8, <2>9, <2>10, <2>11 DEF LinkInv
<1>5. ~PushFails(c) /\ ~MarkUnqueued(c)
  BY <1>0 DEF PushFails, Fault, SafeFaults, MarkUnqueued
<1> QED
  BY <1>2, <1>3, <1>4, <1>5, TriggeredSteps

LinkedInv == PolicyInv /\ (policy # "replace" => LinkInv)

LEMMA InitLinked == RunsAssumption /\ Init => LinkedInv
<1> SUFFICES ASSUME RunsAssumption, Init PROVE LinkedInv
  OBVIOUS
<1>1. LinkInv
  BY DEF Init, LinkInv, Carried, NoRow, NoQueueTask, Active
<1> QED
  BY <1>1, InitPolicy DEF LinkedInv

LEMMA NextKeepsLinked == ASSUME RunsAssumption, Triggered, SafeFaults, LinkedInv, [Next]_vars PROVE LinkedInv'
<1>1. PolicyInv' /\ UNCHANGED policy
  BY NextKeepsPolicy DEF LinkedInv, Next, Client, Worker, CrashWorker, CrashClient, vars
<1> SUFFICES ASSUME TypeInv, RunsInv, LinkInv, policy # "replace" PROVE LinkInv'
  BY <1>1 DEF LinkedInv, PolicyInv
<1>2. ASSUME NEW w \in Workers, CrashWorker(w) PROVE LinkInv'
  <2>1. /\ UNCHANGED <<run, qtask, pc, loc>> /\ wpc'[w] = "idle"
        /\ \A v \in Workers \ {w} : wpc'[v] = wpc[v] /\ wloc'[v] = wloc[v]
    BY <1>2 DEF CrashWorker, Rest, WorkAt, TypeInv
  <2> QED
    BY <2>1, ReadsLink
<1>3. \A c \in Clients : ~CrashClient(c)
  BY DEF CrashClient, Fault, SafeFaults
<1>4. CASE UNCHANGED vars
  BY <1>4 DEF LinkInv, Carried, Settled, vars
<1> QED
  BY <1>2, <1>3, <1>4, WorkerLinks, ClientLinks DEF Next

LEMMA LinkedNoOrphan == ASSUME RunsAssumption, LinkedInv PROVE NoOrphan
<1> SUFFICES ASSUME LinkedInv, policy # "replace", NEW r \in ActiveRuns, Quiet(r)
             PROVE  run[r].queue # NoQueue /\ qtask[run[r].queue].status \in Active
  BY DEF NoOrphan
<1>1. r \in Runs /\ Carried(r) /\ run[r].queue \in QueueIds /\ run[r].status \in Active
  BY DEF LinkedInv, ActiveRuns, PolicyInv, RunsInv, RowInv, LinkInv
<1>2. run[r].queue # NoQueue
  BY <1>1 DEF RunsAssumption
<1>3. ~\E c \in Clients : pc[c] = "push" /\ loc[c].run = r
  BY DEF Quiet
<1> QED
  BY <1>1, <1>2, <1>3 DEF Carried

(* No run is left behind: an active run that nobody works on has a task    *)
(* that a worker will still execute, with workers that die and handlers    *)
(* that a shutdown cuts short.                                             *)
THEOREM NoneLeftBehind == ASSUME RunsAssumption, Triggered, SafeFaults PROVE Spec => []NoOrphan
<1>1. Init => LinkedInv
  BY InitLinked
<1>2. LinkedInv /\ [Next]_vars => LinkedInv'
  BY NextKeepsLinked
<1>3. LinkedInv => NoOrphan
  BY LinkedNoOrphan
<1> QED
  BY <1>1, <1>2, <1>3, PTL DEF Spec

-----------------------------------------------------------------------------
(* Policy "replace".  Enqueue cancels what it saw active, one run after    *)
(* the other, while a worker may still write a cancelled run back from an  *)
(* earlier copy: so the record may be active again, but its task is        *)
(* cancelled and nothing executes it.                                      *)

(* Run r is active and a worker may execute it. *)
Live(r) ==
    /\ run[r].status \in Active /\ run[r].queue \in QueueIds
    /\ qtask[run[r].queue].status \in Active

Replacing == {"list", "replace", "cread", "cqueue", "cwrite", "create", "push", "undo"}
Cancelling == {"replace", "cread", "cqueue", "cwrite", "create"}

(* What can be executed is still to be cancelled by the call; before its   *)
(* task is queued nothing is left.                                         *)
ReplaceCall(c) ==
    /\ pc[c] \in {"idle", "done"} \cup Replacing
    /\ pc[c] # "done" => ~loc[c].skip
    /\ pc[c] \in Replacing => loc[c].key \in Keys /\ \A d \in Clients : pc[d] \in Replacing => d = c
    /\ pc[c] \in Cancelling =>
         \A r \in Runs : Live(r) => r \in loc[c].todo \/ (pc[c] \in {"cread", "cqueue"} /\ r = loc[c].run)
    /\ pc[c] = "create" => loc[c].todo = {}
    /\ pc[c] \in {"cqueue", "cwrite"} =>
         /\ loc[c].row.queue \in QueueIds /\ loc[c].row.queue = run[loc[c].run].queue
         /\ loc[c].row.key = run[loc[c].run].key
    /\ pc[c] = "cwrite" => qtask[loc[c].row.queue].status \notin Active
    /\ pc[c] \in {"push", "undo"} =>
         /\ run[loc[c].run] = loc[c].row
         /\ loc[c].row.status = "pending" /\ loc[c].row.queue \in QueueIds /\ loc[c].row.key = loc[c].key
         /\ qtask[loc[c].row.queue].status = "absent"
         /\ \A r \in Runs : ~Live(r)
    /\ pc[c] = "push" => qkey[loc[c].key] = NoQueue

(* The copy a worker writes back may be old, but then its task is over. *)
ReplaceWork(w) ==
    /\ wpc[w] # "idle" =>
         /\ qtask[wloc[w].queue].status # "absent"
         /\ \A v \in Workers : wpc[v] # "idle" /\ wloc[v].queue = wloc[w].queue => v = w
    /\ wpc[w] \in Handling => run[wloc[w].run].queue = wloc[w].queue
    /\ wpc[w] \in Handling \ {"markread"} /\ qtask[wloc[w].queue].status \in Active => run[wloc[w].run].status \in Active
    /\ wpc[w] \in {"markwrite", "reswrite", "endwrite"} =>
         /\ wloc[w].row.queue = wloc[w].queue /\ wloc[w].row.key = run[wloc[w].run].key
         /\ wloc[w].row.status # "absent"
         /\ qtask[wloc[w].queue].status \in Active => wloc[w].row.status \in Active

LiveInv == \A r, s \in Runs : Live(r) /\ Live(s) => r = s

ReplaceInv ==
    /\ LiveInv /\ KeyInv
    /\ \A c \in Clients : ReplaceCall(c)
    /\ \A r \in Runs : RowInv(r)
    /\ \A w \in Workers : ReplaceWork(w)

(* A row is written, perhaps from an old copy: key and task stay. *)
Overwrites(x, row) ==
    /\ x \in Runs /\ row \in RunRow /\ run' = [run EXCEPT ![x] = row]
    /\ row.status # "absent" /\ row.queue = run[x].queue /\ row.key = run[x].key /\ row.queue \in QueueIds

LEMMA OverwriteKeepsRows ==
    ASSUME RunsAssumption, TypeInv, \A r \in Runs : RowInv(r), NEW x, NEW row, Overwrites(x, row)
    PROVE  /\ \A r \in Runs : RowInv(r)'
           /\ run'[x] = row /\ \A r \in Runs \ {x} : run'[r] = run[r]
           /\ \A r \in Runs : run'[r].key = run[r].key /\ run'[r].queue = run[r].queue
           /\ KeyInv /\ UNCHANGED qkey => KeyInv'
<1>1. /\ run' \in [Runs -> RunRow] /\ run \in [Runs -> RunRow] /\ run'[x] = row /\ x \in Runs
      /\ \A r \in Runs \ {x} : run'[r] = run[r]
  BY DEF Overwrites, TypeInv, TypeOK
<1>2. \A r \in Runs : run'[r].key = run[r].key /\ run'[r].queue = run[r].queue
  BY <1>1 DEF Overwrites
<1>3. run[x] # NoRow
  BY DEF Overwrites, NoRow, RunsAssumption
<1>4. ASSUME NEW r \in Runs PROVE RowInv(r)'
  <2>1. RowInv(r)
    OBVIOUS
  <2>2. run'[r] = NoRow \/ (run'[r].status # "absent" /\ run'[r].key \in Keys)
    BY <1>1, <1>2, <1>3, <2>1 DEF RowInv, Overwrites
  <2>3. run'[r].status \in Active => run'[r].queue \in QueueIds
    BY <1>1, <1>2, <2>1 DEF RowInv, Overwrites
  <2> QED
    BY <1>2, <2>1, <2>2, <2>3 DEF RowInv
<1>5. KeyInv /\ UNCHANGED qkey => KeyInv'
  BY <1>2 DEF KeyInv
<1> QED
  BY <1>1, <1>2, <1>4, <1>5

(* A client's step that writes neither runs nor the queue. *)
LEMMA ReplaceCallKeeps ==
    ASSUME ReplaceInv, NEW c \in Clients, UNCHANGED <<run, qtask, qkey, wpc, wloc>>,
           \A d \in Clients \ {c} : pc'[d] = pc[d] /\ loc'[d] = loc[d],
           pc'[c] \in Replacing => pc[c] \in Replacing \/ \A d \in Clients : pc[d] \notin Replacing,
           ReplaceCall(c)'
    PROVE  ReplaceInv'
<1>1. \A r \in Runs : Live(r)' = Live(r)
  BY DEF Live
<1>2. LiveInv' /\ KeyInv' /\ (\A r \in Runs : RowInv(r)') /\ \A w \in Workers : ReplaceWork(w)'
  <2>1. KeyInv' /\ \A r \in Runs : RowInv(r)'
    BY DEF ReplaceInv, KeyInv, RowInv
  <2>2. \A w \in Workers : ReplaceWork(w)'
    BY DEF ReplaceInv, ReplaceWork
  <2> QED
    BY <1>1, <2>1, <2>2 DEF ReplaceInv, LiveInv
<1>3. ASSUME NEW d \in Clients \ {c} PROVE ReplaceCall(d)'
  <2>1. ReplaceCall(d)
    BY DEF ReplaceInv
  <2>2. pc'[d] \in Replacing => pc'[c] \notin Replacing
    BY <2>1 DEF ReplaceCall
  <2> QED
    BY <1>1, <2>1, <2>2 DEF ReplaceCall
<1> QED
  BY <1>2, <1>3 DEF ReplaceInv

(* Whoever is inside Enqueue is alone there. *)
LEMMA OthersRest ==
    ASSUME ReplaceInv, NEW c \in Clients, pc[c] \in Replacing,
           \A d \in Clients \ {c} : pc'[d] = pc[d] /\ loc'[d] = loc[d]
    PROVE  \A d \in Clients \ {c} : pc[d] \notin Replacing /\ ReplaceCall(d)'
BY DEF ReplaceInv, ReplaceCall, Replacing, Cancelling

(* A worker's step that writes no run. *)
LEMMA ReplaceWorkKeeps ==
    ASSUME TypeInv, ReplaceInv, NEW w \in Workers, UNCHANGED <<run, qkey, pc, loc>>,
           \A q \in QueueIds : /\ (qtask'[q].status = "absent") = (qtask[q].status = "absent")
                               /\ qtask'[q].status \in Active => qtask[q].status \in Active,
           \A v \in Workers \ {w} : wpc'[v] = wpc[v] /\ wloc'[v] = wloc[v],
           ReplaceWork(w)'
    PROVE  ReplaceInv'
<1>1. \A r \in Runs : Live(r)' => Live(r)
  BY DEF Live
<1>2. LiveInv' /\ KeyInv' /\ \A r \in Runs : RowInv(r)'
  BY <1>1 DEF ReplaceInv, LiveInv, KeyInv, RowInv
<1>3. ASSUME NEW v \in Workers \ {w} PROVE ReplaceWork(v)'
  <2>1. ReplaceWork(v) /\ (wpc[v] # "idle" => wloc[v].queue \in QueueIds)
    BY DEF ReplaceInv, TypeInv, WorkShape
  <2>2. wpc'[w] # "idle" /\ wpc'[v] # "idle" => wloc'[w].queue # wloc'[v].queue
    BY DEF ReplaceWork
  <2> QED
    BY <2>1, <2>2 DEF ReplaceWork, Handling
<1>4. \A c \in Clients : ReplaceCall(c)'
  BY <1>1 DEF ReplaceInv, ReplaceCall
<1> QED
  BY <1>2, <1>3, <1>4 DEF ReplaceInv

(* A worker's step that writes its run. *)
LEMMA ReplaceWorkWrites ==
    ASSUME RunsAssumption, TypeInv, ReplaceInv, NEW w \in Workers, wpc[w] \in Handling \ {"markread"},
           UNCHANGED <<qtask, qkey, pc, loc>>,
           \A v \in Workers \ {w} : wpc'[v] = wpc[v] /\ wloc'[v] = wloc[v],
           NEW row, Overwrites(wloc[w].run, row), ReplaceWork(w)'
    PROVE  ReplaceInv'
<1> DEFINE x == wloc[w].run
<1>0. /\ x \in Runs /\ run[x].queue = wloc[w].queue /\ wloc[w].queue \in QueueIds
      /\ qtask[wloc[w].queue].status # "absent" /\ wpc[w] # "idle"
      /\ qtask[wloc[w].queue].status \in Active => run[x].status \in Active
  BY DEF ReplaceInv, ReplaceWork, TypeInv, WorkShape, Handling
<1>1. /\ \A r \in Runs : RowInv(r)' /\ run'[r].key = run[r].key /\ run'[r].queue = run[r].queue
      /\ KeyInv' /\ \A r \in Runs \ {x} : run'[r] = run[r]
  BY OverwriteKeepsRows DEF ReplaceInv
<1>2. \A r \in Runs : Live(r)' => Live(r)
  BY <1>0, <1>1 DEF Live
<1>3. ASSUME NEW v \in Workers \ {w} PROVE ReplaceWork(v)'
  <2>1. ReplaceWork(v)
    BY DEF ReplaceInv
  <2>2. wpc'[w] # "idle" /\ wpc'[v] # "idle" => wloc'[w].queue # wloc'[v].queue
    BY DEF ReplaceWork
  <2>3. wpc[v] \in Handling => wloc[v].run # x /\ wloc[v].run \in Runs
    <3>1. wpc[v] # "idle" => wloc[v].queue # wloc[w].queue
      BY <1>0, <2>1 DEF ReplaceWork
    <3> QED
      BY <1>0, <2>1, <3>1 DEF ReplaceWork, TypeInv, WorkShape, Handling
  <2>4. wpc[v] \in Handling => run'[wloc[v].run] = run[wloc[v].run]
    BY <1>1, <2>3
  <2> QED
    BY <2>1, <2>2, <2>4 DEF ReplaceWork, Handling
<1>4. ASSUME NEW c \in Clients PROVE ReplaceCall(c)'
  <2>1. ReplaceCall(c) /\ CallShape(pc[c], loc[c])
    BY DEF ReplaceInv, TypeInv
  <2>2. pc[c] \in {"push", "undo"} => run'[loc[c].run] = run[loc[c].run]
    <3>1. pc[c] \in {"push", "undo"} => loc[c].run \in Runs /\ loc[c].run # x
      BY <1>0, <2>1 DEF ReplaceCall, CallShape
    <3> QED
      BY <1>1, <3>1
  <2>3. pc[c] \in {"cqueue", "cwrite"} => /\ run'[loc[c].run].key = run[loc[c].run].key
                                          /\ run'[loc[c].run].queue = run[loc[c].run].queue
    BY <1>1, <2>1 DEF CallShape
  <2> QED
    BY <1>2, <2>1, <2>2, <2>3 DEF ReplaceCall
<1>5. LiveInv'
  BY <1>2 DEF ReplaceInv, LiveInv
<1> QED
  BY <1>1, <1>3, <1>4, <1>5 DEF ReplaceInv

-----------------------------------------------------------------------------
(* The steps of Enqueue under "replace". *)

LEMMA ReplacingSteps ==
    ASSUME Triggered, ReplaceInv, NEW c \in Clients, Client(c)
    PROVE  \/ \E k \in Keys : EnqueueCall(c, k)
           \/ ListActive(c) \/ ReplaceNext(c) \/ CancelRead(c) \/ CancelQueue(c) \/ CancelWrite(c)
           \/ CreateRun(c) \/ PushTask(c) \/ PushFails(c) \/ MarkUnqueued(c)
<1>1. pc[c] \in {"idle", "done"} \cup Replacing
  BY DEF ReplaceInv, ReplaceCall
<1>2. ~Relink(c) /\ ~RetryGet(c) /\ ~RetryWrite(c) /\ ~RetryPush(c)
  BY <1>1 DEF Replacing, Relink, RetryGet, RetryWrite, RetryPush
<1>3. \A r \in Runs : ~CancelCall(c, r) /\ ~RetryCall(c, r)
  BY DEF Triggered, CancelCall, RetryCall
<1> QED
  BY <1>2, <1>3 DEF Client

(* A call that returns has nothing left to keep. *)
LEMMA ReturnedCall ==
    ASSUME TypeInv, NEW c \in Clients, Return(c)
    PROVE  pc'[c] = "done" /\ ReplaceCall(c)' /\ \A d \in Clients \ {c} : pc'[d] = pc[d] /\ loc'[d] = loc[d]
<1>1. pc'[c] = "done" /\ \A d \in Clients \ {c} : pc'[d] = pc[d] /\ loc'[d] = loc[d]
  BY DEF Return, Go, TypeInv
<1> QED
  BY <1>1 DEF ReplaceCall, Replacing, Cancelling

LEMMA ReturnKeeps ==
    ASSUME TypeInv, ReplaceInv, NEW c \in Clients, Return(c), UNCHANGED <<run, qtask, qkey, wpc, wloc>>
    PROVE  ReplaceInv'
BY ReturnedCall, ReplaceCallKeeps DEF Replacing

LEMMA ReplaceEntered ==
    ASSUME Triggered, RunsAssumption, TypeInv, ReplaceInv, policy = "replace", NEW c \in Clients,
           (\E k \in Keys : EnqueueCall(c, k)) \/ ListActive(c), UNCHANGED <<wpc, wloc>>
    PROVE  ReplaceInv'
<1>0. UNCHANGED <<run, qtask, qkey>> /\ ReplaceCall(c)
  BY DEF EnqueueCall, ListActive, ReplaceInv
<1>1. ASSUME NEW k \in Keys, EnqueueCall(c, k) PROVE ReplaceInv'
  <2>1. CASE Return(c)
    BY <1>0, <2>1, ReturnKeeps
  <2>2. CASE Go(c, "list") /\ loc' = [loc EXCEPT ![c].key = k]
    <3>1. \A d \in Clients : pc[d] \notin Replacing
      BY <1>1 DEF EnqueueCall, Admitting, Triggered, InEnqueue, Nested, Replacing, ReplaceInv, ReplaceCall, RunsAssumption
    <3>2. /\ pc'[c] = "list" /\ loc'[c].key = k /\ loc'[c].skip = loc[c].skip
          /\ \A d \in Clients \ {c} : pc'[d] = pc[d] /\ loc'[d] = loc[d]
      BY <2>2 DEF Go, TypeInv, CallLocal
    <3>3. ~loc[c].skip
      BY <1>0, <1>1 DEF EnqueueCall, ReplaceCall
    <3>4. ReplaceCall(c)'
      BY <3>1, <3>2, <3>3 DEF ReplaceCall, Replacing, Cancelling
    <3> QED
      BY <1>0, <3>1, <3>2, <3>4, ReplaceCallKeeps
  <2> QED
    BY <1>1, <2>1, <2>2 DEF EnqueueCall
<1>2. CASE ListActive(c)
  <2>1. pc[c] = "list" /\ Go(c, "replace") /\ loc' = [loc EXCEPT ![c].todo = ActiveRuns]
    BY <1>2 DEF ListActive
  <2>2. /\ pc'[c] = "replace" /\ loc'[c].todo = ActiveRuns /\ loc'[c].key = loc[c].key /\ loc'[c].skip = loc[c].skip
        /\ \A d \in Clients \ {c} : pc'[d] = pc[d] /\ loc'[d] = loc[d]
    BY <2>1 DEF Go, TypeInv, CallLocal
  <2>3. \A r \in Runs : Live(r)' => r \in ActiveRuns
    BY <1>0 DEF Live, ActiveRuns
  <2>4. ReplaceCall(c)'
    BY <1>0, <2>1, <2>2, <2>3 DEF ReplaceCall, Replacing, Cancelling
  <2> QED
    BY <1>0, <2>1, <2>2, <2>4, ReplaceCallKeeps DEF Replacing
<1> QED
  BY <1>1, <1>2

LEMMA ReplaceLoops ==
    ASSUME TypeInv, ReplaceInv, NEW c \in Clients, ReplaceNext(c) \/ CancelRead(c), UNCHANGED <<wpc, wloc>>
    PROVE  ReplaceInv'
<1>0. UNCHANGED <<run, qtask, qkey>> /\ ReplaceCall(c) /\ \A r \in Runs : Live(r)' = Live(r)
  BY DEF ReplaceNext, CancelRead, ReplaceInv, Live
<1>1. CASE pc[c] = "replace" /\ loc[c].todo = {} /\ Go(c, "create") /\ UNCHANGED loc
  <2>1. pc'[c] = "create" /\ \A d \in Clients \ {c} : pc'[d] = pc[d]
    BY <1>1 DEF Go, TypeInv
  <2>2. ReplaceCall(c)'
    BY <1>0, <1>1, <2>1 DEF ReplaceCall, Replacing, Cancelling
  <2> QED
    BY <1>0, <1>1, <2>1, <2>2, ReplaceCallKeeps DEF Replacing
<1>2. ASSUME NEW r \in loc[c].todo, pc[c] = "replace", Go(c, "cread"),
             loc' = [loc EXCEPT ![c].todo = @ \ {r}, ![c].run = r]
      PROVE  ReplaceInv'
  <2>1. pc'[c] = "cread" /\ \A d \in Clients \ {c} : pc'[d] = pc[d] /\ loc'[d] = loc[d]
    BY <1>2 DEF Go, TypeInv
  <2>2. /\ loc'[c].todo = loc[c].todo \ {r} /\ loc'[c].run = r /\ loc'[c].key = loc[c].key
        /\ loc'[c].skip = loc[c].skip
    BY <1>2 DEF TypeInv, CallLocal
  <2>3. ReplaceCall(c)'
    BY <1>0, <1>2, <2>1, <2>2 DEF ReplaceCall, Replacing, Cancelling
  <2> QED
    BY <1>0, <1>2, <2>1, <2>3, ReplaceCallKeeps DEF Replacing
<1>3. CASE CancelRead(c) /\ ~Return(c)
  <2> DEFINE x == loc[c].run
  <2>1. pc[c] = "cread" /\ run[x].status \in Active /\ Go(c, "cqueue") /\ loc' = [loc EXCEPT ![c].row = run[x]]
    BY <1>3 DEF CancelRead
  <2>2. /\ pc'[c] = "cqueue" /\ loc'[c].row = run[x] /\ loc'[c].run = x /\ loc'[c].key = loc[c].key
        /\ loc'[c].skip = loc[c].skip /\ loc'[c].todo = loc[c].todo
        /\ \A d \in Clients \ {c} : pc'[d] = pc[d] /\ loc'[d] = loc[d]
    BY <2>1 DEF Go, TypeInv, CallLocal
  <2>3. x \in Runs /\ run[x].queue \in QueueIds
    BY <2>1 DEF TypeInv, CallShape, ReplaceInv, RowInv
  <2>4. ReplaceCall(c)'
    BY <1>0, <2>1, <2>2, <2>3 DEF ReplaceCall, Replacing, Cancelling
  <2> QED
    BY <1>0, <2>1, <2>2, <2>4, ReplaceCallKeeps DEF Replacing
<1>4. CASE Return(c)
  BY <1>0, <1>4, ReturnKeeps
<1> QED
  BY <1>1, <1>2, <1>3, <1>4 DEF ReplaceNext, CancelRead

(* The task of the run is cancelled first, then the record. *)
LEMMA ReplaceCancels ==
    ASSUME RunsAssumption, TypeInv, ReplaceInv, NEW c \in Clients, CancelQueue(c), UNCHANGED <<wpc, wloc>>
    PROVE  ReplaceInv'
<1> DEFINE q == loc[c].row.queue
           x == loc[c].run
<1>0. /\ pc[c] = "cqueue" /\ UNCHANGED <<run, qkey>> /\ q \in QueueIds /\ q # NoQueue /\ x \in Runs
      /\ run[x].queue = q /\ run[x].key = loc[c].row.key
  BY DEF CancelQueue, ReplaceInv, ReplaceCall, TypeInv, CallShape, RunsAssumption
<1>1. CASE qtask[q].status = "absent"
  BY <1>0, <1>1, ReturnKeeps DEF CancelQueue, Active
<1>2. CASE qtask[q].status # "absent"
  <2>1. /\ Go(c, "cwrite") /\ UNCHANGED loc
        /\ IF qtask[q].status \in Active THEN Queue!Cancel(q) ELSE UNCHANGED qtask
    BY <1>0, <1>2 DEF CancelQueue
  <2>2. qtask[q].status \in Active => qtask' = [qtask EXCEPT ![q].status = "cancelled"]
    BY <2>1 DEF Queue!Cancel, Queue!Move
  <2>3. /\ qtask'[q].status \notin Active /\ qtask'[q].status # "absent"
        /\ \A t \in QueueIds \ {q} : qtask'[t] = qtask[t]
    <3>1. CASE qtask[q].status \in Active
      BY <1>0, <2>2, <3>1 DEF TypeInv, TypeOK, Active
    <3>2. CASE qtask[q].status \notin Active
      BY <1>2, <2>1, <3>2
    <3> QED
      BY <3>1, <3>2
  <2>4. /\ \A t \in QueueIds : qtask'[t].status \in Active => qtask[t].status \in Active
        /\ \A t \in QueueIds : (qtask'[t].status = "absent") = (qtask[t].status = "absent")
    BY <1>2, <2>3
  <2>5. \A r \in Runs : Live(r)' => Live(r) /\ r # x
    BY <1>0, <2>3, <2>4 DEF Live
  <2>6. pc'[c] = "cwrite" /\ \A d \in Clients \ {c} : pc'[d] = pc[d] /\ loc'[d] = loc[d]
    BY <2>1 DEF Go, TypeInv
  <2>7. ReplaceCall(c)'
    <3>1. ReplaceCall(c)
      BY DEF ReplaceInv
    <3> QED
      BY <1>0, <2>1, <2>3, <2>5, <2>6, <3>1 DEF ReplaceCall, Replacing, Cancelling
  <2>8. \A d \in Clients \ {c} : ReplaceCall(d)'
    BY <1>0, <2>6, OthersRest DEF Replacing
  <2>9. ASSUME NEW w \in Workers PROVE ReplaceWork(w)'
    <3>1. ReplaceWork(w) /\ (wpc[w] # "idle" => wloc[w].queue \in QueueIds)
      BY DEF ReplaceInv, TypeInv, WorkShape
    <3> QED
      BY <1>0, <2>4, <3>1 DEF ReplaceWork, Handling
  <2>10. LiveInv' /\ KeyInv' /\ \A r \in Runs : RowInv(r)'
    BY <1>0, <2>5 DEF ReplaceInv, LiveInv, KeyInv, RowInv
  <2> QED
    BY <2>7, <2>8, <2>9, <2>10 DEF ReplaceInv
<1> QED
  BY <1>1, <1>2

LEMMA ReplaceWrites ==
    ASSUME RunsAssumption, TypeInv, ReplaceInv, NEW c \in Clients, CancelWrite(c), UNCHANGED <<wpc, wloc>>
    PROVE  ReplaceInv'
<1> DEFINE q == loc[c].row.queue
           x == loc[c].run
           row == [loc[c].row EXCEPT !.status = "cancelled"]
<1>0. /\ pc[c] = "cwrite" /\ UNCHANGED <<qtask, qkey>> /\ q \in QueueIds /\ x \in Runs /\ loc[c].row \in RunRow
      /\ run[x].queue = q /\ run[x].key = loc[c].row.key /\ qtask[q].status \notin Active /\ loc[c].key \in Keys
  BY DEF CancelWrite, ReplaceInv, ReplaceCall, TypeInv, TypeOK, CallShape, RunsAssumption, Replacing
<1>1. row \in RunRow /\ row.status = "cancelled" /\ row.queue = run[x].queue /\ row.key = run[x].key
  BY <1>0 DEF RunRow, Final
<1>2. Put(x, row) /\ Writable(x, loc[c].row)
  BY <1>0, KnownWrites DEF CancelWrite, ReplaceInv
<1> HIDE DEF row
<1>3. Overwrites(x, row)
  BY <1>0, <1>1, <1>2, KnownWrites DEF Overwrites, ReplaceInv
<1>4. /\ \A r \in Runs : RowInv(r)' /\ run'[r].key = run[r].key /\ run'[r].queue = run[r].queue
      /\ KeyInv' /\ run'[x] = row /\ \A r \in Runs \ {x} : run'[r] = run[r]
  BY <1>0, <1>3, OverwriteKeepsRows DEF ReplaceInv
<1>5. Go(c, "replace") /\ loc' = [loc EXCEPT ![c].row = NoRow, ![c].run = NoRun]
  BY <1>0, <1>2 DEF CancelWrite, Nested, RunsAssumption
<1>6. /\ pc'[c] = "replace" /\ loc'[c].key = loc[c].key /\ loc'[c].skip = loc[c].skip /\ loc'[c].todo = loc[c].todo
      /\ \A d \in Clients \ {c} : pc'[d] = pc[d] /\ loc'[d] = loc[d]
  BY <1>5 DEF Go, TypeInv, CallLocal
<1>7. \A r \in Runs : Live(r)' => Live(r)
  BY <1>0, <1>1, <1>4 DEF Live, Active
<1>8. ReplaceCall(c)'
  <2>1. ReplaceCall(c)
    BY DEF ReplaceInv
  <2> QED
    BY <1>0, <1>6, <1>7, <2>1 DEF ReplaceCall, Replacing, Cancelling
<1>9. \A d \in Clients \ {c} : ReplaceCall(d)'
  BY <1>0, <1>6, OthersRest DEF Replacing
<1>10. ASSUME NEW w \in Workers PROVE ReplaceWork(w)'
  <2>1. ReplaceWork(w) /\ (wpc[w] \in Handling => wloc[w].run \in Runs)
    BY DEF ReplaceInv, TypeInv, WorkShape, Handling
  <2>2. wpc[w] \in Handling /\ qtask[wloc[w].queue].status \in Active => run'[wloc[w].run] = run[wloc[w].run]
    BY <1>0, <1>4, <2>1 DEF ReplaceWork
  <2> QED
    BY <1>0, <1>4, <2>1, <2>2 DEF ReplaceWork, Handling
<1> QED
  BY <1>4, <1>7, <1>8, <1>9, <1>10 DEF ReplaceInv, LiveInv

(* One more run, with a key and a task nobody had. *)
LEMMA NewRowKeepsRows ==
    ASSUME RunsAssumption, TypeInv, \A s \in Runs : RowInv(s), NEW r \in Runs, run[r] = NoRow, NEW row,
           run' = [run EXCEPT ![r] = row], row.status # "absent", row.key \in Keys, row.queue \in QueueIds,
           \A s \in Runs : run[s].key # row.key /\ run[s].queue # row.queue
    PROVE  /\ \A s \in Runs : RowInv(s)'
           /\ run'[r] = row /\ \A s \in Runs \ {r} : run'[s] = run[s]
           /\ KeyInv /\ UNCHANGED qkey => KeyInv'
<1>1. run'[r] = row /\ \A s \in Runs \ {r} : run'[s] = run[s]
  BY DEF TypeInv, TypeOK
<1>2. ASSUME NEW s \in Runs PROVE RowInv(s)'
  <2>1. CASE s = r
    BY <1>1, <2>1 DEF RowInv
  <2>2. CASE s # r
    <3>1. RowInv(s) /\ run'[s] = run[s] /\ run[s].key # row.key /\ run[s].queue # row.queue
      BY <1>1, <2>2
    <3>2. /\ \A t \in Runs : run'[t].key = run'[s].key /\ run'[s].key # NoKey => t = s
          /\ \A t \in Runs : run'[t].queue = run'[s].queue /\ run'[s].queue # NoQueue => t = s
      BY <1>1, <3>1 DEF RowInv
    <3> QED
      BY <3>1, <3>2 DEF RowInv
  <2> QED
    BY <2>1, <2>2
<1>3. KeyInv /\ UNCHANGED qkey => KeyInv'
  <2>1. \A k \in Keys : (\E t \in Runs : run[t].key = k) => \E t \in Runs : run'[t].key = k
    BY <1>1 DEF NoRow, RunsAssumption
  <2> QED
    BY <2>1 DEF KeyInv
<1> QED
  BY <1>1, <1>2, <1>3

LEMMA ReplaceCreates ==
    ASSUME RunsAssumption, TypeInv, ReplaceInv, NEW c \in Clients, CreateRun(c), UNCHANGED <<wpc, wloc>>
    PROVE  ReplaceInv'
<1>0. /\ pc[c] = "create" /\ UNCHANGED <<qtask, qkey>> /\ ReplaceCall(c) /\ loc[c].key \in Keys
      /\ loc[c].todo = {} /\ ~loc[c].skip /\ \A r \in Runs : ~Live(r)
  BY DEF CreateRun, ReplaceInv, ReplaceCall, Replacing, Cancelling
<1>1. CASE Return(c) /\ UNCHANGED run
  BY <1>0, <1>1, ReturnKeeps
<1>2. CASE ~(Return(c) /\ UNCHANGED run)
  <2> DEFINE row(q) == [status |-> "pending", queue |-> q, key |-> loc[c].key, attempts |-> 0]
  <2>1. PICK r \in newID({x \in Runs : run[x] = NoRow}), q \in newID({x \in QueueIds : Unused(x)}) :
           /\ \A t \in Runs : run[t].key # loc[c].key
           /\ Put(r, row(q)) /\ Go(c, "push") /\ loc' = [loc EXCEPT ![c].run = r, ![c].row = row(q)]
    BY <1>0, <1>2 DEF CreateRun
  <2>2. /\ r \in Runs /\ run[r] = NoRow /\ q \in QueueIds
        /\ qtask[q].status = "absent" /\ \A s \in Runs : run[s].queue # q
    BY NewIsFree DEF Unused
  <2>3. row(q).status = "pending" /\ row(q).queue = q /\ row(q).key = loc[c].key
    OBVIOUS
  <2> HIDE DEF row
  <2>4. run' = [run EXCEPT ![r] = row(q)]
    BY <2>1, <2>3 DEF Put, Writable
  <2>5. /\ \A s \in Runs : RowInv(s)'
        /\ run'[r] = row(q) /\ \A s \in Runs \ {r} : run'[s] = run[s]
        /\ KeyInv'
    BY <1>0, <2>1, <2>2, <2>3, <2>4, NewRowKeepsRows DEF ReplaceInv
  <2>6. /\ pc'[c] = "push" /\ loc'[c].run = r /\ loc'[c].row = row(q) /\ loc'[c].key = loc[c].key
        /\ loc'[c].skip = loc[c].skip /\ \A d \in Clients \ {c} : pc'[d] = pc[d] /\ loc'[d] = loc[d]
    BY <2>1 DEF Go, TypeInv, CallLocal
  <2>7. \A s \in Runs : ~Live(s)'
    BY <1>0, <2>2, <2>3, <2>5 DEF Live, Active
  <2>8. ReplaceCall(c)'
    <3>1. qkey[loc[c].key] = NoQueue
      BY <1>0, <2>1 DEF ReplaceInv, KeyInv
    <3> QED
      BY <1>0, <2>2, <2>3, <2>5, <2>6, <2>7, <3>1 DEF ReplaceCall, Replacing, Cancelling
  <2>9. \A d \in Clients \ {c} : ReplaceCall(d)'
    BY <1>0, <2>6, OthersRest DEF Replacing
  <2>10. ASSUME NEW w \in Workers PROVE ReplaceWork(w)'
    <3>1. ReplaceWork(w) /\ (wpc[w] \in Handling => wloc[w].run \in Runs /\ wloc[w].queue \in QueueIds)
      BY DEF ReplaceInv, TypeInv, WorkShape, Handling
    <3>2. wpc[w] \in Handling => run'[wloc[w].run] = run[wloc[w].run]
      BY <2>2, <2>5, <3>1 DEF ReplaceWork, NoRow, RunsAssumption
    <3> QED
      BY <1>0, <3>1, <3>2 DEF ReplaceWork, Handling
  <2> QED
    BY <2>5, <2>7, <2>8, <2>9, <2>10 DEF ReplaceInv, LiveInv
<1> QED
  BY <1>1, <1>2

LEMMA ReplacePushes ==
    ASSUME RunsAssumption, TypeInv, ReplaceInv, NEW c \in Clients, PushTask(c) \/ PushFails(c), UNCHANGED <<wpc, wloc>>
    PROVE  ReplaceInv'
<1>0. ReplaceCall(c)
  BY DEF ReplaceInv
<1>1. CASE PushFails(c)
  <2>1. pc[c] = "push" /\ Go(c, "undo") /\ UNCHANGED <<run, qtask, qkey, loc>>
    BY <1>0, <1>1 DEF PushFails, ReplaceCall, Replacing
  <2>2. pc'[c] = "undo" /\ \A d \in Clients \ {c} : pc'[d] = pc[d]
    BY <2>1 DEF Go, TypeInv
  <2>3. \A r \in Runs : Live(r)' = Live(r)
    BY <2>1 DEF Live
  <2>4. ReplaceCall(c)'
    BY <1>0, <2>1, <2>2, <2>3 DEF ReplaceCall, Replacing, Cancelling
  <2> QED
    BY <2>1, <2>2, <2>4, ReplaceCallKeeps DEF Replacing
<1>2. CASE PushTask(c)
  <2> DEFINE q == loc[c].row.queue
             k == loc[c].key
             x == loc[c].run
  <2>1. /\ pc[c] = "push" /\ UNCHANGED run /\ qkey[k] = NoQueue /\ q \in QueueIds /\ k \in Keys /\ q # NoQueue
        /\ x \in Runs /\ run[x].key = k /\ run[x].queue = q /\ \A r \in Runs : ~Live(r)
    BY <1>0, <1>2 DEF PushTask, ReplaceCall, Replacing, TypeInv, CallShape, RunsAssumption
  <2>2. /\ qtask' = [qtask EXCEPT ![q] = [status |-> "pending", attempts |-> 0]]
        /\ qkey' = [qkey EXCEPT ![k] = q] /\ Return(c)
    BY <1>2, <2>1 DEF PushTask, Queue!Submit
  <2>3. pc'[c] = "done" /\ ReplaceCall(c)' /\ \A d \in Clients \ {c} : pc'[d] = pc[d] /\ loc'[d] = loc[d]
    BY <2>2, ReturnedCall
  <2>4. \A t \in QueueIds \ {q} : qtask'[t] = qtask[t]
    BY <2>2 DEF TypeInv, TypeOK
  <2>5. \A r \in Runs : Live(r)' => r = x
    <3>1. \A r \in Runs : run[r].queue = q => r = x
      BY <2>1 DEF ReplaceInv, RowInv
    <3> QED
      BY <2>1, <2>4, <3>1 DEF Live
  <2>6. \A r \in Runs : RowInv(r)'
    BY <2>1 DEF ReplaceInv, RowInv
  <2>7. KeyInv'
    <3>1. \A j \in Keys \ {k} : qkey'[j] = qkey[j]
      BY <2>2 DEF TypeInv, TypeOK
    <3> QED
      BY <2>1, <3>1 DEF ReplaceInv, KeyInv
  <2>8. ASSUME NEW w \in Workers PROVE ReplaceWork(w)'
    <3>1. ReplaceWork(w) /\ (wpc[w] # "idle" => wloc[w].queue \in QueueIds)
      BY DEF ReplaceInv, TypeInv, WorkShape
    <3>2. qtask[q].status = "absent"
      BY <1>0, <2>1 DEF ReplaceCall
    <3>3. wpc[w] # "idle" => qtask'[wloc[w].queue] = qtask[wloc[w].queue]
      BY <2>4, <3>1, <3>2 DEF ReplaceWork
    <3> QED
      BY <2>1, <3>1, <3>3 DEF ReplaceWork, Handling
  <2>9. \A d \in Clients \ {c} : ReplaceCall(d)'
    BY <2>1, <2>3, OthersRest DEF Replacing
  <2> QED
    BY <2>3, <2>5, <2>6, <2>7, <2>8, <2>9 DEF ReplaceInv, LiveInv
<1> QED
  BY <1>1, <1>2

LEMMA ReplaceUndone ==
    ASSUME RunsAssumption, TypeInv, ReplaceInv, NEW c \in Clients, MarkUnqueued(c), UNCHANGED <<wpc, wloc>>
    PROVE  ReplaceInv'
<1> DEFINE x == loc[c].run
           row == [loc[c].row EXCEPT !.status = "failed"]
<1>0. ReplaceCall(c) /\ pc[c] = "undo" /\ UNCHANGED <<qtask, qkey>> /\ Return(c)
  BY DEF MarkUnqueued, ReplaceInv
<1>1. /\ run[x] = loc[c].row /\ x \in Runs /\ loc[c].row \in RunRow
      /\ run[x].queue \in QueueIds /\ qtask[run[x].queue].status = "absent" /\ \A r \in Runs : ~Live(r)
  BY <1>0 DEF ReplaceCall, TypeInv, TypeOK, CallShape
<1>2. row \in RunRow /\ row.status = "failed" /\ row.queue = run[x].queue /\ row.key = run[x].key
  BY <1>1 DEF RunRow, Active
<1>3. Put(x, row)
  BY DEF MarkUnqueued
<1> HIDE DEF row
<1>4. Overwrites(x, row)
  BY <1>1, <1>2, <1>3, KnownWrites DEF Overwrites, ReplaceInv
<1>5. /\ \A r \in Runs : RowInv(r)' /\ run'[r].queue = run[r].queue
      /\ KeyInv' /\ run'[x] = row /\ \A r \in Runs \ {x} : run'[r] = run[r]
  BY <1>0, <1>4, OverwriteKeepsRows DEF ReplaceInv
<1>6. pc'[c] = "done" /\ ReplaceCall(c)' /\ \A d \in Clients \ {c} : pc'[d] = pc[d] /\ loc'[d] = loc[d]
  BY <1>0, ReturnedCall
<1>7. \A r \in Runs : ~Live(r)'
  BY <1>0, <1>1, <1>5 DEF Live, Active
<1>8. ASSUME NEW w \in Workers PROVE ReplaceWork(w)'
  <2>1. ReplaceWork(w)
    BY DEF ReplaceInv
  <2>2. wpc[w] \in Handling => wloc[w].run \in Runs /\ wloc[w].run # x
    BY <1>1, <2>1 DEF ReplaceWork, Handling, TypeInv, WorkShape
  <2>3. wpc[w] \in Handling => run'[wloc[w].run] = run[wloc[w].run]
    BY <1>5, <2>2
  <2> QED
    BY <1>0, <2>1, <2>3 DEF ReplaceWork, Handling
<1>9. \A d \in Clients \ {c} : ReplaceCall(d)'
  BY <1>0, <1>6, OthersRest DEF Replacing
<1> QED
  BY <1>5, <1>6, <1>7, <1>8, <1>9 DEF ReplaceInv, LiveInv

-----------------------------------------------------------------------------
(* The worker under "replace". *)

LEMMA ReplaceRests ==
    ASSUME TypeInv, ReplaceInv, NEW w \in Workers, Rest(w), UNCHANGED <<run, qkey, pc, loc>>,
           \A q \in QueueIds : /\ (qtask'[q].status = "absent") = (qtask[q].status = "absent")
                               /\ qtask'[q].status \in Active => qtask[q].status \in Active
    PROVE  ReplaceInv'
<1>1. wpc'[w] = "idle" /\ \A v \in Workers \ {w} : wpc'[v] = wpc[v] /\ wloc'[v] = wloc[v]
  BY DEF Rest, WorkAt, TypeInv
<1>2. ReplaceWork(w)'
  BY <1>1 DEF ReplaceWork, Handling
<1> QED
  BY <1>1, <1>2, ReplaceWorkKeeps

LEMMA ReplaceSettles ==
    ASSUME TypeInv, ReplaceInv, NEW w \in Workers, wpc[w] # "idle", NEW o, Settle(w, o),
           UNCHANGED <<run, qtask, qkey, pc, loc>>
    PROVE  ReplaceInv'
<1>1. /\ wpc'[w] = "settle" /\ wloc'[w].queue = wloc[w].queue
      /\ \A v \in Workers \ {w} : wpc'[v] = wpc[v] /\ wloc'[v] = wloc[v]
  BY DEF Settle, WorkAt, TypeInv, WorkLocal
<1>2. ReplaceWork(w)'
  BY <1>1 DEF ReplaceInv, ReplaceWork, Handling
<1> QED
  BY <1>1, <1>2, ReplaceWorkKeeps

(* An operation of the queue neither creates a task nor revives one. *)
LEMMA TaskEnds ==
    ASSUME TypeInv, NEW q \in QueueIds,
           UNCHANGED qtask \/ Queue!Start(q) \/ Queue!Complete(q) \/ Queue!Cancel(q) \/ Queue!Fail(q)
    PROVE  \A t \in QueueIds : /\ (qtask'[t].status = "absent") = (qtask[t].status = "absent")
                               /\ qtask'[t].status \in Active => qtask[t].status \in Active
<1>1. CASE \E to \in {"running", "succeeded", "cancelled"} : Queue!Move(q, to)
  BY <1>1 DEF Queue!Move, Queue!Open, Active, TypeInv, TypeOK
<1>2. CASE Queue!Fail(q)
  BY <1>2 DEF Queue!Fail, Queue!Open, Active, TypeInv, TypeOK
<1> QED
  BY <1>1, <1>2 DEF Queue!Start, Queue!Complete, Queue!Cancel

LEMMA ReplaceReads ==
    ASSUME RunsAssumption, TypeInv, ReplaceInv, NEW w \in Workers, UNCHANGED <<policy, pc, loc>>,
           \/ \E q \in QueueIds : Claim(w, q)
           \/ StartTask(w) \/ FindRun(w) \/ HandlerReturns(w) \/ LateStop(w) \/ SettleTask(w)
    PROVE  ReplaceInv'
<1>0. /\ ReplaceWork(w) /\ (wpc[w] # "idle" => wloc[w].queue \in QueueIds) /\ wloc \in [Workers -> WorkLocal]
      /\ UNCHANGED <<run, qkey>> /\ \A v \in Workers \ {w} : wpc'[v] = wpc[v] /\ wloc'[v] = wloc[v]
  <2>1. WorkMoved(w)
    BY WorkerMoves DEF Worker
  <2>2. UNCHANGED <<run, qkey>>
    BY DEF Claim, StartTask, FindRun, HandlerReturns, LateStop, SettleTask
  <2> QED
    BY <2>1, <2>2 DEF WorkMoved, ReplaceInv, TypeInv, WorkShape
<1>1. ASSUME NEW q \in QueueIds, Claim(w, q) PROVE ReplaceInv'
  <2>1. wpc'[w] = "start" /\ wloc'[w].queue = q /\ \A v \in Workers : wloc[v].queue # q
    BY <1>1 DEF Claim, WorkAt, TypeInv, WorkLocal
  <2>2. qtask[q].status \in Queue!Open /\ Queue!Start(q)
    BY <1>1 DEF Claim, Queue!Start, Queue!Move
  <2>3. \A t \in QueueIds : /\ (qtask'[t].status = "absent") = (qtask[t].status = "absent")
                            /\ qtask'[t].status \in Active => qtask[t].status \in Active
    BY <2>2, TaskEnds
  <2>4. ReplaceWork(w)'
    <3>1. qtask'[q].status # "absent"
      BY <2>2, <2>3 DEF Queue!Open
    <3> QED
      BY <1>0, <2>1, <3>1 DEF ReplaceWork, Handling
  <2> QED
    BY <1>0, <2>3, <2>4, ReplaceWorkKeeps
<1>2. CASE StartTask(w)
  <2>1. CASE Rest(w) /\ UNCHANGED qtask
    BY <1>0, <2>1, ReplaceRests
  <2>2. CASE Queue!Start(wloc[w].queue) /\ WorkAt(w, "lookup") /\ UNCHANGED wloc
    <3>1. wpc[w] = "start" /\ wpc'[w] = "lookup"
      BY <1>2, <2>2 DEF StartTask, WorkAt, TypeInv
    <3>2. \A t \in QueueIds : /\ (qtask'[t].status = "absent") = (qtask[t].status = "absent")
                              /\ qtask'[t].status \in Active => qtask[t].status \in Active
      BY <1>0, <2>2, <3>1, TaskEnds
    <3>3. ReplaceWork(w)'
      BY <1>0, <2>2, <3>1, <3>2 DEF ReplaceWork, Handling
    <3> QED
      BY <1>0, <3>2, <3>3, ReplaceWorkKeeps
  <2> QED
    BY <1>2, <2>1, <2>2 DEF StartTask
<1>3. CASE FindRun(w)
  <2>1. UNCHANGED qtask /\ wpc[w] = "lookup"
    BY <1>3 DEF FindRun
  <2>2. ASSUME NEW r \in Runs, run[r].queue = wloc[w].queue, WorkAt(w, "markread"), wloc' = [wloc EXCEPT ![w].run = r]
        PROVE  ReplaceInv'
    <3>1. wpc'[w] = "markread" /\ wloc'[w].run = r /\ wloc'[w].queue = wloc[w].queue
      BY <1>0, <2>2 DEF WorkAt, TypeInv, WorkLocal
    <3>2. ReplaceWork(w)'
      BY <1>0, <2>1, <2>2, <3>1 DEF ReplaceWork, Handling
    <3> QED
      BY <1>0, <2>1, <3>2, ReplaceWorkKeeps
  <2> QED
    BY <1>0, <1>3, <2>1, <2>2, ReplaceSettles DEF FindRun
<1>4. CASE HandlerReturns(w)
  <2>1. PICK o \in {"ok", "err", "cancel", "stop"}, l \in {"resread", "endread"} :
           WorkAt(w, l) /\ wloc' = [wloc EXCEPT ![w].out = o]
    BY <1>4 DEF HandlerReturns
  <2>2. wpc[w] = "handler" /\ UNCHANGED qtask
    BY <1>4 DEF HandlerReturns
  <2>3. wpc'[w] = l /\ wloc'[w].run = wloc[w].run /\ wloc'[w].queue = wloc[w].queue
    BY <1>0, <2>1 DEF WorkAt, TypeInv, WorkLocal
  <2>4. ReplaceWork(w)'
    BY <1>0, <2>1, <2>2, <2>3 DEF ReplaceWork, Handling
  <2> QED
    BY <1>0, <2>2, <2>4, ReplaceWorkKeeps
<1>5. CASE LateStop(w)
  BY <1>0, <1>5, ReplaceSettles DEF LateStop
<1>6. CASE SettleTask(w)
  <2>1. /\ UNCHANGED qtask \/ Queue!Complete(wloc[w].queue) \/ Queue!Fail(wloc[w].queue) \/ Queue!Cancel(wloc[w].queue)
        /\ wpc[w] = "settle" /\ Rest(w)
    BY <1>6 DEF SettleTask
  <2>2. \A t \in QueueIds : /\ (qtask'[t].status = "absent") = (qtask[t].status = "absent")
                            /\ qtask'[t].status \in Active => qtask[t].status \in Active
    BY <1>0, <2>1, TaskEnds
  <2> QED
    BY <1>0, <2>1, <2>2, ReplaceRests
<1> QED
  BY <1>1, <1>2, <1>3, <1>4, <1>5, <1>6

(* A worker copies its run to write it back. *)
LEMMA ReplaceCopies ==
    ASSUME RunsAssumption, TypeInv, ReplaceInv, NEW w \in Workers, UNCHANGED <<policy, pc, loc>>,
           MarkRunningRead(w) \/ MarkEndRead(w) \/ ResultRead(w)
    PROVE  ReplaceInv'
<1>0. /\ ReplaceWork(w) /\ wpc[w] \in {"markread", "endread", "resread"} /\ wloc[w].queue \in QueueIds
      /\ UNCHANGED <<run, qtask, qkey>> /\ wloc[w].run \in Runs /\ run[wloc[w].run] \in RunRow
      /\ run[wloc[w].run].queue = wloc[w].queue
      /\ \A v \in Workers \ {w} : wpc'[v] = wpc[v] /\ wloc'[v] = wloc[v]
  <2>1. WorkMoved(w)
    BY WorkerMoves DEF Worker
  <2>2. wpc[w] \in {"markread", "endread", "resread"} /\ UNCHANGED <<run, qtask, qkey>>
    BY DEF MarkRunningRead, MarkEndRead, ResultRead
  <2> QED
    BY <2>1, <2>2 DEF WorkMoved, ReplaceInv, ReplaceWork, TypeInv, TypeOK, WorkShape, Handling
<1>1. run[wloc[w].run].status # "absent"
  BY <1>0 DEF ReplaceInv, RowInv, NoRow, RunsAssumption
<1>2. ASSUME NEW l \in {"markwrite", "reswrite", "endwrite"}, WorkAt(w, l),
             wloc' = [wloc EXCEPT ![w].row = run[wloc[w].run]],
             qtask[wloc[w].queue].status \in Active => run[wloc[w].run].status \in Active
      PROVE  ReplaceInv'
  <2>1. /\ wpc'[w] = l /\ wloc'[w].run = wloc[w].run /\ wloc'[w].queue = wloc[w].queue
        /\ wloc'[w].row = run[wloc[w].run]
    BY <1>2 DEF WorkAt, TypeInv, WorkLocal
  <2>2. ReplaceWork(w)'
    BY <1>0, <1>1, <1>2, <2>1 DEF ReplaceWork, Handling
  <2> QED
    BY <1>0, <2>2, ReplaceWorkKeeps
<1>3. run[wloc[w].run].status \notin Final => run[wloc[w].run].status \in Active
  BY <1>0, <1>1 DEF RunRow
<1>4. CASE MarkRunningRead(w)
  BY <1>0, <1>2, <1>3, <1>4, ReplaceSettles DEF MarkRunningRead
<1>5. CASE MarkEndRead(w)
  BY <1>0, <1>2, <1>3, <1>5, ReplaceSettles DEF MarkEndRead
<1>6. CASE ResultRead(w)
  <2>1. qtask[wloc[w].queue].status \in Active => run[wloc[w].run].status \in Active
    BY <1>0, <1>6 DEF ReplaceWork, ResultRead, Handling
  <2> QED
    BY <1>2, <1>6, <2>1 DEF ResultRead
<1> QED
  BY <1>4, <1>5, <1>6

LEMMA ReplaceWritesBack ==
    ASSUME RunsAssumption, TypeInv, ReplaceInv, NEW w \in Workers, UNCHANGED <<policy, pc, loc>>,
           MarkRunningWrite(w) \/ ResultWrite(w) \/ MarkEndWrite(w)
    PROVE  ReplaceInv'
<1> DEFINE x == wloc[w].run
           q == wloc[w].queue
<1>0. /\ ReplaceWork(w) /\ wpc[w] \in {"markwrite", "reswrite", "endwrite"} /\ q \in QueueIds
      /\ x \in Runs /\ UNCHANGED <<qtask, qkey>> /\ run \in [Runs -> RunRow] /\ run[x].queue = q
      /\ wloc[w].row \in RunRow /\ wloc[w].row.queue = q /\ wloc[w].row.key = run[x].key /\ wloc[w].row.status # "absent"
      /\ Writable(x, wloc[w].row)
      /\ \A v \in Workers \ {w} : wpc'[v] = wpc[v] /\ wloc'[v] = wloc[v]
  <2>1. WorkMoved(w)
    BY WorkerMoves DEF Worker
  <2>2. wpc[w] \in {"markwrite", "reswrite", "endwrite"} /\ UNCHANGED <<qtask, qkey>>
    BY DEF MarkRunningWrite, ResultWrite, MarkEndWrite
  <2>3. ReplaceWork(w) /\ q \in QueueIds /\ x \in Runs /\ wloc[w].row \in RunRow /\ run \in [Runs -> RunRow]
    BY <2>2 DEF ReplaceInv, TypeInv, TypeOK, WorkShape
  <2>4. /\ run[x].queue = q /\ wloc[w].row.queue = q /\ wloc[w].row.key = run[x].key /\ wloc[w].row.status # "absent"
    BY <2>2, <2>3 DEF ReplaceWork, Handling
  <2>5. Writable(x, wloc[w].row)
    BY <2>3, <2>4, KnownWrites DEF ReplaceInv
  <2> QED
    BY <2>1, <2>2, <2>3, <2>4, <2>5 DEF WorkMoved, TypeInv
<1>1. ASSUME NEW row \in RunRow, Put(x, row), row.status # "absent", row.queue = q, row.key = run[x].key,
             wpc'[w] # "idle", wloc'[w].queue = q,
             wpc'[w] \in {"handler", "endread"} =>
                 wloc'[w].run = x /\ (qtask[q].status \in Active => row.status \in Active),
             wpc'[w] \in {"handler", "endread", "settle"}
      PROVE  ReplaceInv'
  <2>1. Overwrites(x, row)
    BY <1>0, <1>1, KnownWrites DEF Overwrites, ReplaceInv
  <2>2. run'[x] = row
    BY <1>0, <2>1 DEF Overwrites
  <2>3. ReplaceWork(w)'
    BY <1>0, <1>1, <2>2 DEF ReplaceWork, Handling
  <2> QED
    BY <1>0, <2>1, <2>3, ReplaceWorkWrites DEF Handling
<1>2. CASE MarkRunningWrite(w)
  <2> DEFINE row == [wloc[w].row EXCEPT !.status = "running"]
  <2>1. row \in RunRow /\ row.status = "running" /\ row.queue = q /\ row.key = run[x].key
    BY <1>0 DEF RunRow, Active
  <2>2. Put(x, row) /\ wpc'[w] = "handler" /\ UNCHANGED wloc
    BY <1>0, <1>2 DEF MarkRunningWrite, WorkAt, TypeInv
  <2> HIDE DEF row
  <2> QED
    BY <1>1, <2>1, <2>2 DEF Active
<1>3. CASE ResultWrite(w)
  <2>1. Put(x, wloc[w].row)
    BY <1>3 DEF ResultWrite
  <2>2. wpc[w] = "reswrite" /\ wpc'[w] = "endread" /\ wloc'[w].run = x /\ wloc'[w].queue = q
    BY <1>3 DEF ResultWrite, WorkAt, TypeInv, WorkLocal
  <2>3. qtask[q].status \in Active => wloc[w].row.status \in Active
    BY <1>0, <2>2 DEF ReplaceWork
  <2> QED
    BY <1>0, <1>1, <2>1, <2>2, <2>3
<1>4. CASE MarkEndWrite(w)
  <2> DEFINE row == Ended(wloc[w].row, wloc[w].out)
  <2>1. row \in RunRow
    BY <1>0, EndedTypes
  <2>2. row.status # "absent" /\ row.queue = q /\ row.key = run[x].key
    BY <1>0 DEF Ended, RunRow
  <2>3. Put(x, row)
    BY <1>4 DEF MarkEndWrite
  <2>4. wpc'[w] = "settle" /\ wloc'[w].queue = q
    BY <1>4 DEF MarkEndWrite, Settle, WorkAt, TypeInv, WorkLocal
  <2> HIDE DEF row
  <2> QED
    BY <1>1, <2>1, <2>2, <2>3, <2>4
<1> QED
  BY <1>2, <1>3, <1>4

(* What is kept under each policy. *)
AllPoliciesInv == PolicyInv /\ (policy = "replace" => ReplaceInv)

LEMMA NextKeepsReplace ==
    ASSUME RunsAssumption, Triggered, TypeInv, ReplaceInv, policy = "replace", [Next]_vars
    PROVE  ReplaceInv'
<1>1. ASSUME NEW c \in Clients, Client(c) PROVE ReplaceInv'
  <2>1. UNCHANGED <<wpc, wloc>>
    BY <1>1 DEF Client
  <2> QED
    BY <1>1, <2>1, ReplacingSteps, ReplaceEntered, ReplaceLoops, ReplaceCancels, ReplaceWrites, ReplaceCreates,
       ReplacePushes, ReplaceUndone
<1>2. ASSUME NEW c \in Clients, CrashClient(c) PROVE ReplaceInv'
  BY <1>2, ReturnKeeps DEF CrashClient
<1>3. ASSUME NEW w \in Workers, Worker(w) PROVE ReplaceInv'
  <2>1. UNCHANGED <<policy, pc, loc>>
    BY <1>3 DEF Worker
  <2> QED
    BY <1>3, <2>1, ReplaceReads, ReplaceCopies, ReplaceWritesBack DEF Worker
<1>4. ASSUME NEW w \in Workers, CrashWorker(w) PROVE ReplaceInv'
  BY <1>4, ReplaceRests DEF CrashWorker
<1>5. CASE UNCHANGED vars
  BY <1>5 DEF ReplaceInv, LiveInv, Live, KeyInv, ReplaceCall, RowInv, ReplaceWork, vars
<1> QED
  BY <1>1, <1>2, <1>3, <1>4, <1>5 DEF Next

LEMMA InitReplace == ASSUME RunsAssumption, Init PROVE ReplaceInv
<1>1. \A r \in Runs : ~Live(r)
  BY DEF Init, Live, NoRow, Active
<1> QED
  BY <1>1 DEF Init, ReplaceInv, LiveInv, KeyInv, ReplaceCall, RowInv, ReplaceWork, Replacing, Cancelling, Handling,
       NoRow, Active, IdleCall

LEMMA NextKeepsAll == ASSUME RunsAssumption, Triggered, AllPoliciesInv, [Next]_vars PROVE AllPoliciesInv'
<1>1. PolicyInv' /\ UNCHANGED policy
  BY NextKeepsPolicy DEF AllPoliciesInv, Next, Client, Worker, CrashWorker, CrashClient, vars
<1>2. policy = "replace" => ReplaceInv'
  BY NextKeepsReplace DEF AllPoliciesInv, PolicyInv
<1> QED
  BY <1>1, <1>2 DEF AllPoliciesInv

LEMMA LiveHolds == ASSUME RunsAssumption, AllPoliciesInv PROVE PolicyHolds
<1>1. ReplaceHolds
  <2> SUFFICES ASSUME policy = "replace"
               PROVE  Cardinality({r \in ActiveRuns : run[r].queue # NoQueue
                                                       /\ qtask[run[r].queue].status \in Active}) <= 1
    BY DEF ReplaceHolds
  <2> DEFINE L == {r \in ActiveRuns : run[r].queue # NoQueue /\ qtask[run[r].queue].status \in Active}
  <2>1. \A r \in L : r \in Runs /\ Live(r)
    BY DEF AllPoliciesInv, ReplaceInv, RowInv, Live, ActiveRuns
  <2>2. \A r, s \in L : r = s
    BY <2>1 DEF AllPoliciesInv, ReplaceInv, LiveInv
  <2> HIDE DEF L
  <2>3. L = {} \/ \E r \in L : L = {r}
    BY <2>2
  <2>4. Cardinality(L) <= 1
    BY <2>3, FS_EmptySet, FS_Singleton
  <2> QED
    BY <2>4 DEF L
<1> QED
  BY <1>1, RoomHolds DEF AllPoliciesInv, PolicyHolds

(* One server that only triggers a definition keeps whatever policy it     *)
(* has, however its callers and workers interleave, crash or lose the      *)
(* queue: under "replace" too, where Enqueue cancels run after run and     *)
(* workers write cancelled runs back, one run at most can be executed.     *)
THEOREM PoliciesKeep == ASSUME RunsAssumption, Triggered PROVE Spec => []PolicyHolds
<1>1. Init => AllPoliciesInv
  BY InitPolicy, InitReplace DEF AllPoliciesInv
<1>2. AllPoliciesInv /\ [Next]_vars => AllPoliciesInv'
  BY NextKeepsAll
<1>3. AllPoliciesInv => PolicyHolds
  BY LiveHolds
<1> QED
  BY <1>1, <1>2, <1>3, PTL DEF Spec

-----------------------------------------------------------------------------
(* Runs that are over, with every call and every fault: nobody who could   *)
(* still write the run has read it while it was active.                    *)

Writing == {"cqueue", "cwrite", "push", "relink", "undo", "rget", "rwrite", "rpush"}

Over(r) ==
    /\ run[r].status \in {"succeeded", "cancelled"}
    /\ \A c \in Clients : pc[c] \in Writing => loc[c].run # r
    /\ \A w \in Workers : wpc[w] \in Handling \ {"markread"} => wloc[w].run # r

LEMMA QuietIsOver ==
    ASSUME NEW r \in Runs, run[r].status \in {"succeeded", "cancelled"}, Quiet(r)
    PROVE  Over(r)
BY DEF Quiet, Over

LEMMA ClientLeavesOver ==
    ASSUME TypeInv, NEW r \in Runs, Over(r), NEW c \in Clients, Client(c) \/ CrashClient(c)
    PROVE  Over(r)' /\ run'[r] = run[r]
<1>0. /\ pc \in [Clients -> CallPoint] /\ loc \in [Clients -> CallLocal] /\ UNCHANGED policy
      /\ run \in [Runs -> RunRow] /\ (pc[c] \in Writing => loc[c].run # r)
      /\ run[r].status \notin Active /\ run[r] # NoRow
  BY DEF TypeInv, TypeOK, Over, Client, CrashClient, Active, NoRow
<1>1. \A d \in Clients \ {c} : pc'[d] = pc[d] /\ loc'[d] = loc[d]
  <2>1. CASE Client(c)
    <3>1. Moved(c)
      BY <2>1, ClientMoves
    <3> QED
      BY <1>0, <3>1 DEF Moved
  <2>2. CASE CrashClient(c)
    BY <1>0, <2>2 DEF CrashClient, Return, Go
  <2> QED
    BY <2>1, <2>2
<1>2. \A x, row : x # r /\ Put(x, row) => run'[r] = run[r]
  BY <1>0 DEF Put
<1>3. \A l : Go(c, l) => pc'[c] = l
  BY <1>0 DEF Go
<1>4. Return(c) => pc'[c] = "done"
  BY <1>3 DEF Return
<1>5. (pc'[c] \in Writing => loc'[c].run # r) /\ run'[r] = run[r]
  <2>1. ASSUME NEW k \in Keys, EnqueueCall(c, k) PROVE run'[r] = run[r] /\ pc'[c] \notin Writing
    BY <1>3, <1>4, <2>1 DEF EnqueueCall, Writing
  <2>2. CASE ListActive(c) \/ ReplaceNext(c)
    BY <1>3, <2>2 DEF ListActive, ReplaceNext, Writing
  <2>3. CASE CreateRun(c)
    <3>1. CASE UNCHANGED run /\ Return(c)
      BY <1>4, <3>1 DEF Writing
    <3>2. CASE ~(UNCHANGED run /\ Return(c))
      <4>1. PICK x \in newID({y \in Runs : run[y] = NoRow}) :
               /\ \E row : Put(x, row)
               /\ Return(c) \/ \E row : Go(c, "push") /\ loc' = [loc EXCEPT ![c].run = x, ![c].row = row]
        BY <2>3, <3>2 DEF CreateRun
      <4>2. x # r
        BY <1>0, NewIsFree
      <4>3. ASSUME NEW row, loc' = [loc EXCEPT ![c].run = x, ![c].row = row] PROVE loc'[c].run = x
        BY <1>0, <4>3 DEF CallLocal
      <4> QED
        BY <1>2, <1>4, <4>1, <4>2, <4>3 DEF Writing
    <3> QED
      BY <3>1, <3>2
  <2>4. CASE PushTask(c)
    <3>1. loc[c].run # r /\ UNCHANGED run
      BY <1>0, <2>4 DEF PushTask, Writing
    <3>2. ASSUME NEW q, loc' = [loc EXCEPT ![c].row.queue = q] PROVE loc'[c].run = loc[c].run
      BY <1>0, <3>2 DEF CallLocal
    <3> QED
      BY <1>4, <2>4, <3>1, <3>2 DEF PushTask, Writing
  <2>5. CASE PushFails(c)
    BY <1>0, <2>5 DEF PushFails, Writing
  <2>6. CASE Relink(c) \/ MarkUnqueued(c)
    BY <1>0, <1>2, <1>4, <2>6 DEF Relink, MarkUnqueued, Writing
  <2>7. ASSUME NEW x \in Runs, CancelCall(c, x) \/ RetryCall(c, x) PROVE run'[r] = run[r] /\ (pc'[c] \in Writing => loc'[c].run # r)
    <3>1. CASE CancelCall(c, x)
      BY <1>3, <3>1 DEF CancelCall, Writing
    <3>2. CASE RetryCall(c, x)
      <4>1. x # r /\ UNCHANGED run
        BY <3>2 DEF RetryCall, Over
      <4>2. loc'[c].run = x
        BY <1>0, <3>2 DEF RetryCall, CallLocal
      <4> QED
        BY <4>1, <4>2
    <3> QED
      BY <2>7, <3>1, <3>2
  <2>8. CASE CancelRead(c)
    <3>1. CASE Return(c)
      BY <1>4, <2>8, <3>1 DEF CancelRead, Writing
    <3>2. CASE ~Return(c)
      <4>1. loc[c].run # r /\ UNCHANGED run /\ loc' = [loc EXCEPT ![c].row = run[loc[c].run]]
        BY <1>0, <2>8, <3>2 DEF CancelRead
      <4>2. loc'[c].run = loc[c].run
        BY <1>0, <4>1 DEF CallLocal
      <4> QED
        BY <4>1, <4>2
    <3> QED
      BY <3>1, <3>2
  <2>9. CASE CancelQueue(c)
    BY <1>0, <1>4, <2>9 DEF CancelQueue, Writing
  <2>10. CASE CancelWrite(c)
    BY <1>0, <1>2, <1>3, <1>4, <2>10 DEF CancelWrite, Writing
  <2>11. CASE RetryGet(c)
    BY <1>0, <1>4, <2>11 DEF RetryGet, Writing
  <2>12. CASE RetryWrite(c)
    <3>1. PICK q : Put(loc[c].run, Retried(loc[c].row, q)) /\ loc' = [loc EXCEPT ![c].row = Retried(@, q)]
      BY <2>12 DEF RetryWrite
    <3>2. loc[c].run # r
      BY <1>0, <2>12 DEF RetryWrite, Writing
    <3>3. loc'[c].run = loc[c].run
      BY <1>0, <3>1 DEF CallLocal
    <3> QED
      BY <1>2, <3>1, <3>2, <3>3
  <2>13. CASE RetryPush(c) \/ CrashClient(c)
    BY <1>4, <2>13 DEF RetryPush, CrashClient, Writing
  <2> QED
    BY <2>1, <2>2, <2>3, <2>4, <2>5, <2>6, <2>7, <2>8, <2>9, <2>10, <2>11, <2>12, <2>13 DEF Client
<1>6. UNCHANGED <<wpc, wloc>>
  BY DEF Client, CrashClient
<1> QED
  BY <1>1, <1>5, <1>6 DEF Over

LEMMA WorkerLeavesOver ==
    ASSUME TypeInv, NEW r \in Runs, Over(r), NEW w \in Workers, Worker(w) \/ CrashWorker(w)
    PROVE  Over(r)' /\ run'[r] = run[r]
<1> DEFINE Busy == Handling \ {"markread"}
<1>0. /\ wpc \in [Workers -> WorkPoint] /\ wloc \in [Workers -> WorkLocal] /\ UNCHANGED <<pc, loc>>
      /\ run \in [Runs -> RunRow] /\ (wpc[w] \in Busy => wloc[w].run # r)
      /\ run[r].status \in Final
  BY DEF TypeInv, TypeOK, Over, Worker, CrashWorker, Final
<1>1. \A v \in Workers \ {w} : wpc'[v] = wpc[v] /\ wloc'[v] = wloc[v]
  <2>1. CASE Worker(w)
    <3>1. WorkMoved(w)
      BY <2>1, WorkerMoves
    <3> QED
      BY <1>0, <3>1 DEF WorkMoved
  <2>2. CASE CrashWorker(w)
    BY <1>0, <2>2 DEF CrashWorker, Rest, WorkAt
  <2> QED
    BY <2>1, <2>2
<1>2. \A x, row : x # r /\ Put(x, row) => run'[r] = run[r]
  BY <1>0 DEF Put
<1>3. \A l : WorkAt(w, l) => wpc'[w] = l
  BY <1>0 DEF WorkAt
<1>4. /\ \A o : Settle(w, o) => wpc'[w] \notin Busy
      /\ Rest(w) => wpc'[w] \notin Busy
  BY <1>3 DEF Settle, Rest, Handling
<1>5. \A o, row : /\ loc' = loc
                  /\ wloc' = [wloc EXCEPT ![w].out = o] \/ wloc' = [wloc EXCEPT ![w].row = row] \/ wloc' = wloc
                  => wloc'[w].run = wloc[w].run
  BY <1>0 DEF WorkLocal
<1>6. (wpc'[w] \in Busy => wloc'[w].run # r) /\ run'[r] = run[r]
  <2>1. ASSUME NEW q \in QueueIds, Claim(w, q) PROVE wpc'[w] \notin Busy /\ UNCHANGED run
    BY <1>3, <2>1 DEF Claim, Handling
  <2>2. CASE StartTask(w) \/ FindRun(w) \/ SettleTask(w) \/ CrashWorker(w)
    BY <1>3, <1>4, <2>2 DEF StartTask, FindRun, SettleTask, CrashWorker, Handling
  <2>3. CASE MarkRunningRead(w)
    <3>1. CASE run[wloc[w].run].status \in Final
      BY <1>4, <2>3, <3>1 DEF MarkRunningRead
    <3>2. CASE run[wloc[w].run].status \notin Final
      BY <1>0, <1>5, <2>3, <3>2 DEF MarkRunningRead
    <3> QED
      BY <3>1, <3>2
  <2>4. CASE MarkRunningWrite(w)
    <3>1. wpc[w] \in Busy
      BY <2>4 DEF MarkRunningWrite, Handling
    <3> QED
      BY <1>0, <1>2, <1>4, <2>4, <3>1 DEF MarkRunningWrite
  <2>5. CASE HandlerReturns(w)
    <3>1. wpc[w] \in Busy /\ UNCHANGED run
      BY <2>5 DEF HandlerReturns, Handling
    <3>2. \E o : wloc' = [wloc EXCEPT ![w].out = o]
      BY <2>5 DEF HandlerReturns
    <3> QED
      BY <1>0, <1>5, <3>1, <3>2
  <2>6. CASE ResultRead(w)
    <3>1. wpc[w] \in Busy /\ UNCHANGED run
      BY <2>6 DEF ResultRead, Handling
    <3> QED
      BY <1>0, <1>5, <2>6, <3>1 DEF ResultRead
  <2>7. CASE ResultWrite(w)
    <3>1. wpc[w] \in Busy /\ Put(wloc[w].run, wloc[w].row)
      BY <2>7 DEF ResultWrite, Handling
    <3>2. \E o : wloc' = [wloc EXCEPT ![w].out = o]
      BY <2>7 DEF ResultWrite
    <3> QED
      BY <1>0, <1>2, <1>5, <3>1, <3>2
  <2>8. CASE LateStop(w)
    BY <1>4, <2>8 DEF LateStop
  <2>9. CASE MarkEndRead(w)
    <3>1. wpc[w] \in Busy /\ UNCHANGED run
      BY <2>9 DEF MarkEndRead, Handling
    <3> QED
      BY <1>0, <1>4, <1>5, <2>9, <3>1 DEF MarkEndRead
  <2>10. CASE MarkEndWrite(w)
    <3>1. wpc[w] \in Busy
      BY <2>10 DEF MarkEndWrite, Handling
    <3> QED
      BY <1>0, <1>2, <1>4, <2>10, <3>1 DEF MarkEndWrite
  <2> QED
    BY <2>1, <2>2, <2>3, <2>4, <2>5, <2>6, <2>7, <2>8, <2>9, <2>10 DEF Worker
<1> QED
  BY <1>0, <1>1, <1>6 DEF Over

LEMMA OverStays ==
    ASSUME TypeInv, NEW r \in Runs, Over(r), [Next]_vars
    PROVE  Over(r)' /\ run'[r] = run[r]
<1>1. CASE UNCHANGED vars
  BY <1>1 DEF Over, vars
<1> QED
  BY <1>1, ClientLeavesOver, WorkerLeavesOver DEF Next
=============================================================================
