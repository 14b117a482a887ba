---------------------------- MODULE Observability ----------------------------
(***************************************************************************)
(* The collector of request spans (platform/observability/runtime.go) and  *)
(* the manager that replaces it (manager.go).  A runtime has a bounded     *)
(* queue and one worker that sends spans to an external collector.  Every  *)
(* request records one span; Reload swaps the runtime and closes the one   *)
(* before, Flush waits for what is pending, Close ends the manager.        *)
(***************************************************************************)
EXTENDS Naturals, Sequences, FiniteSets, SequencesExt

CONSTANTS
    None,
    Requests,       \* requests that record a span
    Flushers, Reloads,
    Closer,
    QueueSize,      \* spanQueueSize, 256 in the code
    MaxFailures,    \* bound on spans the collector refuses
    Silent          \* the protocol has no timeout and the collector may never answer

ObservabilityAssumption ==
    QueueSize \in Nat \ {0} /\ MaxFailures \in Nat /\ Silent \in BOOLEAN /\ None \notin Requests \cup Nat

Callers == Requests \cup Flushers \cup Reloads \cup {Closer}
Ids     == 1..(1 + Cardinality(Reloads))

VARIABLES
    runtimes,       \* those created so far, one for each id
    manager,        \* [runtime, closed]
    lock,           \* the manager's RWMutex: [readers, writer, waiting]
    pc, held, seen, \* of every caller: where it is, its runtime, the signal it waits for
    fate,           \* what became of a request's span
    before,         \* of a Flush: the requests that were recorded when it began
    failures

vars == <<runtimes, manager, lock, pc, held, seen, fate, before, failures>>

(* A runtime: "epoch" counts the pendingDone channels, "signalled" tells   *)
(* that the latest is closed (the earlier ones are).                       *)
NewRuntime ==
    [ queue |-> <<>>, closed |-> FALSE, pending |-> 0, epoch |-> 0, signalled |-> TRUE, mutex |-> None,
      sending |-> None, worker |-> "idle", connected |-> TRUE, panicked |-> FALSE ]

Init ==
    /\ runtimes = <<NewRuntime>> /\ manager = [runtime |-> 1, closed |-> FALSE]
    /\ lock = [readers |-> {}, writer |-> None, waiting |-> {}]
    /\ pc = [c \in Callers |-> "new"] /\ held = [c \in Callers |-> None] /\ seen = [c \in Callers |-> 0]
    /\ fate = [r \in Requests |-> "none"] /\ before = [f \in Flushers |-> {}] /\ failures = 0

Goto(c, to) == pc' = [pc EXCEPT ![c] = to]
Runtime(c) == runtimes[held[c]]

-----------------------------------------------------------------------------
(* sync.RWMutex: a writer that waits keeps new readers out. *)

CanRead == lock.writer = None /\ lock.waiting = {}
ReadLock(c, to) ==
    /\ CanRead /\ lock' = [lock EXCEPT !.readers = @ \cup {c}]
    /\ held' = [held EXCEPT ![c] = manager.runtime] /\ Goto(c, to)
ReadUnlock(c) == lock' = [lock EXCEPT !.readers = @ \ {c}]

Await(c) ==
    /\ pc[c] = "new" /\ c \in Reloads \cup {Closer}
    /\ lock' = [lock EXCEPT !.waiting = @ \cup {c}] /\ Goto(c, "waiting")
    /\ runtimes' = IF c \in Reloads THEN Append(runtimes, NewRuntime) ELSE runtimes
    /\ held' = [held EXCEPT ![c] = IF c \in Reloads THEN Len(runtimes) + 1 ELSE None]
    /\ UNCHANGED <<manager, seen, fate, before, failures>>

Lock(c) ==
    /\ pc[c] = "waiting" /\ lock.writer = None /\ lock.readers = {}
    /\ lock' = [lock EXCEPT !.writer = c, !.waiting = @ \ {c}] /\ Goto(c, "locked")
    /\ UNCHANGED <<runtimes, manager, held, seen, fate, before, failures>>

(* A Reload swaps the runtimes, unless the manager is closed: then it      *)
(* closes the one it made.  Close takes the runtime away.  What is held    *)
(* from then on is the runtime to close.                                   *)
Swap(c) ==
    /\ pc[c] = "locked" /\ lock' = [lock EXCEPT !.writer = None] /\ Goto(c, "swapped")
    /\ IF manager.closed
       THEN UNCHANGED manager /\ held' = [held EXCEPT ![c] = IF c \in Reloads THEN @ ELSE None]
       ELSE /\ manager' = [runtime |-> IF c \in Reloads THEN held[c] ELSE None, closed |-> c = Closer]
            /\ held' = [held EXCEPT ![c] = manager.runtime]
    /\ UNCHANGED <<runtimes, seen, fate, before, failures>>

-----------------------------------------------------------------------------
(* Recording. *)

RecordHTTP(r) ==
    /\ pc[r] = "new" /\ ReadLock(r, "recording")
    /\ UNCHANGED <<runtimes, manager, seen, fate, before, failures>>

Leave(r, to) == ReadUnlock(r) /\ Goto(r, "done") /\ fate' = [fate EXCEPT ![r] = to]

(* Nothing is recorded without a runtime or an exporter, for a request     *)
(* that is not sampled, or on a closed queue.                              *)
Skip(r) ==
    /\ pc[r] = "recording" /\ Leave(r, "skipped")
    /\ UNCHANGED <<runtimes, manager, held, seen, before, failures>>

(* The counter moves before the span can be taken from the queue; the      *)
(* first pending span makes a new channel to wait on.                      *)
Counted(rt) ==
    [rt EXCEPT !.pending = @ + 1, !.epoch = IF rt.pending = 0 THEN @ + 1 ELSE @,
               !.signalled = IF rt.pending = 0 THEN FALSE ELSE @]

Count(r) ==
    /\ pc[r] = "recording" /\ held[r] # None /\ Runtime(r).mutex = None /\ ~Runtime(r).closed
    /\ runtimes' = [runtimes EXCEPT ![held[r]] = [Counted(@) EXCEPT !.mutex = r]]
    /\ Goto(r, "counted") /\ UNCHANGED <<manager, lock, held, seen, fate, before, failures>>

(* Closing a channel twice would panic. *)
Completed(rt) ==
    IF rt.pending = 0 THEN rt
    ELSE [rt EXCEPT !.pending = @ - 1, !.signalled = IF rt.pending = 1 THEN TRUE ELSE @,
                    !.panicked = @ \/ (rt.pending = 1 /\ rt.signalled)]

Send(r) ==
    LET rt == Runtime(r)
    IN /\ pc[r] = "counted"
       /\ IF Len(rt.queue) < QueueSize
          THEN /\ runtimes' = [runtimes EXCEPT ![held[r]] = [rt EXCEPT !.queue = Append(@, r), !.mutex = None, !.panicked = @ \/ rt.closed]]
               /\ Leave(r, "queued")
          ELSE runtimes' = [runtimes EXCEPT ![held[r]] = [Completed(rt) EXCEPT !.mutex = None]] /\ Leave(r, "dropped")
       /\ UNCHANGED <<manager, held, seen, before, failures>>

-----------------------------------------------------------------------------
(* The worker of a runtime. *)

Take(i) ==
    LET rt == runtimes[i]
    IN /\ rt.worker = "idle" /\ rt.queue # <<>>
       /\ runtimes' = [runtimes EXCEPT ![i] = [rt EXCEPT !.queue = Tail(@), !.sending = Head(rt.queue), !.worker = "sending"]]
       /\ UNCHANGED <<manager, lock, pc, held, seen, fate, before, failures>>

Exported(i, ok) ==
    LET rt == runtimes[i]
    IN /\ rt.worker = "sending"
       /\ failures' = failures + (IF ok THEN 0 ELSE 1)
       /\ fate' = [fate EXCEPT ![rt.sending] = IF ok /\ rt.connected THEN "exported" ELSE "dropped"]
       /\ runtimes' = [runtimes EXCEPT ![i] = [rt EXCEPT !.worker = "sent", !.sending = None]]
       /\ UNCHANGED <<manager, lock, pc, held, seen, before>>
Answered(i) == Exported(i, TRUE)
Refused(i)  == failures < MaxFailures /\ Exported(i, FALSE)

CompletePending(i) ==
    /\ runtimes[i].worker = "sent"
    /\ runtimes' = [runtimes EXCEPT ![i] = [Completed(@) EXCEPT !.worker = "idle"]]
    /\ UNCHANGED <<manager, lock, pc, held, seen, fate, before, failures>>

(* A closed queue is emptied first. *)
WorkerEnds(i) ==
    /\ runtimes[i].worker = "idle" /\ runtimes[i].closed /\ runtimes[i].queue = <<>>
    /\ runtimes' = [runtimes EXCEPT ![i].worker = "gone"]
    /\ UNCHANGED <<manager, lock, pc, held, seen, fate, before, failures>>

-----------------------------------------------------------------------------
(* Flush, under the manager's read lock all the time. *)

Flush(f) ==
    /\ pc[f] = "new" /\ ReadLock(f, "flushing") /\ before' = [before EXCEPT ![f] = {r \in Requests : fate[r] = "queued"}]
    /\ UNCHANGED <<runtimes, manager, seen, fate, failures>>

Look(f) ==
    /\ pc[f] = "flushing"
    /\ IF held[f] = None \/ (held[f] # None /\ Runtime(f).pending = 0)
       THEN Goto(f, "flushed") /\ ReadUnlock(f) /\ UNCHANGED seen
       ELSE Goto(f, "blocked") /\ seen' = [seen EXCEPT ![f] = Runtime(f).epoch] /\ UNCHANGED lock
    /\ UNCHANGED <<runtimes, manager, held, fate, before, failures>>

Signal(f) ==
    /\ pc[f] = "blocked" /\ \/ seen[f] < Runtime(f).epoch
                            \/ Runtime(f).signalled
    /\ Goto(f, "flushing") /\ UNCHANGED <<runtimes, manager, lock, held, seen, fate, before, failures>>

Expire(f) ==
    /\ pc[f] = "blocked" /\ Goto(f, "expired") /\ ReadUnlock(f)
    /\ UNCHANGED <<runtimes, manager, held, seen, fate, before, failures>>

-----------------------------------------------------------------------------
(* Closing a runtime: the queue, then the worker, then the connection. *)

CloseQueue(c) ==
    /\ pc[c] = "swapped"
    /\ IF held[c] = None THEN Goto(c, "done") /\ UNCHANGED runtimes
       ELSE /\ Runtime(c).mutex = None /\ Goto(c, "closing")
            /\ LET rt == Runtime(c)
               IN runtimes' = [runtimes EXCEPT ![held[c]] = [rt EXCEPT !.panicked = rt.panicked \/ rt.closed, !.closed = TRUE]]
    /\ UNCHANGED <<manager, lock, held, seen, fate, before, failures>>

WorkersDone(rt) == rt.worker = "gone"

CloseExporter(c) ==
    /\ pc[c] = "closing" /\ WorkersDone(Runtime(c)) /\ Goto(c, "done")
    /\ runtimes' = [runtimes EXCEPT ![held[c]].connected = FALSE]
    /\ UNCHANGED <<manager, lock, held, seen, fate, before, failures>>

-----------------------------------------------------------------------------

Made == DOMAIN runtimes
Next ==
    \/ \E r \in Requests : RecordHTTP(r) \/ Skip(r) \/ Count(r) \/ Send(r)
    \/ \E i \in Made : Take(i) \/ Answered(i) \/ Refused(i) \/ CompletePending(i) \/ WorkerEnds(i)
    \/ \E f \in Flushers : Flush(f) \/ Look(f) \/ Signal(f) \/ Expire(f)
    \/ \E c \in Reloads \cup {Closer} : Await(c) \/ Lock(c) \/ Swap(c) \/ CloseQueue(c) \/ CloseExporter(c)

(* The goroutines go on; the HTTP client gives up after 5 s, so that every *)
(* export ends, one way or the other.  Nobody needs to call Flush, Reload  *)
(* or Close, and no context needs to expire.                               *)
Fairness ==
    /\ \A r \in Requests : WF_vars(Count(r) \/ Skip(r) \/ Send(r))
    /\ \A i \in Ids : WF_vars(i \in Made /\ (Take(i) \/ CompletePending(i) \/ WorkerEnds(i)))
                      /\ (Silent \/ WF_vars(i \in Made /\ (Answered(i) \/ Refused(i))))
    /\ \A f \in Flushers : WF_vars(Look(f) \/ Signal(f))
    /\ \A c \in Reloads \cup {Closer} : WF_vars(Lock(c) \/ Swap(c) \/ CloseQueue(c) \/ CloseExporter(c))

Spec == Init /\ [][Next]_vars /\ Fairness

-----------------------------------------------------------------------------
(* Properties. *)

(* Every variable has its type. *)
TypeOK ==
    /\ \A i \in Made : runtimes[i].pending \in Nat /\ Len(runtimes[i].queue) <= QueueSize /\ runtimes[i].worker \in {"idle", "sending", "sent", "gone"}
    /\ manager.runtime \in Made \cup {None} /\ lock.readers \subseteq Callers
    /\ \A r \in Requests : fate[r] \in {"none", "skipped", "queued", "exported", "dropped"}

(* Spans are conserved: pending counts exactly those in the queue, in the  *)
(* worker's hand or about to be queued; no channel is closed twice or used *)
(* after it was closed, and the worker is gone before its connection is.   *)
(* A Flush that succeeds leaves nothing behind that was queued when it     *)
(* began on the runtime it saw.                                            *)
SpansHold ==
    /\ \A i \in Made :
          LET rt == runtimes[i]
          IN /\ ~rt.panicked
             /\ rt.pending = Len(rt.queue) + (IF rt.worker \in {"sending", "sent"} THEN 1 ELSE 0)
                             + Cardinality({r \in Requests : pc[r] = "counted" /\ held[r] = i})
             /\ rt.worker = "gone" => rt.pending = 0
             /\ ~rt.connected => rt.worker = "gone"
    /\ \A f \in Flushers : pc[f] = "flushed" => \A r \in before[f] : held[r] = held[f] => fate[r] \in {"exported", "dropped"}

(* Every Reload and Close returns, whatever requests and Flushes hold the  *)
(* lock and however much is queued.                                        *)
CallsReturned == \A c \in Reloads \cup {Closer} : pc[c] \in {"new", "done"}
ClosingEnds == []<>CallsReturned
=============================================================================
