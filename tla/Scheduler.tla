---------------------------------- MODULE Scheduler ----------------------------------
(* The schedule of tasks: definitions and their administration (application/tasks/service, *)
(* platform/tasks), and the one-second ticks that start what is due (scheduler.go) on          *)
(* several servers that share one lease.                                                       *)
(* When an expression is due is the constant Due (Cron.tla says what is); a run is known by     *)
(* its key, the definition and the slot, and by the payload it was started with; what becomes   *)
(* of a run is TaskRuns.                                                                         *)
EXTENDS Naturals, Sequences, FiniteSets

CONSTANTS
    Servers, Definitions, Admins,
    Scopes,       \* the scopes in the order of TaskScopes
    Scope,        \* of a definition
    Due,          \* by definition: the seconds its expression matches
    Seconds,      \* the definitions whose expression has seconds
    PerMinute,    \* seconds to a minute
    LeaseSeconds, \* how long the lease lasts (30 in the code)
    None,
    MaxTime, MaxFaults, MaxEdits   \* bounds: seconds, failures and crashes, payloads of a definition

SchedulerAssumption ==
    /\ Scope \in [Definitions -> {Scopes[i] : i \in DOMAIN Scopes}] /\ Due \in [Definitions -> SUBSET Nat]
    /\ Seconds \subseteq Definitions /\ {PerMinute, LeaseSeconds} \subseteq Nat \ {0}
    /\ {MaxTime, MaxFaults, MaxEdits} \subseteq Nat

VARIABLES
    table,      \* gvba_task_definitions
    runs,       \* gvba_task_runs, by key
    clock,
    ticker,     \* by server: the tick that waits in its channel
    sched,      \* by server: tickScopes and Tick
    seen,       \* by server: Scheduler.seen
    lease,      \* the lock task-scheduler; "scope" (history) is what it was taken for
    admin,      \* Create, Update and Delete
    passed,     \* history, by server: the scopes it left out in this second for the lease of another scope
    dropped,    \* history, by server: those it came not to in this second, because it gave its tick up
    broken,     \* history: those that were given up by the server that had the lease, by second
    faults
history == <<passed, dropped, broken>>
vars == <<table, runs, clock, ticker, sched, seen, lease, admin, history, faults>>

NoRow == [state |-> "none", enabled |-> FALSE, payload |-> 0, since |-> 0]
NoTick == [pc |-> "idle", at |-> None, scopes |-> <<>>, defs |-> <<>>]
NoLease == [by |-> None, scope |-> None, until |-> 0]
NoEdit == [pc |-> "idle", def |-> None, row |-> NoRow]
Live(d) == table[d].state = "live"
Minute(t) == t \div PerMinute
(* Mutant of the next: the key has no seconds. *)
SlotByMinute(d, t) == Minute(t)
Slot(d, t) == IF d \in Seconds THEN t ELSE Minute(t)
Key(d, t) == <<d, Slot(d, t)>>
AlreadySeen(s, key) == key \in seen[s]
MarkSeen(s, key) == seen' = [seen EXCEPT ![s] = @ \cup {key}]
-----------------------------------------------------------------------------
(* Definitions. *)

edits == <<runs, clock, ticker, sched, seen, lease, history, faults>>
Written(d, enabled, payload) == [state |-> "live", enabled |-> enabled, payload |-> payload, since |-> clock + 1]

Create(a, d) ==
    /\ admin[a].pc = "idle" /\ table[d].state = "none"
    /\ table' = [table EXCEPT ![d] = Written(d, TRUE, 0)] /\ admin' = [admin EXCEPT ![a].pc = "done"]
    /\ UNCHANGED edits
(* Update reads the definition and writes back the whole of it. *)
Update(a, d) ==
    /\ admin[a].pc = "idle" /\ Live(d) /\ table[d].payload < MaxEdits
    /\ \E enabled \in BOOLEAN : admin' = [admin EXCEPT ![a] = [pc |-> "save", def |-> d, row |-> Written(d, enabled, table[d].payload + 1)]]
    /\ UNCHANGED <<table, edits>>
(* A row that was deleted is not found, and its id is in use: the update is refused. *)
Save(a) ==
    /\ admin[a].pc = "save" /\ admin' = [admin EXCEPT ![a].pc = "done"]
    /\ table' = IF Live(admin[a].def) THEN [table EXCEPT ![admin[a].def] = [admin[a].row EXCEPT !.since = clock + 1]] ELSE table
    /\ UNCHANGED edits
Delete(a, d) ==
    /\ admin[a].pc = "idle" /\ Live(d)
    /\ table' = [table EXCEPT ![d].state = "deleted"] /\ admin' = [admin EXCEPT ![a].pc = "done"]
    /\ UNCHANGED edits

-----------------------------------------------------------------------------
(* Time passes when every tick of the second is over: a server that takes longer than a     *)
(* second loses the ticks its channel has no room for.                                       *)
Tock ==
    /\ clock < MaxTime /\ \A s \in Servers : sched[s].pc = "idle" /\ ticker[s] = None
    /\ clock' = clock + 1 /\ ticker' = [s \in Servers |-> clock + 1]
    /\ lease' = IF lease.until <= clock + 1 THEN NoLease ELSE lease
    /\ passed' = [s \in Servers |-> {}] /\ dropped' = passed' /\ broken' = {b \in broken : b[1] > clock}
    /\ UNCHANGED <<table, runs, sched, seen, admin, faults>>

Go(s, next) == sched' = [sched EXCEPT ![s] = next]
settled == <<table, admin, clock>>
EndTick(s) == Go(s, NoTick)
Held(s) == IF lease.by = s THEN NoLease ELSE lease
Note(log, s, more) == [log EXCEPT ![s] = @ \cup more]
Elements(seq) == {seq[i] : i \in DOMAIN seq}
(* The tick ends; "lost" is what it held the lease for, with the seconds the lease is still there. *)
GiveUp(s, lost) ==
    /\ EndTick(s) /\ broken' = broken \cup lost
    /\ dropped' = Note(dropped, s, {scope \in Elements(sched[s].scopes) : <<clock, scope>> \notin lost})
    /\ UNCHANGED passed
InHand(s) == IF lease.by = s THEN {<<clock, lease.scope>>} ELSE {}

(* TaskScopes: the scopes that have an enabled definition. *)
TaskScopes == SelectSeq(Scopes, LAMBDA scope : \E d \in Definitions : Live(d) /\ table[d].enabled /\ Scope[d] = scope)
TickScopes(s) ==
    /\ ticker[s] # None /\ sched[s].pc = "idle" /\ ticker' = [ticker EXCEPT ![s] = None]
    /\ Go(s, [pc |-> "scope", at |-> ticker[s], scopes |-> TaskScopes, defs |-> <<>>])
    /\ UNCHANGED <<runs, seen, lease, history, faults, settled>>

(* A scope is left out while another server has the lease, be it for another scope. *)
Acquire(s) ==
    /\ sched[s].pc = "scope"
    /\ IF sched[s].scopes = <<>> THEN EndTick(s) /\ UNCHANGED <<lease, passed>>
       ELSE IF lease # NoLease
       THEN /\ Go(s, [sched[s] EXCEPT !.scopes = Tail(@)]) /\ UNCHANGED lease
            /\ passed' = IF lease.scope = Head(sched[s].scopes) THEN passed
                         ELSE Note(passed, s, {Head(sched[s].scopes)})
       ELSE /\ Go(s, [sched[s] EXCEPT !.pc = "list"]) /\ UNCHANGED passed
            /\ lease' = [by |-> s, scope |-> Head(sched[s].scopes), until |-> clock + LeaseSeconds]
    /\ UNCHANGED <<runs, seen, ticker, dropped, broken, faults, settled>>

(* The enabled definitions of the scope, oldest first: any order here. *)
Wanted(s) == {d \in Definitions : Live(d) /\ table[d].enabled /\ Scope[d] = Head(sched[s].scopes) /\ sched[s].at \in Due[d]}
Orders(set) == {order \in [1..Cardinality(set) -> set] : \A i, j \in DOMAIN order : order[i] = order[j] => i = j}
List(s) ==
    /\ sched[s].pc = "list"
    /\ \E order \in Orders({d \in Wanted(s) : ~AlreadySeen(s, Key(d, sched[s].at))}) :
            Go(s, [sched[s] EXCEPT !.pc = "defs", !.defs = order])
    /\ UNCHANGED <<runs, seen, lease, ticker, history, faults, settled>>

(* EnqueueWithSource answers a key it knows with its run, if the payload is the same. *)
Enqueue(s) ==
    /\ sched[s].pc = "defs" /\ sched[s].defs # <<>>
    /\ LET d == Head(sched[s].defs) key == Key(d, sched[s].at)
           same == {run \in runs : run.key = key}
       IN IF Live(d) /\ \A run \in same : run.payload = table[d].payload
          THEN /\ runs' = IF same = {} THEN runs \cup {[key |-> key, at |-> sched[s].at, payload |-> table[d].payload]} ELSE runs
               /\ MarkSeen(s, key)
               /\ Go(s, [sched[s] EXCEPT !.defs = Tail(@)]) /\ UNCHANGED <<lease, history>>
          ELSE GiveUp(s, InHand(s)) /\ lease' = Held(s) /\ UNCHANGED <<runs, seen>>
    /\ UNCHANGED <<ticker, faults, settled>>
Release(s) ==
    /\ sched[s].pc = "defs" /\ sched[s].defs = <<>> /\ lease' = Held(s)
    /\ Go(s, [sched[s] EXCEPT !.pc = "scope", !.scopes = Tail(@)])
    /\ UNCHANGED <<runs, seen, ticker, history, faults, settled>>

(* An error of the database, of Redis or of the queue ends the tick of all the scopes that are *)
(* left; the next tick is of the next second.                                                   *)
TickFails(s) ==
    /\ sched[s].pc \in {"scope", "list", "defs"} /\ faults < MaxFaults /\ faults' = faults + 1
    /\ GiveUp(s, InHand(s)) /\ lease' = Held(s) /\ UNCHANGED <<runs, seen, ticker, settled>>
(* A server that stops with the lease keeps all of them from ticking until it is over. *)
Restart(s) ==
    /\ sched[s].pc # "idle" /\ faults < MaxFaults /\ faults' = faults + 1
    /\ seen' = [seen EXCEPT ![s] = {}] /\ UNCHANGED <<runs, lease, ticker, settled>>
    /\ GiveUp(s, InHand(s) \cup (IF lease.by = s THEN (clock + 1..lease.until - 1) \X Elements(Scopes) ELSE {}))

(* "live" are the definitions that are there, "active" who edits, "spent" the failures there were. *)
Start(live, active, spent) ==
    /\ table = [d \in Definitions |-> IF d \in live THEN [NoRow EXCEPT !.state = "live", !.enabled = TRUE] ELSE NoRow]
    /\ runs = {} /\ clock = 0 /\ ticker = [s \in Servers |-> None] /\ sched = [s \in Servers |-> NoTick]
    /\ seen = [s \in Servers |-> {}] /\ lease = NoLease /\ faults = spent
    /\ passed = [s \in Servers |-> {}] /\ dropped = [s \in Servers |-> {}] /\ broken = {}
    /\ admin = [a \in Admins |-> IF a \in active THEN NoEdit ELSE [NoEdit EXCEPT !.pc = "done"]]
Init == Start({}, Admins, 0)

TickStep(s) == TickScopes(s) \/ Acquire(s) \/ List(s) \/ Enqueue(s) \/ Release(s)
Next ==
    \/ Tock
    \/ \E s \in Servers : TickStep(s) \/ TickFails(s) \/ Restart(s)
    \/ \E a \in Admins : Save(a) \/ \E d \in Definitions : Create(a, d) \/ Update(a, d) \/ Delete(a, d)
Spec == Init /\ [][Next]_vars
-----------------------------------------------------------------------------
TypeOK ==
    /\ \A d \in Definitions : table[d].state \in {"none", "live", "deleted"} /\ table[d].payload <= MaxEdits
    /\ \A run \in runs : run.key[1] \in Definitions /\ run.at <= clock
    /\ \A s \in Servers : sched[s].pc \in {"idle", "scope", "list", "defs"}
    /\ lease.by \in Servers \cup {None} /\ faults <= MaxFaults

SecondOver == \A s \in Servers : ticker[s] = None /\ sched[s].pc = "idle"
Started(d, t) == \E run \in runs : run.key[1] = d /\ IF d \in Seconds THEN run.at = t ELSE Minute(run.at) = Minute(t)
(* Nobody ticked the scope in this second: every server left it out for the lease of another *)
(* scope, or gave its tick up before it; or who had the lease for it gave up.                  *)
Unticked(scope) ==
    <<clock, scope>> \in broken \/ \A s \in Servers : scope \in passed[s] \cup dropped[s]
Unchanged(d) == Live(d) /\ table[d].enabled /\ table[d].since <= clock
(* A definition that is due, and was there and enabled before the second began, has its run   *)
(* at the end of that second if any server ticked its scope: who finds the lease taken for the  *)
(* scope itself, and a server whose tick fails before or behind it, cost it nothing.             *)
DueIsStarted ==
    SecondOver /\ clock > 0 => \A d \in Definitions : Unchanged(d) /\ clock \in Due[d] /\ ~Unticked(Scope[d]) => Started(d, clock)
(* One lease for all scopes lets all servers leave out a scope in the middle of the list, one   *)
(* for what comes before it and another for what comes behind it.  The first and the last of the *)
(* list are left out by all of them only after a failure, as long as nobody edits.                *)
EndsAreTicked ==
    SecondOver /\ clock > 0 /\ (\A d \in Definitions : Unchanged(d)) =>
        \A scope \in {Scopes[1], Scopes[Len(Scopes)]} :
            Unticked(scope) => <<clock, scope>> \in broken \/ \E s \in Servers : scope \in dropped[s]
(* A deleted definition stays deleted, and starts nothing more. *)
DeletedKept ==
    \A d \in Definitions : table[d].state = "deleted" =>
        table'[d] = table[d] /\ \A run \in runs' \ runs : run.key[1] # d
DeletedStays == [][DeletedKept]_vars
=============================================================================
