------------------------------ MODULE Settings ------------------------------
(***************************************************************************)
(* Management settings of one module in one tenant: SaveModule,            *)
(* ResetModule, Update and Rollback of application/settings over the       *)
(* version rows of settingsplatform/gorm_repository.go, and the snapshot   *)
(* every server serves its requests from, which a loop rebuilds from the   *)
(* database.                                                               *)
(*                                                                         *)
(* A database read, a lock, the check of a transaction, its commit and the *)
(* swap of a snapshot are a step each.  The revision of the module is the  *)
(* highest version among its rows; a save writes all its keys under one    *)
(* new version.                                                            *)
(*                                                                         *)
(* Left out: secrets, values that the deployment fixes, organizations,     *)
(* settings that need a reload or a restart, and the Redis keys that a     *)
(* save deletes (nobody reads them).                                       *)
(***************************************************************************)
EXTENDS Naturals, FiniteSetsExt

CONSTANTS
    Servers,
    Clients,        \* requests in progress, one each
    NoClient,
    Keys, Values,
    Default,        \* the compiled defaults
    ValidModules,   \* the values of a module that validateModuleValues accepts
    FaultPoints,    \* program points at which the database may fail
    MaxCalls,       \* bound on requests
    MaxFailures     \* bound on failures and crashes

SettingsAssumption ==
    /\ NoClient \notin Clients /\ Servers # {}
    /\ ValidModules \subseteq [Keys -> Values] /\ Default \in ValidModules
    /\ MaxCalls \in Nat /\ MaxFailures \in Nat

VARIABLES
    table,          \* the rows of gvba_sys_setting_versions
    snap,           \* RuntimeSnapshotStore of every server
    moduleMu,       \* Service.moduleMu of every server
    pc, loc,        \* the requests and their locals
    recon,          \* the reconciliation of every server: keys to read, values read
    won,            \* saves and resets committed, by the revision they expected
    keyed,          \* a single key has been written by Update or Rollback
    calls, failures

requests == <<pc, loc>>
counts   == <<calls, failures>>
vars     == <<table, snap, moduleMu, requests, recon, won, keyed, counts>>

Row    == [key : Keys, value : Values, version : Nat \ {0}, live : BOOLEAN]
Module == [Keys -> Values]
Op     == {"none", "save", "reset", "update"}
Point  == {"idle", "lock", "read", "check", "begin", "commit", "publish",
           "current", "append", "notify", "push"}

(* change: the keys the request sets and their values. *)
Local == [op : Op, at : Servers, keys : SUBSET Keys, change : Module, expected : Nat,
          todo : SUBSET Keys, seen : Module]
Idle(s) == [op |-> "none", at |-> s, keys |-> {}, change |-> Default, expected |-> 0,
            todo |-> {}, seen |-> Default]

-----------------------------------------------------------------------------
(* The rows. *)

Live(k)     == {r \in table : r.key = k /\ r.live}
Versions(R) == {0} \cup {r.version : r \in R}
Revision    == Max(Versions(table))
Version(k)  == Max(Versions(Live(k)))
Stored(k)   == IF Live(k) = {} THEN Default[k]
               ELSE (CHOOSE r \in Live(k) : r.version = Version(k)).value
Effective   == [k \in Keys |-> Stored(k)]

At(c)        == loc[c].at
Candidate(c) == [k \in Keys |-> IF k \in loc[c].keys THEN loc[c].change[k] ELSE loc[c].seen[k]]
Changed(c)   == {k \in loc[c].keys : loc[c].change[k] # loc[c].seen[k]}

Init ==
    /\ table = {}
    /\ snap = [s \in Servers |-> Default]
    /\ moduleMu = [s \in Servers |-> NoClient]
    /\ pc = [c \in Clients |-> "idle"]
    /\ loc = [c \in Clients |-> Idle(CHOOSE s \in Servers : TRUE)]
    /\ recon = [s \in Servers |-> [todo |-> Keys, seen |-> Default]]
    /\ won = [r \in 0..MaxCalls |-> 0]
    /\ keyed = FALSE /\ calls = 0 /\ failures = 0

Go(c, l)   == pc' = [pc EXCEPT ![c] = l]
Step(c, l) == Go(c, l) /\ UNCHANGED loc
Return(c)  == Go(c, "idle") /\ loc' = [loc EXCEPT ![c] = Idle(At(c))]
Unlocked(c) == [moduleMu EXCEPT ![At(c)] = IF @ = c THEN NoClient ELSE @]
Leave(c)   == Return(c) /\ moduleMu' = Unlocked(c)

(* A request of a client that has read the module at revision r. *)
Call(c, s, op, keys, change, r, l) ==
    /\ pc[c] = "idle" /\ calls < MaxCalls
    /\ calls' = calls + 1
    /\ \A k \in Keys \ keys : change[k] = Default[k]
    /\ loc' = [loc EXCEPT ![c] = [Idle(s) EXCEPT !.op = op, !.keys = keys, !.change = change,
                                                 !.expected = r, !.todo = Keys]]
    /\ Go(c, l)
    /\ UNCHANGED <<table, snap, moduleMu, recon, won, keyed, failures>>

-----------------------------------------------------------------------------
(* SaveModule and ResetModule. *)

SaveCall(c, s) ==
    \E keys \in SUBSET Keys \ {{}}, change \in Module, r \in 0..Revision :
        Call(c, s, "save", keys, change, r, "lock")

ResetCall(c, s) == \E r \in 0..Revision : Call(c, s, "reset", {}, Default, r, "lock")

(* Mutant of ModuleLock: nobody is kept out. *)
ModuleUnlocked(c) ==
    /\ pc[c] = "lock"
    /\ moduleMu' = [moduleMu EXCEPT ![At(c)] = c]
    /\ Step(c, IF loc[c].op = "save" THEN "read" ELSE "check")
    /\ UNCHANGED <<table, snap, recon, won, keyed, counts>>

ModuleLock(c) ==
    /\ pc[c] = "lock"
    /\ moduleMu[At(c)] = NoClient
    /\ moduleMu' = [moduleMu EXCEPT ![At(c)] = c]
    /\ Step(c, IF loc[c].op = "save" THEN "read" ELSE "check")
    /\ UNCHANGED <<table, snap, recon, won, keyed, counts>>

(* The effective values, one key at a time: before a save is checked, and  *)
(* after a reset is committed.                                             *)
ReadKey(c) ==
    /\ pc[c] = "read"
    /\ \/ \E k \in loc[c].todo :
            /\ loc' = [loc EXCEPT ![c].seen[k] = Stored(k), ![c].todo = @ \ {k}]
            /\ UNCHANGED pc
       \/ loc[c].todo = {} /\ Step(c, IF loc[c].op = "save" THEN "check" ELSE "publish")
    /\ UNCHANGED <<table, snap, moduleMu, recon, won, keyed, counts>>

(* A save is refused if it is invalid, stale or changes nothing, a reset   *)
(* if it is stale or there is nothing to remove.                           *)
Check(c) ==
    /\ pc[c] = "check"
    /\ IF /\ Revision = loc[c].expected
          /\ loc[c].op = "save" => Candidate(c) \in ValidModules /\ Changed(c) # {}
          /\ loc[c].op = "reset" => \E k \in Keys : Live(k) # {}
       THEN Step(c, "begin") /\ UNCHANGED moduleMu
       ELSE Leave(c)
    /\ UNCHANGED <<table, snap, recon, won, keyed, counts>>

(* The transaction compares the revision again, in a SELECT that locks no  *)
(* row.                                                                    *)
Begin(c) ==
    /\ pc[c] = "begin"
    /\ IF Revision = loc[c].expected THEN Step(c, "commit") /\ UNCHANGED moduleMu ELSE Leave(c)
    /\ UNCHANGED <<table, snap, recon, won, keyed, counts>>

(* The version of the new rows follows the highest one that the            *)
(* transaction sees: under snapshot reads (MySQL) that is the one it has   *)
(* compared, under read committed (PostgreSQL) the one of now.             *)
NextVersion(c) == {loc[c].expected + 1, Revision + 1}

Win(c) == won' = [won EXCEPT ![loc[c].expected] = @ + 1]

(* (key, version) is unique, so a second row of both is refused. *)
SaveCommit(c) ==
    /\ pc[c] = "commit" /\ loc[c].op = "save"
    /\ \E v \in NextVersion(c) :
        IF \E r \in table : r.key \in Changed(c) /\ r.version = v
        THEN Leave(c) /\ UNCHANGED <<table, won>>
        ELSE /\ table' = table \cup {[key |-> k, value |-> loc[c].change[k], version |-> v,
                                      live |-> TRUE] : k \in Changed(c)}
             /\ Win(c)
             /\ Step(c, "publish") /\ UNCHANGED moduleMu
    /\ UNCHANGED <<snap, recon, keyed, counts>>

(* All rows go, and one without a value keeps the revision growing; it too is refused *)
(* when there is one of its key and version by now.                                    *)
ResetCommit(c) ==
    /\ pc[c] = "commit" /\ loc[c].op = "reset"
    /\ \E v \in NextVersion(c), k \in Keys :
        IF \E r \in table : r.key = k /\ r.version = v
        THEN Leave(c) /\ UNCHANGED <<table, won>>
        ELSE /\ table' = {[key |-> k, value |-> Default[k], version |-> v, live |-> FALSE]}
             /\ Win(c)
             /\ Step(c, "read") /\ UNCHANGED moduleMu
    /\ UNCHANGED <<snap, recon, keyed, counts>>

(* The values of the candidate replace those of the module. *)
Publish(c) ==
    /\ pc[c] = "publish"
    /\ snap' = [snap EXCEPT ![At(c)] = Candidate(c)]
    /\ Leave(c)
    /\ UNCHANGED <<table, recon, won, keyed, counts>>

-----------------------------------------------------------------------------
(* Update and Rollback write one key, without the lock. *)

UpdateCall(c, s) ==
    \E k \in Keys, change \in Module, v \in Versions(table) :
        Call(c, s, "update", {k}, change, v, "current")

UpdateKey(c) == CHOOSE k \in Keys : k \in loc[c].keys

CheckVersion(c) ==
    /\ pc[c] = "current"
    /\ IF Version(UpdateKey(c)) = loc[c].expected THEN Step(c, "append") ELSE Return(c)
    /\ UNCHANGED <<table, snap, moduleMu, recon, won, keyed, counts>>

AppendVersion(c) ==
    /\ pc[c] = "append"
    /\ LET k == UpdateKey(c)
           v == Max(Versions({r \in table : r.key = k})) + 1
       IN table' = table \cup {[key |-> k, value |-> loc[c].change[k], version |-> v, live |-> TRUE]}
    /\ keyed' = TRUE
    /\ Step(c, "notify")
    /\ UNCHANGED <<snap, moduleMu, recon, won, counts>>

(* Invalidation and audit; if either fails nothing is published. *)
Notify(c) ==
    /\ pc[c] = "notify"
    /\ Step(c, "push")
    /\ UNCHANGED <<table, snap, moduleMu, recon, won, keyed, counts>>

PublishKey(c) ==
    /\ pc[c] = "push"
    /\ snap' = [snap EXCEPT ![At(c)][UpdateKey(c)] = loc[c].change[UpdateKey(c)]]
    /\ Return(c)
    /\ UNCHANGED <<table, moduleMu, recon, won, keyed, counts>>

-----------------------------------------------------------------------------
(* The reconciliation of a server reads every key and swaps the snapshot. *)

ReconcileRead(s) ==
    /\ \E k \in recon[s].todo :
        recon' = [recon EXCEPT ![s].seen[k] = Stored(k), ![s].todo = @ \ {k}]
    /\ UNCHANGED <<table, snap, moduleMu, requests, won, keyed, counts>>

(* Mutant of ReconcileSwap: a key without a row keeps what it has. *)
ReconcileRows(s) ==
    /\ recon[s].todo = {}
    /\ snap' = [snap EXCEPT ![s] = [k \in Keys |-> IF Live(k) = {} THEN @[k] ELSE recon[s].seen[k]]]
    /\ recon' = [recon EXCEPT ![s].todo = Keys, ![s].seen = Default]
    /\ UNCHANGED <<table, moduleMu, requests, won, keyed, counts>>

ReconcileSwap(s) ==
    /\ recon[s].todo = {}
    /\ snap' = [snap EXCEPT ![s] = recon[s].seen]
    /\ recon' = [recon EXCEPT ![s].todo = Keys, ![s].seen = Default]
    /\ UNCHANGED <<table, moduleMu, requests, won, keyed, counts>>

-----------------------------------------------------------------------------
Failure == failures < MaxFailures /\ failures' = failures + 1

(* The database fails: the request ends, the reconciliation starts over. *)
Fault(c) ==
    /\ Failure
    /\ pc[c] \in FaultPoints
    /\ pc[c] \in {"read", "check", "begin", "commit", "current", "append", "notify"}
    /\ Leave(c)
    /\ UNCHANGED <<table, snap, recon, won, keyed, calls>>

ReconcileFault(s) ==
    /\ Failure
    /\ recon[s].todo # Keys
    /\ recon' = [recon EXCEPT ![s].todo = Keys, ![s].seen = Default]
    /\ UNCHANGED <<table, snap, moduleMu, requests, won, keyed, calls>>

(* A server restarts with no snapshot, which reads as the defaults. *)
Restart(s) ==
    /\ Failure
    /\ snap' = [snap EXCEPT ![s] = Default]
    /\ recon' = [recon EXCEPT ![s].todo = Keys, ![s].seen = Default]
    /\ moduleMu' = [moduleMu EXCEPT ![s] = NoClient]
    /\ pc' = [c \in Clients |-> IF At(c) = s THEN "idle" ELSE pc[c]]
    /\ loc' = [c \in Clients |-> IF At(c) = s THEN Idle(s) ELSE loc[c]]
    /\ UNCHANGED <<table, won, keyed, calls>>

Work(c) ==
    \/ ModuleLock(c) \/ ReadKey(c) \/ Check(c) \/ Begin(c) \/ SaveCommit(c) \/ ResetCommit(c)
    \/ Publish(c)
    \/ CheckVersion(c) \/ AppendVersion(c) \/ Notify(c) \/ PublishKey(c)

Reconcile(s) == ReconcileRead(s) \/ ReconcileSwap(s)

Next ==
    \/ \E c \in Clients, s \in Servers : SaveCall(c, s) \/ ResetCall(c, s) \/ UpdateCall(c, s)
    \/ \E c \in Clients : Work(c) \/ Fault(c)
    \/ \E s \in Servers : Reconcile(s) \/ ReconcileFault(s) \/ Restart(s)

Spec == Init /\ [][Next]_vars

(* A request keeps running, and the loop of a server keeps ticking. *)
FairSpec == Spec /\ \A c \in Clients : WF_vars(Work(c)) /\ \A s \in Servers : WF_vars(Reconcile(s))

-----------------------------------------------------------------------------
(* Properties. *)

(* Every variable has its type. *)
TypeOK ==
    /\ table \subseteq Row
    /\ snap \in [Servers -> Module]
    /\ moduleMu \in [Servers -> Clients \cup {NoClient}]
    /\ pc \in [Clients -> Point] /\ loc \in [Clients -> Local]
    /\ recon \in [Servers -> [todo : SUBSET Keys, seen : Module]]
    /\ won \in [0..MaxCalls -> Nat]
    /\ keyed \in BOOLEAN /\ calls \in Nat /\ failures \in Nat

(* Of all the saves and resets that were made at one revision of the       *)
(* module, at most one is committed (compare and swap).                    *)
OneWinner == \A r \in DOMAIN won : won[r] <= 1

(* Settings that constrain each other, such as file.max_size and           *)
(* file.quota, are never stored in a combination that validation rejects,  *)
(* as long as only whole modules are written.                              *)
ModuleValid == ~keyed => Effective \in ValidModules

SettingsHold == TypeOK /\ OneWinner /\ ModuleValid

(* After the last write every server comes to serve what is stored, even   *)
(* if a snapshot was overwritten by an older one or never published.       *)
Served == \A s \in Servers : snap[s] = Effective
SnapshotsConverge == <>[]Served
=============================================================================
