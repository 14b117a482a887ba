--------------------------- MODULE SettingScopes ---------------------------
(***************************************************************************)
(* One module of settings as tenants and their organizations use it: whose *)
(* rows a request sees and writes, values that the deployment fixes,       *)
(* credentials, and the partitions of the process snapshot that GET of a   *)
(* key answers from.                                                       *)
(*                                                                         *)
(* A request reads and checks in one step and writes in the same one (the  *)
(* races inside are those of Settings); what it publishes to the snapshot  *)
(* afterwards is a step of its own.  Refused requests change nothing and   *)
(* are not steps.                                                          *)
(***************************************************************************)
EXTENDS Naturals, FiniteSetsExt

CONSTANTS
    Clients,
    Scopes,         \* records of a tenant and an organization
    NoOrg,          \* the organization of a tenant's own scope
    DefaultTenant,  \* the tenant whose snapshot is reconciled
    Keys, Sensitive,
    Mode,           \* how a key takes effect
    Fixed,          \* keys that an environment variable sets
    Values, Unset, Default, Deployed, Blank,
    MaxWrites       \* bound on versions

ScopesAssumption ==
    /\ \A sc \in Scopes : [sc EXCEPT !.org = NoOrg] \in Scopes
    /\ [tenant |-> DefaultTenant, org |-> NoOrg] \in Scopes
    /\ Sensitive \subseteq Keys /\ Fixed \subseteq Keys
    /\ Mode \in [Keys -> {"immediate", "component_reload", "migration", "deployment"}]
    /\ {Unset, Default, Deployed, Blank} \cap (Scopes \X Values) = {}
    /\ MaxWrites \in Nat

VARIABLES
    rows,       \* gvba_sys_setting_versions
    snap,       \* the partitions of RuntimeSnapshotStore
    status,     \* moduleStates of the module
    req,        \* what every client's request has left to publish
    removed     \* credentials that have been cleared and not been set again

vars == <<rows, snap, status, req, removed>>

(* A value is told apart by the scope that wrote it. *)
Value == (Scopes \X Values) \cup {Default, Deployed}
Own(sc) == {sc} \X Values

Row == [key : Keys, scope : Scopes, value : Value, version : Nat, live : BOOLEAN]

-----------------------------------------------------------------------------
(* What a scope sees. *)

Parent(sc)  == [sc EXCEPT !.org = NoOrg]
Visible(sc) == {r \in rows : r.scope \in {sc, Parent(sc)}}
Newest(R)   == CHOOSE r \in R : \A q \in R : q.version <= r.version
LiveIn(sc, k) == {r \in rows : r.scope = sc /\ r.key = k /\ r.live}

(* A row of the organization comes before one of the tenant. *)
Row0(k, sc) == [key |-> k, scope |-> sc, value |-> Default, version |-> 0, live |-> FALSE]
Current(sc, k) ==
    IF LiveIn(sc, k) # {} THEN Newest(LiveIn(sc, k))
    ELSE IF LiveIn(Parent(sc), k) # {} THEN Newest(LiveIn(Parent(sc), k))
    ELSE Row0(k, sc)

(* The deployment comes before the database, the default last. *)
Resolved(sc, k) == IF k \in Fixed THEN Deployed ELSE Current(sc, k).value
Effective(sc)   == [k \in Keys |-> Resolved(sc, k)]

(* The highest version that the scope sees, tombstones included. *)
Revision(sc) == Max({0} \cup {r.version : r \in Visible(sc)})

(* Versions are unique in a tenant, over all its organizations. *)
OfTenant(sc) == {r \in rows : r.scope.tenant = sc.tenant}
NextVersion(R) == Max({0} \cup {r.version : r \in R}) + 1

Writable(k) == k \notin Fixed
Editable(k) == Mode[k] # "deployment"
Put(sc, k, v, n) == [key |-> k, scope |-> sc, value |-> v, version |-> n, live |-> TRUE]
Tombstone(sc, k, n) == [key |-> k, scope |-> sc, value |-> Default, version |-> n, live |-> FALSE]

-----------------------------------------------------------------------------
(* What a save tells of its effect: the strongest mode among its keys. *)

Rank(m) == CASE m = "migration" -> 5 [] m = "deployment" -> 4
             [] m = "component_reload" -> 2 [] OTHER -> 1
Strongest(ks) == LET top == Max({Rank(Mode[k]) : k \in ks})
                 IN IF top = 1 THEN "immediate" ELSE Mode[CHOOSE k \in ks : Rank(Mode[k]) = top]

(* No component can be reloaded: the program installs no RuntimeApplier. *)
Outcome(ks) ==
    CASE Strongest(ks) = "migration"        -> "saved_pending_migration"
      [] Strongest(ks) = "deployment"       -> "saved_pending_restart"
      [] Strongest(ks) = "component_reload" -> "saved_pending_reload"
      [] OTHER                              -> "saved_and_applied"

-----------------------------------------------------------------------------
Nothing == [todo |-> "none"]
NoPartition == [k \in Keys |-> Unset]

Init ==
    /\ rows \in {{}} \cup {{Put(sc, k, <<sc, v>>, 1)} :
                            sc \in {[tenant |-> DefaultTenant, org |-> NoOrg]},
                            k \in Fixed, v \in Values}
    /\ snap = [sc \in Scopes |-> NoPartition]
    /\ status = ""
    /\ req = [c \in Clients |-> Nothing]
    /\ removed = {}

Idle(c) == req[c].todo = "none"
Then(c, r) == req' = [req EXCEPT ![c] = r]
Finish(c) == Then(c, Nothing)

-----------------------------------------------------------------------------
(* One key. *)

(* GET answers from the partition of the scope, which knows no versions; a *)
(* key that it lacks is resolved and put there in a second step.           *)
Cached(sc, k)     == k \notin Sensitive /\ snap[sc][k] # Unset
GetVersion(sc, k) == IF Cached(sc, k) \/ k \in Fixed THEN 0 ELSE Current(sc, k).version

GetKey(c, sc, k) ==
    /\ Idle(c)
    /\ k \notin Sensitive /\ ~Cached(sc, k)
    /\ Then(c, [todo |-> "key", scope |-> sc, key |-> k, value |-> Resolved(sc, k)])
    /\ UNCHANGED <<rows, snap, status, removed>>

PublishKey(c) ==
    /\ req[c].todo = "key"
    /\ snap' = [snap EXCEPT ![req[c].scope][req[c].key] = req[c].value]
    /\ Finish(c)
    /\ UNCHANGED <<rows, status, removed>>

(* PUT with the version that is current.  A blank credential writes        *)
(* nothing.                                                                *)
UpdateKey(c, sc, k, v) ==
    /\ Idle(c)
    /\ Writable(k)
    /\ LET n == NextVersion({r \in OfTenant(sc) : r.key = k})
       IN n <= MaxWrites /\ rows' = rows \cup {Put(sc, k, v, n)}
    /\ removed' = removed \ {<<sc, k, v>>}
    /\ IF k \in Sensitive THEN UNCHANGED req
       ELSE Then(c, [todo |-> "key", scope |-> sc, key |-> k, value |-> v])
    /\ UNCHANGED <<snap, status>>

-----------------------------------------------------------------------------
(* The module. *)

(* The candidate a save or a reset publishes: it replaces the values of    *)
(* the module in the partition of the scope, credentials left out.         *)
Candidate(sc, values) == [todo |-> "module", scope |-> sc,
                          values |-> [k \in Keys |-> IF k \in Sensitive THEN Unset ELSE values[k]]]

Applied(c, sc, ks, values) ==
    /\ status' = Outcome(ks)
    /\ IF Outcome(ks) = "saved_and_applied" THEN Then(c, Candidate(sc, values)) ELSE UNCHANGED req

PublishModule(c) ==
    /\ req[c].todo = "module"
    /\ snap' = [snap EXCEPT ![req[c].scope] =
                   [k \in Keys |-> IF k \in Sensitive THEN @[k] ELSE req[c].values[k]]]
    /\ Finish(c)
    /\ UNCHANGED <<rows, status, removed>>

(* Blank credentials are left alone, other keys must be free to write; what *)
(* equals the effective value is not stored.                                *)
SaveModule(c, sc, keys, change) ==
    LET given   == {k \in keys : ~(k \in Sensitive /\ change[k] = Blank)}
        changed == {k \in given : change[k] # Resolved(sc, k)}
        n       == NextVersion(OfTenant(sc))
    IN /\ Idle(c)
       /\ \A k \in given : change[k] # Blank /\ Writable(k) /\ Editable(k)
       /\ changed # {} /\ n <= MaxWrites
       /\ rows' = rows \cup {Put(sc, k, change[k], n) : k \in changed}
       /\ removed' = removed \ {<<sc, k, change[k]>> : k \in changed}
       /\ Applied(c, sc, changed, [k \in Keys |-> IF k \in changed THEN change[k]
                                                  ELSE Resolved(sc, k)])
       /\ UNCHANGED snap

AfterReset(gone, sc, k) ==
    IF k \in Fixed THEN Deployed
    ELSE LET left == {r \in rows \ gone : r.key = k /\ r.live /\ r.scope \in {sc, Parent(sc)}}
         IN IF left = {} THEN Default ELSE Newest(left).value

(* Mutant of Erased: everything that the scope sees goes. *)
ErasedVisible(sc, ks) == {r \in Visible(sc) : r.key \in ks}

(* Only rows of the very scope are erased. *)
Erased(sc, ks) == {r \in rows : r.scope = sc /\ r.key \in ks}

(* One row without a value stays, so that the revision keeps growing. *)
ResetModule(c, sc) ==
    LET own == {k \in Keys : LiveIn(sc, k) # {}}
        n   == NextVersion(OfTenant(sc))
    IN /\ Idle(c)
       /\ own # {} /\ n <= MaxWrites
       /\ \E k \in own : rows' = (rows \ Erased(sc, Keys)) \cup {Tombstone(sc, k, n)}
       /\ Applied(c, sc, own, [k \in Keys |-> AfterReset(Erased(sc, Keys), sc, k)])
       /\ UNCHANGED <<snap, removed>>

(* Mutant of ClearRows: only the newest row of a credential goes. *)
ClearNewest(sc, ks, n) ==
    (rows \ {Newest(LiveIn(sc, k)) : k \in ks}) \cup {Tombstone(sc, k, n) : k \in ks}

ClearRows(sc, ks, n) == (rows \ Erased(sc, ks)) \cup {Tombstone(sc, k, n) : k \in ks}

(* Credentials are cleared by name, in the very scope; a default or an     *)
(* inherited one counts as clear already.                                  *)
ClearCredentials(c, sc, keys) ==
    LET own == {k \in keys : LiveIn(sc, k) # {}}
        n   == Max({Revision(sc) + 1} \cup {NextVersion({r \in OfTenant(sc) : r.key = k}) : k \in own})
    IN /\ Idle(c)
       /\ keys \subseteq Sensitive /\ \A k \in keys : Writable(k) /\ Editable(k)
       /\ own # {} /\ n <= MaxWrites
       /\ rows' = ClearRows(sc, own, n)
       /\ removed' = removed \cup {<<sc, r.key, r.value>> : r \in {q \in Erased(sc, own) : q.live}}
       /\ Applied(c, sc, own, [k \in Keys |-> AfterReset(Erased(sc, own), sc, k)])
       /\ UNCHANGED snap

-----------------------------------------------------------------------------
(* Start and reconciliation rebuild the partition of the default tenant.   *)

Snapshot(sc) == [k \in Keys |-> IF k \in Sensitive THEN Unset ELSE Resolved(sc, k)]

Reconcile ==
    /\ LET sc == [tenant |-> DefaultTenant, org |-> NoOrg]
       IN snap[sc] # Snapshot(sc) /\ snap' = [snap EXCEPT ![sc] = Snapshot(sc)]
    /\ UNCHANGED <<rows, status, req, removed>>

Restart ==
    /\ status # ""
    /\ LET sc == [tenant |-> DefaultTenant, org |-> NoOrg]
       IN snap' = [s \in Scopes |-> IF s = sc THEN Snapshot(sc) ELSE NoPartition]
    /\ status' = ""
    /\ req' = [c \in Clients |-> Nothing]
    /\ UNCHANGED <<rows, removed>>

Next ==
    \/ \E c \in Clients :
        \/ PublishKey(c) \/ PublishModule(c)
        \/ \E sc \in Scopes :
            \/ \E k \in Keys : GetKey(c, sc, k) \/ \E v \in Own(sc) : UpdateKey(c, sc, k, v)
            \/ \E keys \in SUBSET Keys, v \in Own(sc) \cup {Blank} :
                   SaveModule(c, sc, keys, [k \in Keys |-> IF k \in Sensitive \/ v # Blank THEN v
                                                           ELSE <<sc, CHOOSE w \in Values : TRUE>>])
            \/ ResetModule(c, sc)
            \/ \E keys \in SUBSET Sensitive : ClearCredentials(c, sc, keys)
    \/ Reconcile \/ Restart

Spec == Init /\ [][Next]_vars
FairSpec == Spec /\ WF_vars(Reconcile) /\ \A c \in Clients : WF_vars(PublishKey(c) \/ PublishModule(c))

-----------------------------------------------------------------------------
(* Properties. *)

(* Every variable has its type. *)
TypeOK ==
    /\ rows \subseteq Row
    /\ snap \in [Scopes -> [Keys -> Value \cup {Unset}]]
    /\ status \in {"", "saved_and_applied", "saved_pending_reload", "saved_pending_restart",
                   "saved_pending_migration"}
    /\ \A c \in Clients : req[c].todo \in {"none", "key", "module"}
    /\ removed \subseteq Scopes \X Keys \X Value

(* The rows that go or come in one step are all of one scope: no request   *)
(* of an organization touches the value of its tenant, which others        *)
(* inherit, nor one of a tenant the override of an organization.           *)
OneWritten == \A q, r \in (rows \ rows') \cup (rows' \ rows) : q.scope = r.scope
OneScopeWritten == [][OneWritten]_rows

(* A partition of the snapshot holds values of its own scope or inherited  *)
(* from its tenant only, whoever else has read or saved.                   *)
NoLeak == \A sc \in Scopes, k \in Keys :
              snap[sc][k] \in Own(sc) \cup Own(Parent(sc)) \cup {Default, Deployed, Unset}

(* A credential that has been cleared is not in force again, not even an   *)
(* older one, until somebody sets it.                                      *)
ClearedIsGone == \A sc \in Scopes, k \in Sensitive : <<sc, k, Resolved(sc, k)>> \notin removed

(* Isolation between tenants and organizations. *)
ScopesHold == NoLeak /\ ClearedIsGone

(* The version that GET answers with is the one that PUT expects, so that  *)
(* a client can read a key and then update it.                             *)
ReadThenUpdate == \A sc \in Scopes, k \in Keys \ (Sensitive \cup Fixed) :
                      GetVersion(sc, k) = Current(sc, k).version
=============================================================================
