------------------------------ MODULE SettingsMemory ------------------------------
(* The settings of one module in a server without a database: rows and a revision per scope in maps  *)
(* under one mutex.  A save names the revision its form was read with; the rows carry versions, which  *)
(* all scopes of a tenant draw from one sequence, and what a scope reads counts the rows it inherits.   *)
EXTENDS Naturals, FiniteSetsExt
CONSTANTS
    Clients,
    Scopes, NoOrg,      \* records of a tenant and an organization, NoOrg in the tenant's own
    Keys, Sensitive,
    Nothing,            \* a client has read nothing
    MaxVersion
VARIABLES
    records,        \* values: [key, scope, version]
    revision,       \* moduleRevision, 0 where there is none
    seen,           \* what each client's form was read with
    unmarked        \* history: rows written key by key that left the revision their scope reads as it was
vars == <<records, revision, seen, unmarked>>

MemoryAssumption ==
    /\ \A s \in Scopes : [s EXCEPT !.org = NoOrg] \in Scopes
    /\ Sensitive \subseteq Keys
    /\ MaxVersion \in Nat

Versions(R) == Max({0} \cup {r.version : r \in R})
Own(s) == {r \in records : r.scope = s}
OfTenant(s) == {r \in records : r.scope.tenant = s.tenant}
\* the latest row of a key in the scope, or else in its tenant's
Latest(s, k) ==
    LET own == {r \in Own(s) : r.key = k}
        inherited == {r \in Own([s EXCEPT !.org = NoOrg]) : r.key = k}
        from == IF own # {} THEN own ELSE inherited
    IN  {r \in from : r.version = Versions(from)}
CurrentRows(s) == UNION {Latest(s, k) : k \in Keys}

\* what CurrentModule tells, and what SaveModule, ResetModule and ClearSensitiveKeys compare with
ReadRevision(s) == Max({revision[s], Versions(CurrentRows(s))})
SaveRevision(s) == IF revision[s] # 0 THEN revision[s] ELSE Versions(CurrentRows(s))
ClearRevision(s) == IF revision[s] # 0 THEN revision[s] ELSE Versions(Own(s))

-----------------------------------------------------------------------------------
(* A client reads the module in a scope. *)
CurrentModule(c, s) ==
    /\ seen' = [seen EXCEPT ![c] = [scope |-> s, revision |-> ReadRevision(s), own |-> Own(s)]]
    /\ UNCHANGED <<records, revision, unmarked>>

\* the service compares with what it reads, the repository with what it keeps: a conflict changes nothing
Agreed(c, kept) ==
    /\ seen[c] # Nothing
    /\ ReadRevision(seen[c].scope) = seen[c].revision
    /\ kept = seen[c].revision

(* A save appends a row per key under one new version. *)
SaveModule(c, ks) ==
    LET s == seen[c].scope
        next == Max({SaveRevision(s), Versions(OfTenant(s))}) + 1
    IN
    /\ Agreed(c, SaveRevision(s))
    /\ next <= MaxVersion
    /\ records' = records \cup {[key |-> k, scope |-> s, version |-> next] : k \in ks}
    /\ revision' = [revision EXCEPT ![s] = next]
    /\ seen' = [seen EXCEPT ![c] = Nothing]
    /\ UNCHANGED unmarked

(* The defaults come back: the rows of the scope go, the revision moves on by one. *)
ResetModule(c) ==
    LET s == seen[c].scope IN
    /\ seen[c] # Nothing
    /\ Own(s) # {}
    /\ Agreed(c, revision[s])
    /\ revision[s] < MaxVersion
    /\ records' = records \ Own(s)
    /\ revision' = [revision EXCEPT ![s] = @ + 1]
    /\ seen' = [seen EXCEPT ![c] = Nothing]
    /\ unmarked' = unmarked \ Own(s)

\* credentials the scope has set are removed; the revision passes every version that is left
ClearSensitiveKeys(c) ==
    LET s == seen[c].scope
        cleared == {r \in Own(s) : r.key \in Sensitive}
        next == Max({ClearRevision(s), Versions(OfTenant(s) \ cleared)}) + 1
    IN
    /\ seen[c] # Nothing
    /\ cleared # {}
    /\ Agreed(c, ClearRevision(s))
    /\ next <= MaxVersion
    /\ records' = records \ cleared
    /\ revision' = [revision EXCEPT ![s] = next]
    /\ seen' = [seen EXCEPT ![c] = Nothing]
    /\ unmarked' = unmarked \ cleared

(* One key, with the version the client sees of it: a row after the key's others in the tenant. *)
Append(s, k) ==
    LET row == [key |-> k, scope |-> s, version |-> Versions({r \in OfTenant(s) : r.key = k}) + 1] IN
    /\ row.version <= MaxVersion
    /\ records' = records \cup {row}
    /\ revision' = [revision EXCEPT ![s] = Max({@, row.version})]
    /\ unmarked' = IF row.version <= ReadRevision(s) THEN unmarked \cup {row} ELSE unmarked
    /\ UNCHANGED seen

Init ==
    /\ records = {} /\ revision = [s \in Scopes |-> 0]
    /\ seen = [c \in Clients |-> Nothing]
    /\ unmarked = {}
Next ==
    \/ \E c \in Clients :
        \/ \E s \in Scopes : CurrentModule(c, s)
        \/ \E ks \in SUBSET Keys \ {{}} : seen[c] # Nothing /\ SaveModule(c, ks)
        \/ ResetModule(c) \/ ClearSensitiveKeys(c)
    \/ \E s \in Scopes, k \in Keys : Append(s, k)

-----------------------------------------------------------------------------------
(* The revision that a scope reads is the one its next save is compared with, but for an organization *)
(* with a revision of its own that inherits a later row: its form is refused until that row goes.     *)
Overtaken(s) == revision[s] # 0 /\ \E r \in CurrentRows(s) : r.scope # s /\ r.version > revision[s]
ReadCanSave == \A s \in Scopes : ReadRevision(s) = SaveRevision(s) \/ Overtaken(s)
(* A revision that is still accepted stands for the rows of the scope that were read with it, but for *)
(* rows written key by key: the version of a key may be behind the revision of its module.             *)
NothingUnseen ==
    \A c \in Clients :
        seen[c] # Nothing /\ Agreed(c, SaveRevision(seen[c].scope)) => Own(seen[c].scope) \ seen[c].own \subseteq unmarked
(* A version is of one write of a tenant: no two scopes hold the same one of a key. *)
VersionsApart ==
    \A q, r \in records : q.key = r.key /\ q.scope.tenant = r.scope.tenant /\ q.version = r.version => q = r
MemoryHolds == ReadCanSave /\ NothingUnseen /\ VersionsApart

(* A request changes rows of one scope. *)
OneScopeWritten ==
    \A q, r \in (records \cup records') \ (records \cap records') : q.scope = r.scope
=============================================================================
