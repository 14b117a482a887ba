------------------------------- MODULE MCAccounts -------------------------------
(* Three components that share no state: Access, Menus and Verification.  A behaviour *)
(* is one of one of them, the others are at rest.                                      *)
EXTENDS Verification
CONSTANTS
    Users, Roles, Perms, Orgs, NoOrg, Nobody, Admins, Clients, Scope, MaxFaults,
    u1, u2, r1, r2, p1, p2, oA, oB, a1, a2, c1, c2,
    Menus, NoMenu, MenuEditors, EditorScope, m1, m2, m3, e1, e2,
    i1, i2, i3, v1, v2, ra, rb, k1
VARIABLES
    part,
    user, role, perm, member, grant, dscope, version, denied, op, apc, seen, left, ask, cpc, loc, judge, unflushed, faults,
    menu, medit, mpc, mread, checked, excused

accessVars == <<user, role, perm, member, grant, dscope, version, denied, op, apc, seen, left, ask, cpc, loc, judge,
                unflushed, faults>>
menuVars == <<menu, medit, mpc, mread, checked, excused>>
codeVars == vars

A == INSTANCE Access WITH policy <- grant, pc <- apc
M == INSTANCE Menus WITH Editors <- MenuEditors, edit <- medit, epc <- mpc, eread <- mread

MCScope == [a \in {a1, a2} |-> IF a = a1 THEN oA ELSE NoOrg]
MCEditorScope == [e \in MenuEditors |-> IF e = e1 THEN oA ELSE NoOrg]

(* The menus of the trees are three, and the editors are of an organization of the run. *)
TreesAssumption ==
    M!MenusAssumption /\ {m1, m2, m3} \subseteq Menus /\ m1 # m2 /\ m1 # m3 /\ m2 # m3 /\ {oA, oB} \subseteq Orgs

ASSUME MCAssumption ==
    /\ A!AccessAssumption /\ TreesAssumption /\ VerificationAssumption
    /\ {u1, u2} \subseteq Users /\ r1 \in Roles /\ p1 \in Perms

(* One user of each organization, a role that a policy and u2 have; two administrators and a request. *)
Account(org) == [exists |-> TRUE, status |-> "active", org |-> org, password |-> "old"]
Tables == [user |-> [u \in Users |-> IF u = u1 THEN Account(oA) ELSE Account(oB)],
           role |-> [r \in Roles |-> [exists |-> TRUE, status |-> "active", org |-> NoOrg, scope |-> "own"]],
           perm |-> [p \in Perms |-> [exists |-> TRUE, org |-> NoOrg, covers |-> {p}]],
           member |-> {[user |-> u2, role |-> r1, org |-> oB]},
           policy |-> {[user |-> Nobody, role |-> r1, covers |-> {p1}, effect |-> "allow", org |-> NoOrg]}]
AdminOps == {[kind |-> "UpdateUser", user |-> u1, org |-> "keep", status |-> "keep"],
        [kind |-> "UpdateUser", user |-> u1, org |-> oB, status |-> "keep"],
        [kind |-> "CreateUser", user |-> u1, org |-> NoOrg, status |-> "active"],
        [kind |-> "DeleteUser", user |-> u1],
        [kind |-> "BatchStatus", users |-> {u1, u2}, status |-> "disabled"],
        [kind |-> "ResetPassword", user |-> u1],
        [kind |-> "SaveRole", role |-> r1, status |-> "disabled", scope |-> "all"],
        [kind |-> "RoleUsers", role |-> r1, users |-> {u1}],
        [kind |-> "RoleUsers", role |-> r1, users |-> {}],
        [kind |-> "RolePermissions", role |-> r1, perms |-> {}],
        [kind |-> "RoleScopes", role |-> r1, scopes |-> {"org"}],
        [kind |-> "SavePermission", perm |-> p1, covers |-> {p1}],
        [kind |-> "SavePolicy", user |-> u1, role |-> Nobody, covers |-> {p1}, effect |-> "allow"],
        [kind |-> "SavePolicy", user |-> u1, role |-> Nobody, covers |-> {p1}, effect |-> "deny"],
        [kind |-> "SaveScope", user |-> Nobody, role |-> r1, scope |-> "all"]}
Questions == [c \in Clients |-> [user |-> u1, perm |-> p1, org |-> NoOrg]]
AccessInit ==
    \/ \E f \in [Admins -> AdminOps] : A!Start(Tables, f, Questions, {a1, a2, c1})
    \/ \E a \in Admins, o \in AdminOps : A!Start(Tables, [x \in Admins |-> o], Questions, {a, c1, c2})
AccessRest == A!Start(Tables, [x \in Admins |-> [kind |-> "ResetPassword", user |-> u1]], Questions, {})

(* Trees of the tenant and of two organizations, and what may be asked for. *)
Dir(org, p, grants) ==
    [exists |-> TRUE, org |-> org, parent |-> p, type |-> "directory", shown |-> TRUE, permission |-> grants]
Leaf(org, p, grants) == [Dir(org, p, grants) EXCEPT !.type = "menu"]
Root == Dir(NoOrg, NoMenu, "none")
MenuTrees ==
    {[m \in Menus |-> IF m = m1 THEN Root ELSE IF m = m2 THEN Dir(oA, m1, "none") ELSE Leaf(oA, m2, "granted")],
     [m \in Menus |-> IF m = m1 THEN Root ELSE IF m = m2 THEN Leaf(NoOrg, m1, "denied") ELSE M!NoRow],
     \* the branch of one organization continues below a menu of another
     [m \in Menus |-> IF m = m1 THEN Root ELSE IF m = m2 THEN Dir(oA, m3, "granted") ELSE Leaf(oB, m1, "none")]}
MenuPatch(m, p, t, v) == [kind |-> "update", menu |-> m, parent |-> p, type |-> t, shown |-> v]
MenuPlans ==
    {MenuPatch(m1, m2, "keep", "keep"), MenuPatch(m1, m3, "keep", "keep"), MenuPatch(m2, m3, "keep", "keep"),
     MenuPatch(m2, NoMenu, "keep", "keep"), MenuPatch(m3, m1, "keep", "keep"),
     MenuPatch(m2, "keep", "button", "keep"), MenuPatch(m1, "keep", "keep", "no")}
    \cup {[kind |-> "delete", menu |-> m] : m \in {m1, m3}}
    \cup {[kind |-> "reorder", moved |-> {m2, m3}, parent |-> m1], [kind |-> "reorder", moved |-> {m2}, parent |-> NoMenu],
          [kind |-> "reorder", moved |-> {m3}, parent |-> m2]}
    \cup {[kind |-> "create", menu |-> m3, parent |-> p, type |-> "menu"] : p \in {m1, m2}}
MenusRest == M!Start([m \in Menus |-> M!NoRow], [e \in MenuEditors |-> [kind |-> "delete", menu |-> m1]])
MenusInit == \E t \in MenuTrees, f \in [MenuEditors -> MenuPlans] : M!Start(t, f)

Issue(r, k, s) == [recipient |-> r, key |-> k, scope |-> s]
Check(i, k, c) == [id |-> i, key |-> k, code |-> c, scope |-> "org"]
Edit(o, k, s, l, x) == [op |-> o, kind |-> k, scope |-> s, live |-> l, max |-> x]
Edits == {Edit("put", k, s, l, 1) : k \in Kinds, s \in {"tenant", "system"}, l \in {"keep", "no"}}
         \cup {Edit("delete", k, s, "keep", 1) : k \in {"caller", "template"}, s \in {"tenant", "system"}}
NoEdit == [e \in Editors |-> Edit("put", "caller", "org", "keep", 1)]
Wrong == [v \in Verifiers |-> Check(i1, NoKey, "wrong")]
CodesInit ==
    \* one key, for one recipient or for two
    \/ \E r \in {ra, rb} :
          Start([i \in Issuers |-> Issue(IF i = i2 THEN r ELSE ra, k1, "org")], Wrong, NoEdit, {i1, i2, i3})
    \* as many codes as the hour allows, and one more
    \/ Start([i \in Issuers |-> Issue(ra, NoKey, "tenant")], Wrong, NoEdit, {i1, i2, i3})
    \* codes that replace each other while they are presented, once or again with a key
    \/ \E c, d \in {"right", "wrong"}, k \in {k1, NoKey} :
          Start([i \in Issuers |-> Issue(ra, NoKey, "tenant")],
                  [v \in Verifiers |-> Check(i1, k, IF v = v1 THEN c ELSE d)], NoEdit, {i1, i2, v1, v2})
    \* changes of the registry
    \/ \E f \in [Editors -> Edits] :
          Start([i \in Issuers |-> Issue(ra, NoKey, "org")], Wrong, f, {i1, v1} \cup Editors)
CodesRest == Start([i \in Issuers |-> Issue(ra, NoKey, "org")], Wrong, NoEdit, {})

MCInit ==
    \/ part = "access" /\ AccessInit /\ MenusRest /\ CodesRest
    \/ part = "menus" /\ AccessRest /\ MenusInit /\ CodesRest
    \/ part = "verification" /\ AccessRest /\ MenusRest /\ CodesInit
MCNext ==
    \/ part = "access" /\ A!Next /\ UNCHANGED <<part, menuVars, codeVars>>
    \/ part = "menus" /\ M!Next /\ UNCHANGED <<part, accessVars, codeVars>>
    \/ part = "verification" /\ Next /\ UNCHANGED <<part, accessVars, menuVars>>
MCSpec == MCInit /\ [][MCNext]_<<part, accessVars, menuVars, codeVars>> /\ Fairness

(* A decision that was not taken while the tables changed is theirs. *)
DecidedOnRecord == part = "access" => A!TypeOK /\ A!DecidedOnRecord
(* A scoped administrator changes the rows of its organization only, but for accounts *)
(* that were moved away after it had read them.                                       *)
OwnSliceOnly == A!OwnSliceOnly
(* What validateMenuParent is there for: no row of the table is above itself. *)
NoCycle == part = "menus" => M!NoCycle
(* The table stays a forest, and the routes are built whatever it holds. *)
RoutesServed == part = "menus" => M!TypeOK /\ M!ForestKept /\ M!RoutesServed
=============================================================================
