-------------------------------- MODULE AccessCodes --------------------------------
(* The access codes of a signed-in user: which permissions of the catalog the interface may show.   *)
(* A call reads the user's roles, then the permissions, then the policies, each in a statement of   *)
(* its own, and puts to the evaluator that authorises requests one request for each permission.     *)
(* The tables change under the calls as the handlers of module Access change them.                  *)
EXTENDS Naturals, FiniteSets, SequencesExt
CONSTANTS
    Orgs, NoOrg, Roles, RoleOrg, Nobody,
    Catalog,         \* code -> [method, path] of the permissions that the program brings along
    PermissionRows,  \* the rows that may be saved: [code, org, method, path, active]
    Aliases,         \* a code of today -> the codes it had before
    Policies,        \* the policies that may be saved: [role, org, method, path, effect]; Nobody: of the user
    Legacy, Canonical,    \* the two roots of the media catalog
    Methods, Names, Scope, \* of requests: methods, segments of paths, the sentinel among the segments
    MaxEdits
VARIABLES
    policy, permission, assigned, inactive,   \* the tables: policies, permissions, and the user's roles
    call,           \* the call: [at, org, roles, permissions, still: no edit since it began]
    codes, edits
vars == <<policy, permission, assigned, inactive, call, codes, edits>>

Codes == DOMAIN Catalog
Organization == Orgs \cup {NoOrg}
AnyMethod == "ANY"
Star == "*"          \* a segment of a pattern; the last one stands for every continuation
Param == ":"         \* a named segment of a pattern
Everything == <<Star>>
Paths == BoundedSeq(Names \cup {Scope}, 3)
Collection(pattern) == pattern # Everything /\ Last(pattern) = Star

CodesAssumption ==
    /\ Scope \notin {Star, Param} /\ Names \cap {Star, Param} = {}
    /\ DOMAIN Aliases \subseteq Codes
    \* a chain would make the answer depend on the order of a map
    /\ \A c \in DOMAIN Aliases : Aliases[c] \subseteq Codes \ DOMAIN Aliases
    /\ \A r \in PermissionRows : r.code \in Codes /\ r.org \in Organization
    \* no pattern and no policy names the sentinel, and some method is named by no policy
    /\ \A p \in Policies : Scope \notin Range(p.path) /\ p.org \in Organization
    /\ Methods \ {p.method : p \in Policies} # {}

-------------------------------------------------------------------------------------
(* The evaluator of requests. *)

methodMatches(pattern, method) == pattern \in {AnyMethod, method}
mediaCatalogPattern(pattern, root) == pattern \in {root, Append(root, Star)}
mediaCompatibilityPathMatches(pattern, path) ==
    \E <<from, to>> \in {<<Legacy, Canonical>>, <<Canonical, Legacy>>} :
        mediaCatalogPattern(pattern, from) /\ IsPrefix(to, path)
pathMatches(pattern, path) ==
    \/ pattern = Everything \/ pattern = path
    \/ mediaCompatibilityPathMatches(pattern, path)
    \/ Collection(pattern) /\ IsPrefix(Front(pattern), path)
    \/ /\ ~Collection(pattern) /\ Len(pattern) = Len(path)
       /\ \A i \in DOMAIN path : pattern[i] \in {Star, Param, path[i]}

policyMatches(p, roles, method, path) ==
    p.role \in roles \cup {Nobody} /\ methodMatches(p.method, method) /\ pathMatches(p.path, path)
EvaluatePolicies(policies, roles, method, path) ==
    LET matching == {p \in policies : policyMatches(p, roles, method, path)}
    IN  matching # {} /\ \A p \in matching : p.effect = "allow"

-------------------------------------------------------------------------------------
(* The codes. *)

organizationReadScope(s, org) == org \in {NoOrg, s}
activeRoleIDs(s) == {r \in assigned \ inactive : organizationReadScope(s, RoleOrg[r])}
ListPolicies(s) == {p \in policy : organizationReadScope(s, p.org)}
\* the rows that the organization sees, and the catalog for the codes that have none
mergeProductionPermissions(rows) ==
    rows \cup {[code |-> c, org |-> NoOrg, method |-> Catalog[c].method, path |-> Catalog[c].path, active |-> TRUE] :
                 c \in Codes \ {r.code : r \in rows}}
ListPermissions(s) == mergeProductionPermissions({r \in permission : organizationReadScope(s, r.org)})

(* The request that stands for a permission: the root of a collection, any value for a parameter. *)
permissionEvaluationPath(pattern) ==
    CASE pattern = Everything -> <<Scope>>
      [] Collection(pattern) -> Front(pattern)
      [] OTHER -> [i \in DOMAIN pattern |-> IF pattern[i] \in {Star, Param} THEN Scope ELSE pattern[i]]

Allowed(rows, policies, roles) ==
    {r.code : r \in {q \in rows : q.active /\ EvaluatePolicies(policies, roles, q.method, permissionEvaluationPath(q.path))}}
\* mutant of the next: the code of today may be switched off
AliasesAlways(rows, allowed) == {c \in DOMAIN Aliases : Aliases[c] \cap allowed # {}}
\* a code of today that is not switched off stands in for one it had before
productionPermissionAliases(rows, allowed) ==
    {c \in DOMAIN Aliases : (\E r \in rows : r.code = c /\ r.active) /\ Aliases[c] \cap allowed # {}}
ListAccessCodes(rows, policies, roles) ==
    LET allowed == Allowed(rows, policies, roles) IN allowed \cup productionPermissionAliases(rows, allowed)

-------------------------------------------------------------------------------------
Idle == [at |-> "idle", org |-> NoOrg, roles |-> {}, permissions |-> {}, still |-> TRUE]
Init ==
    /\ policy = {} /\ permission = {} /\ assigned = Roles /\ inactive = {}
    /\ call = Idle /\ codes = {} /\ edits = 0

ResolveSubject ==
    /\ call.at = "idle"
    /\ \E s \in Organization :
         call' = [Idle EXCEPT !.at = "permissions", !.org = s, !.roles = activeRoleIDs(s)]
    /\ UNCHANGED <<policy, permission, assigned, inactive, codes, edits>>
ReadPermissions ==
    /\ call.at = "permissions"
    /\ call' = [call EXCEPT !.at = "policies", !.permissions = ListPermissions(call.org)]
    /\ UNCHANGED <<policy, permission, assigned, inactive, codes, edits>>
Evaluate ==
    /\ call.at = "policies"
    /\ call' = [call EXCEPT !.at = "answered"]
    /\ codes' = ListAccessCodes(call.permissions, ListPolicies(call.org), call.roles)
    /\ UNCHANGED <<policy, permission, assigned, inactive, edits>>
Return ==
    /\ call.at = "answered"
    /\ call' = Idle /\ codes' = {}
    /\ UNCHANGED <<policy, permission, assigned, inactive, edits>>

(* What other requests write meanwhile. *)
Edit ==
    /\ edits < MaxEdits /\ edits' = edits + 1
    /\ call' = [call EXCEPT !.still = call.at = "idle"]
    /\ \/ \E p \in Policies : policy' = SymDiff(policy, {p}) /\ UNCHANGED <<permission, assigned, inactive>>
       \/ \E r \in PermissionRows : /\ permission' = {q \in permission : q.code # r.code} \cup {r}
                                    /\ UNCHANGED <<policy, assigned, inactive>>
       \/ \E r \in Roles : assigned' = SymDiff(assigned, {r}) /\ UNCHANGED <<policy, permission, inactive>>
       \/ \E r \in Roles : inactive' = SymDiff(inactive, {r}) /\ UNCHANGED <<policy, permission, assigned>>
    /\ UNCHANGED codes

Next == ResolveSubject \/ ReadPermissions \/ Evaluate \/ Return \/ Edit

-------------------------------------------------------------------------------------
Undisturbed == call.at = "answered" /\ call.still
\* what a middleware decides of a request now
Authorized(method, path) == EvaluatePolicies(ListPolicies(call.org), activeRoleIDs(call.org), method, path)
Covers(r, method, path) == methodMatches(r.method, method) /\ pathMatches(r.path, path)
Through(c) == c \in DOMAIN Aliases /\ Aliases[c] \cap codes # {}

(* A code that is listed, unless an older one brings it, opens something: some request that its    *)
(* permission covers would be authorised, for a collection one for its root (ListAccessCodes and   *)
(* permissionEvaluationPath: the same semantics as Authorize).                                     *)
ListedOpens ==
    Undisturbed => \A c \in codes : ~Through(c) =>
        \E r \in ListPermissions(call.org) : /\ r.code = c /\ r.active
            /\ \E m \in Methods, path \in Paths : /\ Covers(r, m, path) /\ Authorized(m, path)
                                                  /\ Collection(r.path) => path = Front(r.path)
(* A permission of which every request would be authorised is listed, unless it is switched off. *)
OpenIsListed ==
    Undisturbed => \A r \in ListPermissions(call.org) :
        r.active /\ (\A m \in Methods, path \in Paths : Covers(r, m, path) => Authorized(m, path)) => r.code \in codes
(* A permission that a row switches off is not listed, whatever its older codes grant. *)
DisabledStaysOut ==
    Undisturbed => \A r \in ListPermissions(call.org) : ~r.active => r.code \notin codes
(* A grant from before a rename is not stranded. *)
GrantSurvivesRename ==
    Undisturbed => \A r \in ListPermissions(call.org) : r.active /\ Through(r.code) => r.code \in codes
CodesHold == ListedOpens /\ OpenIsListed /\ DisabledStaysOut /\ GrantSurvivesRename
=====================================================================================
