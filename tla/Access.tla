--------------------------------- MODULE Access ---------------------------------
(***************************************************************************)
(* Accounts, roles, policies and data scopes (application/iam,             *)
(* platform/iamplatform), the administrators who change them and the       *)
(* requests that are decided on them through the cache of denials in Redis.*)
(*                                                                         *)
(* A change is: the service reads and checks, the store reads and checks   *)
(* again where it does, then writes, and the generation of the cache is    *)
(* raised.  No read locks a row: what is written depends on rows as they   *)
(* were.  A failure at the end leaves the change without the generation.   *)
(* A decision is a chain of reads: the account, its roles, the generation, *)
(* the cached denial, the policies.                                        *)
(*                                                                         *)
(* One tenant (every statement carries its id).  The administrators are    *)
(* allowed to do what they ask for; identifiers are well formed.  A        *)
(* permission's method and path are the permission itself, so that what a  *)
(* policy's pattern matches is a set of permissions.                       *)
(***************************************************************************)
EXTENDS Naturals, FiniteSets

CONSTANTS
    Users, Roles, Perms, Orgs,
    NoOrg,          \* org_id IS NULL: the row, or the caller, is of the whole tenant
    Nobody,         \* an empty user_id or role_id
    Admins,         \* requests to the administration, one operation each
    Scope,          \* the organization each administrator is bound to, or NoOrg
    Clients,        \* requests that have to be authorized
    MaxFaults

(* What the constants have to be. *)
AccessAssumption ==
    /\ Scope \in [Admins -> Orgs \cup {NoOrg}]
    /\ NoOrg \notin Orgs /\ Nobody \notin Users \cup Roles
    /\ MaxFaults \in Nat

VARIABLES
    user, role, perm,       \* gvba_iam_users, _roles, _permissions
    member,                 \* gvba_iam_user_roles, at most one row of a user and a role
    policy, dscope,         \* gvba_iam_policies, gvba_iam_data_scopes
    version, denied,        \* the cache: its generation, and the denials stored under one
    op, pc, seen,           \* administrators: their request, and what they have read
    left,                   \* history: accounts moved away from a writer's organization since it read
    ask, cpc, loc,          \* clients: what they ask for, and what they have read
    judge,                  \* history: the decision each client has to get, or "open"
    unflushed,              \* history: a committed change has not raised the generation
    faults

database == <<user, role, perm, member, policy, dscope>>
cache    == <<version, denied>>
admins   == <<op, pc, seen, left>>
clients  == <<ask, cpc, loc>>
vars     == <<database, cache, admins, clients, judge, unflushed, faults>>

-----------------------------------------------------------------------------
(* Rows, and the requests that the handlers build. *)

Org     == Orgs \cup {NoOrg}
Status  == {"active", "disabled"}
DataScopes == {"all", "own", "org", "custom"}
UserRow == [exists : BOOLEAN, status : Status, org : Org, password : {"old", "new"}]
RoleRow == [exists : BOOLEAN, status : Status, org : Org, scope : DataScopes]
PermRow == [exists : BOOLEAN, org : Org, covers : SUBSET Perms]
Member  == [user : Users, role : Roles, org : Org]
Policy  == [user : Users \cup {Nobody}, role : Roles \cup {Nobody}, covers : SUBSET Perms,
            effect : {"allow", "deny"}, org : Org]
DScope  == [user : Users \cup {Nobody}, role : Roles \cup {Nobody}, scope : DataScopes, org : Org]
NoUser  == [exists |-> FALSE, status |-> "disabled", org |-> NoOrg, password |-> "old"]

(* What a request has read: the account that it patches, those of a batch that the service *)
(* let through, and the accounts, members and permissions that the store will write.       *)
Read   == [row : UserRow, users : SUBSET Users, change : SUBSET Users, members : SUBSET Member,
           covers : SUBSET SUBSET Perms]
Unread == [row |-> NoUser, users |-> {}, change |-> {}, members |-> {}, covers |-> {}]

createUserRequest == [kind : {"CreateUser"}, user : Users, org : Org, status : Status]
(* PATCH: a field that is not set keeps its value. *)
updateUserRequest == [kind : {"UpdateUser"}, user : Users, org : Org \cup {"keep"}, status : Status \cup {"keep"}]
deleteUserRequest == [kind : {"DeleteUser"}, user : Users]
batchStatusRequest == [kind : {"BatchStatus"}, users : SUBSET Users, status : Status]
resetPasswordRequest == [kind : {"ResetPassword"}, user : Users]
createRoleRequest == [kind : {"SaveRole"}, role : Roles, status : Status, scope : DataScopes]
roleUsersRequest == [kind : {"RoleUsers"}, role : Roles, users : SUBSET Users]
rolePermissionsRequest == [kind : {"RolePermissions"}, role : Roles, perms : SUBSET Perms]
(* One resource is enough to tell the operations apart: a binding is given or not. *)
roleDataScopesRequest == [kind : {"RoleScopes"}, role : Roles, scopes : SUBSET DataScopes]
permissionRequest == [kind : {"SavePermission"}, perm : Perms, covers : SUBSET Perms]
policyRequest == [kind : {"SavePolicy"}, user : Users \cup {Nobody}, role : Roles \cup {Nobody},
                  covers : SUBSET Perms, effect : {"allow", "deny"}]
dataScopeRequest == [kind : {"SaveScope"}, user : Users \cup {Nobody}, role : Roles \cup {Nobody}, scope : DataScopes]

-----------------------------------------------------------------------------
(* Who may touch what. *)

checkUserScope(s, row) == s = NoOrg \/ row.org = s
checkRoleScope(s, row) == s = NoOrg \/ row.org \in {NoOrg, s}
(* What a read with the scope s sees: the tenant's rows and its own. *)
organizationReadScope(s, org) == org \in {NoOrg, s}

-----------------------------------------------------------------------------
(* Decisions. *)

(* The roles of u that count for a request in organization s. *)
activeRoleIDs(u, s) ==
    {r \in Roles : /\ role[r].exists /\ role[r].status = "active" /\ organizationReadScope(s, role[r].org)
                   /\ \E m \in member : m.user = u /\ m.role = r /\ organizationReadScope(s, m.org)}

ListPolicies(s) == {p \in policy : organizationReadScope(s, p.org)}

policyMatches(p, u, roles, want) ==
    /\ p.user \in {u, Nobody} /\ p.role \in roles \cup {Nobody}
    /\ p.user # Nobody \/ p.role # Nobody
    /\ want \in p.covers

EvaluatePolicies(policies, u, roles, want) ==
    LET matching == {p \in policies : policyMatches(p, u, roles, want)}
    IN  matching # {} /\ \A p \in matching : p.effect = "allow"

(* The organization of the request, narrowed to the one of the account. *)
BindPrincipal(s, org) == IF s = NoOrg THEN org ELSE s
MayBind(s, org) == s = NoOrg \/ org \in {NoOrg, s}

(* What the tables say of a request, read at once. *)
Granted(q) ==
    LET row == user[q.user]
        s   == BindPrincipal(q.org, row.org)
    IN  /\ row.exists /\ row.status = "active" /\ MayBind(q.org, row.org)
        /\ EvaluatePolicies(ListPolicies(s), q.user, activeRoleIDs(q.user, s), q.perm)

-----------------------------------------------------------------------------
(* The service: what it reads and checks before the write. *)

Patched(row, o) == [row EXCEPT !.org = IF o.org = "keep" THEN @ ELSE o.org,
                               !.status = IF o.status = "keep" THEN @ ELSE o.status]

CreateUserChecks(s, o) == s = NoOrg \/ o.org \in {NoOrg, s}
UpdateUserChecks(s, o) ==
    /\ user[o.user].exists /\ checkUserScope(s, user[o.user])
    /\ s = NoOrg \/ Patched(user[o.user], o).org = s
ResetUserPasswordChecks(s, o) == user[o.user].exists /\ checkUserScope(s, user[o.user])
DeleteUserChecks(s, o) == user[o.user].exists /\ checkUserScope(s, user[o.user])
(* An item that fails gets its own error; the batch goes on with the others. *)
BatchUpdateUserStatusItems(s, o) == {u \in o.users : user[u].exists /\ checkUserScope(s, user[u])}
ReplaceRoleUsersChecks(s, o) ==
    /\ role[o.role].exists /\ checkRoleScope(s, role[o.role])
    /\ \A u \in o.users : user[u].exists /\ checkUserScope(s, user[u])
ReplaceRolePermissionsChecks(s, o) ==
    /\ role[o.role].exists /\ checkRoleScope(s, role[o.role])
    /\ \A p \in o.perms : perm[p].exists /\ organizationReadScope(s, perm[p].org)
ReplaceRoleDataScopesChecks(s, o) == role[o.role].exists /\ checkRoleScope(s, role[o.role])

Passes(s, o) ==
    CASE o.kind = "CreateUser" -> CreateUserChecks(s, o)
      [] o.kind = "UpdateUser" -> UpdateUserChecks(s, o)
      [] o.kind = "ResetPassword" -> ResetUserPasswordChecks(s, o)
      [] o.kind = "DeleteUser" -> DeleteUserChecks(s, o)
      [] o.kind = "BatchStatus" -> BatchUpdateUserStatusItems(s, o) # {}
      [] o.kind = "RoleUsers" -> ReplaceRoleUsersChecks(s, o)
      [] o.kind = "RolePermissions" -> ReplaceRolePermissionsChecks(s, o)
      [] o.kind = "RoleScopes" -> ReplaceRoleDataScopesChecks(s, o)
      [] OTHER -> TRUE      \* SaveRole, SavePermission, SavePolicy, SaveDataScope read nothing

(* The store reads again before these write. *)
ReadsAgain == {"DeleteUser", "BatchStatus", "RoleUsers", "RolePermissions", "RoleScopes"}

Checks(a) ==
    LET o == op[a]
        next == IF o.kind \in ReadsAgain THEN "read" ELSE "write"
    IN
    /\ pc[a] = "new"
    /\ pc' = [pc EXCEPT ![a] = IF Passes(Scope[a], o) THEN next ELSE "refused"]
    /\ seen' = [seen EXCEPT ![a] =
                   [Unread EXCEPT !.row = IF o.kind = "UpdateUser" THEN user[o.user] ELSE NoUser,
                                  !.users = IF o.kind = "BatchStatus" THEN BatchUpdateUserStatusItems(Scope[a], o) ELSE {}]]
    /\ UNCHANGED <<database, cache, op, left, clients, judge, unflushed, faults>>

-----------------------------------------------------------------------------
(* The store: what it reads, and then writes. *)

(* The transaction is committed, or refused. *)
Committed(a) ==
    /\ pc' = [pc EXCEPT ![a] = IF op[a].kind = "ResetPassword" THEN "done" ELSE "invalidate"]
    /\ seen' = [seen EXCEPT ![a] = Unread]
    /\ left' = [b \in Admins |-> IF b = a \/ pc[b] # "write" THEN {}
                                 ELSE left[b] \cup {u \in Users : user[u].org = Scope[b] /\ user'[u].org # Scope[b]}]
    /\ judge' = [c \in Clients |-> "open"]
    /\ UNCHANGED <<op, cache, clients, unflushed, faults>>
Refused(a) ==
    /\ pc' = [pc EXCEPT ![a] = "refused"]
    /\ seen' = [seen EXCEPT ![a] = Unread] /\ left' = [left EXCEPT ![a] = {}]
    /\ UNCHANGED <<database, op, cache, clients, judge, unflushed, faults>>

(* The rows of a status change that the store finds, and those that do not have the status yet. *)
(* First a mutant: the organization of the row is not compared again. *)
FoundAnywhere(a, users) == {u \in users : user[u].exists}
Found(a, users) == {u \in users : user[u].exists /\ checkUserScope(Scope[a], user[u])}
Reads(a, kind) == pc[a] = "read" /\ op[a].kind = kind
Finds(a, found) ==
    /\ pc' = [pc EXCEPT ![a] = "write"] /\ seen' = [seen EXCEPT ![a] = found]
    /\ UNCHANGED <<database, cache, op, left, clients, judge, unflushed, faults>>

ReadDeleteUser(a) ==
    LET found == Found(a, {op[a].user}) IN
    /\ Reads(a, "DeleteUser")
    /\ IF found = {} THEN Refused(a)
       ELSE Finds(a, [seen[a] EXCEPT !.change = {u \in found : user[u].status # "disabled"}])

ReadUserStatuses(a) ==
    LET found == Found(a, seen[a].users) IN
    /\ Reads(a, "BatchStatus")
    /\ IF found = {} THEN Refused(a)
       ELSE Finds(a, [seen[a] EXCEPT !.change = {u \in found : user[u].status # op[a].status}])

ReadRoleUsers(a) ==
    LET o == op[a] IN
    /\ Reads(a, "RoleUsers")
    /\ IF ReplaceRoleUsersChecks(Scope[a], o)
       THEN Finds(a, [seen[a] EXCEPT !.members = {[user |-> u, role |-> o.role, org |-> user[u].org] : u \in o.users}])
       ELSE Refused(a)

ReadRolePermissions(a) ==
    LET o == op[a] IN
    /\ Reads(a, "RolePermissions")
    /\ IF /\ role[o.role].exists /\ checkRoleScope(Scope[a], role[o.role])
          /\ \A p \in o.perms : perm[p].exists /\ (Scope[a] = NoOrg \/ perm[p].org \in {NoOrg, Scope[a]})
       THEN Finds(a, [seen[a] EXCEPT !.covers = {perm[p].covers : p \in o.perms}])
       ELSE Refused(a)

ReadRoleDataScopes(a) ==
    /\ Reads(a, "RoleScopes")
    /\ IF ReplaceRoleDataScopesChecks(Scope[a], op[a]) THEN Finds(a, seen[a]) ELSE Refused(a)

StoreReads(a) ==
    ReadDeleteUser(a) \/ ReadUserStatuses(a) \/ ReadRoleUsers(a) \/ ReadRolePermissions(a) \/ ReadRoleDataScopes(a)

Writes(a, kind) == pc[a] = "write" /\ op[a].kind = kind

CreateUser(a) ==
    LET o == op[a] IN
    /\ Writes(a, "CreateUser")
    /\ IF user[o.user].exists       \* the unique index on the name
       THEN Refused(a)
       ELSE /\ user' = [user EXCEPT ![o.user] = [exists |-> TRUE, status |-> o.status, password |-> "new",
                                                 org |-> IF Scope[a] = NoOrg THEN o.org ELSE Scope[a]]]
            /\ UNCHANGED <<role, perm, member, policy, dscope>> /\ Committed(a)

(* The whole profile is written as it was read, but for the patched fields. *)
UpdateUser(a) ==
    LET new == Patched(seen[a].row, op[a]) IN
    /\ Writes(a, "UpdateUser")
    /\ user' = [user EXCEPT ![op[a].user].org = new.org, ![op[a].user].status = new.status]
    /\ UNCHANGED <<role, perm, member, policy, dscope>> /\ Committed(a)

UpdateUserPassword(a) ==
    /\ Writes(a, "ResetPassword")
    /\ IF checkUserScope(Scope[a], user[op[a].user])
       THEN /\ user' = [user EXCEPT ![op[a].user].password = "new"]
            /\ UNCHANGED <<role, perm, member, policy, dscope>> /\ Committed(a)
       ELSE Refused(a)

(* By tenant and id alone, whatever organization the account is of by now.  MySQL counts *)
(* no row that has the status already; nothing is written then, and the request fails.   *)
SetStatus(a, status) ==
    \/ /\ user' = [u \in Users |-> IF u \in seen[a].change THEN [user[u] EXCEPT !.status = status] ELSE user[u]]
       /\ UNCHANGED <<role, perm, member, policy, dscope>> /\ Committed(a)
    \/ (\E u \in seen[a].change : user[u].status = status) /\ Refused(a)
SoftDeleteUser(a) == Writes(a, "DeleteUser") /\ SetStatus(a, "disabled")
UpdateUserStatuses(a) == Writes(a, "BatchStatus") /\ SetStatus(a, op[a].status)

(* An upsert by the id alone; the handler never names an organization. *)
SaveRole(a) ==
    LET o == op[a] IN
    /\ Writes(a, "SaveRole")
    /\ role' = [role EXCEPT ![o.role] = [exists |-> TRUE, status |-> o.status, org |-> NoOrg, scope |-> o.scope]]
    /\ UNCHANGED <<user, perm, member, policy, dscope>> /\ Committed(a)

(* The rows that a caller replaces: all for a caller of the tenant. *)
MemberSlice(s, m) == s = NoOrg \/ m.org = s
(* The rows of a role that a caller replaces: those of its own organization, or *)
(* for a caller of the tenant those of none.                                    *)
Slice(s, rows, r) == {x \in rows : x.role = r /\ x.org = s}

AssignRoleUsers(a) ==
    LET o == op[a]
        kept == {m \in member : ~(m.role = o.role /\ MemberSlice(Scope[a], m))}
    IN
    /\ Writes(a, "RoleUsers")
       \* A row of another organization, left from before a move, holds the primary key.
    /\ IF \E m \in kept : m.role = o.role /\ m.user \in o.users
       THEN Refused(a)
       ELSE /\ member' = kept \cup seen[a].members
            /\ UNCHANGED <<user, role, perm, policy, dscope>> /\ Committed(a)

AssignRolePermissions(a) ==
    LET o == op[a] IN
    /\ Writes(a, "RolePermissions")
    /\ policy' = (policy \ Slice(Scope[a], policy, o.role)) \cup
                    {[user |-> Nobody, role |-> o.role, covers |-> x, effect |-> "allow", org |-> Scope[a]] : x \in seen[a].covers}
    /\ UNCHANGED <<user, role, perm, member, dscope>> /\ Committed(a)

roleDataScopeSummary(scopes) ==
    IF scopes = {} THEN "own" ELSE IF Cardinality(scopes) = 1 THEN CHOOSE x \in scopes : TRUE ELSE "custom"

(* The role's own row is of every organization that uses the role. *)
AssignRoleDataScopes(a) ==
    LET o == op[a] IN
    /\ Writes(a, "RoleScopes")
    /\ dscope' = (dscope \ Slice(Scope[a], dscope, o.role)) \cup
                    {[user |-> Nobody, role |-> o.role, scope |-> x, org |-> Scope[a]] : x \in o.scopes}
    /\ role' = [role EXCEPT ![o.role].scope = roleDataScopeSummary(o.scopes)]
    /\ UNCHANGED <<user, perm, member, policy>> /\ Committed(a)

SavePermission(a) ==
    LET o == op[a] IN
    /\ Writes(a, "SavePermission")
    /\ perm' = [perm EXCEPT ![o.perm] = [exists |-> TRUE, org |-> Scope[a], covers |-> o.covers]]
    /\ UNCHANGED <<user, role, member, policy, dscope>> /\ Committed(a)

SavePolicy(a) ==
    LET o == op[a] IN
    /\ Writes(a, "SavePolicy")
    /\ policy' = policy \cup {[user |-> o.user, role |-> o.role, covers |-> o.covers,
                               effect |-> o.effect, org |-> Scope[a]]}
    /\ UNCHANGED <<user, role, perm, member, dscope>> /\ Committed(a)

(* The organization of the caller is not filled in: the row is of the whole tenant. *)
SaveDataScope(a) ==
    LET o == op[a] IN
    /\ Writes(a, "SaveScope")
    /\ dscope' = dscope \cup {[user |-> o.user, role |-> o.role, scope |-> o.scope, org |-> NoOrg]}
    /\ UNCHANGED <<user, role, perm, member, policy>> /\ Committed(a)

Write(a) ==
    \/ CreateUser(a) \/ UpdateUser(a) \/ UpdateUserPassword(a) \/ SoftDeleteUser(a) \/ UpdateUserStatuses(a)
    \/ SaveRole(a) \/ AssignRoleUsers(a) \/ AssignRolePermissions(a) \/ AssignRoleDataScopes(a)
    \/ SavePermission(a) \/ SavePolicy(a) \/ SaveDataScope(a)

(* INCR of the generation: every denial stored before is out of reach. *)
Invalidate(a) ==
    /\ pc[a] = "invalidate"
    /\ pc' = [pc EXCEPT ![a] = "done"]
    /\ version' = version + 1 /\ unflushed' = FALSE
    /\ UNCHANGED <<database, denied, op, seen, left, clients, judge, faults>>

(* Redis fails, or the server stops: the change stays, and is answered with an error. *)
InvalidateFails(a) ==
    /\ pc[a] = "invalidate" /\ faults < MaxFaults
    /\ pc' = [pc EXCEPT ![a] = "refused"] /\ unflushed' = TRUE /\ faults' = faults + 1
    /\ UNCHANGED <<database, cache, op, seen, left, clients, judge>>

-----------------------------------------------------------------------------
(* A request is decided. *)

Nothing == [org |-> NoOrg, roles |-> {}, gen |-> 0]
Answer(c, answer) == cpc' = [cpc EXCEPT ![c] = answer]
Decides(c) == UNCHANGED <<database, version, admins, ask, judge, unflushed, faults>>

(* The entry of a decision names the account, its roles, the scope and the request. *)
decisionDigest(c) == [user |-> ask[c].user, roles |-> loc[c].roles, org |-> loc[c].org, perm |-> ask[c].perm]

Settled == ~unflushed /\ \A a \in Admins : pc[a] # "invalidate"

authenticatedUser(c) ==
    LET q == ask[c]
        row == user[q.user]
    IN
    /\ cpc[c] = "new"
    /\ judge' = [judge EXCEPT ![c] = IF Granted(q) THEN IF Settled THEN "allow" ELSE "open" ELSE "deny"]
    /\ IF row.exists /\ row.status = "active" /\ MayBind(q.org, row.org)
       THEN Answer(c, "roles") /\ loc' = [loc EXCEPT ![c].org = BindPrincipal(q.org, row.org)]
       ELSE Answer(c, "deny") /\ UNCHANGED loc
    /\ UNCHANGED <<database, cache, admins, ask, unflushed, faults>>

ResolveSubject(c) ==
    /\ cpc[c] = "roles"
    /\ loc' = [loc EXCEPT ![c].roles = activeRoleIDs(ask[c].user, loc[c].org)]
    /\ Answer(c, "version") /\ Decides(c) /\ UNCHANGED denied

CacheVersion(c) ==
    /\ cpc[c] = "version"
    /\ loc' = [loc EXCEPT ![c].gen = version]
    /\ Answer(c, "lookup") /\ Decides(c) /\ UNCHANGED denied

CacheGet(c) ==
    /\ cpc[c] = "lookup"
    /\ Answer(c, IF <<loc[c].gen, decisionDigest(c)>> \in denied THEN "deny" ELSE "evaluate")
    /\ Decides(c) /\ UNCHANGED <<loc, denied>>

Authorize(c) ==
    /\ cpc[c] = "evaluate"
    /\ Answer(c, IF EvaluatePolicies(ListPolicies(loc[c].org), ask[c].user, loc[c].roles, ask[c].perm)
                 THEN "allow" ELSE "store")
    /\ Decides(c) /\ UNCHANGED <<loc, denied>>

(* Mutant of the next: under the generation of now. *)
SetCurrent(c) ==
    /\ cpc[c] = "store"
    /\ denied' = denied \cup {<<version, decisionDigest(c)>>}
    /\ Answer(c, "deny") /\ Decides(c) /\ UNCHANGED loc

(* Only a denial is stored, under the generation that the lookup has observed. *)
CacheSet(c) ==
    /\ cpc[c] = "store"
    /\ denied' = denied \cup {<<loc[c].gen, decisionDigest(c)>>}
    /\ Answer(c, "deny") /\ Decides(c) /\ UNCHANGED loc

(* Without Redis or the database nothing is allowed: the request ends in an error. *)
DependencyFails(c) ==
    /\ cpc[c] \in {"roles", "version", "lookup", "evaluate", "store"} /\ faults < MaxFaults
    /\ faults' = faults + 1
    /\ Answer(c, "error")
    /\ UNCHANGED <<database, cache, admins, ask, loc, judge, unflushed>>

(* A denial lives thirty seconds; the generation, a year. *)
Expire ==
    /\ denied # {}
    /\ \E d \in denied : denied' = denied \ {d}
    /\ UNCHANGED <<database, version, admins, clients, judge, unflushed, faults>>

-----------------------------------------------------------------------------
(* The requests of the administrators and the clients in "running" arrive. *)
Start(tables, ops, asks, running) ==
    /\ user = tables.user /\ role = tables.role /\ perm = tables.perm
    /\ member = tables.member /\ policy = tables.policy /\ dscope = {}
    /\ version = 0 /\ denied = {}
    /\ op = ops /\ ask = asks
    /\ pc = [a \in Admins |-> IF a \in running THEN "new" ELSE "done"]
    /\ seen = [a \in Admins |-> Unread] /\ left = [a \in Admins |-> {}]
    /\ cpc = [c \in Clients |-> IF c \in running THEN "new" ELSE "error"]
    /\ loc = [c \in Clients |-> Nothing]
    /\ judge = [c \in Clients |-> "open"] /\ unflushed = FALSE /\ faults = 0

Next ==
    \/ \E a \in Admins : Checks(a) \/ StoreReads(a) \/ Write(a) \/ Invalidate(a) \/ InvalidateFails(a)
    \/ \E c \in Clients :
          \/ authenticatedUser(c) \/ ResolveSubject(c) \/ CacheVersion(c) \/ CacheGet(c)
          \/ Authorize(c) \/ CacheSet(c) \/ DependencyFails(c)
    \/ Expire

-----------------------------------------------------------------------------
(* Properties. *)

Requests ==
    UNION {createUserRequest, updateUserRequest, deleteUserRequest, batchStatusRequest, resetPasswordRequest,
           createRoleRequest, roleUsersRequest, rolePermissionsRequest, roleDataScopesRequest,
           permissionRequest, policyRequest, dataScopeRequest}

Question == [user : Users, perm : Perms, org : Org]
Digest   == [user : Users, roles : SUBSET Roles, org : Org, perm : Perms]

(* Type invariant of the tables, the cache and the requests; a user has at most *)
(* one row per role (the primary key of gvba_iam_user_roles), and no denial, nor *)
(* a generation that was read, is of a generation to come.                       *)
TypeOK ==
    /\ user \in [Users -> UserRow] /\ role \in [Roles -> RoleRow] /\ perm \in [Perms -> PermRow]
    /\ member \subseteq Member /\ policy \subseteq Policy /\ dscope \subseteq DScope
    /\ \A m, n \in member : m.user = n.user /\ m.role = n.role => m = n
    /\ version \in Nat /\ denied \subseteq (0..version) \X Digest
    /\ op \in [Admins -> Requests] /\ pc \in [Admins -> {"new", "read", "write", "invalidate", "done", "refused"}]
    /\ seen \in [Admins -> Read] /\ left \in [Admins -> SUBSET Users]
    /\ ask \in [Clients -> Question]
    /\ cpc \in [Clients -> {"new", "roles", "version", "lookup", "evaluate", "store", "allow", "deny", "error"}]
    /\ loc \in [Clients -> [org : Org, roles : SUBSET Roles, gen : 0..version]]
    /\ judge \in [Clients -> {"allow", "deny", "open"}] /\ unflushed \in BOOLEAN /\ faults \in 0..MaxFaults

(* A request during which no change commits gets the decision of the tables as they are: *)
(* a revoked permission or a disabled account is never allowed by what a server or the   *)
(* cache remembers, and once a grant has been answered no denial from before it is       *)
(* served - but for changes whose new generation was not stored.                         *)
DecidedOnRecord ==
    \A c \in Clients : cpc[c] \in {"allow", "deny"} /\ judge[c] # "open" => cpc[c] = judge[c]

(* What an administrator bound to an organization writes or deletes - accounts, the      *)
(* members, policies and bindings of a role - is of that organization, and so are the    *)
(* accounts of the members.  But an account that another administrator moved to another  *)
(* organization after the request had read it is written all the same: an update is by   *)
(* its id, where a password's repeats the organization.  Roles themselves and the        *)
(* bindings of SaveDataScope are of the tenant.                                          *)
Differ(x, y) == (x \ y) \cup (y \ x)
OwnSliceOnly ==
    [][\A a \in Admins :
         pc[a] = "write" /\ pc'[a] # "write" /\ Scope[a] # NoOrg =>
           /\ \A x \in Differ(member, member') \cup Differ(policy, policy') : x.org = Scope[a]
           /\ \A x \in member' \ member : user[x.user].org = Scope[a] \/ x.user \in left[a]
           /\ op[a].kind # "SaveScope" => \A x \in Differ(dscope, dscope') : x.org = Scope[a]
           /\ \A u \in Users : user'[u] # user[u] =>
                \/ user[u].org = Scope[a]
                \/ u \in left[a] /\ op[a].kind # "ResetPassword"
                \/ ~user[u].exists /\ user'[u].org = Scope[a]]_vars
=============================================================================
