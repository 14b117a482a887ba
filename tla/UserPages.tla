--------------------------------- MODULE UserPages ---------------------------------
(* The pages of the user list.  A page counts the rows that match and then selects its slice of them, *)
(* two statements; an operator walks through the pages while others create and delete users.          *)
EXTENDS Integers, FiniteSets, SequencesExt
CONSTANTS
    Users,            \* the users by their numbers, the order of their ids
    Orgs, NoOrg, OrgOf, ActiveUsers,
    SortKey,          \* the value of the column that the list is sorted by; several may share one
    MaxInt,           \* of the int of the build
    Queries,          \* what may be asked: [page, size, org, status, descending]
    Database,         \* the list is of the database, or of the memory
    MaxWrites
VARIABLES
    table,            \* the users there are
    walk,             \* [at, query, scope, total, got, first, torn: a write came between a count and its slice]
    lasting,          \* the users that have been there since the walk began
    created, deleted  \* whether any was created or deleted since then
vars == <<table, walk, lasting, created, deleted>>

PagesAssumption ==
    /\ Users \subseteq Nat /\ MaxInt \in Nat /\ OrgOf \in [Users -> Orgs \cup {NoOrg}] /\ SortKey \in [Users -> Int]
    /\ \A q \in Queries : {q.page, q.size} \subseteq 0..MaxInt

(* A query that passes: the defaults for what is not given, and no product that leaves the int. *)
Defaulted(q) == [q EXCEPT !.page = IF @ = 0 THEN 1 ELSE @, !.size = IF @ = 0 THEN 20 ELSE @]
Normalize(q) ==
    LET d == Defaulted(q) IN
    IF d.size \in 1..100 /\ d.page >= 1 /\ d.page <= MaxInt \div d.size THEN {d} ELSE {}
\* the organization of the request, for one that has an organization
Narrowed(q, scope) == IF scope = NoOrg THEN {q} ELSE IF q.org \in {NoOrg, scope} THEN {[q EXCEPT !.org = scope]} ELSE {}

filterUsers(q) ==
    {u \in table : /\ q.org = NoOrg \/ OrgOf[u] = q.org
                   /\ q.status = "active" => u \in ActiveUsers
                   /\ q.status = "disabled" => u \notin ActiveUsers}
(* The column, up or down, and then the id: always up in the database, with the column in memory. *)
Before(q, u, v) ==
    LET l == SortKey[u] r == SortKey[v]
    IN  IF l = r THEN IF q.descending /\ ~Database THEN u > v ELSE u < v
        ELSE IF q.descending THEN l > r ELSE l < r
sortUsers(q) == SetToSortSeq(filterUsers(q), LAMBDA u, v : Before(q, u, v))
Wrap(n) == ((n + MaxInt + 1) % (2 * (MaxInt + 1))) - MaxInt - 1
Offset(q) == Wrap((q.page - 1) * q.size)
paginateUsers(q) ==
    LET all == sortUsers(q) IN SubSeq(all, Offset(q) + 1, IF Offset(q) + q.size > Len(all) THEN Len(all) ELSE Offset(q) + q.size)

-------------------------------------------------------------------------------------
Init ==
    /\ table \in {Users, ActiveUsers}
    /\ walk = [at |-> "idle", torn |-> FALSE] /\ lasting = {} /\ created = 0 /\ deleted = 0

(* The first request of a walk is checked; a query that does not pass is refused. *)
Ask ==
    /\ walk.at = "idle"
    /\ \E q \in Queries, scope \in Orgs \cup {NoOrg} : \E n \in Normalize(q) : \E f \in Narrowed(n, scope) :
         walk' = [at |-> "count", query |-> f, scope |-> scope, total |-> 0, got |-> <<>>, first |-> f.page, torn |-> FALSE]
    /\ lasting' = table /\ created' = 0 /\ deleted' = 0 /\ UNCHANGED table
Count ==
    /\ walk.at = "count"
    /\ walk' = [walk EXCEPT !.at = "select", !.total = Cardinality(filterUsers(walk.query))]
    /\ UNCHANGED <<table, lasting, created, deleted>>
Select ==
    /\ walk.at = "select"
    /\ walk' = [walk EXCEPT !.at = "shown", !.got = @ \o paginateUsers(walk.query)]
    /\ UNCHANGED <<table, lasting, created, deleted>>
(* The next page, while the total says that there is one. *)
NextPage ==
    /\ walk.at = "shown"
    /\ \E n \in Normalize([walk.query EXCEPT !.page = @ + 1]) :
         IF walk.query.page * walk.query.size < walk.total
         THEN walk' = [walk EXCEPT !.at = "count", !.query = n]
         ELSE walk' = [walk EXCEPT !.at = "done"]
    /\ UNCHANGED <<table, lasting, created, deleted>>

CreateUser == \E u \in Users \ table :
    /\ created + deleted < MaxWrites
    /\ table' = table \cup {u} /\ created' = created + 1 /\ UNCHANGED <<lasting, deleted>>
    /\ walk' = [walk EXCEPT !.torn = @ \/ walk.at = "select"]
DeleteUser == \E u \in table :
    /\ created + deleted < MaxWrites
    /\ table' = table \ {u} /\ lasting' = lasting \ {u} /\ deleted' = deleted + 1 /\ UNCHANGED <<walk, created>>

Next == Ask \/ Count \/ Select \/ NextPage \/ CreateUser \/ DeleteUser

-------------------------------------------------------------------------------------
Walking == walk.at \in {"shown", "done"}
(* A walk under which nothing was written shows each user once, and as many as it counts. *)
EachOnce ==
    Walking /\ created + deleted = 0 =>
        /\ Len(walk.got) = Cardinality(Range(walk.got))
        /\ walk.at = "done" /\ walk.first = 1 => Range(walk.got) = filterUsers(walk.query) /\ Len(walk.got) = walk.total
(* A walk under which users were only deleted shows no user twice. *)
NoneTwice == Walking /\ created = 0 => Len(walk.got) = Cardinality(Range(walk.got))
(* One under which users were only created misses none of those that were there, as long as each   *)
(* page has the total and the slice of one moment.                                                  *)
NoneMissed ==
    walk.at = "done" /\ walk.first = 1 /\ deleted = 0 /\ ~walk.torn => lasting \cap filterUsers(walk.query) \subseteq Range(walk.got)
(* And no user of another organization is ever shown. *)
OwnOrganization ==
    Walking /\ walk.scope # NoOrg => \A i \in DOMAIN walk.got : OrgOf[walk.got[i]] = walk.scope
(* The slice lies in the list: no product of page and size has left the int (Normalize). *)
SliceInside == walk.at # "idle" => Offset(walk.query) >= 0
PagesHold == SliceInside /\ EachOnce /\ NoneTwice /\ NoneMissed /\ OwnOrganization
=====================================================================================
