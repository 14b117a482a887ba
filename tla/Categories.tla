------------------------------- MODULE Categories -------------------------------
(* The folders of the media library: a forest kept in media_categories (Durable), or in the map of  *)
(* the service when there is no database.  A request is a sequence of statements without a           *)
(* transaction: another request may change the forest between a check and the write it allows.  Two   *)
(* handlers lead here: the one of the files calls the service, the catalog's adds the replay of a key  *)
(* under a mutex of its process.                                                                       *)
EXTENDS Naturals, FiniteSets
CONSTANTS
    Clients,        \* at most one request each at a time
    ServerOf,       \* the process a client talks to
    UsesCatalog,    \* the clients of the catalog's handler, the others use the handler of the files
    Scopes, ScopeOf, \* tenants or their organizations; the one a client is of
    Admins,         \* platform administrators: through the catalog they act in the scope of the folder
    Keys, NoKey,
    Durable,        \* there is a database
    MaxIds, MaxRequests, MaxLost, MaxRestarts
VARIABLES
    rows,           \* the folders by id, those deleted too
    filed,          \* the folders some file is in
    idem, mutex,    \* the catalog of each process: the keys it has answered, and who holds idemMu
    req,            \* the request of each client
    asked, lost, restarts,
    \* history: folders of files stored after the folder was deleted; requests that wrote after another
    \* changed what they had read, or after a walk that was cut short (paired with themselves); keys whose
    \* answer a server did not keep
    late, raced, forgot
vars == <<rows, filed, idem, mutex, req, asked, lost, restarts, late, raced, forgot>>

Root == 0
Idle == [at |-> "idle"]
Ids == 1..MaxIds
Servers == {ServerOf[c] : c \in Clients}

CategoriesAssumption ==
    /\ Admins \subseteq UsesCatalog /\ UsesCatalog \subseteq Clients
    /\ \A c \in Clients : ScopeOf[c] \in Scopes
    /\ NoKey \notin Keys
    /\ {MaxIds, MaxRequests, MaxLost, MaxRestarts} \subseteq Nat

Live == {i \in DOMAIN rows : ~rows[i].deleted}
\* up to the root or to a folder that is not there, or for ever round a cycle
Above(r, i) ==
    LET up[n \in 0..MaxIds] == IF n = 0 THEN {r[i].parent} ELSE
                                  up[n - 1] \cup {r[j].parent : j \in up[n - 1] \cap DOMAIN r}
    IN  up[MaxIds]

Within(c, at) == req[c].at = at
Keyed(c) == req[c].key # NoKey
Kind(c) == [server |-> ServerOf[c], keyed |-> Keyed(c)]
\* what a key stands for
IdemKey(c) == <<req[c].scope, req[c].op, IF req[c].op = "create" THEN Root ELSE req[c].id, req[c].key>>

Free(c) == [s \in Servers |-> IF mutex[s] = {c} THEN {} ELSE mutex[s]]
Answer(c) == req' = [req EXCEPT ![c] = Idle] /\ mutex' = Free(c)
Refuse(c) == Answer(c) /\ UNCHANGED <<rows, filed, idem, lost, late, raced, forgot>>
Step(c, at) ==
    /\ req' = [req EXCEPT ![c].at = at]
    /\ UNCHANGED <<rows, filed, idem, mutex, lost, late, raced, forgot>>
First(op) == IF ~Durable THEN "serve" ELSE IF op = "create" THEN "parent" ELSE "get"

-----------------------------------------------------------------------------------
(* A request arrives: its scope is the caller's, a platform administrator of the catalog names one   *)
(* (create) or takes the folder's (update, delete).  Only the file handler's update moves a folder,    *)
(* and to no request is "no parent" a move to the root.                                                *)
Ask(c) ==
    /\ req[c] = Idle
    /\ asked < MaxRequests
    /\ asked' = asked + 1
    /\ \E op \in {"create", "update", "delete"}, id \in DOMAIN rows \cup {Root}, parent \in DOMAIN rows \cup {Root},
          key \in Keys \cup {NoKey}, scope \in Scopes :
        /\ (op = "create") = (id = Root)
        /\ op = "delete" => parent = Root
        /\ c \notin UsesCatalog => key = NoKey
        /\ c \in UsesCatalog /\ op = "update" => parent = Root
        /\ scope # ScopeOf[c] => c \in Admins /\ op = "create"
        /\ req' = [req EXCEPT ![c] =
               [op |-> op, id |-> id, parent |-> parent, key |-> key, scope |-> scope, old |-> Root,
                up |-> Root, steps |-> 0, over |-> {},
                at |-> IF c \in Admins /\ op # "create" THEN "scope"
                       ELSE IF key # NoKey THEN "lock" ELSE First(op)]]
    /\ UNCHANGED <<rows, filed, idem, mutex, lost, restarts, late, raced, forgot>>

(* The administrator's look at the folder; one that is gone may have been deleted with this key. *)
TargetScope(c) ==
    /\ Within(c, "scope")
    /\ IF req[c].id \in Live
       THEN /\ req' = [req EXCEPT ![c].scope = rows[req[c].id].scope,
                                  ![c].at = IF Keyed(c) THEN "lock" ELSE First(req[c].op)]
            /\ UNCHANGED <<rows, filed, idem, mutex, lost, late, raced, forgot>>
       ELSE Refuse(c)
    /\ UNCHANGED <<asked, restarts>>

(* A key that is known is answered with what it got, or refused when it meant something else; the   *)
(* mutex is held to the end of the request.                                                          *)
LockKey(c) ==
    LET s == ServerOf[c] IN
    /\ Within(c, "lock")
    /\ mutex[s] = {}
    /\ IF IdemKey(c) \in idem[s]
       THEN Refuse(c)
       ELSE /\ mutex' = [mutex EXCEPT ![s] = {c}]
            /\ req' = [req EXCEPT ![c].at = First(req[c].op)]
            /\ UNCHANGED <<rows, filed, idem, lost, late, raced, forgot>>
    /\ UNCHANGED <<asked, restarts>>

-----------------------------------------------------------------------------------
(* Reads of a request, one statement each. *)
MayHold(p, id, scope) == p \in Live /\ rows[p].scope = scope /\ p # id

CheckParent(c) ==
    /\ Within(c, "parent")
    /\ IF req[c].parent = Root \/ MayHold(req[c].parent, Root, req[c].scope)
       THEN Step(c, IF req[c].parent = Root THEN "insert" ELSE "path") ELSE Refuse(c)
    /\ UNCHANGED <<asked, restarts>>

\* the repository reads the parent once more, for the path
ReadPath(c) ==
    /\ Within(c, "path")
    /\ IF req[c].parent \in Live THEN Step(c, "insert") ELSE Refuse(c)
    /\ UNCHANGED <<asked, restarts>>

ReadRow(c) ==
    /\ Within(c, "get")
    /\ IF req[c].id \in Live /\ rows[req[c].id].scope = req[c].scope
       THEN /\ req' = [req EXCEPT ![c].old = rows[req[c].id].parent,
                                  ![c].at = IF req[c].op = "delete" THEN "children"
                                            ELSE IF req[c].parent # Root THEN "target" ELSE "write"]
            /\ UNCHANGED <<rows, filed, idem, mutex, lost, late, raced, forgot>>
       ELSE Refuse(c)
    /\ UNCHANGED <<asked, restarts>>

CheckTarget(c) ==
    /\ Within(c, "target")
    /\ IF MayHold(req[c].parent, req[c].id, req[c].scope)
       THEN /\ req' = [req EXCEPT ![c].up = rows[req[c].parent].parent, ![c].at = "walk"]
            /\ UNCHANGED <<rows, filed, idem, mutex, lost, late, raced, forgot>>
       ELSE Refuse(c)
    /\ UNCHANGED <<asked, restarts>>

\* one ancestor of the new parent; a walk round a cycle is followed once
WalkUp(c) ==
    LET up == req[c].up IN
    /\ Within(c, "walk")
    /\ req[c].steps <= MaxIds
    /\ IF up = Root THEN Step(c, "write")
       ELSE IF up = req[c].id THEN Refuse(c)
       ELSE IF up \notin Live THEN Step(c, "write")
       ELSE /\ req' = [req EXCEPT ![c].up = rows[up].parent, ![c].steps = @ + 1]
            /\ UNCHANGED <<rows, filed, idem, mutex, lost, late, raced, forgot>>
    /\ UNCHANGED <<asked, restarts>>

Empty(i) == \A j \in Live : rows[j].parent # i
ListChildren(c) ==
    /\ Within(c, "children")
    /\ IF \E j \in Live : rows[j].scope = req[c].scope /\ rows[j].parent = req[c].id
       THEN Refuse(c) ELSE Step(c, "files")
    /\ UNCHANGED <<asked, restarts>>

ListFiles(c) ==
    /\ Within(c, "files")
    /\ IF req[c].id \in filed THEN Refuse(c) ELSE Step(c, "remove")
    /\ UNCHANGED <<asked, restarts>>

-----------------------------------------------------------------------------------
(* The write ends the request: its key is remembered, unless the answer of the database was lost; *)
(* the other requests have read what is no longer so.                                              *)
Reads == {"path", "insert", "target", "walk", "write", "children", "files", "remove"}
Changed(after) == \E i \in DOMAIN after :
    i \notin DOMAIN rows \/ after[i].parent # rows[i].parent \/ after[i].deleted # rows[i].deleted
Written(c, after) ==
    \E told \in BOOLEAN :
        /\ told \/ (Durable /\ lost < MaxLost)
        /\ lost' = IF told THEN lost ELSE lost + 1
        /\ rows' = after
        /\ mutex' = Free(c)
        /\ req' = [d \in Clients |->
                      IF d = c THEN Idle
                      ELSE IF req[d].at \in Reads /\ Changed(after) THEN [req[d] EXCEPT !.over = @ \cup {Kind(c)}]
                      ELSE req[d]]
        /\ raced' = raced \cup {<<Kind(c), k>> : k \in req[c].over}
        /\ idem' = IF told /\ Keyed(c)
                   THEN [idem EXCEPT ![ServerOf[c]] = @ \cup {IdemKey(c)}] ELSE idem
        /\ forgot' = IF ~told /\ Keyed(c) THEN forgot \cup {<<ServerOf[c], IdemKey(c)>>} ELSE forgot
        /\ UNCHANGED <<filed, late>>

Row(c, parent) ==
    [parent |-> parent, scope |-> req[c].scope, deleted |-> FALSE,
     by |-> IF Keyed(c) THEN <<ServerOf[c], IdemKey(c)>> ELSE <<>>]
WithNew(c) ==
    [i \in DOMAIN rows \cup {Cardinality(DOMAIN rows) + 1} |->
        IF i \in DOMAIN rows THEN rows[i] ELSE Row(c, req[c].parent)]
InsertRow(c) ==
    /\ Within(c, "insert")
    /\ Cardinality(DOMAIN rows) < MaxIds
    /\ Written(c, WithNew(c))
    /\ UNCHANGED <<asked, restarts>>

\* the whole copy, name and state with it: an update that moves nothing writes the parent it read
WithCopy(c) ==
    [rows EXCEPT ![req[c].id].parent = IF req[c].parent # Root THEN req[c].parent ELSE req[c].old]
WriteRow(c) ==
    /\ Within(c, "write")
    /\ IF req[c].id \in Live THEN Written(c, WithCopy(c)) ELSE Refuse(c)
    /\ UNCHANGED <<asked, restarts>>

WithoutRow(c) == [rows EXCEPT ![req[c].id].deleted = TRUE]
RemoveRow(c) ==
    /\ Within(c, "remove")
    /\ IF req[c].id \in Live /\ rows[req[c].id].scope = req[c].scope THEN Written(c, WithoutRow(c)) ELSE Refuse(c)
    /\ UNCHANGED <<asked, restarts>>

(* Without a database the service decides and writes under its mutex. *)
ServeInMemory(c) ==
    LET p == req[c].parent
        i == req[c].id
        own == i \in Live /\ rows[i].scope = req[c].scope
    IN
    /\ Within(c, "serve")
    /\ \/ /\ req[c].op = "create"
          /\ Cardinality(DOMAIN rows) < MaxIds
          /\ IF p = Root \/ MayHold(p, Root, req[c].scope) THEN Written(c, WithNew(c)) ELSE Refuse(c)
       \/ /\ req[c].op = "update"
          /\ IF own /\ (p = Root \/ (MayHold(p, i, req[c].scope) /\ i \notin Above(rows, p)))
             THEN Written(c, IF p = Root THEN rows ELSE WithCopy(c)) ELSE Refuse(c)
       \/ /\ req[c].op = "delete"
          /\ IF own /\ Empty(i) /\ i \notin filed THEN Written(c, WithoutRow(c)) ELSE Refuse(c)
    /\ UNCHANGED <<asked, restarts>>

-----------------------------------------------------------------------------------
(* An upload names a folder: it is looked up in the map of the service, which stays empty when the *)
(* folders are in the database, and the file is stored after the content was read.                 *)
InMap == IF Durable THEN {} ELSE Live
Upload(c) ==
    /\ req[c] = Idle
    /\ asked < MaxRequests
    /\ asked' = asked + 1
    /\ \E i \in DOMAIN rows :
        /\ i \in InMap /\ rows[i].scope = ScopeOf[c]
        /\ req' = [req EXCEPT ![c] = [at |-> "store", id |-> i, key |-> NoKey]]
    /\ UNCHANGED <<rows, filed, idem, mutex, lost, restarts, late, raced, forgot>>
StoreFile(c) ==
    /\ Within(c, "store")
    /\ filed' = filed \cup {req[c].id}
    /\ late' = IF req[c].id \in Live THEN late ELSE late \cup {req[c].id}
    /\ Answer(c)
    /\ UNCHANGED <<rows, idem, asked, lost, restarts, raced, forgot>>

\* a statement fails, or the client's connection ends: nothing is written; a walk is only cut short
Fail(c) ==
    /\ req[c].at \in Reads \cup {"scope", "parent", "get", "store"}
    /\ IF Within(c, "walk")
       THEN /\ req' = [req EXCEPT ![c].at = "write", ![c].over = @ \cup {Kind(c)}]
            /\ UNCHANGED <<rows, filed, idem, mutex, lost, late, raced, forgot>>
       ELSE Refuse(c)
    /\ UNCHANGED <<asked, restarts>>
\* a process ends with its requests and its answers
Restart(s) ==
    /\ Durable
    /\ restarts < MaxRestarts
    /\ restarts' = restarts + 1
    /\ idem' = [idem EXCEPT ![s] = {}]
    /\ forgot' = forgot \cup {<<s, k>> : k \in idem[s]}
    /\ mutex' = [mutex EXCEPT ![s] = {}]
    /\ req' = [c \in Clients |-> IF ServerOf[c] = s THEN Idle ELSE req[c]]
    /\ UNCHANGED <<rows, filed, asked, lost, late, raced>>

\* the library before the first request
Start(before) ==
    /\ rows = before
    /\ filed = {}
    /\ idem = [s \in Servers |-> {}] /\ mutex = [s \in Servers |-> {}]
    /\ req = [c \in Clients |-> Idle]
    /\ asked = 0 /\ lost = 0 /\ restarts = 0
    /\ late = {} /\ raced = {} /\ forgot = {}
Next ==
    \/ \E c \in Clients :
        \/ Ask(c) \/ TargetScope(c) \/ LockKey(c) \/ CheckParent(c) \/ ReadPath(c) \/ ReadRow(c) \/ CheckTarget(c)
        \/ WalkUp(c) \/ ListChildren(c) \/ ListFiles(c) \/ InsertRow(c) \/ WriteRow(c) \/ RemoveRow(c)
        \/ ServeInMemory(c) \/ Upload(c) \/ StoreFile(c) \/ Fail(c)
    \/ \E s \in Servers : Restart(s)

-----------------------------------------------------------------------------------
Forest == \A i \in Live : i \notin Above(rows, i) /\ rows[i].parent \in Live \cup {Root}

(* As long as no request writes on what another has changed since it read it, or that it could not   *)
(* read, the folders form a forest: none is below itself, none is below one that is gone; requests     *)
(* with a key at one server never do that to each other.  (service.go: the walk over the ancestors in *)
(* UpdateCategory, the list of children in DeleteCategory; catalog.go: idemMu.)                        *)
FoldersHold ==
    /\ raced = {} => Forest
    /\ \A pair \in raced : ~(pair[1].keyed /\ pair[2].keyed /\ pair[1].server = pair[2].server)
(* Every file's folder is there, unless it was deleted while the file was being uploaded. *)
FiledInFolder == filed \ late \subseteq Live
(* The walk of a move meets more folders than there are only round a cycle such a write has made. *)
WalkEnds == \A c \in Clients : req[c].at = "walk" /\ req[c].steps > MaxIds => raced # {}
(* A key creates one folder at a server that keeps its answers. *)
KeyCreatesOne ==
    \A i, j \in DOMAIN rows : i # j /\ rows[i].by = rows[j].by => rows[i].by = <<>> \/ rows[i].by \in forgot
FolderScopes == \A i \in DOMAIN rows : rows[i].parent \in DOMAIN rows => rows[rows[i].parent].scope = rows[i].scope

(* A deleted folder stays as it was. *)
DeletedFolderKept == \A i \in DOMAIN rows : rows[i].deleted => rows'[i] = rows[i]
=============================================================================
