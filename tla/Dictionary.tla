----------------------------- MODULE Dictionary -----------------------------
(***************************************************************************)
(* Dictionaries: types and items that the system seeds and that tenants    *)
(* and organizations override, as application/dictionary writes them       *)
(* through platform/dictionary.                                            *)
(*                                                                         *)
(* A write of a row is one step with the reads that decide it; the version *)
(* of the type in the scope is then read and written in steps of their     *)
(* own.  The identifiers of rows are numbers that a process counts from 1. *)
(* Names, labels and the order of rows are left out, and so is the audit.  *)
(***************************************************************************)
EXTENDS Naturals, FiniteSets

CONSTANTS
    Clients, ScopeOf,   \* requests, and the scope that each is made in
    System,             \* the scope of the seed
    NoOrg,
    Codes, Values, Texts,
    Seed,               \* identifier of the seeded rows
    MaxIds,             \* bound on the rows that a process creates
    MaxVersion,         \* bound on the version of a type
    MaxRestarts

DictionaryAssumption ==
    /\ System \notin {ScopeOf[c] : c \in Clients}
    /\ Seed \notin Nat
    /\ MaxIds \in Nat /\ MaxVersion \in Nat /\ MaxRestarts \in Nat

VARIABLES
    types, items,       \* gvba_dict_types, gvba_dict_items
    versions,           \* gvba_dict_cache_versions
    counter,            \* idCounter of the process
    req,
    restarts

vars == <<types, items, versions, counter, req, restarts>>

Parent(sc) == [sc EXCEPT !.org = NoOrg]
Scopes     == {System} \cup {ScopeOf[c] : c \in Clients} \cup {Parent(ScopeOf[c]) : c \in Clients}

Type    == [id : Nat \cup {Seed}, scope : Scopes, code : Codes, text : Texts, live : BOOLEAN]
Item    == [id : Nat \cup {Seed}, scope : Scopes, code : Codes, value : Values, text : Texts,
            live : BOOLEAN]
Version == [id : Nat, scope : Scopes, code : Codes, n : Nat]

Idle == [todo |-> "none"]
Bump(code) == [todo |-> "read", code |-> code]

Init ==
    /\ types = {[id |-> Seed, scope |-> System, code |-> CHOOSE k \in Codes : TRUE,
                 text |-> CHOOSE t \in Texts : TRUE, live |-> TRUE]}
    /\ items = {[id |-> Seed, scope |-> System, code |-> CHOOSE k \in Codes : TRUE,
                 value |-> CHOOSE v \in Values : TRUE, text |-> CHOOSE t \in Texts : TRUE,
                 live |-> TRUE]}
    /\ versions = {}
    /\ counter = 0
    /\ req = [c \in Clients |-> Idle]
    /\ restarts = 0

-----------------------------------------------------------------------------
(* The row of a code that a scope sees: its own comes before the tenant's, *)
(* that before the system's.                                               *)

Precedence(sc, r) ==
    IF r.scope = System THEN 1
    ELSE IF r.scope = sc /\ sc.org # NoOrg THEN 3
    ELSE IF r.scope = Parent(sc) THEN 2 ELSE 0
Candidates(sc, code, deleted) ==
    {r \in types : r.code = code /\ Precedence(sc, r) > 0 /\ (deleted \/ r.live)}
FindType(sc, code, deleted) ==
    {r \in Candidates(sc, code, deleted) :
        \A q \in Candidates(sc, code, deleted) : Precedence(sc, q) <= Precedence(sc, r)}

(* Items are found in the very scope of the request only. *)
FindItems(sc) == {r \in items : r.scope = sc /\ r.live}

Writable(r) == r.live /\ r.scope # System

-----------------------------------------------------------------------------
Call(c) == req[c].todo = "none"
Then(c, r) == req' = [req EXCEPT ![c] = r]

(* A row is refused if its identifier or what must be unique exists; rows  *)
(* that were deleted count.                                                *)
CreateType(c, code, text) ==
    LET sc == ScopeOf[c]
        same == {r \in types : r.scope = sc /\ r.code = code}
    IN /\ Call(c) /\ counter < MaxIds
       /\ counter' = counter + 1
       /\ IF same # {} \/ \E r \in types : r.id = counter + 1
          THEN UNCHANGED <<types, req>>
          ELSE /\ types' = types \cup {[id |-> counter + 1, scope |-> sc, code |-> code,
                                        text |-> text, live |-> TRUE]}
               /\ Then(c, Bump(code))
       /\ UNCHANGED <<items, versions, restarts>>

UpdateType(c, code, text) ==
    /\ Call(c)
    /\ \E r \in FindType(ScopeOf[c], code, TRUE) :
        /\ Writable(r)
        /\ types' = (types \ {r}) \cup {[r EXCEPT !.text = text]}
    /\ Then(c, Bump(code))
    /\ UNCHANGED <<items, versions, counter, restarts>>

(* The row goes only if it is of the very scope; its items stay. *)
DeleteType(c, code) ==
    /\ Call(c)
    /\ \E r \in FindType(ScopeOf[c], code, TRUE) :
        /\ Writable(r) /\ r.scope = ScopeOf[c]
        /\ types' = (types \ {r}) \cup {[r EXCEPT !.live = FALSE]}
    /\ Then(c, Bump(code))
    /\ UNCHANGED <<items, versions, counter, restarts>>

(* One item or an import of several: all of them are created or none. *)
ImportItems(c, code, values, text) ==
    LET sc == ScopeOf[c]
        same == {r \in items : r.scope = sc /\ r.code = code /\ r.value \in values}
        last == counter + Cardinality(values)
    IN /\ Call(c)
       /\ FindType(sc, code, FALSE) # {}
       /\ values # {} /\ last <= MaxIds
       /\ counter' = last
       /\ IF same # {} \/ \E r \in items : r.id \in counter + 1 .. last
          THEN UNCHANGED <<items, req>>
          ELSE /\ \E id \in [values -> counter + 1 .. last] :
                    /\ \A v, w \in values : v # w => id[v] # id[w]
                    /\ items' = items \cup {[id |-> id[v], scope |-> sc, code |-> code, value |-> v,
                                             text |-> text, live |-> TRUE] : v \in values}
               /\ Then(c, Bump(code))
       /\ UNCHANGED <<types, versions, restarts>>

UpdateItem(c, r, value, text) ==
    /\ Call(c)
    /\ r \in FindItems(ScopeOf[c]) /\ Writable(r)
    /\ \A q \in items \ {r} : ~(q.scope = r.scope /\ q.code = r.code /\ q.value = value)
    /\ items' = (items \ {r}) \cup {[r EXCEPT !.value = value, !.text = text]}
    /\ Then(c, Bump(r.code))
    /\ UNCHANGED <<types, versions, counter, restarts>>

DeleteItem(c, r) ==
    /\ Call(c)
    /\ r \in FindItems(ScopeOf[c]) /\ Writable(r)
    /\ items' = (items \ {r}) \cup {[r EXCEPT !.live = FALSE]}
    /\ Then(c, Bump(r.code))
    /\ UNCHANGED <<types, versions, counter, restarts>>

-----------------------------------------------------------------------------
(* BumpVersion reads the version in its transaction without locking it. *)

VersionRow(c) == {v \in versions : v.scope = ScopeOf[c] /\ v.code = req[c].code}

(* The first version of a type needs an identifier too; if that exists the *)
(* request fails, though its change is made.                               *)
FirstVersion(c) ==
    /\ req[c].todo = "read" /\ VersionRow(c) = {}
    /\ counter < MaxIds
    /\ counter' = counter + 1
    /\ versions' = IF \E v \in versions : v.id = counter + 1 THEN versions
                   ELSE versions \cup {[id |-> counter + 1, scope |-> ScopeOf[c],
                                        code |-> req[c].code, n |-> 1]}
    /\ Then(c, Idle)
    /\ UNCHANGED <<types, items, restarts>>

ReadVersion(c) ==
    /\ req[c].todo = "read"
    /\ \E v \in VersionRow(c) :
        v.n < MaxVersion /\ Then(c, [todo |-> "write", code |-> req[c].code, n |-> v.n + 1])
    /\ UNCHANGED <<types, items, versions, counter, restarts>>

WriteVersion(c) ==
    /\ req[c].todo = "write"
    /\ versions' = {IF v \in VersionRow(c) THEN [v EXCEPT !.n = req[c].n] ELSE v : v \in versions}
    /\ Then(c, Idle)
    /\ UNCHANGED <<types, items, counter, restarts>>

(* The process restarts, and counts from 1 again. *)
Restart ==
    /\ restarts < MaxRestarts /\ restarts' = restarts + 1
    /\ counter' = 0
    /\ req' = [c \in Clients |-> Idle]
    /\ UNCHANGED <<types, items, versions>>

Next ==
    \/ \E c \in Clients, code \in Codes, t \in Texts :
        \/ CreateType(c, code, t) \/ UpdateType(c, code, t) \/ DeleteType(c, code)
        \/ \E vs \in SUBSET Values : ImportItems(c, code, vs, t)
        \/ \E r \in items : DeleteItem(c, r) \/ \E v \in Values : UpdateItem(c, r, v, t)
    \/ \E c \in Clients : FirstVersion(c) \/ ReadVersion(c) \/ WriteVersion(c)
    \/ Restart

Spec == Init /\ [][Next]_vars

-----------------------------------------------------------------------------
(* Properties. *)

(* Every variable has its type. *)
TypeOK ==
    /\ types \subseteq Type /\ items \subseteq Item /\ versions \subseteq Version
    /\ counter \in 0..MaxIds
    /\ \A c \in Clients : req[c].todo \in {"none", "read", "write"}
    /\ restarts \in 0..MaxRestarts

(* Requests of one scope leave the seed, and the items of every other      *)
(* scope, as they are: what others see can only be overridden.             *)
Touched(rows, next) == {r.scope : r \in (rows \ next) \cup (next \ rows)}
OwnTouched ==
    /\ System \notin Touched(types, types') \cup Touched(items, items')
    /\ \A sc \in Touched(items, items') :
          \E c \in Clients : ScopeOf[c] = sc /\ req[c].todo = "none" /\ req'[c].todo = "read"
OthersKept == [][OwnTouched]_vars
=============================================================================
