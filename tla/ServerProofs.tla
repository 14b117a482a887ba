---------------------------- MODULE ServerProofs ----------------------------
(* Proofs about what the server stores and holds open (MCServer): module settings, uploaded *)
(* files, backups, imports and exports, the start and end of the process, the export of     *)
(* spans.  Each part has an inductive invariant of its own; the last section puts them      *)
(* together, as each step is one of one part and leaves the variables of the others.        *)
EXTENDS MCServer, FiniteSetTheorems, SequenceTheorems, TLAPS
-----------------------------------------------------------------------------
(* Settings.  What the module keeps for any number of requests, keys and values, whatever   *)
(* fails and restarts: types, the lock of a server, and, on one server, one winner of each  *)
(* revision of the module and valid combinations of what is stored.                         *)
(*                                                                                          *)
(* The rows: every set of versions that the code asks for the highest of   *)
(* has one, and no two rows of a key have the same version.                *)

HasMax(S) == S \subseteq Nat /\ \E m \in S : \A n \in S : m >= n

OfKey(R, k)  == {r \in R : r.key = k}
LiveOf(R, k) == {r \in R : r.key = k /\ r.live}

GoodRows(R) ==
    /\ R \subseteq Row
    /\ HasMax(Versions(R))
    /\ \A k \in Keys : HasMax(Versions(OfKey(R, k))) /\ HasMax(Versions(LiveOf(R, k)))
    /\ \A r, q \in R : r.key = q.key /\ r.version = q.version => r = q

(* The rows that a save or an update adds. *)
NewRows(K, f, v) == {[key |-> k, value |-> f[k], version |-> v, live |-> TRUE] : k \in K}

LEMMA MaxIsHighest ==
    ASSUME NEW S, HasMax(S)
    PROVE  Max(S) \in S /\ Max(S) \in Nat /\ \A n \in S : Max(S) >= n
BY DEF Max, HasMax

LEMMA MaxGrows ==
    ASSUME NEW S, HasMax(S), NEW v \in Nat
    PROVE  HasMax(S \cup {v})
<1>1. PICK m \in S : m \in Nat /\ \A n \in S : m >= n
  BY DEF HasMax
<1>2. CASE v >= m
  <2>1. \A n \in S \cup {v} : v >= n
    BY <1>1, <1>2 DEF HasMax
  <2> QED
    BY <2>1 DEF HasMax
<1>3. CASE ~(v >= m)
  <2>1. \A n \in S \cup {v} : m >= n
    BY <1>1, <1>3 DEF HasMax
  <2> QED
    BY <1>1, <2>1 DEF HasMax
<1> QED
  BY <1>2, <1>3

LEMMA NoRows == GoodRows({})
<1>1. HasMax({0}) /\ Versions({}) = {0}
  BY DEF HasMax, Versions
<1>2. ASSUME NEW k \in Keys PROVE OfKey({}, k) = {} /\ LiveOf({}, k) = {}
  BY DEF OfKey, LiveOf
<1> QED
  BY <1>1, <1>2 DEF GoodRows

LEMMA RowsAdded ==
    ASSUME NEW R, GoodRows(R), NEW K \in SUBSET Keys, NEW f \in Module, NEW v \in Nat \ {0},
           \A r \in R : r.key \in K => r.version # v
    PROVE  GoodRows(R \cup NewRows(K, f, v))
<1> DEFINE N == NewRows(K, f, v)
<1>0. \A k \in K : [key |-> k, value |-> f[k], version |-> v, live |-> TRUE] \in N
  BY DEF NewRows
<1>1. \A r \in N : r \in Row /\ r.key \in K /\ r.version = v /\ r.live
  <2> SUFFICES ASSUME NEW r \in N PROVE r \in Row /\ r.key \in K /\ r.version = v /\ r.live
    OBVIOUS
  <2>1. PICK k \in K : r = [key |-> k, value |-> f[k], version |-> v, live |-> TRUE]
    BY DEF NewRows
  <2>2. k \in Keys /\ f[k] \in Values
    BY DEF Module
  <2> QED
    BY <2>1, <2>2 DEF Row
<1>2. \A r, q \in N : r.key = q.key => r = q
  <2> SUFFICES ASSUME NEW r \in N, NEW q \in N, r.key = q.key PROVE r = q
    OBVIOUS
  <2>1. PICK k \in K : r = [key |-> k, value |-> f[k], version |-> v, live |-> TRUE]
    BY DEF NewRows
  <2>2. PICK j \in K : q = [key |-> j, value |-> f[j], version |-> v, live |-> TRUE]
    BY DEF NewRows
  <2> QED
    BY <2>1, <2>2
<1> HIDE DEF N
<1>4. HasMax(Versions(R \cup N))
  <2>1. Versions(R \cup N) = Versions(R) \/ Versions(R \cup N) = Versions(R) \cup {v}
    BY <1>1 DEF Versions
  <2>2. HasMax(Versions(R))
    BY DEF GoodRows
  <2>3. HasMax(Versions(R) \cup {v})
    BY <2>2, MaxGrows
  <2> QED
    BY <2>1, <2>2, <2>3
<1>5. ASSUME NEW k \in Keys PROVE HasMax(Versions(OfKey(R \cup N, k)))
  <2>1. \/ Versions(OfKey(R \cup N, k)) = Versions(OfKey(R, k))
        \/ Versions(OfKey(R \cup N, k)) = Versions(OfKey(R, k)) \cup {v}
    BY <1>1 DEF Versions, OfKey
  <2>2. HasMax(Versions(OfKey(R, k)))
    BY DEF GoodRows
  <2>3. HasMax(Versions(OfKey(R, k)) \cup {v})
    BY <2>2, MaxGrows
  <2> QED
    BY <2>1, <2>2, <2>3
<1>6. ASSUME NEW k \in Keys PROVE HasMax(Versions(LiveOf(R \cup N, k)))
  <2>1. \/ Versions(LiveOf(R \cup N, k)) = Versions(LiveOf(R, k))
        \/ Versions(LiveOf(R \cup N, k)) = Versions(LiveOf(R, k)) \cup {v}
    BY <1>1 DEF Versions, LiveOf
  <2>2. HasMax(Versions(LiveOf(R, k)))
    BY DEF GoodRows
  <2>3. HasMax(Versions(LiveOf(R, k)) \cup {v})
    BY <2>2, MaxGrows
  <2> QED
    BY <2>1, <2>2, <2>3
<1>7. \A r, q \in R \cup N : r.key = q.key /\ r.version = q.version => r = q
  BY <1>1, <1>2 DEF GoodRows
<1>8. R \cup N \subseteq Row
  BY <1>1 DEF GoodRows
<1>9. GoodRows(R \cup N)
  BY <1>4, <1>5, <1>6, <1>7, <1>8 DEF GoodRows
<1> QED
  BY <1>9 DEF N

LEMMA OneRow ==
    ASSUME NEW r \in Row
    PROVE  GoodRows({r}) /\ Versions({r}) = {0, r.version}
<1>1. r.version \in Nat
  BY DEF Row
<1>2. HasMax({0}) /\ HasMax({0} \cup {r.version})
  <2>1. HasMax({0})
    BY DEF HasMax
  <2> QED
    BY <1>1, <2>1, MaxGrows
<1>3. \A S \in SUBSET {r} : Versions(S) = {0} \/ Versions(S) = {0} \cup {r.version}
  BY DEF Versions
<1>4. Versions({r}) = {0, r.version}
  BY DEF Versions
<1> QED
  BY <1>2, <1>3, <1>4 DEF GoodRows, OfKey, LiveOf

(* What a set of rows says of a key. *)
VersionIn(R, k) == Max(Versions(LiveOf(R, k)))
StoredIn(R, k)  == IF LiveOf(R, k) = {} THEN Default[k]
                   ELSE (CHOOSE r \in LiveOf(R, k) : r.version = VersionIn(R, k)).value

LEMMA StoredIsIn ==
    ASSUME NEW k \in Keys
    PROVE  Stored(k) = StoredIn(table, k) /\ Stored(k)' = StoredIn(table', k)
BY DEF Stored, StoredIn, Version, VersionIn, Live, LiveOf

(* Some row of a key that has a row is the newest. *)
LEMMA NewestIn ==
    ASSUME SettingsAssumption, NEW R, GoodRows(R), NEW k \in Keys
    PROVE  /\ LiveOf(R, k) # {} => \E r \in LiveOf(R, k) : r.version = VersionIn(R, k)
           /\ \A r \in LiveOf(R, k) : r.version <= VersionIn(R, k)
           /\ \A r \in LiveOf(R, k) : r.version = VersionIn(R, k) => StoredIn(R, k) = r.value
           /\ VersionIn(R, k) \in Nat
           /\ StoredIn(R, k) \in Values
<1>1. HasMax(Versions(LiveOf(R, k))) /\ LiveOf(R, k) \subseteq Row /\ LiveOf(R, k) \subseteq R
  BY DEF GoodRows, LiveOf
<1>2. /\ VersionIn(R, k) \in Versions(LiveOf(R, k)) /\ VersionIn(R, k) \in Nat
      /\ \A n \in Versions(LiveOf(R, k)) : VersionIn(R, k) >= n
  BY <1>1, MaxIsHighest DEF VersionIn
<1>3. \A r \in LiveOf(R, k) : r.version \in Versions(LiveOf(R, k)) /\ r.version \in Nat \ {0}
  BY <1>1 DEF Versions, Row
<1>4. \A r \in LiveOf(R, k) : r.version <= VersionIn(R, k)
  BY <1>2, <1>3
<1>5. ASSUME LiveOf(R, k) # {} PROVE \E r \in LiveOf(R, k) : r.version = VersionIn(R, k)
  <2>1. VersionIn(R, k) # 0
    BY <1>2, <1>3, <1>5
  <2> QED
    BY <1>2, <2>1 DEF Versions
<1>6. \A r, q \in LiveOf(R, k) : r.version = q.version => r = q
  BY <1>1 DEF GoodRows, LiveOf
<1>7. ASSUME NEW r \in LiveOf(R, k), r.version = VersionIn(R, k) PROVE StoredIn(R, k) = r.value
  <2>1. (CHOOSE q \in LiveOf(R, k) : q.version = VersionIn(R, k)) = r
    BY <1>6, <1>7
  <2>2. LiveOf(R, k) # {}
    BY <1>7
  <2> QED
    BY <2>1, <2>2 DEF StoredIn
<1>8. StoredIn(R, k) \in Values
  <2>1. CASE LiveOf(R, k) = {}
    BY <2>1 DEF SettingsAssumption, StoredIn
  <2>2. CASE LiveOf(R, k) # {}
    BY <1>1, <1>5, <1>7, <2>2 DEF Row
  <2> QED
    BY <2>1, <2>2
<1> QED
  BY <1>2, <1>4, <1>5, <1>7, <1>8

LEMMA StoredTypes ==
    ASSUME SettingsAssumption, GoodRows(table), NEW k \in Keys
    PROVE  Stored(k) \in Values
BY NewestIn, StoredIsIn

LEMMA HighestIn ==
    ASSUME NEW R, GoodRows(R)
    PROVE  Max(Versions(R)) \in Nat /\ \A r \in R : r.version <= Max(Versions(R))
<1>1. \A r \in R : r.version \in Versions(R) /\ r.version \in Nat
  BY DEF GoodRows, Versions, Row
<1> QED
  <2>1. /\ Max(Versions(R)) \in Nat
        /\ \A n \in Versions(R) : Max(Versions(R)) >= n
    BY MaxIsHighest DEF GoodRows
  <2> QED
    BY <1>1, <2>1

LEMMA RevisionIsHighest ==
    ASSUME GoodRows(table)
    PROVE  Revision \in Nat /\ \A r \in table : r.version <= Revision
BY HighestIn DEF Revision

(* Rows that are only added leave the revision or raise it. *)
LEMMA RevisionGrows ==
    ASSUME GoodRows(table), GoodRows(table'), table \subseteq table'
    PROVE  Revision' \in Nat /\ Revision' >= Revision /\ \A r \in table' : r.version <= Revision'
<1>1. Revision \in Nat /\ Revision \in Versions(table)
  BY MaxIsHighest DEF Revision, GoodRows
<1>2. /\ Revision' = Max(Versions(table')) /\ Revision' \in Nat
      /\ \A n \in Versions(table') : Revision' >= n
  BY MaxIsHighest DEF Revision, GoodRows
<1>3. Versions(table) \subseteq Versions(table')
  BY DEF Versions
<1>4. \A r \in table' : r.version <= Revision'
  BY <1>2, HighestIn
<1> QED
  BY <1>1, <1>2, <1>3, <1>4

(* What is stored after a save: the new values of its keys. *)
LEMMA StoredAdded ==
    ASSUME SettingsAssumption, GoodRows(table), GoodRows(table'),
           NEW K \in SUBSET Keys, NEW f \in Module, NEW v \in Nat,
           table' = table \cup NewRows(K, f, v),
           \A r \in table : r.version < v,
           NEW k \in Keys
    PROVE  Stored(k)' = IF k \in K THEN f[k] ELSE Stored(k)
<1>1. CASE k \in K
  <2> DEFINE r == [key |-> k, value |-> f[k], version |-> v, live |-> TRUE]
  <2>1. r \in LiveOf(table', k)
    BY <1>1 DEF NewRows, LiveOf
  <2>2. \A q \in LiveOf(table', k) : q.version <= v
    <3>1. \A q \in NewRows(K, f, v) : q.version = v
      BY DEF NewRows
    <3>2. \A q \in table : q.version \in Nat
      BY DEF GoodRows, Row
    <3> QED
      BY <3>1, <3>2 DEF LiveOf
  <2>3. PICK q \in LiveOf(table', k) : q.version = VersionIn(table', k)
    BY <2>1, NewestIn
  <2>4. r.version <= VersionIn(table', k) /\ VersionIn(table', k) \in Nat
    BY <2>1, NewestIn
  <2>5. r.version = VersionIn(table', k)
    BY <2>2, <2>3, <2>4
  <2>6. StoredIn(table', k) = r.value
    BY <2>1, <2>5, NewestIn
  <2> QED
    BY <1>1, <2>6, StoredIsIn
<1>2. CASE k \notin K
  <2>1. \A q \in NewRows(K, f, v) : q.key \in K
    BY DEF NewRows
  <2>2. LiveOf(table', k) = LiveOf(table, k)
    BY <1>2, <2>1 DEF LiveOf
  <2> QED
    BY <1>2, <2>2, StoredIsIn DEF StoredIn, VersionIn
<1> QED
  BY <1>1, <1>2

-----------------------------------------------------------------------------
(* Types. *)

(* Update and Rollback are of one key, and a save has read nothing when it *)
(* waits for the lock.                                                     *)
Shape(c) ==
    /\ pc[c] \in {"current", "append", "notify", "push"} => \E k \in Keys : loc[c].keys = {k}
    /\ pc[c] = "lock" => loc[c].todo = Keys

TypeInv == TypeOK /\ GoodRows(table) /\ \A c \in Clients : Shape(c)

LEMMA IdleLocal ==
    ASSUME SettingsAssumption, NEW s \in Servers
    PROVE  Idle(s) \in Local
BY DEF SettingsAssumption, Idle, Local, Op, Module

LEMMA SettingsInitTypes == ASSUME SettingsAssumption, Init PROVE TypeInv
<1>1. (CHOOSE s \in Servers : TRUE) \in Servers
  BY DEF SettingsAssumption
<1>2. Default \in Module
  BY DEF SettingsAssumption, Module
<1>3. TypeOK
  BY <1>1, <1>2, IdleLocal DEF Init, TypeOK, Point, SettingsAssumption
<1>4. GoodRows(table)
  BY NoRows DEF Init
<1>5. ASSUME NEW c \in Clients PROVE Shape(c)
  BY DEF Init, Shape
<1> QED
  BY <1>3, <1>4, <1>5 DEF TypeInv

LEMMA KeyOfUpdate ==
    ASSUME NEW c \in Clients, Shape(c), pc[c] \in {"current", "append", "notify", "push"}
    PROVE  UpdateKey(c) \in Keys /\ loc[c].keys = {UpdateKey(c)}
BY DEF Shape, UpdateKey

(* A request moves on with locals of their type, the others stay. *)
LEMMA GoTypes ==
    ASSUME TypeInv, NEW c \in Clients, NEW l \in Point, NEW m \in Local, Go(c, l),
           loc' = [loc EXCEPT ![c] = m],
           l \in {"current", "append", "notify", "push"} => \E k \in Keys : m.keys = {k},
           l = "lock" => m.todo = Keys
    PROVE  /\ pc' \in [Clients -> Point] /\ loc' \in [Clients -> Local]
           /\ pc'[c] = l /\ loc'[c] = m
           /\ \A d \in Clients \ {c} : pc'[d] = pc[d] /\ loc'[d] = loc[d]
           /\ \A d \in Clients : Shape(d)'
BY DEF TypeInv, TypeOK, Go, Shape

LEMMA StepTypes ==
    ASSUME TypeInv, NEW c \in Clients, NEW l \in Point, Step(c, l), l # "lock",
           l \in {"current", "append", "notify", "push"} =>
               pc[c] \in {"current", "append", "notify", "push"}
    PROVE  /\ pc' \in [Clients -> Point] /\ loc' \in [Clients -> Local]
           /\ pc'[c] = l /\ loc' = loc
           /\ \A d \in Clients \ {c} : pc'[d] = pc[d]
           /\ \A d \in Clients : Shape(d)'
BY DEF TypeInv, TypeOK, Step, Go, Shape

LEMMA SettingsReturnTypes ==
    ASSUME SettingsAssumption, TypeInv, NEW c \in Clients, Return(c)
    PROVE  /\ pc' \in [Clients -> Point] /\ loc' \in [Clients -> Local]
           /\ pc'[c] = "idle" /\ loc'[c] = Idle(At(c))
           /\ \A d \in Clients \ {c} : pc'[d] = pc[d] /\ loc'[d] = loc[d]
           /\ \A d \in Clients : Shape(d)'
<1>1. At(c) \in Servers
  BY DEF TypeInv, TypeOK, Local, At
<1>2. Idle(At(c)) \in Local /\ "idle" \in Point
  BY <1>1, IdleLocal DEF Point
<1> QED
  BY <1>2, GoTypes DEF Return

LEMMA UnlockedTypes ==
    ASSUME TypeInv, NEW c \in Clients
    PROVE  Unlocked(c) \in [Servers -> Clients \cup {NoClient}]
BY DEF TypeInv, TypeOK, Unlocked, Local, At

LEMMA CandidateTypes ==
    ASSUME TypeInv, NEW c \in Clients
    PROVE  Candidate(c) \in Module /\ Changed(c) \subseteq Keys
BY DEF TypeInv, TypeOK, Local, Candidate, Changed, Module

LEMMA VersionsToCome ==
    ASSUME TypeInv, NEW c \in Clients, NEW v \in NextVersion(c)
    PROVE  v \in Nat \ {0} /\ Revision \in Nat /\ loc[c].expected \in Nat
<1>1. Revision \in Nat /\ loc[c].expected \in Nat
  BY RevisionIsHighest DEF TypeInv, TypeOK, Local
<1> QED
  BY <1>1 DEF NextVersion

LEMMA CallTypes ==
    ASSUME SettingsAssumption, TypeInv, NEW c \in Clients, NEW s \in Servers,
           SaveCall(c, s) \/ ResetCall(c, s) \/ UpdateCall(c, s)
    PROVE  /\ TypeInv'
           /\ \A d \in Clients \ {c} : pc'[d] = pc[d] /\ loc'[d] = loc[d]
           /\ pc'[c] \in {"lock", "current"} /\ pc[c] = "idle"
           /\ UNCHANGED <<table, snap, moduleMu, recon, won, keyed>>
<1>1. PICK kind \in Op, keys \in SUBSET Keys, change \in Module, r \in Nat, l \in {"lock", "current"} :
        /\ Call(c, s, kind, keys, change, r, l)
        /\ l = "current" => \E k \in Keys : keys = {k}
  <2>1. CASE SaveCall(c, s)
    <3>1. Revision \in Nat
      BY RevisionIsHighest DEF TypeInv
    <3>2. PICK keys \in SUBSET Keys, change \in Module, r \in 0..Revision :
            Call(c, s, "save", keys, change, r, "lock")
      BY <2>1 DEF SaveCall
    <3>3. r \in Nat /\ "save" \in Op
      BY <3>1 DEF Op
    <3> QED
      BY <3>2, <3>3
  <2>2. CASE ResetCall(c, s)
    <3>1. Revision \in Nat
      BY RevisionIsHighest DEF TypeInv
    <3>2. PICK r \in 0..Revision : Call(c, s, "reset", {}, Default, r, "lock")
      BY <2>2 DEF ResetCall
    <3>3. r \in Nat /\ "reset" \in Op /\ Default \in Module /\ {} \in SUBSET Keys
      BY <3>1 DEF Op, SettingsAssumption, Module
    <3> QED
      BY <3>2, <3>3
  <2>3. CASE UpdateCall(c, s)
    <3>1. Versions(table) \subseteq Nat
      BY DEF TypeInv, GoodRows, HasMax
    <3>2. PICK k \in Keys, change \in Module, v \in Versions(table) :
            Call(c, s, "update", {k}, change, v, "current")
      BY <2>3 DEF UpdateCall
    <3>3. v \in Nat /\ "update" \in Op /\ {k} \in SUBSET Keys
      BY <3>1 DEF Op
    <3> QED
      BY <3>2, <3>3
  <2> QED
    BY <2>1, <2>2, <2>3
<1> DEFINE m == [Idle(s) EXCEPT !.op = kind, !.keys = keys, !.change = change,
                                !.expected = r, !.todo = Keys]
<1>2. m \in Local /\ m.keys = keys /\ m.todo = Keys
  BY IdleLocal DEF Idle, Local, SettingsAssumption, Module
<1>3. /\ pc[c] = "idle" /\ Go(c, l) /\ loc' = [loc EXCEPT ![c] = m]
      /\ calls' = calls + 1
      /\ UNCHANGED <<table, snap, moduleMu, recon, won, keyed, failures>>
  BY <1>1 DEF Call
<1> HIDE DEF m
<1>4. l \in Point
  BY DEF Point
<1>5. /\ pc' \in [Clients -> Point] /\ loc' \in [Clients -> Local]
      /\ \A d \in Clients \ {c} : pc'[d] = pc[d] /\ loc'[d] = loc[d]
      /\ \A d \in Clients : Shape(d)'
      /\ pc'[c] = l
  BY <1>1, <1>2, <1>3, <1>4, GoTypes
<1>6. TypeOK' /\ GoodRows(table)'
  <2>1. TypeOK'
    BY <1>3, <1>5 DEF TypeInv, TypeOK
  <2>2. GoodRows(table')
    BY <1>3 DEF TypeInv
  <2> QED
    BY <2>1, <2>2
<1> QED
  BY <1>3, <1>5, <1>6 DEF TypeInv

(* What a step of a request leaves to the others. *)
Apart(c) ==
    /\ \A d \in Clients \ {c} : pc'[d] = pc[d] /\ loc'[d] = loc[d]
    /\ UNCHANGED recon

LEMMA SaveTypes ==
    ASSUME SettingsAssumption, TypeInv, NEW c \in Clients,
           ModuleLock(c) \/ ReadKey(c) \/ Check(c) \/ Begin(c) \/ Publish(c)
    PROVE  TypeInv' /\ Apart(c) /\ UNCHANGED <<table, won, keyed>>
<1> USE DEF Apart
<1>1. /\ {"idle", "lock", "read", "check", "begin", "commit", "publish"} \subseteq Point
      /\ UNCHANGED <<table, recon, won, keyed, counts>>
      /\ GoodRows(table) /\ At(c) \in Servers
      /\ Unlocked(c) \in [Servers -> Clients \cup {NoClient}]
  BY UnlockedTypes DEF Point, ModuleLock, ReadKey, Check, Begin, Publish, TypeInv, TypeOK, At, Local
<1>2. SUFFICES /\ pc' \in [Clients -> Point] /\ loc' \in [Clients -> Local]
               /\ \A d \in Clients \ {c} : pc'[d] = pc[d] /\ loc'[d] = loc[d]
               /\ \A d \in Clients : Shape(d)'
               /\ snap' \in [Servers -> Module]
               /\ moduleMu' \in [Servers -> Clients \cup {NoClient}]
  <2>1. GoodRows(table')
    BY <1>1
  <2> QED
    BY <1>1, <2>1 DEF TypeInv, TypeOK, counts
<1>3. ASSUME NEW l \in {"read", "check", "begin", "commit", "publish"}, Step(c, l)
      PROVE  /\ pc' \in [Clients -> Point] /\ loc' \in [Clients -> Local]
             /\ \A d \in Clients \ {c} : pc'[d] = pc[d] /\ loc'[d] = loc[d]
             /\ \A d \in Clients : Shape(d)'
  BY <1>1, <1>3, StepTypes
<1>4. ASSUME Leave(c)
      PROVE  /\ pc' \in [Clients -> Point] /\ loc' \in [Clients -> Local]
             /\ \A d \in Clients \ {c} : pc'[d] = pc[d] /\ loc'[d] = loc[d]
             /\ \A d \in Clients : Shape(d)'
             /\ moduleMu' \in [Servers -> Clients \cup {NoClient}]
  BY <1>1, <1>4, SettingsReturnTypes DEF Leave
<1>5. CASE ModuleLock(c)
  <2>1. moduleMu' \in [Servers -> Clients \cup {NoClient}] /\ snap' \in [Servers -> Module]
    BY <1>1, <1>5 DEF ModuleLock, TypeInv, TypeOK
  <2>2. Step(c, "read") \/ Step(c, "check")
    BY <1>5 DEF ModuleLock
  <2> QED
    BY <1>3, <2>1, <2>2
<1>6. CASE ReadKey(c)
  <2>1. moduleMu' \in [Servers -> Clients \cup {NoClient}] /\ snap' \in [Servers -> Module]
    BY <1>6 DEF ReadKey, TypeInv, TypeOK
  <2>2. CASE Step(c, "check") \/ Step(c, "publish")
    BY <1>3, <2>1, <2>2
  <2>3. ASSUME NEW k \in loc[c].todo, UNCHANGED pc,
               loc' = [loc EXCEPT ![c].seen[k] = Stored(k), ![c].todo = @ \ {k}]
        PROVE  /\ pc' \in [Clients -> Point] /\ loc' \in [Clients -> Local]
               /\ \A d \in Clients \ {c} : pc'[d] = pc[d] /\ loc'[d] = loc[d]
               /\ \A d \in Clients : Shape(d)'
    <3>1. k \in Keys /\ Stored(k) \in Values
      BY <1>1, StoredTypes DEF TypeInv, TypeOK, Local
    <3> DEFINE f == [loc[c].seen EXCEPT ![k] = Stored(k)]
               m == [loc[c] EXCEPT !.seen = f, !.todo = @ \ {k}]
    <3>a. loc[c] \in Local
      BY DEF TypeInv, TypeOK
    <3>b. f \in Module
      BY <3>1, <3>a DEF Local, Module
    <3>3. loc' = [loc EXCEPT ![c] = m] /\ pc[c] = "read"
      BY <1>6, <2>3 DEF TypeInv, TypeOK, Local, ReadKey
    <3> HIDE DEF f
    <3>2. m \in Local /\ m.keys = loc[c].keys
      BY <3>a, <3>b DEF Local
    <3> HIDE DEF m
    <3>4. Go(c, "read")
      BY <2>3, <3>3 DEF Go, TypeInv, TypeOK
    <3> QED
      BY <1>1, <3>2, <3>3, <3>4, GoTypes
  <2>4. \/ Step(c, "check") \/ Step(c, "publish")
        \/ \E k \in loc[c].todo :
              UNCHANGED pc /\ loc' = [loc EXCEPT ![c].seen[k] = Stored(k), ![c].todo = @ \ {k}]
    BY <1>6 DEF ReadKey
  <2> QED
    BY <2>1, <2>2, <2>3, <2>4
<1>7. CASE Check(c)
  <2>1. snap' \in [Servers -> Module] /\ ((Step(c, "begin") /\ UNCHANGED moduleMu) \/ Leave(c))
    BY <1>7 DEF Check, TypeInv, TypeOK
  <2>2. moduleMu \in [Servers -> Clients \cup {NoClient}]
    BY DEF TypeInv, TypeOK
  <2> QED
    BY <1>3, <1>4, <2>1, <2>2
<1>8. CASE Begin(c)
  <2>1. snap' \in [Servers -> Module] /\ ((Step(c, "commit") /\ UNCHANGED moduleMu) \/ Leave(c))
    BY <1>8 DEF Begin, TypeInv, TypeOK
  <2>2. moduleMu \in [Servers -> Clients \cup {NoClient}]
    BY DEF TypeInv, TypeOK
  <2> QED
    BY <1>3, <1>4, <2>1, <2>2
<1>9. CASE Publish(c)
  <2>1. Leave(c) /\ snap' = [snap EXCEPT ![At(c)] = Candidate(c)]
    BY <1>9 DEF Publish
  <2>2. snap' \in [Servers -> Module]
    BY <1>1, <2>1, CandidateTypes DEF TypeInv, TypeOK
  <2> QED
    BY <1>4, <2>1, <2>2
<1> QED
  BY <1>5, <1>6, <1>7, <1>8, <1>9

(* What a commit writes: the changed keys under a version of which they    *)
(* have no row yet, or one row in place of all.                            *)
LEMMA CommitTypes ==
    ASSUME SettingsAssumption, TypeInv, NEW c \in Clients, SaveCommit(c) \/ ResetCommit(c)
    PROVE  TypeInv' /\ Apart(c) /\ UNCHANGED <<snap, keyed>>
<1> USE DEF Apart
<1>1. /\ {"idle", "read", "publish"} \subseteq Point
      /\ UNCHANGED <<snap, recon, keyed, counts>>
      /\ Unlocked(c) \in [Servers -> Clients \cup {NoClient}]
  BY UnlockedTypes DEF Point, SaveCommit, ResetCommit
<1>2. SUFFICES /\ pc' \in [Clients -> Point] /\ loc' \in [Clients -> Local]
               /\ \A d \in Clients \ {c} : pc'[d] = pc[d] /\ loc'[d] = loc[d]
               /\ \A d \in Clients : Shape(d)'
               /\ GoodRows(table')
               /\ won' \in [0..MaxCalls -> Nat]
               /\ moduleMu' \in [Servers -> Clients \cup {NoClient}]
  BY <1>1, <1>2 DEF TypeInv, TypeOK, counts, GoodRows
<1>3. ASSUME Win(c) PROVE won' \in [0..MaxCalls -> Nat]
  <2>1. won \in [0..MaxCalls -> Nat]
    BY DEF TypeInv, TypeOK
  <2>2. CASE loc[c].expected \in 0..MaxCalls
    BY <1>3, <2>1, <2>2 DEF Win
  <2>3. CASE loc[c].expected \notin 0..MaxCalls
    <3>1. won' = won
      BY <1>3, <2>1, <2>3 DEF Win
    <3> QED
      BY <2>1, <3>1
  <2> QED
    BY <2>2, <2>3
<1>4. ASSUME NEW l \in {"read", "publish"}, Step(c, l), UNCHANGED moduleMu
      PROVE  /\ pc' \in [Clients -> Point] /\ loc' \in [Clients -> Local]
             /\ \A d \in Clients \ {c} : pc'[d] = pc[d] /\ loc'[d] = loc[d]
             /\ \A d \in Clients : Shape(d)'
             /\ moduleMu' \in [Servers -> Clients \cup {NoClient}]
  <2>1. moduleMu' \in [Servers -> Clients \cup {NoClient}]
    BY <1>4 DEF TypeInv, TypeOK
  <2> QED
    BY <1>1, <1>4, <2>1, StepTypes
<1>5. CASE SaveCommit(c)
  <2>1. PICK v \in NextVersion(c) :
          IF \E r \in table : r.key \in Changed(c) /\ r.version = v
          THEN Leave(c) /\ UNCHANGED <<table, won>>
          ELSE /\ table' = table \cup NewRows(Changed(c), loc[c].change, v)
               /\ Win(c)
               /\ Step(c, "publish") /\ UNCHANGED moduleMu
    BY <1>5 DEF SaveCommit, NewRows
  <2>2. CASE Leave(c) /\ UNCHANGED <<table, won>>
    <3>1. GoodRows(table') /\ won' \in [0..MaxCalls -> Nat]
      BY <2>2 DEF TypeInv, TypeOK
    <3> QED
      BY <1>1, <2>2, <3>1, SettingsReturnTypes DEF Leave
  <2>3. CASE /\ ~\E r \in table : r.key \in Changed(c) /\ r.version = v
             /\ table' = table \cup NewRows(Changed(c), loc[c].change, v)
             /\ Win(c) /\ Step(c, "publish") /\ UNCHANGED moduleMu
    <3>1. v \in Nat \ {0} /\ Changed(c) \in SUBSET Keys /\ loc[c].change \in Module /\ GoodRows(table)
      BY VersionsToCome, CandidateTypes DEF TypeInv, TypeOK, Local
    <3>2. GoodRows(table')
      BY <2>3, <3>1, RowsAdded
    <3> QED
      BY <1>3, <1>4, <2>3, <3>2
  <2> QED
    BY <2>1, <2>2, <2>3
<1>6. CASE ResetCommit(c)
  <2>1. PICK v \in NextVersion(c), k \in Keys :
          IF \E r \in table : r.key = k /\ r.version = v
          THEN Leave(c) /\ UNCHANGED <<table, won>>
          ELSE /\ table' = {[key |-> k, value |-> Default[k], version |-> v, live |-> FALSE]}
               /\ Win(c)
               /\ Step(c, "read") /\ UNCHANGED moduleMu
    BY <1>6 DEF ResetCommit
  <2>2. CASE Leave(c) /\ UNCHANGED <<table, won>>
    <3>1. GoodRows(table') /\ won' \in [0..MaxCalls -> Nat]
      BY <2>2 DEF TypeInv, TypeOK
    <3> QED
      BY <1>1, <2>2, <3>1, SettingsReturnTypes DEF Leave
  <2>3. CASE /\ table' = {[key |-> k, value |-> Default[k], version |-> v, live |-> FALSE]}
             /\ Win(c) /\ Step(c, "read") /\ UNCHANGED moduleMu
    <3>1. [key |-> k, value |-> Default[k], version |-> v, live |-> FALSE] \in Row
      BY VersionsToCome DEF Row, SettingsAssumption
    <3>2. GoodRows(table')
      BY <2>3, <3>1, OneRow
    <3> QED
      BY <1>3, <1>4, <2>3, <3>2
  <2> QED
    BY <2>1, <2>2, <2>3
<1> QED
  BY <1>5, <1>6

(* Update and Rollback, and a failure of the database within a request. *)
LEMMA SettingsUpdateTypes ==
    ASSUME SettingsAssumption, TypeInv, NEW c \in Clients,
           CheckVersion(c) \/ AppendVersion(c) \/ Notify(c) \/ PublishKey(c) \/ Fault(c)
    PROVE  TypeInv' /\ Apart(c) /\ UNCHANGED won
<1> USE DEF Apart
<1>1. /\ {"idle", "append", "notify", "push"} \subseteq Point
      /\ UNCHANGED <<recon, won>>
      /\ calls' \in Nat /\ failures' \in Nat
      /\ keyed' \in BOOLEAN
      /\ Unlocked(c) \in [Servers -> Clients \cup {NoClient}]
      /\ moduleMu \in [Servers -> Clients \cup {NoClient}]
      /\ At(c) \in Servers
  <2>1. UNCHANGED <<recon, won>> /\ keyed' \in BOOLEAN
    BY DEF CheckVersion, AppendVersion, Notify, PublishKey, Fault, TypeInv, TypeOK
  <2>2. calls' = calls /\ (failures' = failures \/ failures' = failures + 1)
    BY DEF CheckVersion, AppendVersion, Notify, PublishKey, Fault, Failure, counts
  <2>3. moduleMu \in [Servers -> Clients \cup {NoClient}] /\ At(c) \in Servers
        /\ calls \in Nat /\ failures \in Nat
    BY DEF TypeInv, TypeOK, At, Local
  <2> QED
    BY <2>1, <2>2, <2>3, UnlockedTypes DEF Point
<1>2. SUFFICES /\ pc' \in [Clients -> Point] /\ loc' \in [Clients -> Local]
               /\ \A d \in Clients \ {c} : pc'[d] = pc[d] /\ loc'[d] = loc[d]
               /\ \A d \in Clients : Shape(d)'
               /\ GoodRows(table')
               /\ snap' \in [Servers -> Module]
               /\ moduleMu' \in [Servers -> Clients \cup {NoClient}]
  BY <1>1, <1>2 DEF TypeInv, TypeOK, GoodRows
<1>3. ASSUME NEW l \in {"append", "notify", "push"}, Step(c, l),
             pc[c] \in {"current", "append", "notify", "push"}
      PROVE  /\ pc' \in [Clients -> Point] /\ loc' \in [Clients -> Local]
             /\ \A d \in Clients \ {c} : pc'[d] = pc[d] /\ loc'[d] = loc[d]
             /\ \A d \in Clients : Shape(d)'
  BY <1>1, <1>3, StepTypes
<1>4. ASSUME Return(c)
      PROVE  /\ pc' \in [Clients -> Point] /\ loc' \in [Clients -> Local]
             /\ \A d \in Clients \ {c} : pc'[d] = pc[d] /\ loc'[d] = loc[d]
             /\ \A d \in Clients : Shape(d)'
  BY <1>1, <1>4, SettingsReturnTypes
<1>5. GoodRows(table) /\ snap \in [Servers -> Module]
  BY DEF TypeInv, TypeOK
<1>6. CASE CheckVersion(c)
  <2>1. UNCHANGED <<table, snap, moduleMu>> /\ pc[c] = "current" /\ (Step(c, "append") \/ Return(c))
    BY <1>6 DEF CheckVersion
  <2> QED
    BY <1>1, <1>3, <1>4, <1>5, <2>1
<1>7. CASE AppendVersion(c)
  <2> DEFINE k == UpdateKey(c)
             v == Max(Versions(OfKey(table, k))) + 1
  <2>1. k \in Keys /\ loc[c].change \in Module
    BY <1>7, KeyOfUpdate DEF AppendVersion, TypeInv, TypeOK, Local
  <2>2. HasMax(Versions(OfKey(table, k)))
    BY <1>5, <2>1 DEF GoodRows
  <2>3. v \in Nat \ {0} /\ \A n \in Versions(OfKey(table, k)) : n # v
    BY <2>2, MaxIsHighest DEF HasMax
  <2>4. \A r \in table : r.key \in {k} => r.version # v
    BY <2>3 DEF Versions, OfKey
  <2>5. table' = table \cup {[key |-> k, value |-> loc[c].change[k], version |-> v, live |-> TRUE]}
    BY <1>7 DEF AppendVersion, OfKey
  <2>6. NewRows({k}, loc[c].change, v)
          = {[key |-> k, value |-> loc[c].change[k], version |-> v, live |-> TRUE]}
    BY DEF NewRows
  <2> HIDE DEF k, v
  <2>7. GoodRows(table')
    <3>1. {k} \in SUBSET Keys
      BY <2>1
    <3> QED
      BY <1>5, <2>1, <2>3, <2>4, <2>5, <2>6, <3>1, RowsAdded
  <2>8. pc[c] = "append" /\ Step(c, "notify") /\ UNCHANGED <<snap, moduleMu>>
    BY <1>7 DEF AppendVersion
  <2> QED
    BY <1>1, <1>3, <1>5, <2>7, <2>8
<1>8. CASE Notify(c)
  <2>1. UNCHANGED <<table, snap, moduleMu>> /\ pc[c] = "notify" /\ Step(c, "push")
    BY <1>8 DEF Notify
  <2> QED
    BY <1>1, <1>3, <1>5, <2>1
<1>9. CASE PublishKey(c)
  <2>1. UpdateKey(c) \in Keys /\ loc[c].change \in Module
    BY <1>9, KeyOfUpdate DEF PublishKey, TypeInv, TypeOK, Local
  <2>2. snap' = [snap EXCEPT ![At(c)][UpdateKey(c)] = loc[c].change[UpdateKey(c)]]
    BY <1>9 DEF PublishKey
  <2>3. loc[c].change[UpdateKey(c)] \in Values
    BY <2>1 DEF Module
  <2>4. snap' \in [Servers -> Module]
    BY <1>1, <1>5, <2>1, <2>2, <2>3 DEF Module
  <2>5. UNCHANGED <<table, moduleMu>> /\ Return(c)
    BY <1>9 DEF PublishKey
  <2> QED
    BY <1>1, <1>4, <1>5, <2>4, <2>5
<1>10. CASE Fault(c)
  <2>1. UNCHANGED <<table, snap>> /\ Return(c) /\ moduleMu' = Unlocked(c)
    BY <1>10 DEF Fault, Leave
  <2> QED
    BY <1>1, <1>4, <1>5, <2>1
<1> QED
  BY <1>6, <1>7, <1>8, <1>9, <1>10

(* A server reconciles, or restarts. *)
LEMMA ServerTypes ==
    ASSUME SettingsAssumption, TypeInv, NEW s \in Servers,
           Reconcile(s) \/ ReconcileFault(s) \/ Restart(s)
    PROVE  TypeInv'
<1>1. UNCHANGED <<table, won, keyed, calls>> /\ failures' \in Nat
  BY DEF Reconcile, ReconcileRead, ReconcileSwap, ReconcileFault, Restart, Failure, TypeInv, TypeOK, counts
<1>2. GoodRows(table')
  BY <1>1 DEF TypeInv
<1>3. Default \in Module /\ Idle(s) \in Local /\ "idle" \in Point
  BY IdleLocal DEF SettingsAssumption, Module, Point
<1>4. CASE ReconcileRead(s)
  <2>1. PICK k \in recon[s].todo : recon' = [recon EXCEPT ![s].seen[k] = Stored(k), ![s].todo = @ \ {k}]
    BY <1>4 DEF ReconcileRead
  <2>2. k \in Keys /\ Stored(k) \in Values
    BY <2>1, StoredTypes DEF TypeInv, TypeOK
  <2> DEFINE f == [recon[s].seen EXCEPT ![k] = Stored(k)]
             m == [recon[s] EXCEPT !.seen = f, !.todo = @ \ {k}]
  <2>3. recon[s] \in [todo : SUBSET Keys, seen : Module]
    BY DEF TypeInv, TypeOK
  <2>4. f \in Module
    BY <2>2, <2>3 DEF Module
  <2>5. recon' = [recon EXCEPT ![s] = m]
    BY <2>1 DEF TypeInv, TypeOK
  <2> HIDE DEF f
  <2>6. m \in [todo : SUBSET Keys, seen : Module]
    BY <2>3, <2>4
  <2> HIDE DEF m
  <2>7. recon' \in [Servers -> [todo : SUBSET Keys, seen : Module]]
    BY <2>5, <2>6 DEF TypeInv, TypeOK
  <2>8. UNCHANGED <<snap, moduleMu, pc, loc>>
    BY <1>4 DEF ReconcileRead, requests
  <2> QED
    BY <1>1, <1>2, <2>7, <2>8 DEF TypeInv, TypeOK, Shape
<1>5. CASE ReconcileSwap(s)
  <2>1. UNCHANGED <<moduleMu, pc, loc>>
    BY <1>5 DEF ReconcileSwap, requests
  <2>2. snap' \in [Servers -> Module]
    BY <1>5 DEF ReconcileSwap, TypeInv, TypeOK
  <2>3. recon' \in [Servers -> [todo : SUBSET Keys, seen : Module]]
    BY <1>3, <1>5 DEF ReconcileSwap, TypeInv, TypeOK
  <2> QED
    BY <1>1, <1>2, <2>1, <2>2, <2>3 DEF TypeInv, TypeOK, Shape
<1>6. CASE ReconcileFault(s)
  BY <1>1, <1>2, <1>3, <1>6 DEF ReconcileFault, requests, TypeInv, TypeOK, Shape
<1>7. CASE Restart(s)
  <2>1. /\ pc' \in [Clients -> Point] /\ loc' \in [Clients -> Local]
        /\ \A c \in Clients : Shape(c)'
    BY <1>3, <1>7 DEF Restart, TypeInv, TypeOK, Shape
  <2>2. snap' \in [Servers -> Module] /\ moduleMu' \in [Servers -> Clients \cup {NoClient}]
    BY <1>3, <1>7 DEF Restart, TypeInv, TypeOK
  <2>3. recon' \in [Servers -> [todo : SUBSET Keys, seen : Module]]
    <3> DEFINE anew == [[recon[s] EXCEPT !.todo = Keys] EXCEPT !.seen = Default]
    <3>1. recon[s] \in [todo : SUBSET Keys, seen : Module]
      BY DEF TypeInv, TypeOK
    <3>2. anew \in [todo : SUBSET Keys, seen : Module]
      BY <1>3, <3>1
    <3>3. recon' = [recon EXCEPT ![s] = anew]
      BY <1>7 DEF Restart, TypeInv, TypeOK
    <3> HIDE DEF anew
    <3> QED BY <3>2, <3>3 DEF TypeInv, TypeOK
  <2> QED
    BY <1>1, <1>2, <2>1, <2>2, <2>3 DEF TypeInv, TypeOK
<1> QED
  BY <1>4, <1>5, <1>6, <1>7 DEF Reconcile

LEMMA NextKeepsTypes == ASSUME SettingsAssumption, TypeInv, [Next]_vars PROVE TypeInv'
<1>1. ASSUME NEW c \in Clients, NEW s \in Servers, SaveCall(c, s) \/ ResetCall(c, s) \/ UpdateCall(c, s)
      PROVE  TypeInv'
  BY <1>1, CallTypes
<1>2. ASSUME NEW c \in Clients, Work(c) \/ Fault(c) PROVE TypeInv'
  BY <1>2, SaveTypes, CommitTypes, SettingsUpdateTypes DEF Work
<1>3. ASSUME NEW s \in Servers, Reconcile(s) \/ ReconcileFault(s) \/ Restart(s) PROVE TypeInv'
  BY <1>3, ServerTypes
<1>4. CASE UNCHANGED vars
  <2>1. UNCHANGED <<table, snap, moduleMu, pc, loc, recon, won, keyed, calls, failures>>
    BY <1>4 DEF vars, requests, counts
  <2>2. GoodRows(table')
    BY <2>1 DEF TypeInv
  <2> QED
    BY <2>1, <2>2 DEF TypeInv, TypeOK, Shape
<1> QED
  BY <1>1, <1>2, <1>3, <1>4 DEF Next

(* Rows, snapshots, the lock and the requests keep their types on any      *)
(* number of servers.                                                      *)
THEOREM TypeCorrect == ASSUME SettingsAssumption PROVE Spec => []TypeOK
<1>1. Init => TypeInv
  BY SettingsInitTypes
<1>2. TypeInv /\ [Next]_vars => TypeInv'
  BY NextKeepsTypes
<1>3. TypeInv => TypeOK
  BY DEF TypeInv
<1> QED
  BY <1>1, <1>2, <1>3, PTL DEF Spec

-----------------------------------------------------------------------------
(* The lock of a server: a save or a reset that is past it holds it.       *)

AtWork == {"read", "check", "begin", "commit", "publish"}

Locking == \A c \in Clients : pc[c] \in AtWork => moduleMu[At(c)] = c

(* What a step of a request does to the lock. *)
LEMMA LockSteps ==
    ASSUME TypeInv, NEW c \in Clients, Work(c) \/ Fault(c)
    PROVE  \/ /\ pc[c] = "lock" /\ moduleMu[At(c)] = NoClient
              /\ moduleMu' = [moduleMu EXCEPT ![At(c)] = c] /\ loc' = loc
           \/ pc'[c] = "idle" /\ moduleMu' = Unlocked(c)
           \/ /\ UNCHANGED moduleMu
              /\ pc'[c] \in AtWork => pc[c] \in AtWork /\ At(c)' = At(c)
<1>1. ASSUME Leave(c) PROVE pc'[c] = "idle" /\ moduleMu' = Unlocked(c)
  BY <1>1 DEF Leave, Return, Go, TypeInv, TypeOK
<1>2. ASSUME NEW l, Step(c, l), pc[c] \in AtWork PROVE pc'[c] \in AtWork => pc[c] \in AtWork /\ At(c)' = At(c)
  BY <1>2 DEF Step, At
<1>3. CASE ModuleLock(c)
  BY <1>3 DEF ModuleLock, Step
<1>4. CASE ReadKey(c)
  <2>1. ASSUME NEW k \in loc[c].todo, loc' = [loc EXCEPT ![c].seen[k] = Stored(k), ![c].todo = @ \ {k}]
        PROVE  At(c)' = At(c)
    BY <2>1 DEF TypeInv, TypeOK, Local, At
  <2> QED
    BY <1>2, <1>4, <2>1 DEF ReadKey, AtWork
<1>5. CASE Check(c)
  BY <1>1, <1>2, <1>5 DEF Check, AtWork
<1>6. CASE Begin(c)
  BY <1>1, <1>2, <1>6 DEF Begin, AtWork
<1>7. CASE SaveCommit(c)
  BY <1>1, <1>2, <1>7 DEF SaveCommit, AtWork
<1>8. CASE ResetCommit(c)
  BY <1>1, <1>2, <1>8 DEF ResetCommit, AtWork
<1>9. CASE Publish(c)
  BY <1>1, <1>9 DEF Publish
<1>10. CASE CheckVersion(c) \/ AppendVersion(c) \/ Notify(c) \/ PublishKey(c)
  BY <1>10 DEF CheckVersion, AppendVersion, Notify, PublishKey, Step, Return, Go, TypeInv, TypeOK, AtWork
<1>11. CASE Fault(c)
  BY <1>1, <1>11 DEF Fault
<1> QED
  BY <1>3, <1>4, <1>5, <1>6, <1>7, <1>8, <1>9, <1>10, <1>11 DEF Work

LEMMA NextKeepsLocks ==
    ASSUME SettingsAssumption, TypeInv, Locking, [Next]_vars
    PROVE  Locking'
<1>0. TypeInv' /\ NoClient \notin Clients
  BY NextKeepsTypes DEF SettingsAssumption
<1>1. ASSUME NEW c \in Clients, NEW s \in Servers, SaveCall(c, s) \/ ResetCall(c, s) \/ UpdateCall(c, s)
      PROVE  Locking'
  <2>1. /\ \A d \in Clients \ {c} : pc'[d] = pc[d] /\ loc'[d] = loc[d]
        /\ pc'[c] \notin AtWork /\ UNCHANGED moduleMu
    BY <1>1, CallTypes DEF AtWork
  <2> QED
    BY <2>1 DEF Locking, At
<1>2. ASSUME NEW c \in Clients, Work(c) \/ Fault(c) PROVE Locking'
  <2>1. Apart(c)
    BY <1>2, SaveTypes, CommitTypes, SettingsUpdateTypes DEF Work
  <2>2. At(c) \in Servers /\ moduleMu \in [Servers -> Clients \cup {NoClient}]
    BY DEF TypeInv, TypeOK, Local, At
  <2>3. CASE /\ moduleMu[At(c)] = NoClient
             /\ moduleMu' = [moduleMu EXCEPT ![At(c)] = c] /\ loc' = loc
    BY <1>0, <2>1, <2>2, <2>3 DEF Locking, Apart, At
  <2>4. CASE pc'[c] = "idle" /\ moduleMu' = Unlocked(c)
    BY <2>1, <2>2, <2>4 DEF Locking, Apart, At, Unlocked, AtWork
  <2>5. CASE /\ UNCHANGED moduleMu
             /\ pc'[c] \in AtWork => pc[c] \in AtWork /\ At(c)' = At(c)
    BY <2>1, <2>5 DEF Locking, Apart, At
  <2> QED
    BY <1>2, <2>3, <2>4, <2>5, LockSteps
<1>3. ASSUME NEW s \in Servers, Reconcile(s) \/ ReconcileFault(s) PROVE Locking'
  BY <1>3 DEF Reconcile, ReconcileRead, ReconcileSwap, ReconcileFault, requests, Locking, At
<1>4. ASSUME NEW s \in Servers, Restart(s) PROVE Locking'
  <2>1. ASSUME NEW c \in Clients, pc'[c] \in AtWork
        PROVE  pc[c] = pc'[c] /\ At(c)' = At(c) /\ At(c) # s
    BY <1>4, <2>1 DEF Restart, AtWork, At
  <2> QED
    BY <1>4, <2>1 DEF Restart, Locking, TypeInv, TypeOK
<1>5. CASE UNCHANGED vars
  BY <1>5 DEF vars, requests, Locking, At
<1> QED
  BY <1>1, <1>2, <1>3, <1>4, <1>5 DEF Next

-----------------------------------------------------------------------------
(* One server.  Its lock makes the saves and resets one after another;     *)
(* Update and Rollback still come in between.                              *)

OneServer == \E s : Servers = {s}

LEMMA Alone ==
    ASSUME OneServer, TypeInv, Locking,
           NEW c \in Clients, NEW d \in Clients, pc[c] \in AtWork, pc[d] \in AtWork
    PROVE  c = d
<1>1. At(c) = At(d)
  BY DEF OneServer, TypeInv, TypeOK, Local, At
<1> QED
  BY <1>1 DEF Locking

(* A save or reset about to commit has been checked: nobody has won at its *)
(* revision or at a later one.                                             *)
Checked(c) ==
    pc[c] \in {"begin", "commit"} =>
        /\ loc[c].expected <= Revision
        /\ \A r \in 0..MaxCalls : won[r] > 0 => r < loc[c].expected
        /\ loc[c].op = "save" => Changed(c) # {}

WinnersInv ==
    /\ \A r \in 0..MaxCalls : won[r] <= 1 /\ (won[r] > 0 => r < Revision)
    /\ \A c \in Clients : Checked(c)

(* A commit follows what was checked, in a later version. *)
LEMMA CommitWins ==
    ASSUME SettingsAssumption, TypeInv, TypeInv', WinnersInv, NEW c \in Clients,
           pc[c] = "commit", Win(c), NEW v \in NextVersion(c), v <= Revision'
    PROVE  \A r \in 0..MaxCalls : won'[r] <= 1 /\ (won'[r] > 0 => r < Revision')
<1>1. /\ \A r \in 0..MaxCalls : won[r] > 0 => r < loc[c].expected
      /\ loc[c].expected <= Revision
  BY DEF WinnersInv, Checked
<1>2. v \in Nat /\ Revision \in Nat /\ loc[c].expected \in Nat /\ v > loc[c].expected
  <2>1. v \in Nat /\ Revision \in Nat /\ loc[c].expected \in Nat
    BY VersionsToCome
  <2> QED
    BY <1>1, <2>1 DEF NextVersion
<1>3. Revision' \in Nat
  BY HighestIn DEF Revision, TypeInv
<1>4. won \in [0..MaxCalls -> Nat] /\ won' = [won EXCEPT ![loc[c].expected] = won[loc[c].expected] + 1]
  BY DEF Win, TypeInv, TypeOK
<1> SUFFICES ASSUME NEW r \in 0..MaxCalls PROVE won'[r] <= 1 /\ (won'[r] > 0 => r < Revision')
  OBVIOUS
<1>5. CASE r = loc[c].expected
  <2>1. won[r] \in Nat /\ ~(won[r] > 0) /\ won'[r] = won[r] + 1
    BY <1>1, <1>2, <1>4, <1>5
  <2> QED
    BY <1>2, <1>3, <1>5, <2>1
<1>6. CASE r # loc[c].expected
  <2>1. won'[r] = won[r] /\ won[r] <= 1 /\ (won[r] > 0 => r < loc[c].expected)
    BY <1>1, <1>4, <1>6 DEF WinnersInv
  <2> QED
    BY <1>2, <1>3, <2>1
<1> QED
  BY <1>5, <1>6

(* A step that writes no row in place of others and lets nobody win keeps  *)
(* what was checked.                                                       *)
LEMMA StaysChecked ==
    ASSUME TypeInv, TypeInv', WinnersInv, table \subseteq table', UNCHANGED won
    PROVE  /\ \A r \in 0..MaxCalls : won'[r] <= 1 /\ (won'[r] > 0 => r < Revision')
           /\ \A c \in Clients : pc'[c] = pc[c] /\ loc'[c] = loc[c] => Checked(c)'
<1>1. Revision' >= Revision /\ Revision' \in Nat /\ Revision \in Nat
  <2>1. GoodRows(table) /\ GoodRows(table')
    BY DEF TypeInv
  <2> QED
    BY <2>1, RevisionGrows, RevisionIsHighest
<1>2. \A r \in 0..MaxCalls : won'[r] <= 1 /\ (won'[r] > 0 => r < Revision')
  BY <1>1 DEF WinnersInv
<1>3. ASSUME NEW c \in Clients, pc'[c] = pc[c], loc'[c] = loc[c] PROVE Checked(c)'
  <2>1. loc[c].expected \in Nat /\ Changed(c)' = Changed(c)
    BY <1>3 DEF TypeInv, TypeOK, Local, Changed
  <2>2. Checked(c)
    BY DEF WinnersInv
  <2> QED
    BY <1>1, <1>3, <2>1, <2>2 DEF Checked
<1> QED
  BY <1>2, <1>3

LEMMA SaveKeepsWinners ==
    ASSUME SettingsAssumption, OneServer, TypeInv, TypeInv', Locking, WinnersInv,
           NEW c \in Clients, Work(c) \/ Fault(c)
    PROVE  WinnersInv'
<1>0. Apart(c)
  BY SaveTypes, CommitTypes, SettingsUpdateTypes DEF Work
<1>1. ASSUME table \subseteq table', UNCHANGED won, Checked(c)' PROVE WinnersInv'
  <2>1. \A r \in 0..MaxCalls : won'[r] <= 1 /\ (won'[r] > 0 => r < Revision')
    BY <1>1, StaysChecked
  <2>2. \A d \in Clients \ {c} : Checked(d)'
    BY <1>0, <1>1, StaysChecked DEF Apart
  <2> QED
    BY <1>1, <2>1, <2>2 DEF WinnersInv
<1>2. ASSUME pc'[c] \notin {"begin", "commit"} PROVE Checked(c)'
  BY <1>2 DEF Checked
<1>3. ASSUME Leave(c) PROVE pc'[c] = "idle"
  BY <1>3 DEF Leave, Return, Go, TypeInv, TypeOK
<1>4. CASE ModuleLock(c) \/ ReadKey(c) \/ Publish(c)
  <2>1. UNCHANGED <<table, won>> /\ pc'[c] \notin {"begin", "commit"}
    BY <1>3, <1>4 DEF ModuleLock, ReadKey, Publish, Step, Go, TypeInv, TypeOK
  <2> QED
    BY <1>1, <1>2, <2>1
<1>5. CASE Check(c)
  <2>1. UNCHANGED <<table, won>>
    BY <1>5 DEF Check
  <2>2. CASE pc'[c] \notin {"begin", "commit"}
    BY <1>1, <1>2, <2>1, <2>2
  <2>3. CASE pc'[c] \in {"begin", "commit"}
    <3>1. /\ Revision = loc[c].expected /\ loc' = loc
          /\ loc[c].op = "save" => Changed(c) # {}
      BY <1>3, <1>5, <2>3 DEF Check, Step
    <3>2. Revision' = Revision /\ Changed(c)' = Changed(c) /\ Revision \in Nat
      BY <2>1, <3>1, RevisionIsHighest DEF Revision, Versions, Changed, TypeInv
    <3>3. Checked(c)'
      BY <2>1, <3>1, <3>2 DEF WinnersInv, Checked
    <3> QED
      BY <1>1, <2>1, <3>3
  <2> QED
    BY <2>2, <2>3
<1>6. CASE Begin(c)
  <2>1. UNCHANGED <<table, won>>
    BY <1>6 DEF Begin
  <2>2. CASE pc'[c] \notin {"begin", "commit"}
    BY <1>1, <1>2, <2>1, <2>2
  <2>3. CASE pc'[c] \in {"begin", "commit"}
    <3>1. pc[c] = "begin" /\ loc' = loc
      BY <1>3, <1>6, <2>3 DEF Begin, Step
    <3>2. Revision' = Revision /\ Changed(c)' = Changed(c)
      BY <2>1, <3>1 DEF Revision, Versions, Changed
    <3>3. Checked(c)'
      BY <2>1, <3>1, <3>2 DEF WinnersInv, Checked
    <3> QED
      BY <1>1, <2>1, <3>3
  <2> QED
    BY <2>2, <2>3
<1>7. ASSUME pc[c] = "commit", pc'[c] \notin {"begin", "commit"} PROVE \A d \in Clients : Checked(d)'
  <2>1. \A d \in Clients \ {c} : pc'[d] = pc[d] /\ pc[d] \notin {"begin", "commit"}
    BY <1>0, <1>7, Alone DEF Apart, AtWork
  <2> QED
    BY <1>7, <2>1 DEF Checked
<1>8. CASE SaveCommit(c)
  <2>1. PICK v \in NextVersion(c) :
          IF \E r \in table : r.key \in Changed(c) /\ r.version = v
          THEN Leave(c) /\ UNCHANGED <<table, won>>
          ELSE /\ table' = table \cup NewRows(Changed(c), loc[c].change, v)
               /\ Win(c)
               /\ Step(c, "publish") /\ UNCHANGED moduleMu
    BY <1>8 DEF SaveCommit, NewRows
  <2>2. CASE Leave(c) /\ UNCHANGED <<table, won>>
    BY <1>1, <1>2, <1>3, <2>2
  <2>3. CASE /\ table' = table \cup NewRows(Changed(c), loc[c].change, v)
             /\ Win(c) /\ Step(c, "publish")
    <3>1. PICK k \in Changed(c) : TRUE
      BY <1>8 DEF SaveCommit, WinnersInv, Checked
    <3>2. [key |-> k, value |-> loc[c].change[k], version |-> v, live |-> TRUE] \in table'
      BY <2>3, <3>1 DEF NewRows
    <3>3. v <= Revision'
      BY <3>2, HighestIn DEF Revision, TypeInv
    <3>4. pc[c] = "commit" /\ pc'[c] = "publish"
      BY <1>8, <2>3 DEF SaveCommit, Step, Go, TypeInv, TypeOK
    <3> QED
      BY <1>7, <2>3, <3>3, <3>4, CommitWins DEF WinnersInv
  <2> QED
    BY <2>1, <2>2, <2>3
<1>9. CASE ResetCommit(c)
  <2>1. PICK v \in NextVersion(c), k \in Keys :
          IF \E r \in table : r.key = k /\ r.version = v
          THEN Leave(c) /\ UNCHANGED <<table, won>>
          ELSE /\ table' = {[key |-> k, value |-> Default[k], version |-> v, live |-> FALSE]}
               /\ Win(c)
               /\ Step(c, "read") /\ UNCHANGED moduleMu
    BY <1>9 DEF ResetCommit
  <2>2. CASE Leave(c) /\ UNCHANGED <<table, won>>
    BY <1>1, <1>2, <1>3, <2>2
  <2>3. CASE /\ table' = {[key |-> k, value |-> Default[k], version |-> v, live |-> FALSE]}
             /\ Win(c) /\ Step(c, "read")
    <3>1. v <= Revision'
      BY <2>3, HighestIn DEF Revision, TypeInv
    <3>2. pc[c] = "commit" /\ pc'[c] = "read"
      BY <1>9, <2>3 DEF ResetCommit, Step, Go, TypeInv, TypeOK
    <3> QED
      BY <1>7, <2>3, <3>1, <3>2, CommitWins DEF WinnersInv
  <2> QED
    BY <2>1, <2>2, <2>3
<1>10. CASE CheckVersion(c) \/ AppendVersion(c) \/ Notify(c) \/ PublishKey(c) \/ Fault(c)
  <2>1. table \subseteq table' /\ UNCHANGED won
    BY <1>10 DEF CheckVersion, AppendVersion, Notify, PublishKey, Fault
  <2>2. pc'[c] \notin {"begin", "commit"}
    BY <1>3, <1>10 DEF CheckVersion, AppendVersion, Notify, PublishKey, Fault, Step, Return, Go, TypeInv, TypeOK
  <2> QED
    BY <1>1, <1>2, <2>1, <2>2
<1> QED
  BY <1>4, <1>5, <1>6, <1>8, <1>9, <1>10 DEF Work

LEMMA NextKeepsWinners ==
    ASSUME SettingsAssumption, OneServer, TypeInv, Locking, WinnersInv, [Next]_vars
    PROVE  WinnersInv'
<1>0. TypeInv'
  BY NextKeepsTypes
<1>1. ASSUME table' = table, UNCHANGED won,
             \A d \in Clients : \/ pc'[d] \notin {"begin", "commit"}
                                \/ pc'[d] = pc[d] /\ loc'[d] = loc[d]
      PROVE  WinnersInv'
  <2>1. \A d \in Clients : pc'[d] \notin {"begin", "commit"} => Checked(d)'
    BY DEF Checked
  <2>2. \A d \in Clients : Checked(d)'
    BY <1>0, <1>1, <2>1, StaysChecked
  <2> QED
    BY <1>0, <1>1, <2>2, StaysChecked DEF WinnersInv
<1>2. ASSUME NEW c \in Clients, NEW s \in Servers, SaveCall(c, s) \/ ResetCall(c, s) \/ UpdateCall(c, s)
      PROVE  WinnersInv'
  <2>1. /\ \A d \in Clients \ {c} : pc'[d] = pc[d] /\ loc'[d] = loc[d]
        /\ pc'[c] \notin {"begin", "commit"} /\ UNCHANGED <<table, won>>
    BY <1>2, CallTypes
  <2> QED
    BY <1>1, <2>1
<1>3. ASSUME NEW c \in Clients, Work(c) \/ Fault(c) PROVE WinnersInv'
  BY <1>0, <1>3, SaveKeepsWinners
<1>4. ASSUME NEW s \in Servers, Reconcile(s) \/ ReconcileFault(s) PROVE WinnersInv'
  <2>1. UNCHANGED <<table, won, pc, loc>>
    BY <1>4 DEF Reconcile, ReconcileRead, ReconcileSwap, ReconcileFault, requests
  <2> QED
    BY <1>1, <2>1
<1>5. ASSUME NEW s \in Servers, Restart(s) PROVE WinnersInv'
  <2>1. \A d \in Clients : \/ pc'[d] \notin {"begin", "commit"}
                           \/ pc'[d] = pc[d] /\ loc'[d] = loc[d]
    BY <1>5 DEF Restart
  <2>2. UNCHANGED <<table, won>>
    BY <1>5 DEF Restart
  <2> QED
    BY <1>1, <2>1, <2>2
<1>6. CASE UNCHANGED vars
  <2>1. UNCHANGED <<table, won, pc, loc>>
    BY <1>6 DEF vars, requests
  <2> QED
    BY <1>1, <2>1
<1> QED
  BY <1>2, <1>3, <1>4, <1>5, <1>6 DEF Next

-----------------------------------------------------------------------------
(* Combinations.  A save checks the module it has read, and as long as     *)
(* nobody writes single keys that is the module it changes.                *)

(* What a request has read is what is stored. *)
Read(c) ==
    /\ pc[c] = "read" /\ loc[c].op = "save" =>
         \A k \in Keys \ loc[c].todo : loc[c].seen[k] = Stored(k)
    /\ pc[c] \in {"check", "begin", "commit"} /\ loc[c].op = "save" => loc[c].seen = Effective
    /\ pc[c] \in {"begin", "commit"} =>
         /\ loc[c].expected = Revision
         /\ loc[c].op = "save" => Candidate(c) \in ValidModules

ValidInv == ~keyed => Effective \in ValidModules /\ \A c \in Clients : Read(c)

LEMMA ReadStays ==
    ASSUME NEW c \in Clients, Read(c), UNCHANGED table, pc'[c] = pc[c], loc'[c] = loc[c]
    PROVE  Read(c)'
<1>1. Effective' = Effective /\ Revision' = Revision /\ \A k \in Keys : Stored(k)' = Stored(k)
  BY DEF Effective, Revision, Versions, Stored, Version, Live
<1>2. Candidate(c)' = Candidate(c)
  BY DEF Candidate
<1> QED
  BY <1>1, <1>2 DEF Read

LEMMA SaveKeepsValid ==
    ASSUME SettingsAssumption, OneServer, TypeInv, TypeInv', Locking, WinnersInv, ValidInv,
           NEW c \in Clients, Work(c) \/ Fault(c), ~keyed, ~keyed'
    PROVE  ValidInv'
<1>0. Apart(c) /\ Effective \in ValidModules /\ \A d \in Clients : Read(d)
  BY SaveTypes, CommitTypes, SettingsUpdateTypes DEF Work, ValidInv
<1>a. loc[c] \in Local /\ pc \in [Clients -> Point] /\ loc \in [Clients -> Local]
  BY DEF TypeInv, TypeOK
<1>1. ASSUME UNCHANGED table, Read(c)' PROVE ValidInv'
  <2>1. \A d \in Clients \ {c} : Read(d)'
    BY <1>0, <1>1, ReadStays DEF Apart
  <2>2. Effective' = Effective
    BY <1>1 DEF Effective, Stored, Version, Live
  <2> QED
    BY <1>0, <1>1, <2>1, <2>2 DEF ValidInv
<1>b. ASSUME UNCHANGED table
      PROVE  Effective' = Effective /\ Revision' = Revision /\ \A k \in Keys : Stored(k)' = Stored(k)
  BY <1>b DEF Effective, Revision, Versions, Stored, Version, Live
<1>2. ASSUME pc'[c] \notin {"read", "check", "begin", "commit"} PROVE Read(c)'
  BY <1>2 DEF Read
<1>3. ASSUME Leave(c) PROVE pc'[c] = "idle"
  BY <1>3 DEF Leave, Return, Go, TypeInv, TypeOK
<1>4. CASE ModuleLock(c)
  <2>1. /\ UNCHANGED table /\ loc' = loc /\ loc[c].todo = Keys
        /\ pc'[c] = IF loc[c].op = "save" THEN "read" ELSE "check"
    BY <1>a, <1>4 DEF ModuleLock, Step, Go, TypeInv, Shape
  <2>2. Read(c)'
    BY <2>1 DEF Read
  <2> QED
    BY <1>1, <2>1, <2>2
<1>5. CASE ReadKey(c)
  <2>1. UNCHANGED table /\ pc[c] = "read"
    BY <1>5 DEF ReadKey
  <2>2. CASE loc[c].todo = {} /\ Step(c, IF loc[c].op = "save" THEN "check" ELSE "publish")
    <3>1. loc' = loc /\ pc'[c] = IF loc[c].op = "save" THEN "check" ELSE "publish"
      BY <1>a, <2>2 DEF Step, Go
    <3>2. loc[c].op = "save" => loc[c].seen = Effective
      <4>1. loc[c].op = "save" => \A k \in Keys : loc[c].seen[k] = Stored(k)
        BY <1>0, <2>1, <2>2 DEF Read
      <4> QED
        BY <1>a, <4>1 DEF Local, Module, Effective
    <3>3. Read(c)'
      BY <1>b, <2>1, <3>1, <3>2 DEF Read
    <3> QED
      BY <1>1, <2>1, <3>3
  <2>3. ASSUME NEW k \in loc[c].todo, UNCHANGED pc,
               loc' = [loc EXCEPT ![c].seen[k] = Stored(k), ![c].todo = @ \ {k}]
        PROVE  Read(c)'
    <3>1. /\ loc'[c].op = loc[c].op /\ loc'[c].todo = loc[c].todo \ {k}
          /\ loc'[c].seen = [loc[c].seen EXCEPT ![k] = Stored(k)]
      BY <1>a, <2>3 DEF Local
    <3>2. \A j \in Keys \ loc'[c].todo :
            loc'[c].seen[j] = IF j = k THEN Stored(k) ELSE loc[c].seen[j]
      BY <1>a, <3>1 DEF Local, Module
    <3>3. loc'[c].op = "save" => \A j \in Keys \ loc'[c].todo : loc'[c].seen[j] = Stored(j)'
      <4> SUFFICES ASSUME loc[c].op = "save", NEW j \in Keys \ loc'[c].todo
                   PROVE  loc'[c].seen[j] = Stored(j)'
        BY <3>1
      <4>1. Stored(j)' = Stored(j)
        BY <1>b, <2>1
      <4>2. CASE j = k
        BY <3>2, <4>1, <4>2
      <4>3. CASE j # k
        <5>1. j \in Keys \ loc[c].todo
          BY <3>1, <4>3
        <5> QED
          BY <1>0, <2>1, <3>2, <4>1, <4>3, <5>1 DEF Read
      <4> QED
        BY <4>2, <4>3
    <3> QED
      BY <2>1, <2>3, <3>3 DEF Read
  <2> QED
    BY <1>1, <1>5, <2>1, <2>2, <2>3 DEF ReadKey
<1>6. CASE Check(c)
  <2>1. UNCHANGED table /\ pc[c] = "check"
    BY <1>6 DEF Check
  <2>2. CASE Leave(c)
    BY <1>1, <1>2, <1>3, <2>1, <2>2
  <2>3. CASE /\ Step(c, "begin") /\ Revision = loc[c].expected
             /\ loc[c].op = "save" => Candidate(c) \in ValidModules
    <3>1. pc'[c] = "begin" /\ loc' = loc /\ Candidate(c)' = Candidate(c)
      BY <1>a, <2>3 DEF Step, Go, Candidate
    <3>2. Read(c)'
      BY <1>0, <1>b, <2>1, <2>3, <3>1 DEF Read
    <3> QED
      BY <1>1, <2>1, <3>2
  <2> QED
    BY <1>6, <2>2, <2>3 DEF Check
<1>7. CASE Begin(c)
  <2>1. UNCHANGED table /\ pc[c] = "begin"
    BY <1>7 DEF Begin
  <2>2. CASE Leave(c)
    BY <1>1, <1>2, <1>3, <2>1, <2>2
  <2>3. CASE Step(c, "commit")
    <3>1. pc'[c] = "commit" /\ loc' = loc /\ Candidate(c)' = Candidate(c)
      BY <1>a, <2>3 DEF Step, Go, Candidate
    <3>2. Read(c)'
      BY <1>0, <1>b, <2>1, <3>1 DEF Read
    <3> QED
      BY <1>1, <2>1, <3>2
  <2> QED
    BY <1>7, <2>2, <2>3 DEF Begin
<1>8. ASSUME pc[c] = "commit" PROVE \A d \in Clients \ {c} : Read(d)'
  <2>1. \A d \in Clients \ {c} : pc'[d] = pc[d] /\ pc[d] \notin {"read", "check", "begin", "commit"}
    BY <1>0, <1>8, Alone DEF Apart, AtWork
  <2> QED
    BY <2>1 DEF Read
<1>9. CASE SaveCommit(c)
  <2>0. pc[c] = "commit" /\ loc[c].op = "save"
    BY <1>9 DEF SaveCommit
  <2>1. PICK v \in NextVersion(c) :
          IF \E r \in table : r.key \in Changed(c) /\ r.version = v
          THEN Leave(c) /\ UNCHANGED <<table, won>>
          ELSE /\ table' = table \cup NewRows(Changed(c), loc[c].change, v)
               /\ Win(c)
               /\ Step(c, "publish") /\ UNCHANGED moduleMu
    BY <1>9 DEF SaveCommit, NewRows
  <2>2. CASE Leave(c) /\ UNCHANGED <<table, won>>
    BY <1>1, <1>2, <1>3, <2>2
  <2>3. CASE table' = table \cup NewRows(Changed(c), loc[c].change, v) /\ Step(c, "publish")
    <3>1. /\ loc[c].expected = Revision /\ loc[c].seen = Effective
          /\ Candidate(c) \in ValidModules
      BY <1>0, <2>0 DEF Read
    <3>2. v = Revision + 1 /\ v \in Nat /\ Revision \in Nat
      BY <3>1, VersionsToCome DEF NextVersion
    <3>3. \A r \in table : r.version < v
      <4>1. \A r \in table : r.version <= Revision /\ r.version \in Nat
        BY RevisionIsHighest DEF TypeInv, GoodRows, Row
      <4> QED
        BY <3>2, <4>1
    <3>4. Changed(c) \in SUBSET Keys /\ loc[c].change \in Module /\ GoodRows(table) /\ GoodRows(table')
      BY <1>a, CandidateTypes DEF Local, TypeInv
    <3>5. \A k \in Keys : Stored(k)' = IF k \in Changed(c) THEN loc[c].change[k] ELSE Stored(k)
      BY <2>3, <3>2, <3>3, <3>4, StoredAdded
    <3>6. \A k \in Keys : Stored(k)' = Candidate(c)[k]
      BY <3>1, <3>5 DEF Candidate, Changed, Effective
    <3>7. Effective' = Candidate(c)
      BY <3>6 DEF Effective, Candidate
    <3>8. pc'[c] = "publish"
      BY <1>a, <2>3 DEF Step, Go
    <3> QED
      BY <1>2, <1>8, <2>0, <3>1, <3>7, <3>8 DEF ValidInv
  <2> QED
    BY <2>1, <2>2, <2>3
<1>10. CASE ResetCommit(c)
  <2>1. PICK v \in NextVersion(c), k \in Keys :
          IF \E r \in table : r.key = k /\ r.version = v
          THEN Leave(c) /\ UNCHANGED <<table, won>>
          ELSE /\ table' = {[key |-> k, value |-> Default[k], version |-> v, live |-> FALSE]}
               /\ Win(c)
               /\ Step(c, "read") /\ UNCHANGED moduleMu
    BY <1>10 DEF ResetCommit
  <2>2. CASE Leave(c) /\ UNCHANGED <<table, won>>
    BY <1>1, <1>2, <1>3, <2>2
  <2>3. CASE /\ table' = {[key |-> k, value |-> Default[k], version |-> v, live |-> FALSE]}
             /\ Step(c, "read")
    <3>1. \A j \in Keys : Stored(j)' = Default[j]
      BY <2>3 DEF Stored, Live
    <3>2. Effective' = Default
      BY <3>1 DEF Effective, SettingsAssumption
    <3>3. pc[c] = "commit" /\ loc[c].op = "reset" /\ pc'[c] = "read" /\ loc' = loc
      BY <1>a, <1>10, <2>3 DEF ResetCommit, Step, Go
    <3>4. Read(c)'
      BY <3>3 DEF Read
    <3> QED
      BY <1>8, <3>2, <3>3, <3>4 DEF ValidInv, SettingsAssumption
  <2> QED
    BY <2>1, <2>2, <2>3
<1>11. CASE Publish(c) \/ CheckVersion(c) \/ AppendVersion(c) \/ Notify(c) \/ PublishKey(c) \/ Fault(c)
  <2>1. UNCHANGED table
    BY <1>11 DEF Publish, CheckVersion, AppendVersion, Notify, PublishKey, Fault
  <2>2. pc'[c] \notin {"read", "check", "begin", "commit"}
    BY <1>3, <1>a, <1>11 DEF Publish, CheckVersion, AppendVersion, Notify, PublishKey, Fault, Step, Return, Go
  <2> QED
    BY <1>1, <1>2, <2>1, <2>2
<1> QED
  BY <1>4, <1>5, <1>6, <1>7, <1>9, <1>10, <1>11 DEF Work

LEMMA NextKeepsValid ==
    ASSUME SettingsAssumption, OneServer, TypeInv, Locking, WinnersInv, ValidInv, [Next]_vars
    PROVE  ValidInv'
<1>0. TypeInv'
  BY NextKeepsTypes
<1>1. ASSUME UNCHANGED <<table, keyed>>,
             \A d \in Clients : \/ pc'[d] \notin {"read", "check", "begin", "commit"}
                                \/ pc'[d] = pc[d] /\ loc'[d] = loc[d]
      PROVE  ValidInv'
  <2>1. Effective' = Effective
    BY <1>1 DEF Effective, Stored, Version, Live
  <2>2. \A d \in Clients : pc'[d] \notin {"read", "check", "begin", "commit"} => Read(d)'
    BY DEF Read
  <2>3. \A d \in Clients : Read(d) => Read(d)'
    BY <1>1, <2>2, ReadStays
  <2> QED
    BY <1>1, <2>1, <2>3 DEF ValidInv
<1>2. ASSUME NEW c \in Clients, NEW s \in Servers, SaveCall(c, s) \/ ResetCall(c, s) \/ UpdateCall(c, s)
      PROVE  ValidInv'
  <2>1. /\ \A d \in Clients \ {c} : pc'[d] = pc[d] /\ loc'[d] = loc[d]
        /\ pc'[c] \notin {"read", "check", "begin", "commit"} /\ UNCHANGED <<table, keyed>>
    BY <1>2, CallTypes
  <2> QED
    BY <1>1, <2>1
<1>3. ASSUME NEW c \in Clients, Work(c) \/ Fault(c) PROVE ValidInv'
  <2>1. keyed \/ keyed' \/ (~keyed /\ ~keyed')
    BY DEF TypeInv, TypeOK
  <2>2. CASE keyed'
    BY <2>2 DEF ValidInv
  <2>3. CASE keyed
    <3>1. keyed'
      BY <1>3, <2>3, SaveTypes, CommitTypes
      DEF Work, CheckVersion, AppendVersion, Notify, PublishKey, Fault
    <3> QED
      BY <3>1 DEF ValidInv
  <2>4. CASE ~keyed /\ ~keyed'
    BY <1>0, <1>3, <2>4, SaveKeepsValid
  <2> QED
    BY <2>1, <2>2, <2>3, <2>4
<1>4. ASSUME NEW s \in Servers, Reconcile(s) \/ ReconcileFault(s) PROVE ValidInv'
  <2>1. UNCHANGED <<table, keyed, pc, loc>>
    BY <1>4 DEF Reconcile, ReconcileRead, ReconcileSwap, ReconcileFault, requests
  <2> QED
    BY <1>1, <2>1
<1>5. ASSUME NEW s \in Servers, Restart(s) PROVE ValidInv'
  <2>1. \A d \in Clients : \/ pc'[d] \notin {"read", "check", "begin", "commit"}
                           \/ pc'[d] = pc[d] /\ loc'[d] = loc[d]
    BY <1>5 DEF Restart
  <2>2. UNCHANGED <<table, keyed>>
    BY <1>5 DEF Restart
  <2> QED
    BY <1>1, <2>1, <2>2
<1>6. CASE UNCHANGED vars
  <2>1. UNCHANGED <<table, keyed, pc, loc>>
    BY <1>6 DEF vars, requests
  <2> QED
    BY <1>1, <2>1
<1> QED
  BY <1>2, <1>3, <1>4, <1>5, <1>6 DEF Next

SavesInv == TypeInv /\ Locking /\ WinnersInv /\ ValidInv

LEMMA SavesStart == ASSUME SettingsAssumption, Init PROVE SavesInv
<1>1. TypeInv
  BY SettingsInitTypes
<1>2. Locking /\ WinnersInv
  BY DEF Init, Locking, AtWork, WinnersInv, Checked
<1>3. \A k \in Keys : Stored(k) = Default[k]
  BY DEF Init, Stored, Live
<1>4. Effective = Default
  BY <1>3 DEF Effective, SettingsAssumption
<1>5. ValidInv
  BY <1>4 DEF Init, ValidInv, Read, SettingsAssumption
<1> QED
  BY <1>1, <1>2, <1>5 DEF SavesInv

LEMMA SavesKept == ASSUME SettingsAssumption, OneServer, SavesInv, [Next]_vars PROVE SavesInv'
BY NextKeepsTypes, NextKeepsLocks, NextKeepsWinners, NextKeepsValid DEF SavesInv

LEMMA SavesHoldIn == ASSUME SavesInv PROVE SettingsHold
BY DEF SavesInv, TypeInv, TypeOK, WinnersInv, OneWinner, ValidInv, ModuleValid, SettingsHold

(* On one server, whatever Update and Rollback write in between and        *)
(* whatever fails: of the saves and resets made at one revision one is     *)
(* committed at most, and while only whole modules are written what is     *)
(* stored is a combination that validation accepts.  Two servers need a    *)
(* lock they do not share (see the run st_two_servers).                    *)
THEOREM SavesHold == ASSUME SettingsAssumption, OneServer PROVE Spec => []SettingsHold
<1>1. Init => SavesInv
  BY SavesStart
<1>2. SavesInv /\ [Next]_vars => SavesInv'
  BY SavesKept
<1>3. SavesInv => SettingsHold
  BY SavesHoldIn
<1> QED
  BY <1>1, <1>2, <1>3, PTL DEF Spec

-----------------------------------------------------------------------------
(* Files. *)

UploadPoint == {"new", "stage", "observe", "keyread", "keywrite", "promote", "readyread", "readywrite", "left",
                "unstage", "fail", "done"}
EditorPoint == {"new", "patchread", "patchwrite", "done"}
DeleterPoint == {"new", "force", "remove", "done"}
CleanerPoint == {"off", "reconcile", "deleting", "pending", "probe", "readyread", "readywrite", "delobject",
                 "delstaged", "delmark", "judge", "unstage", "failmark"}
AtPass == {"off", "reconcile", "deleting", "pending"}

(* What a request changes of the types: its own program point and locals. *)
ReqTypes ==
    /\ floc \in [F!Requests -> [file : Uploads \cup {NoUpload}, copy : F!Row, seen : F!Row]]
    /\ \A u \in Uploads : fpc[u] \in UploadPoint
    /\ \A e \in Editors : fpc[e] \in EditorPoint
    /\ \A d \in Deleters : fpc[d] \in DeleterPoint
    /\ fpc \in [F!Requests -> UploadPoint \cup EditorPoint \cup DeleterPoint]
    /\ \A u \in Uploads : fpc[u] \notin {"new", "done"} => floc[u].file = u
    /\ \A e \in Editors : fpc[e] \notin {"new", "done"} => floc[e].file \in Uploads
    /\ \A d \in Deleters : fpc[d] \notin {"new", "done"} => floc[d].file \in Uploads
StoreTypes ==
    /\ row \in [Uploads -> F!Row]
    /\ order \in Seq(Uploads) /\ staged \subseteq Uploads
    /\ object \in [Uploads -> SUBSET F!Key]
    /\ used \subseteq Uploads /\ old \subseteq Uploads
    /\ idemMu \in Uploads \cup {NoUpload} /\ idem \in Uploads \cup {NoUpload}
    /\ returned \in [Uploads -> Uploads \cup {NoUpload}]
    /\ overtaken \subseteq Uploads /\ forced \subseteq Uploads /\ late \subseteq Uploads /\ left \subseteq Uploads
    /\ ffaults \in 0..MaxFaults
PassTypes ==
    /\ mloc \in [Cleaners -> Seq(F!Listed)] /\ mpc \in [Cleaners -> CleanerPoint]
    /\ \A m \in Cleaners : mpc[m] \notin AtPass => mloc[m] # <<>>

FileTypes == ReqTypes /\ StoreTypes /\ PassTypes

Gone(f) == row[f].status \in {"deleting", "deleted"}
HasObject(f, k) == f \in overtaken \/ Gone(f) \/ k \in object[f]

UploadInv(u) ==
    /\ fpc[u] = "new" => ~F!Exists(u)
    /\ fpc[u] \in {"new", "stage", "observe", "keyread", "keywrite", "promote"} => object[u] = {}
    /\ fpc[u] \in {"stage", "observe", "keyread", "keywrite", "promote"} => floc[u].copy.status = "pending"
    /\ fpc[u] = "keywrite" => floc[u].seen.status = "pending"
    /\ fpc[u] \in {"readyread", "readywrite"} => floc[u].copy.status = "ready" /\ HasObject(u, floc[u].copy.key)
    /\ fpc[u] = "readywrite" => floc[u].seen.status \in {"pending", "ready"}
    /\ fpc[u] \in {"promote", "readyread", "readywrite"} /\ u \notin overtaken => floc[u].copy.key = row[u].key

EditorInv(e) ==
    LET f == floc[e].file
    IN  fpc[e] \in {"patchread", "patchwrite"} =>
            /\ F!Exists(f) /\ floc[e].copy.status \notin {"absent", "deleted"}
            /\ floc[e].copy.status = "ready" /\ f \notin overtaken => row[f].status # "pending"
            /\ fpc[e] = "patchwrite" => \/ floc[e].copy.status = floc[e].seen.status
                                       \/ (floc[e].seen.status = "pending" /\ floc[e].copy.status = "ready")

GoneAs(x) == x.file \in overtaken \/ (Gone(x.file) /\ x.copy.key = row[x.file].key)
CleanerInv(m) ==
    /\ \A i \in DOMAIN mloc[m] : F!Exists(mloc[m][i].file)
    /\ mpc[m] \in {"readyread", "readywrite"} => HasObject(F!item(m).file, F!item(m).copy.key)
    /\ mpc[m] = "readywrite" => F!item(m).seen.status \in {"pending", "ready"}
    /\ mpc[m] \in {"delobject", "delstaged", "delmark"} => \A i \in DOMAIN mloc[m] : GoneAs(mloc[m][i])
    /\ mpc[m] \in {"delstaged", "delmark"} => F!item(m).file \in overtaken \cup late \/ object[F!item(m).file] = {}

FileInv(f) ==
    /\ f \notin overtaken /\ row[f].status = "ready" => row[f].key \in object[f]
    /\ f \notin overtaken => object[f] \subseteq {row[f].key}
    /\ f \in used \ (forced \cup overtaken) => row[f].status \in {"ready", "damaged"} /\ row[f].key \in object[f]
    /\ f \notin overtaken \cup late /\ row[f].status = "deleted" => object[f] = {}

KeyInv ==
    /\ idemMu # NoUpload => idem = NoUpload
    /\ \A u \in Keyed : fpc[u] \notin {"new", "done"} => idemMu = u
    /\ \A u \in Keyed : returned[u] # NoUpload => returned[u] = idem

ActorsInv ==
    /\ \A u \in Uploads : UploadInv(u)
    /\ \A e \in Editors : EditorInv(e)
    /\ \A m \in Cleaners : CleanerInv(m)
FilesInv == FileTypes /\ ActorsInv /\ (\A f \in Uploads : FileInv(f)) /\ KeyInv

-----------------------------------------------------------------------------
(* Types. *)

LEMMA WriteTypes ==
    ASSUME StoreTypes, NEW f \in Uploads, NEW r \in F!Row, F!Write(f, r)
    PROVE  row' \in [Uploads -> F!Row] /\ order' \in Seq(Uploads)
<1>1. row' \in [Uploads -> F!Row]
  BY DEF F!Write, StoreTypes, F!Row
<1>2. CASE F!Exists(f)
  <2> DEFINE next(i) == IF i = Len(order) THEN f
                        ELSE IF f \in {order[j] : j \in 1..i} THEN order[i + 1] ELSE order[i]
  <2>1. order \in Seq(Uploads) /\ DOMAIN order = 1..Len(order) /\ Len(order) \in Nat
    BY DEF StoreTypes
  <2>2. ASSUME NEW i \in 1..Len(order) PROVE next(i) \in Uploads
    <3>1. \A k \in 1..Len(order) : order[k] \in Uploads
      BY ElementOfSeq DEF StoreTypes
    <3> DEFINE n == Len(order)
    <3>0. n \in Nat
      BY <2>1
    <3> HIDE DEF n
    <3>2. i \in 1..n /\ i # n => i + 1 \in 1..n
      BY <3>0
    <3> USE DEF n
    <3> QED
      BY <3>1, <3>2
  <2>3. order' = [i \in 1..Len(order) |-> next(i)]
    BY <1>2, <2>1 DEF F!Write
  <2> HIDE DEF next
  <2>4. order' \in [1..Len(order) -> Uploads]
    BY <2>2, <2>3
  <2> QED
    BY <1>1, <2>1, <2>4, SeqDef
<1>3. CASE ~F!Exists(f)
  BY <1>1, <1>3 DEF F!Write, StoreTypes
<1> QED
  BY <1>2, <1>3

LEMMA MarkTypes ==
    ASSUME StoreTypes, NEW f \in Uploads, NEW status \in F!Status, F!MarkStatus(f, status)
    PROVE  row' \in [Uploads -> F!Row] /\ order' \in Seq(Uploads)
<1>1. [row[f] EXCEPT !.status = status] \in F!Row
  BY DEF StoreTypes, F!Row
<1> QED
  BY <1>1, WriteTypes DEF F!MarkStatus, StoreTypes, F!Row

LEMMA DeletionTypes ==
    ASSUME StoreTypes, NEW f \in Uploads, NEW force, F!RequestDeletion(f, force)
    PROVE  row' \in [Uploads -> F!Row] /\ order' \in Seq(Uploads) /\ forced' \subseteq Uploads
<1>1. [row[f] EXCEPT !.status = "deleting"] \in F!Row
  BY DEF StoreTypes, F!Row, F!Status
<1> QED
  BY <1>1, WriteTypes DEF F!RequestDeletion, StoreTypes, F!Row

LEMMA UpdateTypes ==
    ASSUME StoreTypes, NEW f \in Uploads, NEW new \in F!Row, NEW judged, F!UpdateWrite(f, new, judged)
    PROVE  row' \in [Uploads -> F!Row] /\ order' \in Seq(Uploads) /\ overtaken' \subseteq Uploads
BY WriteTypes DEF F!UpdateWrite, StoreTypes

(* Files counts with its own copy of the operator. *)
LEMMA SameCardinality == ASSUME NEW S PROVE F!Cardinality(S) = Cardinality(S)
BY DEF F!Cardinality, Cardinality

(* A listing names rows of the order. *)
LEMMA Listing ==
    ASSUME StoreTypes, NEW status, NEW found \in F!ListByStatus(status)
    PROVE  /\ found \in Seq(DOMAIN order) /\ DOMAIN found = 1..Len(found)
           /\ \A i \in DOMAIN found : order[found[i]] \in Uploads /\ row[order[found[i]]].status = status
<1> DEFINE with  == {i \in DOMAIN order : row[order[i]].status = status}
           first == {i \in with : F!Cardinality({j \in with : j < i}) < Limit}
<1>1. found \in [1..F!Cardinality(first) -> first]
  BY DEF F!ListByStatus
<1>2. IsFiniteSet(first)
  <2>1. IsFiniteSet(1..Len(order))
    BY FS_Interval DEF StoreTypes
  <2>2. first \subseteq 1..Len(order)
    BY DEF StoreTypes
  <2> QED
    BY <2>1, <2>2, FS_Subset
<1>3. F!Cardinality(first) \in Nat
  BY <1>2, FS_CardinalityType, SameCardinality
<1>4. first \subseteq DOMAIN order /\ \A i \in first : order[i] \in Uploads /\ row[order[i]].status = status
  BY DEF StoreTypes
<1> HIDE DEF first
<1>5. found \in Seq(first) /\ Len(found) = F!Cardinality(first)
  BY <1>1, <1>3, SeqDef
<1> QED
  BY <1>1, <1>3, <1>4, <1>5, SeqDef

USE DEF F!Requests

LEMMA TypesOK == FileTypes => F!TypeOK
BY DEF FileTypes, ReqTypes, StoreTypes, PassTypes, F!TypeOK, F!Row

LEMMA InitTypes == ASSUME F!FilesAssumption, NEW coming, NEW running, F!Start(coming, running) PROVE FileTypes
BY EmptySeq DEF F!FilesAssumption, F!Start, FileTypes, ReqTypes, StoreTypes, PassTypes, F!Row, F!Status, F!Key, F!NoRow, F!Idle, UploadPoint, EditorPoint, DeleterPoint, CleanerPoint, AtPass

LEMMA Copies == F!NoRow \in F!Row /\ F!Idle \in [file : Uploads \cup {NoUpload}, copy : F!Row, seen : F!Row]
BY DEF F!NoRow, F!Idle, F!Row, F!Status, F!Key

LEMMA ReturnTypes == ASSUME ReqTypes, StoreTypes, NEW r \in F!Requests, F!Return(r) PROVE ReqTypes' /\ idemMu' \in Uploads \cup {NoUpload}
BY Copies DEF ReqTypes, StoreTypes, F!Return, F!Goto, UploadPoint, EditorPoint, DeleterPoint

LEMMA MoveTypes ==
    ASSUME F!FilesAssumption, ReqTypes, NEW u \in Uploads, NEW l \in UploadPoint, fpc[u] \notin {"new", "done"}, F!Goto(u, l),
           NEW judged \in F!Row, floc' \in {floc, [floc EXCEPT ![u].seen = judged]}
    PROVE  ReqTypes'
<1>1. u \notin Editors /\ u \notin Deleters
  BY DEF F!FilesAssumption
<1> QED
  BY <1>1 DEF ReqTypes, F!Goto, UploadPoint

LEMMA StoreTyped == ASSUME FileTypes, NEW u \in Uploads, fpc[u] \notin {"new", "done"}
   PROVE floc[u].file = u /\ floc[u].copy \in F!Row /\ floc[u].seen \in F!Row /\ row[u] \in F!Row /\ object[u] \in SUBSET F!Key
BY DEF FileTypes, ReqTypes, StoreTypes, F!Row

LEMMA UploadTypes ==
    ASSUME F!FilesAssumption, FileTypes, NEW u \in Uploads, F!Upload(u) \/ F!UploadFault(u)
    PROVE  FileTypes'
<1> SUFFICES ReqTypes' /\ StoreTypes' /\ PassTypes'
  BY DEF FileTypes
<1>0. ReqTypes /\ StoreTypes /\ PassTypes /\ u \notin Editors /\ u \notin Deleters
  BY DEF FileTypes, F!FilesAssumption
<1> USE <1>0
<1>1. CASE F!UploadCall(u)
  <2>1. CASE u \in Keyed /\ idem # NoUpload
    <3>1. ReqTypes'
      BY <1>1, <2>1 DEF F!UploadCall, ReqTypes, F!Goto, UploadPoint
    <3> QED BY <1>1, <2>1, <3>1 DEF F!UploadCall, StoreTypes, PassTypes, F!store, F!Fine
  <2>2. CASE ~(u \in Keyed /\ idem # NoUpload)
    <3> DEFINE new == [status |-> "pending", key |-> "declared"]
    <3>1. new \in F!Row
      BY DEF F!Row, F!Status, F!Key
    <3>2. F!Write(u, new) /\ F!Goto(u, "stage") /\ floc' = [floc EXCEPT ![u] = [file |-> u, copy |-> row'[u], seen |-> F!NoRow]]
          /\ idemMu' = IF u \in Keyed THEN u ELSE idemMu
      BY <1>1, <2>2 DEF F!UploadCall
    <3> HIDE DEF new
    <3>3. row' \in [Uploads -> F!Row] /\ order' \in Seq(Uploads)
      BY <3>1, <3>2, WriteTypes
    <3>4. ReqTypes'
      BY <3>2, <3>3, Copies DEF ReqTypes, F!Goto, UploadPoint
    <3>5. UNCHANGED <<F!store, used, old, mpc, mloc, idem, F!history, ffaults>>
      BY <1>1, <2>2 DEF F!UploadCall, F!Fine
    <3> QED BY <3>2, <3>3, <3>4, <3>5 DEF StoreTypes, PassTypes, F!store, F!history
  <2> QED BY <2>1, <2>2
<1>2. CASE F!PutStaging(u)
  BY <1>2 DEF F!PutStaging, ReqTypes, StoreTypes, PassTypes, F!Goto, UploadPoint, F!keys, F!history, F!Fine, F!At
<1>3. CASE F!Observe(u)
  <2>1. ReqTypes'
    BY <1>3 DEF F!Observe, ReqTypes, F!Goto, UploadPoint, F!Row, F!At
  <2> QED BY <1>3, <2>1 DEF F!Observe, StoreTypes, PassTypes, F!store, F!keys, F!history, F!Fine
<1>4. ASSUME NEW from, NEW to \in UploadPoint, NEW refused \in UploadPoint, from \notin {"new", "done"}, F!UpdateRead(u, from, to, refused)
      PROVE ReqTypes' /\ StoreTypes' /\ PassTypes'
  <2>1. row[floc[u].file] \in F!Row /\ fpc[u] = from
    BY <1>4 DEF F!UpdateRead, StoreTypes, ReqTypes, F!At
  <2>2. PICK l \in {to, refused} : F!Goto(u, l)
    BY <1>4 DEF F!UpdateRead
  <2>3. ReqTypes'
    BY <1>4, <2>1, <2>2, MoveTypes DEF F!UpdateRead
  <2> QED BY <1>4, <2>3 DEF F!UpdateRead, StoreTypes, PassTypes, F!store, F!keys, F!history, F!Fine
<1>5. CASE F!PublishKey(u)
  <2>1. ReqTypes'
    BY <1>5 DEF F!PublishKey, ReqTypes, F!Goto, UploadPoint, F!At
  <2>2. F!UpdateWrite(u, floc[u].copy, floc[u].seen) /\ floc[u].copy \in F!Row
    BY <1>5 DEF F!PublishKey, ReqTypes
  <2> QED BY <1>5, <2>1, <2>2, UpdateTypes DEF F!PublishKey, StoreTypes, PassTypes, F!store, F!keys, F!Fine
<1>6. CASE F!Promote(u)
  <2>1. ReqTypes'
    BY <1>6 DEF F!Promote, ReqTypes, F!Goto, UploadPoint, F!At, F!Row, F!Status
  <2>2. floc[u].copy.key \in F!Key
    BY DEF ReqTypes, F!Row
  <2> QED BY <1>6, <2>1, <2>2 DEF F!Promote, StoreTypes, PassTypes, F!store, F!keys, F!Fine
<1>7. CASE F!persistReady(u)
  <2>1. F!UpdateWrite(u, floc[u].copy, floc[u].seen) /\ floc[u].copy \in F!Row
    BY <1>7 DEF F!persistReady, ReqTypes
  <2>2. ReqTypes' /\ idemMu' \in Uploads \cup {NoUpload}
    BY <1>7, ReturnTypes DEF F!persistReady
  <2> QED BY <1>7, <2>1, <2>2, UpdateTypes DEF F!persistReady, F!Succeed, StoreTypes, PassTypes, F!store, F!Fine
<1>8. CASE F!LeavePublished(u)
  <2>2. ReqTypes' /\ idemMu' \in Uploads \cup {NoUpload}
    BY <1>8, ReturnTypes DEF F!LeavePublished
  <2> QED BY <1>8, <2>2 DEF F!LeavePublished, StoreTypes, PassTypes, F!store, F!history, F!Fine
<1>9. CASE F!deleteStaging(u)
  BY <1>9 DEF F!deleteStaging, ReqTypes, StoreTypes, PassTypes, F!Goto, UploadPoint, F!keys, F!history, F!Fine, F!At
<1>10. CASE F!markFailed(u)
  <2>1. ReqTypes' /\ idemMu' \in Uploads \cup {NoUpload}
    BY <1>10, ReturnTypes DEF F!markFailed
  <2>2. row' \in [Uploads -> F!Row] /\ order' \in Seq(Uploads)
    BY <1>10, MarkTypes DEF F!markFailed, F!Status
  <2> QED BY <1>10, <2>1, <2>2 DEF F!markFailed, StoreTypes, PassTypes, F!store, F!history, F!Fine
<1>11. CASE F!UploadFault(u)
  <2>1. ReqTypes' /\ idemMu' \in Uploads \cup {NoUpload}
    <3>1. CASE F!At(u, "fail") /\ F!Return(u)
      BY <3>1, ReturnTypes
    <3>2. CASE fpc[u] \notin {"new", "done"} /\ UNCHANGED <<floc, idemMu>> /\ \E l \in UploadPoint : F!Goto(u, l)
      BY <3>2, MoveTypes, Copies DEF StoreTypes
    <3> QED
      BY <1>11, <3>1, <3>2 DEF F!UploadFault, UploadPoint, F!At
  <2> QED BY <1>11, <2>1 DEF F!UploadFault, F!Failing, StoreTypes, PassTypes, F!store, F!history, F!FilesAssumption
<1>12. CASE F!UpdateRead(u, "keyread", "keywrite", "unstage") \/ F!UpdateRead(u, "readyread", "readywrite", "left")
  BY <1>4, <1>12 DEF UploadPoint
<1> QED
  BY <1>1, <1>2, <1>3, <1>12, <1>5, <1>6, <1>7, <1>8, <1>9, <1>10, <1>11 DEF F!Upload

LEMMA RequestTypes ==
    ASSUME F!FilesAssumption, FileTypes, NEW r \in Editors \cup Deleters, (r \in Editors /\ F!Patch(r)) \/ (r \in Deleters /\ F!Delete(r))
    PROVE  FileTypes'
<1> SUFFICES ReqTypes' /\ StoreTypes' /\ PassTypes'
  BY DEF FileTypes
<1>0. ReqTypes /\ StoreTypes /\ PassTypes /\ r \in F!Requests /\ r \notin Uploads /\ ~(r \in Editors /\ r \in Deleters)
  BY DEF FileTypes, F!FilesAssumption
<1> USE <1>0
<1>1. CASE r \in Editors /\ F!PatchCall(r)
  <2>1. ReqTypes'
    BY <1>1, Copies DEF F!PatchCall, ReqTypes, StoreTypes, F!Goto, EditorPoint
  <2> QED BY <1>1, <2>1 DEF F!PatchCall, StoreTypes, PassTypes, F!store, F!keys, F!history, F!Fine
<1>2. CASE r \in Editors /\ F!UpdateRead(r, "patchread", "patchwrite", "done")
  <2>1. row[floc[r].file] \in F!Row
    BY <1>2 DEF F!UpdateRead, ReqTypes, StoreTypes, F!At
  <2>2. ReqTypes'
    BY <1>2, <2>1 DEF F!UpdateRead, ReqTypes, F!Goto, EditorPoint, F!At
  <2> QED BY <1>2, <2>2 DEF F!UpdateRead, StoreTypes, PassTypes, F!store, F!keys, F!history, F!Fine
<1>3. CASE r \in Editors /\ F!PatchWrite(r)
  <2>1. ReqTypes' /\ idemMu' \in Uploads \cup {NoUpload}
    BY <1>3, ReturnTypes DEF F!PatchWrite
  <2>2. floc[r].file \in Uploads /\ floc[r].copy \in F!Row
    BY <1>3 DEF F!PatchWrite, ReqTypes, F!At
  <2>3. row' \in [Uploads -> F!Row] /\ order' \in Seq(Uploads)
    BY <1>3, <2>2, WriteTypes DEF F!PatchWrite
  <2> QED BY <1>3, <2>1, <2>2, <2>3 DEF F!PatchWrite, StoreTypes, PassTypes, F!store, F!Fine
<1>4. CASE r \in Deleters /\ F!DeleteCall(r)
  <2>1. ReqTypes'
    BY <1>4 DEF F!DeleteCall, ReqTypes, F!Goto, DeleterPoint
  <2> QED BY <1>4, <2>1 DEF F!DeleteCall, StoreTypes, PassTypes, F!store, F!keys, F!history, F!Fine
<1>5. CASE r \in Deleters /\ F!softDeleteFile(r)
  <2>1. ReqTypes' /\ idemMu' \in Uploads \cup {NoUpload}
    BY <1>5, ReturnTypes DEF F!softDeleteFile
  <2>2. floc[r].file \in Uploads
    BY <1>5 DEF F!softDeleteFile, ReqTypes
  <2>3. row' \in [Uploads -> F!Row] /\ order' \in Seq(Uploads) /\ forced' \subseteq Uploads
    BY <1>5, <2>2, DeletionTypes DEF F!softDeleteFile, StoreTypes
  <2> QED BY <1>5, <2>1, <2>3 DEF F!softDeleteFile, StoreTypes, PassTypes, F!store, F!Fine
<1> QED
  BY <1>1, <1>2, <1>3, <1>4, <1>5 DEF F!Patch, F!Delete

LEMMA UseTypes ==
    ASSUME FileTypes, NEW f \in Uploads, F!Attach(f) \/ F!Detach(f) \/ F!Open(f) \/ F!Age(f)
    PROVE  FileTypes'
<1> SUFFICES ReqTypes' /\ StoreTypes' /\ PassTypes'
  BY DEF FileTypes
<1> USE DEF FileTypes
<1>1. CASE F!Attach(f) \/ F!Detach(f) \/ F!Age(f)
  BY <1>1 DEF F!Attach, F!Detach, F!Age, ReqTypes, StoreTypes, PassTypes, F!store, F!keys, F!history
<1>2. CASE F!Open(f)
  <2>1. row' \in [Uploads -> F!Row] /\ order' \in Seq(Uploads)
    BY <1>2, MarkTypes DEF F!Open, F!markDamaged, F!Status
  <2> QED BY <1>2, <2>1 DEF F!Open, ReqTypes, StoreTypes, PassTypes, F!store, F!keys, F!history
<1> QED BY <1>1, <1>2

LEMMA EndTypes ==
    ASSUME PassTypes, NEW m \in Cleaners, NEW pass \in DOMAIN F!Passes, F!EndPass(m, pass)
    PROVE  PassTypes'
BY EmptySeq DEF F!EndPass, F!MGoto, PassTypes, F!Passes, CleanerPoint, AtPass

(* The pass goes on with a list, or to the next pass. *)
LEMMA GoOnTypes ==
    ASSUME PassTypes, NEW m \in Cleaners, NEW pass \in DOMAIN F!Passes, NEW list \in Seq(F!Listed), F!GoOn(m, pass, list)
    PROVE  PassTypes'
<1>1. CASE list = <<>>
  BY <1>1, EndTypes DEF F!GoOn
<1>2. CASE list # <<>>
  <2> DEFINE to == F!Loop[pass]
  <2>1. to \in CleanerPoint \ AtPass
    BY DEF F!Loop, F!Passes, CleanerPoint, AtPass
  <2>2. mpc' = [mpc EXCEPT ![m] = to] /\ mloc' = [mloc EXCEPT ![m] = list]
    BY <1>2 DEF F!GoOn, F!MGoto
  <2> HIDE DEF to
  <2>3. mloc' \in [Cleaners -> Seq(F!Listed)] /\ mpc' \in [Cleaners -> CleanerPoint]
    BY <2>1, <2>2 DEF PassTypes
  <2>4. ASSUME NEW n \in Cleaners, mpc'[n] \notin AtPass PROVE mloc'[n] # <<>>
    BY <1>2, <2>2, <2>4 DEF PassTypes
  <2> QED
    BY <2>3, <2>4 DEF PassTypes
<1> QED
  BY <1>1, <1>2

LEMMA SkipTypes ==
    ASSUME PassTypes, NEW m \in Cleaners, NEW pass \in DOMAIN F!Passes, F!Skip(m, pass), mpc[m] \notin AtPass
    PROVE  PassTypes'
<1>1. Tail(mloc[m]) \in Seq(F!Listed)
  BY HeadTailProperties DEF PassTypes
<1> QED
  BY <1>1, GoOnTypes DEF F!Skip

LEMMA MGotoTypes ==
    ASSUME PassTypes, NEW m \in Cleaners, NEW l \in CleanerPoint, mpc[m] \notin AtPass, F!MGoto(m, l), UNCHANGED mloc
    PROVE  PassTypes'
BY DEF F!MGoto, PassTypes, CleanerPoint, AtPass

LEMMA ItemTypes ==
    ASSUME PassTypes, NEW m \in Cleaners, mpc[m] \notin AtPass
    PROVE  /\ F!item(m) \in F!Listed /\ F!item(m) = mloc[m][1] /\ 1 \in DOMAIN mloc[m] /\ DOMAIN mloc[m] = 1..Len(mloc[m])
           /\ mloc[m] \in Seq(F!Listed) /\ Len(mloc[m]) \in Nat \ {0}
<1>1. mloc[m] \in Seq(F!Listed) /\ mloc[m] # <<>>
  BY DEF PassTypes
<1> QED
  BY <1>1 DEF F!item
  
LEMMA PassOnly ==
    ASSUME FileTypes, PassTypes', UNCHANGED <<row, order, F!store, used, old, fpc, floc, F!keys, F!history>>, F!Fine \/ F!Failing, F!FilesAssumption
    PROVE  FileTypes'
BY DEF FileTypes, ReqTypes, StoreTypes, F!store, F!keys, F!history, F!Fine, F!Failing, F!FilesAssumption

LEMMA MaintenanceTypes ==
    ASSUME F!FilesAssumption, FileTypes, NEW m \in Cleaners, F!Maintenance(m) \/ F!MaintenanceFault(m)
    PROVE  FileTypes'
<1>0. ReqTypes /\ StoreTypes /\ PassTypes
  BY DEF FileTypes
<1> USE <1>0
<1>1. ASSUME NEW pass \in DOMAIN F!Passes, NEW status, F!List(m, pass, status) PROVE FileTypes'
  <2>1. PICK found \in F!ListByStatus(status) :
          F!GoOn(m, pass, [i \in DOMAIN found |-> [file |-> order[found[i]], copy |-> row[order[found[i]]], seen |-> F!NoRow]])
    BY <1>1 DEF F!List
  <2> DEFINE list == [i \in DOMAIN found |-> [file |-> order[found[i]], copy |-> row[order[found[i]]], seen |-> F!NoRow]]
  <2>2. found \in Seq(DOMAIN order) /\ DOMAIN found = 1..Len(found)
        /\ \A i \in DOMAIN found : order[found[i]] \in Uploads
    BY Listing
  <2>3. \A i \in 1..Len(found) : [file |-> order[found[i]], copy |-> row[order[found[i]]], seen |-> F!NoRow] \in F!Listed
    BY <2>2, Copies DEF F!Listed, StoreTypes
  <2>4. list = [i \in 1..Len(found) |-> [file |-> order[found[i]], copy |-> row[order[found[i]]], seen |-> F!NoRow]]
    BY <2>2
  <2>5. Len(found) \in Nat
    BY <2>2
  <2>6. list \in Seq(F!Listed)
    BY <2>3, <2>4, <2>5, SeqDef
  <2>7. F!GoOn(m, pass, list)
    BY <2>1
  <2> HIDE DEF list
  <2>8. PassTypes'
    BY <2>6, <2>7, GoOnTypes
  <2> QED BY <1>1, <2>8, PassOnly DEF F!List
<1>2. CASE F!ReconcileProbe(m)
  <2>1. mpc[m] = "probe" /\ "probe" \notin AtPass /\ "readyread" \in CleanerPoint /\ "reconcile" \in DOMAIN F!Passes
    BY <1>2 DEF F!ReconcileProbe, F!MAt, AtPass, CleanerPoint, F!Passes
  <2>2. PassTypes'
    BY <1>2, <2>1, MGotoTypes, SkipTypes DEF F!ReconcileProbe
  <2> QED BY <1>2, <2>2, PassOnly DEF F!ReconcileProbe
<1>3. CASE F!ReconcileRead(m)
  <2>1. mpc[m] = "readyread" /\ "readyread" \notin AtPass /\ "readywrite" \in CleanerPoint /\ "reconcile" \in DOMAIN F!Passes
    BY <1>3 DEF F!ReconcileRead, F!MAt, AtPass, CleanerPoint, F!Passes
  <2>2. CASE F!MGoto(m, "readywrite") /\ mloc' = [mloc EXCEPT ![m][1].seen = row[F!item(m).file]]
    <3>1. /\ F!item(m) \in F!Listed /\ F!item(m) = mloc[m][1] /\ 1 \in DOMAIN mloc[m] /\ DOMAIN mloc[m] = 1..Len(mloc[m])
          /\ mloc[m] \in Seq(F!Listed) /\ Len(mloc[m]) \in Nat \ {0}
      BY <2>1, ItemTypes
    <3> DEFINE new == [mloc[m] EXCEPT ![1].seen = row[F!item(m).file]]
    <3>2. row[F!item(m).file] \in F!Row
      BY <3>1 DEF F!Listed, StoreTypes
    <3>3. [mloc[m][1] EXCEPT !.seen = row[F!item(m).file]] \in F!Listed
      BY <3>1, <3>2 DEF F!Listed
    <3>4. new \in [1..Len(mloc[m]) -> F!Listed]
      <4>1. \A i \in 1..Len(mloc[m]) : mloc[m][i] \in F!Listed
        BY <3>1, ElementOfSeq
      <4> QED BY <3>1, <3>3, <4>1
    <3>5. new \in Seq(F!Listed) /\ new # <<>>
      BY <3>1, <3>4, SeqDef
    <3>6. mloc' = [mloc EXCEPT ![m] = new]
      BY <2>2
    <3> HIDE DEF new
    <3>7. PassTypes'
      BY <2>1, <2>2, <3>5, <3>6 DEF PassTypes, F!MGoto
    <3> QED BY <1>3, <3>7, PassOnly DEF F!ReconcileRead
  <2>3. CASE F!EndPass(m, "reconcile")
    <3>1. PassTypes'
      BY <2>1, <2>3, EndTypes
    <3> QED BY <1>3, <3>1, PassOnly DEF F!ReconcileRead
  <2> QED BY <1>3, <2>2, <2>3 DEF F!ReconcileRead
<1>4. CASE F!ReconcileWrite(m)
  <2>1. mpc[m] = "readywrite" /\ "readywrite" \notin AtPass /\ "reconcile" \in DOMAIN F!Passes
    BY <1>4 DEF F!ReconcileWrite, F!MAt, AtPass, F!Passes
  <2>2. PassTypes'
    BY <1>4, <2>1, SkipTypes DEF F!ReconcileWrite
  <2>3. F!item(m) \in F!Listed
    BY <2>1, ItemTypes
  <2>4. [F!item(m).copy EXCEPT !.status = "ready"] \in F!Row /\ F!item(m).file \in Uploads
    BY <2>3 DEF F!Listed, F!Row, F!Status
  <2>5. row' \in [Uploads -> F!Row] /\ order' \in Seq(Uploads) /\ overtaken' \subseteq Uploads
    BY <1>4, <2>4, UpdateTypes DEF F!ReconcileWrite
  <2> QED BY <1>4, <2>2, <2>5 DEF F!ReconcileWrite, FileTypes, ReqTypes, StoreTypes, F!store, F!keys, F!Fine
<1>5. CASE F!deleteObject(m)
  <2>1. mpc[m] = "delobject" /\ "delobject" \notin AtPass /\ "delstaged" \in CleanerPoint
    BY <1>5 DEF F!deleteObject, F!MAt, AtPass, CleanerPoint
  <2>2. PassTypes'
    BY <1>5, <2>1, MGotoTypes DEF F!deleteObject
  <2>3. object' \in [Uploads -> SUBSET F!Key]
    BY <1>5 DEF F!deleteObject, StoreTypes
  <2> QED BY <1>5, <2>2, <2>3 DEF F!deleteObject, FileTypes, ReqTypes, StoreTypes, F!keys, F!history, F!Fine
<1>6. ASSUME NEW from, from \notin AtPass, NEW to \in CleanerPoint, F!StagingGone(m, from, to) PROVE FileTypes'
  <2>1. mpc[m] \notin AtPass
    BY <1>6 DEF F!StagingGone, F!MAt
  <2>2. PassTypes'
    BY <1>6, <2>1, MGotoTypes DEF F!StagingGone
  <2> QED BY <1>6, <2>2 DEF F!StagingGone, FileTypes, ReqTypes, StoreTypes, F!keys, F!history, F!Fine
<1>7. ASSUME NEW from, from \notin AtPass, NEW status \in F!Status, NEW pass \in DOMAIN F!Passes, F!Conclude(m, from, status, pass)
      PROVE FileTypes'
  <2>1. mpc[m] \notin AtPass
    BY <1>7 DEF F!Conclude, F!MAt
  <2>2. PassTypes'
    BY <1>7, <2>1, SkipTypes, EndTypes DEF F!Conclude
  <2>3. F!item(m).file \in Uploads
    BY <2>1, ItemTypes DEF F!Listed
  <2>4. row' \in [Uploads -> F!Row] /\ order' \in Seq(Uploads)
    BY <1>7, <2>3, MarkTypes DEF F!Conclude
  <2> QED BY <1>7, <2>2, <2>4 DEF F!Conclude, FileTypes, ReqTypes, StoreTypes, F!store, F!keys, F!history, F!Fine
<1>8. CASE F!CleanupYoung(m)
  <2>1. mpc[m] = "judge" /\ "judge" \notin AtPass /\ "unstage" \in CleanerPoint /\ "pending" \in DOMAIN F!Passes
    BY <1>8 DEF F!CleanupYoung, F!MAt, AtPass, CleanerPoint, F!Passes
  <2>2. PassTypes'
    BY <1>8, <2>1, MGotoTypes, SkipTypes DEF F!CleanupYoung
  <2> QED BY <1>8, <2>2, PassOnly DEF F!CleanupYoung
<1>9. CASE F!MaintenanceFault(m)
  <2>1. \/ \E pass \in DOMAIN F!Passes : F!Skip(m, pass) /\ mpc[m] \notin AtPass
        \/ \E pass \in DOMAIN F!Passes : F!EndPass(m, pass)
    BY <1>9 DEF F!MaintenanceFault, AtPass, F!Passes
  <2>2. PassTypes'
    BY <2>1, SkipTypes, EndTypes
  <2> QED BY <1>9, <2>2, PassOnly DEF F!MaintenanceFault
<1>10. /\ {"reconcile", "deleting", "pending"} \subseteq DOMAIN F!Passes
       /\ "delstaged" \notin AtPass /\ "delmark" \notin AtPass /\ "unstage" \notin AtPass /\ "failmark" \notin AtPass
       /\ "delmark" \in CleanerPoint /\ "failmark" \in CleanerPoint /\ "deleted" \in F!Status /\ "failed" \in F!Status
  BY DEF F!Passes, AtPass, CleanerPoint, F!Status
<1> QED
  BY <1>1, <1>2, <1>3, <1>4, <1>5, <1>6, <1>7, <1>8, <1>9, <1>10 DEF F!Maintenance, F!ReconcilePending, F!ProcessDeleting, F!CleanupPending

LEMMA CrashTypes == ASSUME F!FilesAssumption, FileTypes, F!Crash PROVE FileTypes'
<1>1. ReqTypes'
  BY Copies DEF F!Crash, FileTypes, ReqTypes, UploadPoint, EditorPoint, DeleterPoint
<1>2. PassTypes'
  BY EmptySeq DEF F!Crash, FileTypes, PassTypes, CleanerPoint, AtPass, F!MAt
<1> QED
  BY <1>1, <1>2 DEF F!Crash, FileTypes, StoreTypes, F!store, F!Failing, F!FilesAssumption

LEMMA TypesKept == ASSUME F!FilesAssumption, FileTypes, F!Next PROVE FileTypes'
<1>1. ASSUME NEW e \in Editors, F!Patch(e) PROVE FileTypes'
  <2>1. e \in Editors \cup Deleters /\ ((e \in Editors /\ F!Patch(e)) \/ (e \in Deleters /\ F!Delete(e)))
    BY <1>1
  <2> QED BY <2>1, RequestTypes
<1>2. ASSUME NEW d \in Deleters, F!Delete(d) PROVE FileTypes'
  BY <1>2, RequestTypes
<1> QED
  BY <1>1, <1>2, UploadTypes, UseTypes, MaintenanceTypes, CrashTypes DEF F!Next

-----------------------------------------------------------------------------
(* What a step does to a file, whoever takes it. *)

(* The row of f stays, moves on to a status that its present state allows, takes the key of *)
(* its own upload, or is created by it.                                                     *)
Move(f) ==
    /\ row'[f].key = row[f].key
    /\ \/ row[f].status = "pending" /\ row'[f].status = "ready" /\ row[f].key \in object[f]
       \/ row[f].status = "pending" /\ row'[f].status = "failed"
       \/ /\ row[f].status \in {"pending", "ready", "failed", "damaged"} /\ row'[f].status = "deleting"
          /\ f \notin used \/ f \in forced'
       \/ row[f].status = "deleting" /\ row'[f].status = "deleted" /\ (object[f] = {} \/ f \in late)
Published(f) ==
    /\ fpc[f] = "keywrite" /\ fpc'[f] = "promote"
    /\ row[f].status = "pending" /\ row'[f].status = "pending" /\ row'[f].key = floc[f].copy.key
Create(f) ==
    /\ fpc[f] = "new" /\ fpc'[f] = "stage" /\ ~F!Exists(f) /\ row'[f].status = "pending"
RowStep(f) == f \in overtaken' \/ row'[f] = row[f] \/ Move(f) \/ Published(f) \/ Create(f)

(* The object of f is promoted by its upload, or deleted once the row is deleting. *)
Promoted(f) ==
    /\ fpc[f] = "promote" /\ fpc'[f] = "readyread" /\ row' = row
    /\ object'[f] = object[f] \cup {floc[f].copy.key}
    /\ f \in late' \/ ~F!Passed(f, {"delstaged", "delmark"})
ObjectStep(f) ==
    \/ object'[f] = object[f]
    \/ Promoted(f)
    \/ object'[f] \subseteq object[f] /\ (f \in overtaken \/ Gone(f))

FileStep(f) ==
    /\ (f \in overtaken => f \in overtaken') /\ (f \in forced => f \in forced')
    /\ f \in late => f \in overtaken' \cup late' \/ object'[f] = {}
    /\ RowStep(f) /\ ObjectStep(f)
    /\ f \in used' => f \in used \/ (row[f].status = "ready" /\ row'[f] = row[f])
    /\ F!Exists(f) => row'[f].status # "absent"
    /\ fpc[f] = "new" /\ fpc'[f] = "new" /\ ~F!Exists(f) => row'[f] = row[f]

-----------------------------------------------------------------------------
(* What such steps leave true of a file and of the actors that do not move. *)

LEMMA FileKept ==
    ASSUME NEW f, FileStep(f), UploadInv(f), FileInv(f) PROVE FileInv(f)'
<1> USE DEF FileStep, RowStep, ObjectStep, F!Exists
<1> SUFFICES ASSUME f \notin overtaken' PROVE FileInv(f)'
  BY DEF FileInv
<1>0. f \notin overtaken
  OBVIOUS
<1>1. object'[f] \subseteq {row'[f].key}
  <2>1. CASE Published(f) \/ Create(f)
    <3>1. object[f] = {} /\ fpc[f] # "promote"
      BY <2>1 DEF Published, Create, UploadInv
    <3> QED BY <3>1 DEF Promoted
  <2>2. CASE row'[f] = row[f] \/ Move(f)
    <3>1. row'[f].key = row[f].key /\ object[f] \subseteq {row[f].key}
      BY <1>0, <2>2 DEF Move, FileInv
    <3>2. CASE Promoted(f)
      BY <1>0, <3>1, <3>2 DEF Promoted, UploadInv
    <3>3. CASE object'[f] \subseteq object[f]
      BY <3>1, <3>3
    <3> QED BY <3>2, <3>3
  <2> QED BY <2>1, <2>2
<1>2. CASE Published(f) \/ Create(f)
  <2>1. row'[f].status = "pending"
    BY <1>2 DEF Published, Create
  <2>2. f \notin used' \ forced'
    BY <1>0, <1>2 DEF Published, Create, FileInv
  <2> QED BY <1>1, <2>1, <2>2 DEF FileInv
<1>3. CASE row'[f] = row[f] \/ Move(f)
  <2>1. row'[f].key = row[f].key
    BY <1>3 DEF Move
  <2>2. ASSUME row'[f].status = "ready" PROVE row[f].key \in object'[f]
    BY <1>0, <1>3, <2>2 DEF Move, FileInv, Promoted, Gone
  <2>3. ASSUME f \in used' \ forced' PROVE row'[f].status \in {"ready", "damaged"} /\ row[f].key \in object'[f]
    <3>1. row[f].status \in {"ready", "damaged"} /\ row[f].key \in object[f]
      BY <1>0, <2>3 DEF FileInv
    <3>2. row'[f].status \in {"ready", "damaged"}
      BY <1>0, <1>3, <2>3, <3>1 DEF Move
    <3> QED BY <1>0, <3>1, <3>2 DEF Promoted, Gone
  <2>4. ASSUME f \notin late', row'[f].status = "deleted" PROVE object'[f] = {}
    <3>1. row[f].status \in {"deleting", "deleted"} /\ (f \in late \/ object[f] = {})
      BY <1>0, <1>3, <2>4 DEF Move, FileInv
    <3>2. ~Promoted(f)
      <4> SUFFICES ASSUME Promoted(f) PROVE FALSE
        OBVIOUS
      <4>1. row[f].status = "deleted" /\ f \in late'
        BY <2>4 DEF Promoted, F!Passed
      <4> QED BY <2>4, <4>1
    <3> QED BY <2>4, <3>1, <3>2
  <2> QED BY <1>1, <2>1, <2>2, <2>3, <2>4 DEF FileInv
<1> QED BY <1>2, <1>3

LEMMA UploadKept ==
    ASSUME NEW u, FileStep(u), UploadInv(u), fpc'[u] = fpc[u], floc'[u] = floc[u] PROVE UploadInv(u)'
<1>1. HasObject(u, floc[u].copy.key) => HasObject(u, floc[u].copy.key)'
  BY DEF FileStep, HasObject, RowStep, ObjectStep, Move, Published, Create, Promoted, Gone, F!Exists
<1>3. fpc[u] = "new" => ~F!Exists(u)'
  BY DEF FileStep, UploadInv, F!Exists
<1>4. fpc[u] \in {"new", "stage", "observe", "keyread", "keywrite", "promote"} => object'[u] = {}
  BY DEF FileStep, ObjectStep, Promoted, UploadInv
<1>5. fpc[u] \in {"promote", "readyread", "readywrite"} /\ u \notin overtaken' => floc[u].copy.key = row'[u].key
  BY DEF FileStep, RowStep, Move, Published, Create, UploadInv
<1>6. fpc[u] \in {"readyread", "readywrite"} => floc[u].copy.status = "ready" /\ HasObject(u, floc[u].copy.key)
  BY DEF UploadInv
<1>7. /\ fpc[u] \in {"stage", "observe", "keyread", "keywrite", "promote"} => floc[u].copy.status = "pending"
      /\ fpc[u] = "keywrite" => floc[u].seen.status = "pending"
      /\ fpc[u] = "readywrite" => floc[u].seen.status \in {"pending", "ready"}
  BY DEF UploadInv
<1> QED BY <1>1, <1>3, <1>4, <1>5, <1>6, <1>7 DEF UploadInv

LEMMA EditorKept ==
    ASSUME NEW e, FileStep(floc[e].file), EditorInv(e), fpc'[e] = fpc[e], floc'[e] = floc[e] PROVE EditorInv(e)'
BY DEF EditorInv, FileStep, RowStep, Move, Published, Create, F!Exists

LEMMA CleanerKept ==
    ASSUME FileTypes, NEW m \in Cleaners, \A f \in Uploads : FileStep(f), CleanerInv(m), mpc'[m] = mpc[m], mloc'[m] = mloc[m]
    PROVE  CleanerInv(m)'
<1>1. \A i \in DOMAIN mloc[m] : mloc[m][i] \in F!Listed /\ mloc[m][i].file \in Uploads
  <2>1. mloc[m] \in Seq(F!Listed) /\ DOMAIN mloc[m] = 1..Len(mloc[m])
    BY DEF FileTypes, PassTypes
  <2>2. \A i \in DOMAIN mloc[m] : mloc[m][i] \in F!Listed
    BY <2>1, ElementOfSeq
  <2> QED BY <2>2 DEF F!Listed
<1>2. mpc[m] \notin AtPass => F!item(m).file \in Uploads
  BY ItemTypes DEF FileTypes, F!Listed
<1>3. F!item(m)' = F!item(m)
  BY DEF F!item
<1>4. (\A i \in DOMAIN mloc[m] : F!Exists(mloc[m][i].file))'
  <2>1. \A i \in DOMAIN mloc[m] : F!Exists(mloc[m][i].file) /\ FileStep(mloc[m][i].file)
    BY <1>1 DEF CleanerInv
  <2>2. \A i \in DOMAIN mloc[m] : row'[mloc[m][i].file].status # "absent"
    BY <2>1 DEF FileStep
  <2> QED BY <2>2 DEF F!Exists
<1>5. mpc[m] \in {"readyread", "readywrite"} => HasObject(F!item(m).file, F!item(m).copy.key)'
  <2> SUFFICES ASSUME mpc[m] \in {"readyread", "readywrite"} PROVE HasObject(F!item(m).file, F!item(m).copy.key)'
    OBVIOUS
  <2> DEFINE f == F!item(m).file
             k == F!item(m).copy.key
  <2>1. FileStep(f) /\ HasObject(f, k)
    BY <1>2 DEF CleanerInv, AtPass
  <2>2. f' = f /\ k' = k
    BY <1>3
  <2> HIDE DEF f, k
  <2>3. HasObject(f, k)'
    BY <2>1, <2>2 DEF FileStep, HasObject, RowStep, ObjectStep, Move, Published, Create, Promoted, Gone, F!Exists
  <2> QED BY <2>3 DEF f, k
<1>6. mpc[m] \in {"delobject", "delstaged", "delmark"} => (\A i \in DOMAIN mloc[m] : GoneAs(mloc[m][i]))'
  <2> SUFFICES ASSUME mpc[m] \in {"delobject", "delstaged", "delmark"}, NEW i \in DOMAIN mloc[m] PROVE GoneAs(mloc[m][i])'
    BY DEF GoneAs
  <2>1. GoneAs(mloc[m][i]) /\ FileStep(mloc[m][i].file)
    BY <1>1 DEF CleanerInv
  <2> QED BY <2>1 DEF FileStep, GoneAs, RowStep, Move, Published, Create, Gone, F!Exists
<1>7. mpc[m] \in {"delstaged", "delmark"} => F!item(m).file \in overtaken' \cup late' \/ object'[F!item(m).file] = {}
  <2> SUFFICES ASSUME mpc[m] \in {"delstaged", "delmark"} PROVE F!item(m).file \in overtaken' \cup late' \/ object'[F!item(m).file] = {}
    OBVIOUS
  <2>0. mpc[m] \notin AtPass
    BY DEF AtPass
  <2>1. GoneAs(F!item(m)) /\ FileStep(F!item(m).file)
    BY <1>2, <2>0, ItemTypes DEF FileTypes, CleanerInv
  <2>2. F!item(m).file \in overtaken \cup late \/ object[F!item(m).file] = {}
    BY DEF CleanerInv
  <2>3. Promoted(F!item(m).file) => F!item(m).file \in late'
    BY DEF Promoted, F!Passed, F!item
  <2> QED BY <2>1, <2>2, <2>3 DEF FileStep, ObjectStep
<1>8. mpc[m] = "readywrite" => F!item(m).seen.status \in {"pending", "ready"}
  BY DEF CleanerInv
<1> QED BY <1>3, <1>4, <1>5, <1>6, <1>7, <1>8 DEF CleanerInv

(* A step that is such a step for every file, and leaves every actor where it was or where its *)
(* invariant holds, keeps the invariant.                                                       *)
LEMMA Assemble ==
    ASSUME FilesInv, FileTypes', KeyInv', \A f \in Uploads : FileStep(f),
           \A u \in Uploads : (fpc'[u] = fpc[u] /\ floc'[u] = floc[u]) \/ UploadInv(u)',
           \A e \in Editors : (fpc'[e] = fpc[e] /\ floc'[e] = floc[e]) \/ EditorInv(e)',
           \A m \in Cleaners : (mpc'[m] = mpc[m] /\ mloc'[m] = mloc[m]) \/ CleanerInv(m)'
    PROVE  FilesInv'
<1>1. ASSUME NEW u \in Uploads PROVE UploadInv(u)' /\ FileInv(u)'
  BY UploadKept, FileKept DEF FilesInv, ActorsInv
<1>2. ASSUME NEW e \in Editors PROVE EditorInv(e)'
  <2>1. CASE fpc[e] \in {"patchread", "patchwrite"} /\ fpc'[e] = fpc[e] /\ floc'[e] = floc[e]
    <3>1. FileStep(floc[e].file) /\ EditorInv(e)
      BY <2>1 DEF FilesInv, FileTypes, ReqTypes, ActorsInv
    <3> QED BY <2>1, <3>1, EditorKept
  <2>2. CASE fpc[e] \notin {"patchread", "patchwrite"} /\ fpc'[e] = fpc[e]
    BY <2>2 DEF EditorInv
  <2> QED BY <2>1, <2>2
<1>3. ASSUME NEW m \in Cleaners PROVE CleanerInv(m)'
  BY CleanerKept DEF FilesInv, ActorsInv
<1> QED BY <1>1, <1>2, <1>3 DEF FilesInv, ActorsInv

(* A file of which a step changes nothing. *)
LEMMA Still ==
    ASSUME NEW f, row'[f] = row[f], object'[f] = object[f], f \in used' => f \in used,
           overtaken \subseteq overtaken', f \in late => f \in late', forced \subseteq forced'
    PROVE  FileStep(f)
BY DEF FileStep, RowStep, ObjectStep, F!Exists

LEMMA Written ==
    ASSUME StoreTypes, NEW f \in Uploads, NEW r \in F!Row, F!Write(f, r)
    PROVE  row'[f] = r /\ \A g \in Uploads \ {f} : row'[g] = row[g]
BY DEF F!Write, StoreTypes

(* MarkStatus leaves every other row alone, and moves this one on if it may. *)
LEMMA Marked ==
    ASSUME StoreTypes, NEW f \in Uploads, NEW status \in F!Status, F!MarkStatus(f, status)
    PROVE  /\ \A g \in Uploads \ {f} : row'[g] = row[g]
           /\ \/ row'[f] = row[f]
              \/ /\ F!repositoryStatusTransition(row[f].status, status) /\ status # row[f].status
                 /\ row'[f].key = row[f].key /\ row'[f].status = status
<1>1. CASE F!repositoryStatusTransition(row[f].status, status)
  <2>1. [row[f] EXCEPT !.status = status] \in F!Row /\ row[f] \in F!Row
    BY DEF StoreTypes, F!Row
  <2>2. row'[f] = [row[f] EXCEPT !.status = status] /\ \A g \in Uploads \ {f} : row'[g] = row[g]
    BY <1>1, <2>1, Written DEF F!MarkStatus
  <2> QED BY <1>1, <2>1, <2>2 DEF F!Row
<1>2. CASE ~F!repositoryStatusTransition(row[f].status, status)
  BY <1>2 DEF F!MarkStatus
<1> QED BY <1>1, <1>2

LEMMA UploadOthers ==
    ASSUME F!FilesAssumption, FileTypes, NEW u \in Uploads, F!Upload(u) \/ F!UploadFault(u)
    PROVE  /\ \A r \in F!Requests \ {u} : fpc'[r] = fpc[r] /\ floc'[r] = floc[r]
           /\ UNCHANGED <<mpc, mloc, used>>
           /\ overtaken \subseteq overtaken' /\ late \subseteq late' /\ forced \subseteq forced'
           /\ \A g \in Uploads \ {u} : row'[g] = row[g] /\ object'[g] = object[g]
<1>0. ReqTypes /\ StoreTypes
  BY DEF FileTypes
<1> USE <1>0
<1>1. \A r \in F!Requests \ {u} : fpc'[r] = fpc[r] /\ floc'[r] = floc[r]
  BY DEF F!Upload, F!UploadFault, F!UploadCall, F!PutStaging, F!Observe, F!PublishKey, F!Promote, F!UpdateRead, F!persistReady,
         F!LeavePublished, F!deleteStaging, F!markFailed, F!Return, F!Goto, ReqTypes
<1>2. UNCHANGED <<mpc, mloc, used>>
  BY DEF F!Upload, F!UploadFault, F!UploadCall, F!PutStaging, F!Observe, F!PublishKey, F!Promote, F!UpdateRead, F!persistReady,
         F!LeavePublished, F!deleteStaging, F!markFailed
<1>3. overtaken \subseteq overtaken' /\ late \subseteq late' /\ forced \subseteq forced'
  BY DEF F!Upload, F!UploadFault, F!UploadCall, F!PutStaging, F!Observe, F!PublishKey, F!Promote, F!UpdateRead, F!persistReady,
         F!LeavePublished, F!deleteStaging, F!markFailed, F!history, F!UpdateWrite, F!Succeed
<1>4. ASSUME NEW g \in Uploads \ {u} PROVE object'[g] = object[g]
  BY DEF F!Upload, F!UploadFault, F!UploadCall, F!PutStaging, F!Observe, F!PublishKey, F!Promote, F!UpdateRead, F!persistReady,
         F!LeavePublished, F!deleteStaging, F!markFailed, F!store, StoreTypes
<1>5. row' = row \/ (\E r \in F!Row : F!Write(u, r)) \/ F!MarkStatus(u, "failed")
  <2>1. floc[u].copy \in F!Row /\ [status |-> "pending", key |-> "declared"] \in F!Row
    BY DEF ReqTypes, F!Row, F!Status, F!Key
  <2>2. ASSUME F!Write(u, floc[u].copy) \/ F!Write(u, [status |-> "pending", key |-> "declared"]) PROVE \E r \in F!Row : F!Write(u, r)
    BY <2>1, <2>2
  <2>3. row' = row \/ F!Write(u, floc[u].copy) \/ F!Write(u, [status |-> "pending", key |-> "declared"]) \/ F!MarkStatus(u, "failed")
    BY DEF F!Upload, F!UploadFault, F!UploadCall, F!PutStaging, F!Observe, F!PublishKey, F!Promote, F!UpdateRead, F!persistReady,
         F!LeavePublished, F!deleteStaging, F!markFailed, F!UpdateWrite
  <2> QED BY <2>2, <2>3
<1>6. ASSUME NEW g \in Uploads \ {u} PROVE row'[g] = row[g]
  BY <1>5, Written, Marked DEF F!Status
<1> QED BY <1>1, <1>2, <1>3, <1>4, <1>6

LEMMA UploadOwn ==
    ASSUME F!FilesAssumption, FilesInv, NEW u \in Uploads, F!Upload(u) \/ F!UploadFault(u)
    PROVE  FileStep(u) /\ UploadInv(u)'
<1>0. FileTypes /\ ReqTypes /\ StoreTypes /\ UploadInv(u) /\ FileInv(u) /\ u \in F!Requests
  BY DEF FilesInv, FileTypes, ActorsInv
<1>m. UNCHANGED used /\ overtaken \subseteq overtaken' /\ late \subseteq late' /\ forced \subseteq forced'
  BY <1>0, UploadOthers
<1> USE <1>0, <1>m
<1>1. CASE F!UploadCall(u)
  <2>1. CASE u \in Keyed /\ idem # NoUpload
    <3>1. row' = row /\ object' = object /\ fpc'[u] = "done"
      BY <1>1, <2>1 DEF F!UploadCall, F!store, F!Goto, ReqTypes
    <3> QED BY <3>1, Still DEF UploadInv
  <2>2. CASE ~(u \in Keyed /\ idem # NoUpload)
    <3>1. [status |-> "pending", key |-> "declared"] \in F!Row
      BY DEF F!Row, F!Status, F!Key
    <3>2. row'[u] = [status |-> "pending", key |-> "declared"]
      BY <1>1, <2>2, <3>1, Written DEF F!UploadCall
    <3>3. fpc[u] = "new" /\ fpc'[u] = "stage" /\ object' = object /\ floc'[u].copy = row'[u]
      BY <1>1, <2>2 DEF F!UploadCall, F!store, F!Goto, ReqTypes, F!At
    <3>4. object[u] = {} /\ ~F!Exists(u)
      BY <3>3 DEF UploadInv
    <3>5. UploadInv(u)'
      BY <3>2, <3>3, <3>4 DEF UploadInv
    <3>6. FileStep(u)
      BY <3>2, <3>3, <3>4 DEF FileStep, RowStep, Create, ObjectStep, F!Exists
    <3> QED BY <3>5, <3>6
  <2> QED BY <2>1, <2>2
<1>2. CASE F!PutStaging(u)
  <2>1. row' = row /\ object' = object /\ fpc[u] = "stage" /\ fpc'[u] = "observe" /\ floc' = floc
    BY <1>2 DEF F!PutStaging, F!Goto, ReqTypes, F!At
  <2> QED BY <2>1, Still DEF UploadInv
<1>3. CASE F!Observe(u)
  <2>1. row' = row /\ object' = object /\ fpc[u] = "observe"
    BY <1>3 DEF F!Observe, F!Goto, ReqTypes, F!At, F!store
  <2>2. fpc'[u] = "unstage" \/ (fpc'[u] = "keyread" /\ floc'[u].copy.status = floc[u].copy.status)
    <3>1. CASE F!Goto(u, "unstage")
      BY <3>1 DEF F!Goto, ReqTypes
    <3>2. CASE F!Goto(u, "keyread") /\ \E k \in F!Key : floc' = [floc EXCEPT ![u].copy.key = k]
      <4>1. PICK k \in F!Key : floc' = [floc EXCEPT ![u].copy.key = k]
        BY <3>2
      <4>2. floc[u] \in [file : Uploads \cup {NoUpload}, copy : F!Row, seen : F!Row]
        BY DEF ReqTypes
      <4>3. floc'[u].copy = [floc[u].copy EXCEPT !.key = k]
        BY <4>1, <4>2 DEF ReqTypes
      <4>4. floc'[u].copy.status = floc[u].copy.status
        BY <4>2, <4>3 DEF F!Row
      <4> QED BY <3>2, <4>4 DEF F!Goto, ReqTypes
    <3> QED BY <1>3, <3>1, <3>2 DEF F!Observe
  <2> QED BY <2>1, <2>2, Still DEF UploadInv
<1>4. CASE F!UpdateRead(u, "keyread", "keywrite", "unstage")
  <2>1. row' = row /\ object' = object /\ fpc[u] = "keyread" /\ floc[u].file = u
    BY <1>4 DEF F!UpdateRead, ReqTypes, F!At, F!store
  <2>2. floc'[u].copy = floc[u].copy /\ floc'[u].seen = row[u]
    BY <1>4, <2>1 DEF F!UpdateRead, ReqTypes
  <2>3. fpc'[u] = "unstage" \/ (fpc'[u] = "keywrite" /\ F!UpdateAccepts(u, floc[u].copy))
    BY <1>4, <2>1 DEF F!UpdateRead, F!Goto, ReqTypes
  <2>4. F!UpdateAccepts(u, floc[u].copy) => row[u].status = "pending"
    BY <2>1 DEF F!UpdateAccepts, F!repositoryUpdateTransition, UploadInv
  <2> QED BY <2>1, <2>2, <2>3, <2>4, Still DEF UploadInv
<1>5. CASE F!UpdateRead(u, "readyread", "readywrite", "left")
  <2>1. row' = row /\ object' = object /\ fpc[u] = "readyread" /\ floc[u].file = u /\ overtaken' = overtaken
    BY <1>5 DEF F!UpdateRead, ReqTypes, F!At, F!store, F!history
  <2>2. floc'[u].copy = floc[u].copy /\ floc'[u].seen = row[u]
    BY <1>5, <2>1 DEF F!UpdateRead, ReqTypes
  <2>3. fpc'[u] = "left" \/ (fpc'[u] = "readywrite" /\ F!UpdateAccepts(u, floc[u].copy))
    BY <1>5, <2>1 DEF F!UpdateRead, F!Goto, ReqTypes
  <2>4. F!UpdateAccepts(u, floc[u].copy) => row[u].status \in {"pending", "ready"}
    BY <2>1 DEF F!UpdateAccepts, F!repositoryUpdateTransition, UploadInv
  <2> QED BY <2>1, <2>2, <2>3, <2>4, Still DEF UploadInv, HasObject, Gone
<1>6. CASE F!PublishKey(u)
  <2>1. F!UpdateWrite(u, floc[u].copy, floc[u].seen) /\ floc[u].copy \in F!Row /\ row[u] \in F!Row
    BY <1>6 DEF F!PublishKey, ReqTypes, StoreTypes
  <2>2. row'[u] = floc[u].copy /\ (row[u] \notin {floc[u].seen, floc[u].copy} => u \in overtaken')
    BY <2>1, Written DEF F!UpdateWrite
  <2>3. fpc[u] = "keywrite" /\ fpc'[u] = "promote" /\ object' = object /\ floc' = floc
    BY <1>6 DEF F!PublishKey, F!Goto, ReqTypes, F!At, F!store
  <2>4. floc[u].copy.status = "pending" /\ floc[u].seen.status = "pending" /\ object[u] = {}
    BY <2>3 DEF UploadInv
  <2>5. UploadInv(u)'
    BY <2>2, <2>3, <2>4 DEF UploadInv
  <2>6. FileStep(u)
    BY <2>2, <2>3, <2>4 DEF FileStep, RowStep, Published, ObjectStep, F!Exists
  <2> QED BY <2>5, <2>6
<1>7. CASE F!Promote(u)
  <2>0. row' = row /\ fpc[u] = "promote" /\ overtaken' = overtaken
    BY <1>7 DEF F!Promote, F!At
  <2>1. CASE u \in staged
    <3>1. /\ fpc'[u] = "readyread" /\ object'[u] = object[u] \cup {floc[u].copy.key}
          /\ floc'[u].copy.key = floc[u].copy.key /\ floc'[u].copy.status = "ready"
          /\ u \in late' \/ ~F!Passed(u, {"delstaged", "delmark"})
      BY <1>7, <2>1 DEF F!Promote, F!Goto, ReqTypes, StoreTypes, F!Row
    <3>2. UploadInv(u)'
      BY <2>0, <3>1 DEF UploadInv, HasObject
    <3>3. FileStep(u)
      BY <2>0, <3>1 DEF FileStep, RowStep, ObjectStep, Promoted, F!Exists
    <3> QED BY <3>2, <3>3
  <2>2. CASE u \notin staged
    <3>1. fpc'[u] = "unstage" /\ object' = object
      BY <1>7, <2>2 DEF F!Promote, F!Goto, ReqTypes, F!store
    <3> QED BY <2>0, <3>1, Still DEF UploadInv
  <2> QED BY <2>1, <2>2
<1>8. CASE F!persistReady(u)
  <2>1. F!UpdateWrite(u, floc[u].copy, floc[u].seen) /\ floc[u].copy \in F!Row /\ row[u] \in F!Row /\ floc[u].seen \in F!Row
    BY <1>8 DEF F!persistReady, ReqTypes, StoreTypes
  <2>2. row'[u] = floc[u].copy /\ (row[u] \notin {floc[u].seen, floc[u].copy} => u \in overtaken')
    BY <2>1, Written DEF F!UpdateWrite
  <2>3. fpc[u] = "readywrite" /\ fpc'[u] = "done" /\ object' = object
    BY <1>8 DEF F!persistReady, F!Return, F!Goto, ReqTypes, F!At, F!store
  <2>4. /\ floc[u].copy.status = "ready" /\ HasObject(u, floc[u].copy.key) /\ floc[u].seen.status \in {"pending", "ready"}
        /\ u \notin overtaken => floc[u].copy.key = row[u].key
    BY <2>3 DEF UploadInv
  <2>5. UploadInv(u)'
    BY <2>3 DEF UploadInv
  <2>6. CASE u \in overtaken'
    <3>1. row'[u].status # "absent" /\ fpc[u] # "new"
      BY <2>2, <2>3, <2>4
    <3>2. RowStep(u) /\ ObjectStep(u)
      BY <2>3, <2>6 DEF RowStep, ObjectStep
    <3> QED BY <2>5, <3>1, <3>2 DEF FileStep, F!Exists
  <2>7. CASE u \notin overtaken'
    <3>1. row[u] \in {floc[u].seen, floc[u].copy} /\ row'[u].key = row[u].key /\ row'[u].status = "ready" /\ row[u].key \in object[u]
      BY <2>2, <2>4, <2>7 DEF HasObject, Gone
    <3>2. row[u].status = "ready" => row'[u] = row[u]
      BY <2>1, <2>2, <3>1 DEF F!Row
    <3>3. RowStep(u)
      BY <2>4, <3>1, <3>2 DEF RowStep, Move
    <3> QED BY <2>3, <2>4, <2>5, <3>1, <3>3 DEF FileStep, ObjectStep, F!Exists
  <2> QED BY <2>5, <2>6, <2>7
<1>9. CASE F!LeavePublished(u)
  <2>1. row' = row /\ object' = object /\ fpc'[u] = "done"
    BY <1>9 DEF F!LeavePublished, F!Return, F!Goto, ReqTypes, F!store
  <2> QED BY <2>1, Still DEF UploadInv
<1>10. CASE F!deleteStaging(u)
  <2>1. row' = row /\ object' = object /\ fpc'[u] = "fail"
    BY <1>10 DEF F!deleteStaging, F!Goto, ReqTypes
  <2> QED BY <2>1, Still DEF UploadInv
<1>11. CASE F!markFailed(u)
  <2>1. object' = object /\ fpc'[u] = "done" /\ F!MarkStatus(u, "failed") /\ fpc[u] = "fail"
    BY <1>11 DEF F!markFailed, F!Return, F!Goto, ReqTypes, F!store, F!At
  <2>2. row'[u] = row[u] \/ (row[u].status = "pending" /\ row'[u].key = row[u].key /\ row'[u].status = "failed")
    BY <2>1, Marked DEF F!repositoryStatusTransition, F!Status
  <2> QED BY <2>1, <2>2 DEF UploadInv, FileStep, RowStep, Move, ObjectStep, F!Exists
<1>12. CASE F!UploadFault(u)
  <2>1. row' = row /\ object' = object /\ fpc'[u] \in {"unstage", "left", "fail", "done"}
    BY <1>12 DEF F!UploadFault, F!Return, F!Goto, ReqTypes, F!store, F!At
  <2> QED BY <2>1, Still DEF UploadInv
<1> QED
  BY <1>1, <1>2, <1>3, <1>4, <1>5, <1>6, <1>7, <1>8, <1>9, <1>10, <1>11, <1>12 DEF F!Upload

(* The key's mutex has one holder, and what was returned under the key is what is remembered. *)
LEMMA UploadKey ==
    ASSUME F!FilesAssumption, FilesInv, NEW u \in Uploads, F!Upload(u) \/ F!UploadFault(u)
    PROVE  KeyInv'
<1>0. KeyInv /\ ReqTypes /\ StoreTypes /\ Keyed \subseteq Uploads /\ NoUpload \notin Uploads
  BY DEF FilesInv, FileTypes, F!FilesAssumption
<1> USE <1>0
<1>a. \A r \in Uploads \ {u} : fpc'[r] = fpc[r]
  BY UploadOthers DEF FilesInv
<1>1. CASE F!UploadCall(u)
  <2>1. CASE u \in Keyed /\ idem # NoUpload
    <3>1. fpc'[u] = "done" /\ UNCHANGED <<idemMu, idem>> /\ returned' = [returned EXCEPT ![u] = idem]
      BY <1>1, <2>1 DEF F!UploadCall, F!Goto, ReqTypes
    <3>2. \A r \in Uploads : returned'[r] = returned[r] \/ (returned'[r] = idem)
      BY <3>1 DEF StoreTypes
    <3> QED BY <1>a, <3>1, <3>2 DEF KeyInv
  <2>2. CASE u \in Keyed /\ idem = NoUpload
    <3>1. idemMu = NoUpload /\ idemMu' = u /\ UNCHANGED <<idem, returned>>
      BY <1>1, <2>2 DEF F!UploadCall, F!history
    <3> QED BY <1>a, <2>2, <3>1 DEF KeyInv
  <2>3. CASE u \notin Keyed
    <3>1. UNCHANGED <<idemMu, idem, returned>>
      BY <1>1, <2>3 DEF F!UploadCall, F!history
    <3> QED BY <1>a, <2>3, <3>1 DEF KeyInv
  <2> QED BY <2>1, <2>2, <2>3
<1>2. CASE UNCHANGED <<idemMu, idem, returned>> /\ fpc[u] \notin {"new", "done"}
  BY <1>a, <1>2 DEF KeyInv
<1>3. CASE F!Return(u) /\ UNCHANGED <<idem, returned>> /\ fpc[u] \notin {"new", "done"}
  BY <1>a, <1>3 DEF KeyInv, F!Return, F!Goto, ReqTypes
<1>4. CASE F!persistReady(u)
  BY <1>a, <1>4 DEF F!persistReady, F!Succeed, KeyInv, F!Return, F!Goto, ReqTypes, StoreTypes, F!At
<1>5. CASE F!UploadFault(u)
  BY <1>2, <1>3, <1>5 DEF F!UploadFault, F!history, F!At
<1> QED
  BY <1>1, <1>2, <1>3, <1>4, <1>5 DEF F!Upload, F!PutStaging, F!Observe, F!PublishKey, F!Promote, F!UpdateRead,
         F!LeavePublished, F!deleteStaging, F!markFailed, F!keys, F!history, F!At

(* A step that keeps the object, for a row that is there and stays. *)
LEMMA Rewritten ==
    ASSUME NEW f, RowStep(f), row[f].status # "absent", row'[f].status # "absent", UNCHANGED <<used, object>>,
           overtaken \subseteq overtaken', f \in late => f \in late', forced \subseteq forced'
    PROVE  FileStep(f)
BY DEF FileStep, ObjectStep, F!Exists

(* What holds after a request that is not an upload: the other actors have not moved. *)
LEMMA RequestOthers ==
    ASSUME F!FilesAssumption, FilesInv, NEW r \in Editors \cup Deleters, (r \in Editors /\ F!Patch(r)) \/ (r \in Deleters /\ F!Delete(r))
    PROVE  /\ \A q \in F!Requests \ {r} : fpc'[q] = fpc[q] /\ floc'[q] = floc[q]
           /\ UNCHANGED <<mpc, mloc, used, object>> /\ KeyInv' /\ r \notin Uploads
           /\ overtaken \subseteq overtaken' /\ late \subseteq late' /\ forced \subseteq forced'
<1>0. ReqTypes /\ StoreTypes /\ KeyInv /\ r \notin Uploads /\ r # NoUpload /\ Keyed \subseteq Uploads
  BY DEF FilesInv, FileTypes, F!FilesAssumption
<1> USE <1>0
<1>1. \A q \in F!Requests \ {r} : fpc'[q] = fpc[q] /\ floc'[q] = floc[q]
  BY DEF F!Patch, F!Delete, F!PatchCall, F!PatchWrite, F!UpdateRead, F!DeleteCall, F!softDeleteFile, F!Return, F!Goto, ReqTypes
<1>2. UNCHANGED <<mpc, mloc, used, object, idem, returned>>
  BY DEF F!Patch, F!Delete, F!PatchCall, F!PatchWrite, F!UpdateRead, F!DeleteCall, F!softDeleteFile, F!store, F!keys, F!history
<1>3. overtaken \subseteq overtaken' /\ late \subseteq late' /\ forced \subseteq forced'
  BY DEF F!Patch, F!Delete, F!PatchCall, F!PatchWrite, F!UpdateRead, F!DeleteCall, F!softDeleteFile, F!RequestDeletion, F!history
<1>4. idemMu' = idemMu
  BY DEF F!Patch, F!Delete, F!PatchCall, F!PatchWrite, F!UpdateRead, F!DeleteCall, F!softDeleteFile, F!Return, F!keys, StoreTypes
<1>5. \A u \in Uploads : fpc'[u] = fpc[u]
  BY <1>1
<1>6. KeyInv'
  BY <1>2, <1>4, <1>5 DEF KeyInv
<1> QED BY <1>1, <1>2, <1>3, <1>6

LEMMA EditorOwn ==
    ASSUME F!FilesAssumption, FilesInv, NEW e \in Editors, F!Patch(e)
    PROVE  (\A f \in Uploads : FileStep(f)) /\ EditorInv(e)'
<1>0. ReqTypes /\ StoreTypes /\ EditorInv(e) /\ e \in F!Requests
  BY DEF FilesInv, FileTypes, ActorsInv
<1>m. UNCHANGED <<used, object>> /\ overtaken \subseteq overtaken' /\ late \subseteq late' /\ forced \subseteq forced'
  BY RequestOthers
<1>u. \A u \in Uploads : fpc'[u] = fpc[u]
  BY RequestOthers DEF F!FilesAssumption
<1> USE <1>0
<1>1. CASE F!PatchCall(e)
  <2>1. row' = row /\ fpc'[e] = "patchread"
    BY <1>1 DEF F!PatchCall, F!Goto, ReqTypes
  <2>2. PICK f \in Uploads : F!authorizeAccess(f) /\ floc' = [floc EXCEPT ![e] = [file |-> f, copy |-> row[f], seen |-> F!NoRow]]
    BY <1>1 DEF F!PatchCall
  <2>3. floc'[e].file = f /\ floc'[e].copy = row[f]
    BY <2>2 DEF ReqTypes
  <2> QED BY <1>m, <2>1, <2>2, <2>3, Still DEF EditorInv, F!authorizeAccess, F!Exists
<1>2. CASE F!UpdateRead(e, "patchread", "patchwrite", "done")
  <2> DEFINE f == floc[e].file
  <2>1. row' = row /\ fpc[e] = "patchread" /\ overtaken' = overtaken
    BY <1>2 DEF F!UpdateRead, F!At, F!history
  <2>2. floc'[e].copy = floc[e].copy /\ floc'[e].seen = row[f] /\ floc'[e].file = f
    BY <1>2 DEF F!UpdateRead, ReqTypes
  <2>3. fpc'[e] = "done" \/ (fpc'[e] = "patchwrite" /\ F!UpdateAccepts(f, floc[e].copy))
    BY <1>2 DEF F!UpdateRead, F!Goto, ReqTypes
  <2>4. F!UpdateAccepts(f, floc[e].copy) => floc[e].copy.status = row[f].status \/ (row[f].status = "pending" /\ floc[e].copy.status = "ready")
    BY DEF F!UpdateAccepts, F!repositoryUpdateTransition
  <2> HIDE DEF f
  <2>5. /\ F!Exists(f) /\ floc[e].copy.status \notin {"absent", "deleted"}
        /\ floc[e].copy.status = "ready" /\ f \notin overtaken => row[f].status # "pending"
    BY <2>1 DEF EditorInv, f
  <2>6. EditorInv(e)'
    BY <2>1, <2>2, <2>3, <2>4, <2>5 DEF EditorInv, F!Exists
  <2> QED BY <1>m, <2>1, <2>6, Still
<1>3. CASE F!PatchWrite(e)
  <2> DEFINE f == floc[e].file
  <2>1. fpc[e] = "patchwrite" /\ fpc'[e] = "done"
    BY <1>3 DEF F!PatchWrite, F!Return, F!Goto, ReqTypes, F!At
  <2>2. f \in Uploads /\ floc[e].copy \in F!Row /\ row[f] \in F!Row
    BY <2>1 DEF ReqTypes, StoreTypes
  <2>3. F!Write(f, floc[e].copy) /\ (row[f] \notin {floc[e].seen, floc[e].copy} \/ row[f].key # floc[e].copy.key => f \in overtaken')
    BY <1>3 DEF F!PatchWrite
  <2>4. /\ F!Exists(f) /\ floc[e].copy.status \notin {"absent", "deleted"}
        /\ floc[e].copy.status = "ready" /\ f \notin overtaken => row[f].status # "pending"
        /\ floc[e].copy.status = floc[e].seen.status \/ (floc[e].seen.status = "pending" /\ floc[e].copy.status = "ready")
    BY <2>1 DEF EditorInv
  <2> HIDE DEF f
  <2>5. row'[f] = floc[e].copy /\ \A g \in Uploads \ {f} : row'[g] = row[g]
    BY <2>2, <2>3, Written
  <2>6. f \in overtaken' \/ row'[f] = row[f]
    <3> SUFFICES ASSUME f \notin overtaken' PROVE row'[f] = row[f]
      OBVIOUS
    <3>1. row[f] \in {floc[e].seen, floc[e].copy} /\ row[f].key = floc[e].copy.key /\ f \notin overtaken
      BY <1>m, <2>3
    <3>2. row[f].status = floc[e].copy.status
      BY <2>4, <3>1
    <3> QED BY <2>2, <2>5, <3>1, <3>2 DEF F!Row
  <2>7. FileStep(f)
    <3>1. RowStep(f) /\ row[f].status # "absent" /\ row'[f].status # "absent"
      BY <2>4, <2>5, <2>6 DEF RowStep, F!Exists
    <3> QED BY <1>m, <3>1, Rewritten
  <2>8. \A g \in Uploads \ {f} : FileStep(g)
    BY <1>m, <2>5, Still
  <2>9. EditorInv(e)'
    BY <2>1 DEF EditorInv
  <2> QED BY <2>7, <2>8, <2>9
<1> QED BY <1>1, <1>2, <1>3 DEF F!Patch

LEMMA DeleterOwn ==
    ASSUME F!FilesAssumption, FilesInv, NEW d \in Deleters, F!Delete(d)
    PROVE  \A f \in Uploads : FileStep(f)
<1>0. ReqTypes /\ StoreTypes
  BY DEF FilesInv, FileTypes
<1>m. UNCHANGED <<used, object>> /\ overtaken \subseteq overtaken' /\ late \subseteq late' /\ forced \subseteq forced'
  BY RequestOthers
<1> USE <1>0
<1>1. CASE row' = row
  BY <1>1, <1>m, Still
<1>2. CASE F!softDeleteFile(d) /\ F!RequestDeletion(floc[d].file, F!At(d, "force"))
  <2> DEFINE f == floc[d].file
  <2>1. f \in Uploads
    BY <1>2 DEF F!softDeleteFile, ReqTypes
  <2>2. row[f] \in F!Row /\ [row[f] EXCEPT !.status = "deleting"] \in F!Row
    BY <2>1 DEF StoreTypes, F!Row, F!Status
  <2> HIDE DEF f
  <2>3. CASE /\ row[f].status \notin {"absent", "deleting", "deleted"} /\ (f \in forced' \/ f \notin used)
             /\ F!Write(f, [row[f] EXCEPT !.status = "deleting"])
    <3>1. row'[f] = [row[f] EXCEPT !.status = "deleting"] /\ \A g \in Uploads \ {f} : row'[g] = row[g]
      BY <2>1, <2>2, <2>3, Written
    <3>2. row'[f].key = row[f].key /\ row'[f].status = "deleting"
      BY <2>2, <3>1 DEF F!Row
    <3>3. row[f].status \in {"pending", "ready", "failed", "damaged"}
      BY <2>2, <2>3 DEF F!Row, F!Status
    <3>4. RowStep(f)
      BY <2>3, <3>2, <3>3 DEF RowStep, Move
    <3>5. FileStep(f)
      BY <1>m, <3>2, <3>3, <3>4, Rewritten
    <3> QED BY <1>m, <3>1, <3>5, Still
  <2> QED BY <1>1, <1>2, <2>3 DEF F!RequestDeletion, f
<1> QED BY <1>1, <1>2 DEF F!Delete, F!DeleteCall, F!softDeleteFile

LEMMA RequestKept ==
    ASSUME F!FilesAssumption, FilesInv, NEW r \in Editors \cup Deleters, (r \in Editors /\ F!Patch(r)) \/ (r \in Deleters /\ F!Delete(r))
    PROVE  FilesInv' /\ \A f \in Uploads : FileStep(f)
<1>1. FileTypes'
  BY RequestTypes DEF FilesInv
<1>2. \A f \in Uploads : FileStep(f)
  BY EditorOwn, DeleterOwn
<1>3. r \in Editors => EditorInv(r)'
  BY EditorOwn DEF F!FilesAssumption
<1>4. \A e \in Editors : (fpc'[e] = fpc[e] /\ floc'[e] = floc[e]) \/ EditorInv(e)'
  BY <1>3, RequestOthers
<1>5. (\A u \in Uploads : fpc'[u] = fpc[u] /\ floc'[u] = floc[u]) /\ UNCHANGED <<mpc, mloc>> /\ KeyInv'
  BY RequestOthers
<1> QED BY <1>1, <1>2, <1>4, <1>5, Assemble

LEMMA UploadStepKept ==
    ASSUME F!FilesAssumption, FilesInv, NEW u \in Uploads, F!Upload(u) \/ F!UploadFault(u)
    PROVE  FilesInv' /\ \A f \in Uploads : FileStep(f)
<1>0. FileTypes /\ u \notin Editors
  BY DEF FilesInv, F!FilesAssumption
<1>1. FileTypes' /\ KeyInv'
  BY <1>0, UploadTypes, UploadKey
<1>2. /\ \A r \in F!Requests \ {u} : fpc'[r] = fpc[r] /\ floc'[r] = floc[r]
      /\ UNCHANGED <<mpc, mloc, used>>
      /\ overtaken \subseteq overtaken' /\ late \subseteq late' /\ forced \subseteq forced'
      /\ \A g \in Uploads \ {u} : row'[g] = row[g] /\ object'[g] = object[g]
  BY <1>0, UploadOthers
<1>3. \A f \in Uploads : FileStep(f)
  BY <1>2, UploadOwn, Still
<1>4. UploadInv(u)'
  BY UploadOwn
<1> QED BY <1>0, <1>1, <1>2, <1>3, <1>4, Assemble

LEMMA UseKept ==
    ASSUME F!FilesAssumption, FilesInv, NEW f \in Uploads, F!Attach(f) \/ F!Detach(f) \/ F!Open(f) \/ F!Age(f)
    PROVE  FilesInv' /\ \A g \in Uploads : FileStep(g)
<1>0. FileTypes /\ ReqTypes /\ StoreTypes /\ FileTypes' /\ FileInv(f) /\ KeyInv
  BY UseTypes DEF FilesInv, FileTypes
<1> USE <1>0
<1>1. UNCHANGED <<object, fpc, floc, mpc, mloc, idemMu, idem, returned, overtaken, late, forced>>
  BY DEF F!Attach, F!Detach, F!Open, F!Age, F!store, F!keys, F!history
<1>2. KeyInv'
  BY <1>1 DEF KeyInv
<1>3. ASSUME F!Attach(f), NEW g \in Uploads PROVE FileStep(g)
  BY <1>1, <1>3 DEF F!Attach, FileStep, RowStep, ObjectStep, F!Exists
<1>4. ASSUME F!Detach(f) \/ F!Age(f), NEW g \in Uploads PROVE FileStep(g)
  BY <1>1, <1>4, Still DEF F!Detach, F!Age
<1>5. ASSUME F!Open(f) PROVE \A g \in Uploads : FileStep(g)
  <2>1. row[f].status = "ready" /\ row[f].key \notin object[f] /\ F!MarkStatus(f, "damaged") /\ used' = used
    BY <1>5 DEF F!Open, F!markDamaged
  <2>2. f \in overtaken
    BY <2>1 DEF FileInv
  <2>3. (row'[f] = row[f] \/ row'[f].status = "damaged") /\ \A g \in Uploads \ {f} : row'[g] = row[g]
    BY <2>1, Marked DEF F!Status
  <2>4. FileStep(f)
    BY <1>1, <2>1, <2>2, <2>3, Rewritten DEF RowStep
  <2> QED BY <1>1, <2>1, <2>3, <2>4, Still
<1>6. \A g \in Uploads : FileStep(g)
  BY <1>3, <1>4, <1>5
<1> QED BY <1>1, <1>2, <1>6, Assemble

-----------------------------------------------------------------------------
(* The maintenance. *)

LEMMA EndInv ==
    ASSUME PassTypes, NEW m \in Cleaners, NEW pass \in DOMAIN F!Passes, F!EndPass(m, pass) PROVE CleanerInv(m)'
<1>1. mloc'[m] = <<>> /\ mpc'[m] \in {"reconcile", "deleting", "pending"}
  BY DEF F!EndPass, F!MGoto, PassTypes, F!Passes
<1> QED BY <1>1 DEF CleanerInv

LEMMA Tails ==
    ASSUME PassTypes, NEW m \in Cleaners, mpc[m] \notin AtPass
    PROVE  \A i \in DOMAIN Tail(mloc[m]) : \E j \in DOMAIN mloc[m] : Tail(mloc[m])[i] = mloc[m][j]
<1>1. mloc[m] \in Seq(F!Listed) /\ mloc[m] # <<>>
  BY DEF PassTypes
<1> DEFINE q == mloc[m]
<1>2. q \in Seq(F!Listed) /\ q # <<>>
  BY <1>1
<1> HIDE DEF q
<1>3. ASSUME NEW i \in DOMAIN Tail(q) PROVE \E j \in DOMAIN q : Tail(q)[i] = q[j]
  <2>1. i \in 1..Len(Tail(q)) /\ Len(Tail(q)) = Len(q) - 1 /\ Tail(q)[i] = q[i + 1] /\ Len(q) \in Nat
    BY <1>2, <1>3, HeadTailProperties
  <2>2. i + 1 \in DOMAIN q
    BY <1>2, <2>1
  <2> QED BY <2>1, <2>2
<1> QED BY <1>3 DEF q

LEMMA SkipInv ==
    ASSUME FileTypes, NEW m \in Cleaners, NEW pass \in DOMAIN F!Passes, mpc[m] \notin AtPass, F!Skip(m, pass), CleanerInv(m),
           \A f \in Uploads : FileStep(f), pass = "deleting" => mpc[m] \in {"delobject", "delstaged", "delmark"}
    PROVE  CleanerInv(m)'
<1>0. PassTypes
  BY DEF FileTypes
<1>1. CASE Tail(mloc[m]) = <<>>
  BY <1>0, <1>1, EndInv DEF F!Skip, F!GoOn
<1>2. CASE Tail(mloc[m]) # <<>>
  <2>1. mpc'[m] = F!Loop[pass] /\ mloc'[m] = Tail(mloc[m])
    BY <1>0, <1>2 DEF F!Skip, F!GoOn, F!MGoto, PassTypes
  <2>2. /\ mpc'[m] \in {"probe", "delobject", "judge"}
        /\ mpc'[m] = "delobject" => mpc[m] \in {"delobject", "delstaged", "delmark"}
    BY <2>1 DEF F!Loop, F!Passes
  <2>3. ASSUME NEW i \in DOMAIN mloc'[m] PROVE \E j \in DOMAIN mloc[m] : mloc'[m][i] = mloc[m][j]
    BY <1>0, <2>1, <2>3, Tails
  <2>4. ASSUME NEW j \in DOMAIN mloc[m] PROVE mloc[m][j].file \in Uploads
    <3>1. mloc[m] \in Seq(F!Listed) /\ DOMAIN mloc[m] = 1..Len(mloc[m])
      BY <1>0 DEF PassTypes
    <3>2. mloc[m][j] \in F!Listed
      BY <3>1, ElementOfSeq
    <3> QED BY <3>2 DEF F!Listed
  <2>5. ASSUME NEW i \in DOMAIN mloc'[m] PROVE row'[mloc'[m][i].file].status # "absent"
    <3>1. PICK j \in DOMAIN mloc[m] : mloc'[m][i] = mloc[m][j]
      BY <2>3
    <3>2. F!Exists(mloc[m][j].file) /\ FileStep(mloc[m][j].file)
      BY <2>4 DEF CleanerInv
    <3> QED BY <3>1, <3>2 DEF FileStep, F!Exists
  <2>6. ASSUME mpc'[m] = "delobject", NEW i \in DOMAIN mloc'[m]
        PROVE  LET x == mloc'[m][i] IN x.file \in overtaken' \/ (row'[x.file].status \in {"deleting", "deleted"} /\ x.copy.key = row'[x.file].key)
    <3>1. PICK j \in DOMAIN mloc[m] : mloc'[m][i] = mloc[m][j]
      BY <2>3
    <3>2. GoneAs(mloc[m][j]) /\ FileStep(mloc[m][j].file)
      BY <2>2, <2>4, <2>6 DEF CleanerInv
    <3> QED BY <3>1, <3>2 DEF FileStep, GoneAs, RowStep, Move, Published, Create, Gone, F!Exists
  <2> QED BY <2>2, <2>5, <2>6 DEF CleanerInv, GoneAs, Gone, F!Exists
<1> QED BY <1>1, <1>2

LEMMA ListInv ==
    ASSUME FileTypes, NEW m \in Cleaners, NEW pass \in DOMAIN F!Passes, NEW status, F!List(m, pass, status), status # "absent",
           pass = "deleting" => status = "deleting"
    PROVE  CleanerInv(m)'
<1>0. PassTypes /\ StoreTypes /\ row' = row
  BY DEF FileTypes, F!List
<1>1. PICK found \in F!ListByStatus(status) :
          F!GoOn(m, pass, [i \in DOMAIN found |-> [file |-> order[found[i]], copy |-> row[order[found[i]]], seen |-> F!NoRow]])
  BY DEF F!List
<1> DEFINE list == [i \in DOMAIN found |-> [file |-> order[found[i]], copy |-> row[order[found[i]]], seen |-> F!NoRow]]
<1>2. \A i \in DOMAIN list : row[list[i].file].status = status /\ list[i].copy = row[list[i].file]
  BY <1>0, Listing
<1>3. F!GoOn(m, pass, list)
  BY <1>1
<1> HIDE DEF list
<1>4. CASE list = <<>>
  BY <1>0, <1>3, <1>4, EndInv DEF F!GoOn
<1>5. CASE list # <<>>
  <2>1. mpc'[m] = F!Loop[pass] /\ mloc'[m] = list
    BY <1>0, <1>3, <1>5 DEF F!GoOn, F!MGoto, PassTypes
  <2>2. mpc'[m] \in {"probe", "delobject", "judge"} /\ (mpc'[m] = "delobject" => pass = "deleting")
    BY <2>1 DEF F!Loop, F!Passes
  <2> QED BY <1>0, <1>2, <2>1, <2>2 DEF CleanerInv, GoneAs, Gone, F!Exists
<1> QED BY <1>4, <1>5

LEMMA MaintenanceOthers ==
    ASSUME F!FilesAssumption, FilesInv, NEW m \in Cleaners, F!Maintenance(m) \/ F!MaintenanceFault(m)
    PROVE  /\ \A n \in Cleaners \ {m} : mpc'[n] = mpc[n] /\ mloc'[n] = mloc[n]
           /\ UNCHANGED <<fpc, floc, used, idemMu, idem, returned, forced>> /\ KeyInv'
           /\ overtaken \subseteq overtaken'
<1>0. PassTypes /\ KeyInv
  BY DEF FilesInv, FileTypes
<1>1. \A n \in Cleaners \ {m} : mpc'[n] = mpc[n] /\ mloc'[n] = mloc[n]
  <2>1. mpc' = [mpc EXCEPT ![m] = mpc'[m]] /\ mloc' = [mloc EXCEPT ![m] = mloc'[m]]
    BY <1>0 DEF F!Maintenance, F!MaintenanceFault, F!ReconcilePending, F!ProcessDeleting, F!CleanupPending, F!List, F!ReconcileProbe,
           F!ReconcileRead, F!ReconcileWrite, F!deleteObject, F!StagingGone, F!Conclude, F!CleanupYoung, F!Skip, F!GoOn, F!EndPass, F!MGoto, PassTypes
  <2> QED BY <1>0, <2>1 DEF PassTypes
<1>2. UNCHANGED <<fpc, floc, used, idemMu, idem, returned, forced>> /\ overtaken \subseteq overtaken'
  BY DEF F!Maintenance, F!MaintenanceFault, F!ReconcilePending, F!ProcessDeleting, F!CleanupPending, F!List, F!ReconcileProbe,
         F!ReconcileRead, F!ReconcileWrite, F!deleteObject, F!StagingGone, F!Conclude, F!CleanupYoung, F!keys, F!history, F!UpdateWrite
<1>3. KeyInv'
  BY <1>0, <1>2 DEF KeyInv
<1> QED BY <1>1, <1>2, <1>3

(* Making ready a row whose object is where the row, as it was listed, says. *)
LEMMA ReadyWritten ==
    ASSUME FilesInv, NEW x \in F!Listed, HasObject(x.file, x.copy.key), x.seen.status \in {"pending", "ready"}, F!Exists(x.file),
           F!UpdateWrite(x.file, [x.copy EXCEPT !.status = "ready"], x.seen), UNCHANGED <<used, object, late, forced>>
    PROVE  \A f \in Uploads : FileStep(f)
<1> DEFINE f == x.file
           r == [x.copy EXCEPT !.status = "ready"]
<1>1. f \in Uploads /\ r \in F!Row /\ r.status = "ready" /\ r.key = x.copy.key /\ x.seen \in F!Row /\ x.copy \in F!Row
  BY DEF F!Listed, F!Row, F!Status
<1>2. StoreTypes /\ FileInv(f) /\ row[f] \in F!Row /\ HasObject(f, r.key) /\ F!Exists(f)
  BY <1>1 DEF FilesInv, FileTypes, StoreTypes
<1>3. F!Write(f, r) /\ overtaken \subseteq overtaken' /\ (row[f] \notin {x.seen, r} => f \in overtaken')
  BY DEF F!UpdateWrite
<1> HIDE DEF f, r
<1>4. row'[f] = r /\ \A g \in Uploads \ {f} : row'[g] = row[g]
  BY <1>1, <1>2, <1>3, Written
<1>5. RowStep(f)
  <2> SUFFICES ASSUME f \notin overtaken' PROVE RowStep(f)
    BY DEF RowStep
  <2>1. row[f] \in {x.seen, r} /\ f \notin overtaken /\ row[f].status \in {"pending", "ready"}
    BY <1>1, <1>3
  <2>2. r.key = row[f].key /\ row[f].key \in object[f]
    BY <1>2, <2>1 DEF HasObject, Gone, FileInv
  <2>3. row[f].status = "ready" => row[f] = r
    BY <1>1, <1>2, <2>2 DEF F!Row
  <2> QED BY <1>1, <1>4, <2>1, <2>2, <2>3 DEF RowStep, Move
<1>6. FileStep(f)
  BY <1>1, <1>2, <1>3, <1>4, <1>5, Rewritten DEF F!Exists
<1> QED BY <1>3, <1>4, <1>6, Still

(* MarkStatus as the maintenance calls it. *)
LEMMA MaintenanceMarks ==
    ASSUME FilesInv, NEW f \in Uploads, NEW status \in {"deleted", "failed"}, F!MarkStatus(f, status),
           status = "deleted" => f \in overtaken \cup late \/ object[f] = {}, UNCHANGED <<used, object, overtaken, late, forced>>
    PROVE  \A g \in Uploads : FileStep(g)
<1>1. StoreTypes /\ status \in F!Status
  BY DEF FilesInv, FileTypes, F!Status
<1>2. /\ \A g \in Uploads \ {f} : row'[g] = row[g]
      /\ \/ row'[f] = row[f]
         \/ /\ F!repositoryStatusTransition(row[f].status, status) /\ status # row[f].status
            /\ row'[f].key = row[f].key /\ row'[f].status = status
  BY <1>1, Marked
<1>3. CASE row'[f] = row[f]
  BY <1>2, <1>3, Still
<1>4. CASE /\ F!repositoryStatusTransition(row[f].status, status) /\ status # row[f].status
           /\ row'[f].key = row[f].key /\ row'[f].status = status
  <2>1. (status = "deleted" /\ row[f].status = "deleting") \/ (status = "failed" /\ row[f].status = "pending")
    BY <1>4 DEF F!repositoryStatusTransition
  <2>2. RowStep(f)
    BY <1>4, <2>1 DEF RowStep, Move
  <2>3. FileStep(f)
    BY <1>4, <2>1, <2>2, Rewritten
  <2> QED BY <1>2, <2>3, Still
<1> QED BY <1>2, <1>3, <1>4

LEMMA MaintenanceOwn ==
    ASSUME F!FilesAssumption, FilesInv, NEW m \in Cleaners, F!Maintenance(m) \/ F!MaintenanceFault(m)
    PROVE  (\A f \in Uploads : FileStep(f)) /\ CleanerInv(m)'
<1>0. FileTypes /\ PassTypes /\ StoreTypes /\ CleanerInv(m)
  BY DEF FilesInv, FileTypes, ActorsInv
<1>p. {"reconcile", "deleting", "pending"} = DOMAIN F!Passes
  BY DEF F!Passes
<1>u. /\ UNCHANGED <<used, forced>> /\ overtaken \subseteq overtaken'
  BY MaintenanceOthers
<1>i. mpc[m] \notin AtPass =>
         /\ F!item(m) \in F!Listed /\ F!item(m) = mloc[m][1] /\ 1 \in DOMAIN mloc[m] /\ DOMAIN mloc[m] = 1..Len(mloc[m])
         /\ F!item(m).file \in Uploads /\ F!Exists(F!item(m).file)
  BY <1>0, ItemTypes DEF F!Listed, CleanerInv
<1>q. row' = row /\ object' = object /\ late' = late => \A f \in Uploads : FileStep(f)
  BY <1>u, Still
<1>1. ASSUME NEW pass \in DOMAIN F!Passes, NEW status, F!List(m, pass, status), status # "absent", pass = "deleting" => status = "deleting"
      PROVE  (\A f \in Uploads : FileStep(f)) /\ CleanerInv(m)'
  BY <1>0, <1>1, <1>q, ListInv DEF F!List, F!store, F!history
<1>2. CASE F!ReconcileProbe(m)
  <2>1. mpc[m] = "probe" /\ mpc[m] \notin AtPass /\ row' = row /\ object' = object /\ late' = late
    BY <1>2 DEF F!ReconcileProbe, F!MAt, AtPass, F!store, F!history
  <2>2. CASE F!providerObjectExists(m) /\ F!MGoto(m, "readyread") /\ UNCHANGED mloc
    <3>1. mpc'[m] = "readyread" /\ mloc' = mloc /\ F!item(m).copy.key \in object[F!item(m).file]
      BY <1>0, <2>2 DEF F!MGoto, PassTypes, F!providerObjectExists
    <3>2. F!item(m)' = F!item(m)
      BY <3>1 DEF F!item
    <3>3. CleanerInv(m)'
      BY <1>0, <2>1, <3>1, <3>2 DEF CleanerInv, HasObject, F!Exists
    <3> QED BY <1>q, <2>1, <3>3
  <2>3. CASE F!Skip(m, "reconcile")
    BY <1>0, <1>p, <1>q, <2>1, <2>3, SkipInv
  <2> QED BY <1>2, <2>2, <2>3 DEF F!ReconcileProbe
<1>3. CASE F!ReconcileRead(m)
  <2>1. mpc[m] = "readyread" /\ mpc[m] \notin AtPass /\ row' = row /\ object' = object /\ overtaken' = overtaken /\ late' = late
    BY <1>3 DEF F!ReconcileRead, F!MAt, AtPass, F!store, F!history
  <2>2. CASE /\ F!UpdateAccepts(F!item(m).file, [F!item(m).copy EXCEPT !.status = "ready"]) /\ F!MGoto(m, "readywrite")
             /\ mloc' = [mloc EXCEPT ![m][1].seen = row[F!item(m).file]]
    <3>1. mpc'[m] = "readywrite"
      BY <1>0, <2>2 DEF F!MGoto, PassTypes
    <3> DEFINE new == [mloc[m] EXCEPT ![1].seen = row[F!item(m).file]]
    <3>2. mloc'[m] = new
      BY <1>0, <2>2 DEF PassTypes
    <3>3. mloc[m] \in [1..Len(mloc[m]) -> F!Listed]
      BY <1>0 DEF PassTypes
    <3>4. DOMAIN new = DOMAIN mloc[m] /\ \A i \in DOMAIN new : new[i].file = mloc[m][i].file
      BY <1>i, <2>1, <3>3 DEF F!Listed
    <3>5. new[1].file = F!item(m).file /\ new[1].copy = F!item(m).copy /\ new[1].seen = row[F!item(m).file]
      BY <1>i, <2>1, <3>3 DEF F!Listed
    <3> HIDE DEF new
    <3>6. new # <<>>
      BY <1>i, <2>1, <3>4
    <3>7. F!item(m)' = new[1]
      BY <1>i, <2>1, <3>2, <3>4 DEF F!item
    <3>8. row[F!item(m).file].status \in {"pending", "ready"}
      <4>1. [F!item(m).copy EXCEPT !.status = "ready"].status = "ready"
        BY <1>i, <2>1 DEF F!Listed, F!Row
      <4> QED BY <2>2, <4>1 DEF F!UpdateAccepts, F!repositoryUpdateTransition
    <3>9. HasObject(F!item(m).file, F!item(m).copy.key) /\ \A i \in DOMAIN mloc[m] : F!Exists(mloc[m][i].file)
      BY <1>0, <2>1 DEF CleanerInv
    <3>10. CleanerInv(m)'
      BY <2>1, <3>1, <3>2, <3>4, <3>5, <3>7, <3>8, <3>9 DEF CleanerInv, HasObject, Gone, F!Exists
    <3> QED BY <1>q, <2>1, <3>10
  <2>3. CASE F!EndPass(m, "reconcile")
    BY <1>0, <1>p, <1>q, <2>1, <2>3, EndInv
  <2> QED BY <1>3, <2>2, <2>3 DEF F!ReconcileRead
<1>4. CASE F!ReconcileWrite(m)
  <2>1. mpc[m] = "readywrite" /\ mpc[m] \notin AtPass /\ object' = object /\ late' = late /\ F!Skip(m, "reconcile")
        /\ F!UpdateWrite(F!item(m).file, [F!item(m).copy EXCEPT !.status = "ready"], F!item(m).seen)
    BY <1>4 DEF F!ReconcileWrite, F!MAt, AtPass, F!store
  <2>2. HasObject(F!item(m).file, F!item(m).copy.key) /\ F!item(m).seen.status \in {"pending", "ready"}
    BY <1>0, <2>1 DEF CleanerInv
  <2>3. \A f \in Uploads : FileStep(f)
    BY <1>i, <1>u, <2>1, <2>2, ReadyWritten
  <2> QED BY <1>0, <1>p, <2>1, <2>3, SkipInv
<1>5. CASE F!deleteObject(m)
  <2> DEFINE f == F!item(m).file
  <2>1. mpc[m] = "delobject" /\ mpc[m] \notin AtPass /\ mpc'[m] = "delstaged" /\ row' = row /\ mloc' = mloc
        /\ overtaken' = overtaken /\ late' = late \ {f}
    BY <1>0, <1>5 DEF F!deleteObject, F!MAt, AtPass, F!MGoto, PassTypes, F!history
  <2>2. f \in Uploads /\ GoneAs(F!item(m)) /\ F!item(m)' = F!item(m)
    BY <1>0, <1>i, <2>1 DEF CleanerInv, F!item
  <2>3. object'[f] = object[f] \ {F!item(m).copy.key} /\ \A g \in Uploads \ {f} : object'[g] = object[g]
    BY <1>0, <1>5, <2>2 DEF F!deleteObject, StoreTypes
  <2>4. f \in overtaken \/ object'[f] = {}
    <3>1. FileInv(f)
      BY <2>2 DEF FilesInv
    <3> QED BY <2>2, <2>3, <3>1 DEF FileInv, GoneAs
  <2>5. FileStep(f)
    BY <1>u, <2>1, <2>2, <2>3, <2>4 DEF FileStep, RowStep, ObjectStep, GoneAs, F!Exists
  <2>6. \A g \in Uploads : FileStep(g)
    BY <1>u, <2>1, <2>3, <2>5, Still
  <2> HIDE DEF f
  <2>7. CleanerInv(m)'
    BY <1>0, <2>1, <2>2, <2>4 DEF CleanerInv, GoneAs, Gone, F!Exists, f
  <2> QED BY <2>6, <2>7
<1>6. ASSUME NEW from, NEW to, <<from, to>> \in {<<"delstaged", "delmark">>, <<"unstage", "failmark">>}, F!StagingGone(m, from, to)
      PROVE  (\A f \in Uploads : FileStep(f)) /\ CleanerInv(m)'
  <2>1. mpc[m] = from /\ mpc'[m] = to /\ row' = row /\ mloc' = mloc /\ object' = object /\ overtaken' = overtaken /\ late' = late
    BY <1>0, <1>6 DEF F!StagingGone, F!MAt, F!MGoto, PassTypes, F!history
  <2>2. F!item(m)' = F!item(m)
    BY <2>1 DEF F!item
  <2>3. CleanerInv(m)'
    BY <1>0, <1>6, <2>1, <2>2 DEF CleanerInv, GoneAs, Gone, F!Exists
  <2> QED BY <1>q, <2>1, <2>3
<1>7. ASSUME NEW from, NEW status, NEW pass, F!Conclude(m, from, status, pass),
             <<from, status, pass>> \in {<<"delmark", "deleted", "deleting">>, <<"failmark", "failed", "pending">>}
      PROVE  (\A f \in Uploads : FileStep(f)) /\ CleanerInv(m)'
  <2>1. /\ mpc[m] = from /\ mpc[m] \notin AtPass /\ F!MarkStatus(F!item(m).file, status)
        /\ UNCHANGED <<used, object, overtaken, late, forced>>
        /\ F!Skip(m, pass) \/ F!EndPass(m, pass)
    BY <1>7 DEF F!Conclude, F!MAt, AtPass, F!store, F!history
  <2>2. status = "deleted" => F!item(m).file \in overtaken \cup late \/ object[F!item(m).file] = {}
    BY <1>0, <1>7, <2>1 DEF CleanerInv
  <2>3. \A f \in Uploads : FileStep(f)
    BY <1>7, <1>i, <2>1, <2>2, MaintenanceMarks
  <2>4. pass \in DOMAIN F!Passes
    BY <1>7, <1>p
  <2> QED BY <1>0, <1>7, <2>1, <2>3, <2>4, SkipInv, EndInv
<1>8. CASE F!CleanupYoung(m)
  <2>1. mpc[m] = "judge" /\ mpc[m] \notin AtPass /\ row' = row /\ object' = object /\ late' = late
    BY <1>8 DEF F!CleanupYoung, F!MAt, AtPass, F!store, F!history
  <2>2. CASE F!MGoto(m, "unstage") /\ UNCHANGED mloc
    <3>1. mpc'[m] = "unstage" /\ mloc' = mloc
      BY <1>0, <2>2 DEF F!MGoto, PassTypes
    <3>2. CleanerInv(m)'
      BY <1>0, <2>1, <3>1 DEF CleanerInv, F!Exists
    <3> QED BY <1>q, <2>1, <3>2
  <2>3. CASE F!Skip(m, "pending")
    BY <1>0, <1>p, <1>q, <2>1, <2>3, SkipInv
  <2> QED BY <1>8, <2>2, <2>3 DEF F!CleanupYoung
<1>9. CASE F!MaintenanceFault(m)
  <2>1. row' = row /\ object' = object /\ late' = late
    BY <1>9 DEF F!MaintenanceFault, F!store, F!history
  <2> DEFINE skips(pass) == /\ F!Skip(m, pass) /\ mpc[m] \notin AtPass
                            /\ pass = "deleting" => mpc[m] \in {"delobject", "delstaged", "delmark"}
  <2>2. (\E pass \in DOMAIN F!Passes : skips(pass)) \/ (\E pass \in DOMAIN F!Passes : F!EndPass(m, pass))
    BY <1>9 DEF F!MaintenanceFault, AtPass, F!Passes
  <2>3. ASSUME NEW pass \in DOMAIN F!Passes, skips(pass) PROVE CleanerInv(m)'
    BY <1>0, <1>q, <2>1, <2>3, SkipInv
  <2>4. ASSUME NEW pass \in DOMAIN F!Passes, F!EndPass(m, pass) PROVE CleanerInv(m)'
    BY <1>0, <2>4, EndInv
  <2> HIDE DEF skips
  <2>5. CleanerInv(m)'
    BY <2>2, <2>3, <2>4
  <2> QED BY <1>q, <2>1, <2>5
<1>10. CASE F!List(m, "reconcile", "pending") \/ F!List(m, "deleting", "deleting") \/ F!List(m, "pending", "pending")
  BY <1>1, <1>10, <1>p
<1>11. CASE F!StagingGone(m, "delstaged", "delmark") \/ F!StagingGone(m, "unstage", "failmark")
  BY <1>6, <1>11
<1>12. CASE F!Conclude(m, "delmark", "deleted", "deleting") \/ F!Conclude(m, "failmark", "failed", "pending")
  BY <1>7, <1>12
<1> QED
  BY <1>2, <1>3, <1>4, <1>5, <1>8, <1>9, <1>10, <1>11, <1>12 DEF F!Maintenance, F!ReconcilePending, F!ProcessDeleting, F!CleanupPending

LEMMA MaintenanceKept ==
    ASSUME F!FilesAssumption, FilesInv, NEW m \in Cleaners, F!Maintenance(m) \/ F!MaintenanceFault(m)
    PROVE  FilesInv' /\ \A f \in Uploads : FileStep(f)
<1>1. FileTypes'
  BY MaintenanceTypes DEF FilesInv
<1>2. (\A f \in Uploads : FileStep(f)) /\ CleanerInv(m)'
  BY MaintenanceOwn
<1>3. (\A n \in Cleaners \ {m} : mpc'[n] = mpc[n] /\ mloc'[n] = mloc[n]) /\ UNCHANGED <<fpc, floc>> /\ KeyInv'
  BY MaintenanceOthers
<1> QED BY <1>1, <1>2, <1>3, Assemble

(* A crash leaves rows and objects, and no actor in the middle of anything. *)
LEMMA CrashKept == ASSUME F!FilesAssumption, FilesInv, F!Crash PROVE FilesInv' /\ \A f \in Uploads : FileStep(f)
<1>0. FileTypes /\ FileTypes'
  BY CrashTypes DEF FilesInv
<1>1. /\ row' = row /\ object' = object /\ UNCHANGED <<used, overtaken, late, forced>>
      /\ fpc' = [r \in F!Requests |-> IF fpc[r] = "new" THEN "new" ELSE "done"]
      /\ idemMu' = NoUpload /\ idem' = NoUpload /\ returned' = [u \in Uploads |-> NoUpload]
      /\ mpc' = [m \in Cleaners |-> IF F!MAt(m, "off") THEN "off" ELSE "reconcile"] /\ mloc' = [m \in Cleaners |-> <<>>]
  BY DEF F!Crash, F!store
<1>2. \A f \in Uploads : FileStep(f)
  BY <1>1, Still
<1>3. ASSUME NEW u \in Uploads PROVE UploadInv(u)'
  <2>1. UploadInv(u) /\ (fpc'[u] = "done" \/ (fpc'[u] = "new" /\ fpc[u] = "new"))
    BY <1>1 DEF FilesInv, ActorsInv
  <2> QED BY <1>1, <2>1 DEF UploadInv, F!Exists
<1>4. ASSUME NEW e \in Editors PROVE EditorInv(e)'
  BY <1>1 DEF EditorInv
<1>5. ASSUME NEW m \in Cleaners PROVE CleanerInv(m)'
  <2>1. mloc'[m] = <<>> /\ mpc'[m] \in {"off", "reconcile"}
    BY <1>1
  <2> QED BY <2>1 DEF CleanerInv
<1>6. KeyInv'
  BY <1>1 DEF KeyInv, F!FilesAssumption
<1> QED BY <1>0, <1>2, <1>3, <1>4, <1>5, <1>6, Assemble

LEMMA FilesKept == ASSUME F!FilesAssumption, FilesInv, F!Next PROVE FilesInv' /\ \A f \in Uploads : FileStep(f)
<1>1. ASSUME NEW e \in Editors, F!Patch(e) PROVE FilesInv' /\ \A f \in Uploads : FileStep(f)
  <2>1. e \in Editors \cup Deleters /\ ((e \in Editors /\ F!Patch(e)) \/ (e \in Deleters /\ F!Delete(e)))
    BY <1>1
  <2> QED BY <2>1, RequestKept
<1>2. ASSUME NEW d \in Deleters, F!Delete(d) PROVE FilesInv' /\ \A f \in Uploads : FileStep(f)
  BY <1>2, RequestKept
<1> QED
  BY <1>1, <1>2, UploadStepKept, UseKept, MaintenanceKept, CrashKept DEF F!Next

LEMMA FilesStart == ASSUME F!FilesAssumption, NEW coming, NEW running, F!Start(coming, running) PROVE FilesInv
<1>1. FileTypes
  BY InitTypes
<1>2. ASSUME NEW u \in Uploads PROVE UploadInv(u) /\ FileInv(u)
  BY DEF F!Start, UploadInv, FileInv, F!Exists, F!NoRow
<1>3. ASSUME NEW e \in Editors PROVE EditorInv(e)
  BY DEF F!Start, EditorInv
<1>4. ASSUME NEW m \in Cleaners PROVE CleanerInv(m)
  <2>1. mloc[m] = <<>> /\ mpc[m] \in {"reconcile", "off"}
    BY DEF F!Start
  <2> QED BY <2>1 DEF CleanerInv
<1>5. KeyInv
  BY DEF F!Start, KeyInv, F!FilesAssumption
<1> QED BY <1>1, <1>2, <1>3, <1>4, <1>5 DEF FilesInv, ActorsInv

-----------------------------------------------------------------------------
(* The staging objects. *)

Uploading(f) == fpc[f] \in {"observe", "keyread", "keywrite", "promote", "unstage"}
(* Before its upload stores it there is no staging object of f, and once a deletion is past *)
(* the place, one is there only while the upload is at work, or after it broke off.         *)
StageInv(f) ==
    /\ fpc[f] \in {"new", "stage"} => f \notin staged
    /\ F!Passed(f, {"delmark"}) /\ f \in staged \ left => Uploading(f)
StagesInv == \A f \in Uploads : StageInv(f)

(* No step but the end of its deletion makes a row deleted. *)
Undeleted(f) == row'[f].status = "deleted" => F!Passed(f, {"delmark"})
(* A server that is about to mark a row deleted was so before. *)
NoNewMark == \A m \in Cleaners : mpc'[m] = "delmark" => mpc[m] = "delmark" /\ mloc'[m] = mloc[m]

LEMMA StageStays ==
    ASSUME NEW f, StageInv(f), fpc'[f] = fpc[f], f \in staged' => f \in staged, f \in left => f \in left' \/ f \notin staged',
           Undeleted(f), NoNewMark
    PROVE  StageInv(f)'
<1>1. F!Passed(f, {"delmark"})' => F!Passed(f, {"delmark"})
  BY DEF F!Passed, Undeleted, NoNewMark
<1> QED BY <1>1 DEF StageInv, Uploading

LEMMA UploadStages ==
    ASSUME F!FilesAssumption, FilesInv, StagesInv, NEW u \in Uploads, F!Upload(u) \/ F!UploadFault(u) PROVE StagesInv'
<1>0. FileTypes /\ ReqTypes /\ StoreTypes /\ UploadInv(u) /\ StageInv(u) /\ u \in F!Requests
  BY DEF FilesInv, FileTypes, ActorsInv, StagesInv
<1> USE <1>0
<1>o. /\ \A g \in Uploads \ {u} : fpc'[g] = fpc[g] /\ row'[g] = row[g]
      /\ UNCHANGED <<mpc, mloc>>
  BY UploadOthers
<1>m. NoNewMark
  BY <1>o DEF NoNewMark
<1>s. /\ \A g \in Uploads \ {u} : (g \in staged' => g \in staged) /\ (g \in left => g \in left')
      /\ left \subseteq left'
  BY DEF F!Upload, F!UploadFault, F!UploadCall, F!PutStaging, F!Observe, F!PublishKey, F!Promote, F!UpdateRead, F!persistReady,
         F!LeavePublished, F!deleteStaging, F!markFailed, F!store, F!history, F!Succeed
<1>1. ASSUME NEW g \in Uploads \ {u} PROVE StageInv(g)'
  <2>1. Undeleted(g)
    BY <1>o DEF Undeleted, F!Passed
  <2> QED BY <1>o, <1>m, <1>s, <2>1, StageStays DEF StagesInv
<1>2. Undeleted(u)
  <2>1. floc[u].copy \in F!Row /\ [status |-> "pending", key |-> "declared"] \in F!Row
    BY DEF ReqTypes, F!Row, F!Status, F!Key
  <2>2. \/ row' = row
        \/ F!Write(u, floc[u].copy) /\ fpc[u] \in {"keywrite", "readywrite"}
        \/ F!Write(u, [status |-> "pending", key |-> "declared"])
        \/ F!MarkStatus(u, "failed")
    BY DEF F!Upload, F!UploadFault, F!UploadCall, F!PutStaging, F!Observe, F!PublishKey, F!Promote, F!UpdateRead, F!persistReady,
           F!LeavePublished, F!deleteStaging, F!markFailed, F!UpdateWrite, F!At
  <2>3. row'[u].status = "deleted" => row[u].status = "deleted"
    BY <2>1, <2>2, Written, Marked DEF UploadInv, F!Status
  <2> QED BY <2>3 DEF Undeleted, F!Passed
<1>3. F!Passed(u, {"delmark"})' => F!Passed(u, {"delmark"})
  BY <1>2, <1>m DEF F!Passed, Undeleted, NoNewMark
<1>4. ASSUME u \notin staged' /\ fpc'[u] # "new" PROVE StageInv(u)'
  BY <1>4 DEF StageInv
<1>5. ASSUME fpc'[u] \in {"observe", "keyread", "keywrite", "promote", "unstage"} PROVE StageInv(u)'
  BY <1>5 DEF StageInv, Uploading
<1>6. ASSUME staged' = staged /\ ~Uploading(u) /\ (fpc'[u] \notin {"new", "stage"} \/ fpc[u] \in {"new", "stage"}) PROVE StageInv(u)'
  BY <1>3, <1>6, <1>s DEF StageInv
<1>7. ASSUME F!UploadCall(u) \/ F!PutStaging(u) \/ F!Observe(u) PROVE StageInv(u)'
  <2>1. CASE F!UploadCall(u)
    <3>1. staged' = staged /\ fpc[u] = "new" /\ fpc'[u] \in {"done", "stage"}
      BY <2>1 DEF F!UploadCall, F!store, F!Goto, F!At, ReqTypes
    <3> QED BY <1>6, <3>1 DEF Uploading
  <2>2. CASE F!PutStaging(u) \/ F!Observe(u)
    <3>1. fpc'[u] \in {"observe", "keyread", "unstage"}
      BY <2>2 DEF F!PutStaging, F!Observe, F!Goto, ReqTypes
    <3> QED BY <1>5, <3>1
  <2> QED BY <1>7, <2>1, <2>2
<1>8. ASSUME F!UpdateRead(u, "keyread", "keywrite", "unstage") \/ F!PublishKey(u) PROVE StageInv(u)'
  <2>1. fpc'[u] \in {"keywrite", "unstage", "promote"}
    BY <1>8 DEF F!UpdateRead, F!PublishKey, F!Goto, ReqTypes
  <2> QED BY <1>5, <2>1
<1>9. ASSUME F!Promote(u) PROVE StageInv(u)'
  <2>1. (u \notin staged' /\ fpc'[u] = "readyread") \/ fpc'[u] = "unstage"
    BY <1>9 DEF F!Promote, F!Goto, ReqTypes
  <2> QED BY <1>4, <1>5, <2>1
<1>10. ASSUME F!UpdateRead(u, "readyread", "readywrite", "left") \/ F!persistReady(u) \/ F!LeavePublished(u) \/ F!markFailed(u) PROVE StageInv(u)'
  <2>1. staged' = staged /\ fpc[u] \in {"readyread", "readywrite", "left", "fail"} /\ fpc'[u] \in {"readywrite", "left", "done"}
    BY <1>10 DEF F!UpdateRead, F!persistReady, F!LeavePublished, F!markFailed, F!Return, F!Goto, F!At, F!store, ReqTypes
  <2> QED BY <1>6, <2>1 DEF Uploading
<1>11. ASSUME F!deleteStaging(u) PROVE StageInv(u)'
  <2>1. u \notin staged' /\ fpc'[u] = "fail"
    BY <1>11 DEF F!deleteStaging, F!Goto, ReqTypes
  <2> QED BY <1>4, <2>1
<1>12. ASSUME F!UploadFault(u) PROVE StageInv(u)'
  <2>1. /\ staged' = staged /\ fpc'[u] \in {"unstage", "left", "fail", "done"}
        /\ fpc'[u] = "unstage" \/ fpc[u] \in {"readyread", "readywrite", "unstage", "fail"}
        /\ left' = IF F!At(u, "unstage") /\ u \in staged /\ F!Passed(u, {"delmark"}) THEN left \cup {u} ELSE left
    BY <1>12 DEF F!UploadFault, F!Return, F!Goto, F!At, F!store, ReqTypes
  <2>2. CASE fpc[u] = "unstage"
    BY <1>3, <2>1, <2>2 DEF StageInv, F!At
  <2>3. CASE fpc[u] \in {"readyread", "readywrite", "fail"}
    BY <1>6, <2>1, <2>3 DEF Uploading
  <2>4. CASE fpc'[u] = "unstage"
    BY <1>5, <2>4
  <2> QED BY <2>1, <2>2, <2>3, <2>4
<1>13. StageInv(u)'
  BY <1>7, <1>8, <1>9, <1>10, <1>11, <1>12 DEF F!Upload
<1> QED BY <1>1, <1>13 DEF StagesInv

LEMMA StagesStay ==
    ASSUME StagesInv, UNCHANGED <<staged, left, mpc, mloc>>, \A u \in Uploads : fpc'[u] = fpc[u] /\ Undeleted(u) PROVE StagesInv'
<1>1. NoNewMark
  BY DEF NoNewMark
<1> QED BY <1>1, StageStays DEF StagesInv

LEMMA RequestStages ==
    ASSUME F!FilesAssumption, FilesInv, StagesInv, NEW r \in Editors \cup Deleters,
           (r \in Editors /\ F!Patch(r)) \/ (r \in Deleters /\ F!Delete(r))
    PROVE  StagesInv'
<1>0. ReqTypes /\ StoreTypes /\ (r \in Editors => EditorInv(r))
  BY DEF FilesInv, FileTypes, ActorsInv
<1> USE <1>0
<1>1. UNCHANGED <<staged, left, mpc, mloc>> /\ \A u \in Uploads : fpc'[u] = fpc[u]
  <2>1. UNCHANGED <<staged, left>>
    BY DEF F!Patch, F!Delete, F!PatchCall, F!PatchWrite, F!UpdateRead, F!DeleteCall, F!softDeleteFile, F!store, F!history
  <2> QED BY <2>1, RequestOthers DEF F!FilesAssumption
<1>2. CASE row' = row
  BY <1>1, <1>2, StagesStay DEF Undeleted, F!Passed
<1>3. CASE r \in Editors /\ F!PatchWrite(r)
  <2>1. fpc[r] = "patchwrite" /\ floc[r].file \in Uploads /\ floc[r].copy \in F!Row /\ floc[r].copy.status # "deleted"
    BY <1>3 DEF F!PatchWrite, F!At, ReqTypes, EditorInv
  <2>2. row'[floc[r].file] = floc[r].copy /\ \A g \in Uploads \ {floc[r].file} : row'[g] = row[g]
    BY <1>3, <2>1, Written DEF F!PatchWrite
  <2> QED BY <1>1, <2>1, <2>2, StagesStay DEF Undeleted, F!Passed
<1>4. CASE r \in Deleters /\ F!softDeleteFile(r) /\ F!RequestDeletion(floc[r].file, F!At(r, "force"))
  <2> DEFINE f == floc[r].file
  <2>1. f \in Uploads
    BY <1>4 DEF F!softDeleteFile, ReqTypes
  <2>2. [row[f] EXCEPT !.status = "deleting"] \in F!Row /\ row[f] \in F!Row
    BY <2>1 DEF StoreTypes, F!Row, F!Status
  <2> HIDE DEF f
  <2>3. CASE F!Write(f, [row[f] EXCEPT !.status = "deleting"])
    <3>1. row'[f] = [row[f] EXCEPT !.status = "deleting"] /\ \A g \in Uploads \ {f} : row'[g] = row[g]
      BY <2>1, <2>2, <2>3, Written
    <3>2. row'[f].status = "deleting"
      BY <2>2, <3>1 DEF F!Row
    <3> QED BY <1>1, <3>1, <3>2, StagesStay DEF Undeleted, F!Passed
  <2> QED BY <1>2, <1>4, <2>3 DEF F!RequestDeletion, f
<1> QED BY <1>2, <1>3, <1>4 DEF F!Patch, F!Delete, F!PatchCall, F!UpdateRead, F!DeleteCall, F!softDeleteFile

LEMMA UseStages ==
    ASSUME FilesInv, StagesInv, NEW f \in Uploads, F!Attach(f) \/ F!Detach(f) \/ F!Open(f) \/ F!Age(f) PROVE StagesInv'
<1>0. StoreTypes
  BY DEF FilesInv, FileTypes
<1>1. UNCHANGED <<staged, left, mpc, mloc, fpc>>
  BY DEF F!Attach, F!Detach, F!Open, F!Age, F!store, F!history
<1>2. row' = row \/ F!MarkStatus(f, "damaged")
  BY DEF F!Attach, F!Detach, F!Open, F!Age, F!markDamaged
<1>3. \A g \in Uploads : row'[g].status = "deleted" => row[g].status = "deleted"
  BY <1>0, <1>2, Marked DEF F!Status
<1> QED BY <1>1, <1>3, StagesStay DEF Undeleted, F!Passed

LEMMA MaintenanceStages ==
    ASSUME F!FilesAssumption, FilesInv, StagesInv, NEW m \in Cleaners, F!Maintenance(m) \/ F!MaintenanceFault(m) PROVE StagesInv'
<1>0. FileTypes /\ PassTypes /\ StoreTypes
  BY DEF FilesInv, FileTypes
<1> USE <1>0
<1>o. (\A n \in Cleaners \ {m} : mpc'[n] = mpc[n] /\ mloc'[n] = mloc[n]) /\ fpc' = fpc
  BY MaintenanceOthers
<1>i. mpc[m] \notin AtPass => F!item(m) \in F!Listed /\ F!item(m).file \in Uploads
  BY ItemTypes DEF F!Listed
<1>e. ASSUME NEW pass \in DOMAIN F!Passes, F!EndPass(m, pass) PROVE mpc'[m] # "delmark"
  BY <1>e DEF F!EndPass, F!MGoto, PassTypes, F!Passes
<1>l. ASSUME NEW pass \in DOMAIN F!Passes, NEW list, F!GoOn(m, pass, list) PROVE mpc'[m] # "delmark"
  <2>1. CASE list = <<>>
    BY <1>e, <1>l, <2>1 DEF F!GoOn
  <2>2. CASE list # <<>>
    BY <1>l, <2>2 DEF F!GoOn, F!MGoto, PassTypes, F!Passes, F!Loop
  <2> QED BY <2>1, <2>2
<1>p. {"reconcile", "deleting", "pending"} = DOMAIN F!Passes
  BY DEF F!Passes
<1>a. ASSUME mpc'[m] # "delmark", UNCHANGED <<staged, left>>, \A f \in Uploads : Undeleted(f) PROVE StagesInv'
  <2>1. NoNewMark
    BY <1>a, <1>o DEF NoNewMark
  <2> QED BY <1>a, <1>o, <2>1, StageStays DEF StagesInv
<1>b. row' = row => \A f \in Uploads : Undeleted(f)
  BY DEF Undeleted, F!Passed
<1>1. ASSUME NEW pass \in DOMAIN F!Passes, NEW status, F!List(m, pass, status) PROVE StagesInv'
  BY <1>1, <1>a, <1>b, <1>l DEF F!List, F!store, F!history
<1>2. CASE F!ReconcileProbe(m) \/ F!CleanupYoung(m) \/ F!MaintenanceFault(m)
  <2>1. UNCHANGED <<row, staged, left>>
    BY <1>2 DEF F!ReconcileProbe, F!CleanupYoung, F!MaintenanceFault, F!store, F!history
  <2>2. \/ \E pass \in DOMAIN F!Passes : F!Skip(m, pass) \/ F!EndPass(m, pass)
        \/ F!MGoto(m, "readyread") \/ F!MGoto(m, "unstage")
    BY <1>2, <1>p DEF F!ReconcileProbe, F!CleanupYoung, F!MaintenanceFault
  <2>3. mpc'[m] # "delmark"
    BY <1>e, <1>l, <2>2 DEF F!Skip, F!MGoto, PassTypes
  <2> QED BY <1>a, <1>b, <2>1, <2>3
<1>3. CASE F!ReconcileRead(m)
  <2>1. UNCHANGED <<row, staged, left>> /\ (F!MGoto(m, "readywrite") \/ F!EndPass(m, "reconcile"))
    BY <1>3 DEF F!ReconcileRead, F!store, F!history
  <2>2. mpc'[m] # "delmark"
    BY <1>e, <1>p, <2>1 DEF F!MGoto, PassTypes
  <2> QED BY <1>a, <1>b, <2>1, <2>2
<1>4. CASE F!ReconcileWrite(m)
  <2> DEFINE f == F!item(m).file
             new == [F!item(m).copy EXCEPT !.status = "ready"]
  <2>1. mpc[m] \notin AtPass /\ UNCHANGED <<staged, left>> /\ F!Skip(m, "reconcile") /\ F!Write(f, new)
    BY <1>4 DEF F!ReconcileWrite, F!MAt, AtPass, F!store, F!UpdateWrite
  <2>2. f \in Uploads /\ new \in F!Row /\ new.status = "ready"
    BY <1>i, <2>1 DEF F!Listed, F!Row, F!Status
  <2> HIDE DEF f, new
  <2>3. row'[f] = new /\ \A g \in Uploads \ {f} : row'[g] = row[g]
    BY <2>1, <2>2, Written
  <2>4. mpc'[m] # "delmark"
    BY <1>l, <1>p, <2>1 DEF F!Skip
  <2> QED BY <1>a, <2>1, <2>2, <2>3, <2>4 DEF Undeleted, F!Passed
<1>5. CASE F!deleteObject(m)
  <2>1. UNCHANGED <<row, staged, left>> /\ mpc'[m] = "delstaged"
    BY <1>5 DEF F!deleteObject, F!MGoto, PassTypes
  <2> QED BY <1>a, <1>b, <2>1
<1>6. ASSUME NEW from, NEW to, <<from, to>> \in {<<"delstaged", "delmark">>, <<"unstage", "failmark">>}, F!StagingGone(m, from, to)
      PROVE  StagesInv'
  <2>0. PICK f : f = F!item(m).file
    OBVIOUS
  <2>1. /\ row' = row /\ mloc' = mloc /\ staged' = staged \ {f} /\ left' = left \ {f}
    BY <1>6, <2>0 DEF F!StagingGone
  <2>2. StageInv(f)' /\ f \notin staged'
    BY <2>1 DEF StageInv
  <2>3. ASSUME NEW g \in Uploads \ {f} PROVE StageInv(g)'
    <3>1. F!Passed(g, {"delmark"})' => F!Passed(g, {"delmark"})
      BY <1>o, <2>0, <2>1 DEF F!Passed, F!item
    <3>2. StageInv(g)
      BY DEF StagesInv
    <3> QED BY <1>o, <2>1, <3>1, <3>2 DEF StageInv, Uploading
  <2> QED BY <2>2, <2>3 DEF StagesInv
<1>7. ASSUME NEW from, NEW status, NEW pass, F!Conclude(m, from, status, pass),
             <<from, status, pass>> \in {<<"delmark", "deleted", "deleting">>, <<"failmark", "failed", "pending">>}
      PROVE  StagesInv'
  <2>1. /\ mpc[m] = from /\ mpc[m] \notin AtPass /\ F!MarkStatus(F!item(m).file, status) /\ UNCHANGED <<staged, left>>
        /\ F!Skip(m, pass) \/ F!EndPass(m, pass)
    BY <1>7 DEF F!Conclude, F!MAt, AtPass, F!store, F!history
  <2>2. mpc'[m] # "delmark"
    BY <1>7, <1>e, <1>l, <1>p, <2>1 DEF F!Skip
  <2>3. F!item(m).file \in Uploads /\ status \in F!Status
    BY <1>7, <1>i, <2>1 DEF F!Status
  <2>4. ASSUME NEW g \in Uploads PROVE Undeleted(g)
    <3>1. CASE g = F!item(m).file /\ status = "deleted"
      BY <1>7, <2>1, <3>1 DEF Undeleted, F!Passed, F!item
    <3>2. CASE g # F!item(m).file \/ status = "failed"
      BY <2>1, <2>3, <3>2, Marked DEF Undeleted, F!Passed
    <3> QED BY <1>7, <3>1, <3>2
  <2> QED BY <1>a, <2>1, <2>2, <2>4
<1>8. CASE F!List(m, "reconcile", "pending") \/ F!List(m, "deleting", "deleting") \/ F!List(m, "pending", "pending")
  BY <1>1, <1>8, <1>p
<1>9. CASE F!StagingGone(m, "delstaged", "delmark") \/ F!StagingGone(m, "unstage", "failmark")
  BY <1>6, <1>9
<1>10. CASE F!Conclude(m, "delmark", "deleted", "deleting") \/ F!Conclude(m, "failmark", "failed", "pending")
  BY <1>7, <1>10
<1> QED
  BY <1>2, <1>3, <1>4, <1>5, <1>8, <1>9, <1>10 DEF F!Maintenance, F!ReconcilePending, F!ProcessDeleting, F!CleanupPending

LEMMA CrashStages == ASSUME StagesInv, F!Crash PROVE StagesInv'
<1>1. ASSUME NEW f \in Uploads PROVE StageInv(f)'
  <2>1. /\ row' = row /\ staged' = staged /\ left' = left \cup {g \in staged : row[g].status = "deleted"}
        /\ fpc'[f] \in {"new", "stage"} => fpc[f] = "new"
        /\ \A m \in Cleaners : mpc'[m] # "delmark"
    BY DEF F!Crash, F!store
  <2>2. F!Passed(f, {"delmark"})' => row[f].status = "deleted"
    BY <2>1 DEF F!Passed
  <2>3. StageInv(f)
    BY DEF StagesInv
  <2> QED BY <2>1, <2>2, <2>3 DEF StageInv
<1> QED BY <1>1 DEF StagesInv

LEMMA StagesKept == ASSUME F!FilesAssumption, FilesInv, StagesInv, F!Next PROVE StagesInv'
<1>1. ASSUME NEW e \in Editors, F!Patch(e) PROVE StagesInv'
  <2>1. e \in Editors \cup Deleters /\ ((e \in Editors /\ F!Patch(e)) \/ (e \in Deleters /\ F!Delete(e)))
    BY <1>1
  <2> QED BY <2>1, RequestStages
<1>2. ASSUME NEW d \in Deleters, F!Delete(d) PROVE StagesInv'
  BY <1>2, RequestStages
<1> QED
  BY <1>1, <1>2, UploadStages, UseStages, MaintenanceStages, CrashStages DEF F!Next

LEMMA StagesStart == ASSUME NEW coming, NEW running, F!Start(coming, running) PROVE StagesInv
BY DEF F!Start, StagesInv, StageInv, F!NoRow

-----------------------------------------------------------------------------

LEMMA FilesHoldIn == FilesInv /\ StagesInv => F!FilesHold
<1> SUFFICES ASSUME FilesInv, StagesInv PROVE F!FilesHold
  OBVIOUS
<1>1. F!TypeOK
  BY TypesOK DEF FilesInv
<1>2. F!ReadyHasObject /\ F!UsedKept /\ F!UnderItsKey /\ F!NothingLeftBehind
  <2>1. used \subseteq Uploads /\ \A f \in Uploads : FileInv(f)
    BY DEF FilesInv, FileTypes, StoreTypes
  <2>2. F!UsedKept
    BY <2>1 DEF FileInv, F!UsedKept
  <2>3. F!NothingLeftBehind
    BY <2>1 DEF FileInv, StagesInv, StageInv, Uploading, F!Passed, F!NothingLeftBehind
  <2> QED BY <2>1, <2>2, <2>3 DEF FileInv, F!ReadyHasObject, F!UnderItsKey
<1>3. F!OneFilePerKey
  BY DEF FilesInv, KeyInv, F!OneFilePerKey
<1> QED BY <1>1, <1>2, <1>3 DEF F!FilesHold

(* What DeletionHolds says of one step. *)
LEMMA StepKeepsDeletion ==
    ASSUME \A f \in Uploads : FileStep(f)
    PROVE  \A f \in Uploads :
              \/ f \in overtaken'
              \/ (row[f].status = "deleting" /\ row'[f].status \in {"deleting", "deleted"})
              \/ (row[f].status = "deleted" /\ row'[f].status = "deleted")
              \/ row[f].status \notin {"deleting", "deleted"}
BY DEF FileStep, RowStep, Move, Published, Create, F!Exists

-----------------------------------------------------------------------------
(* Backups. *)

JobPoint == {"new", "dump", "commit", "sealed", "rename", "meta", "written", "done", "failed", "dead"}
ReaderPoint == {"new", "open", "run", "done", "failed"}
(* What a restore will replay is what it has read the description of; a call that has not *)
(* begun or has ended has no temporary file.                                              *)
BackupsInv ==
    /\ B!TypeOK
    /\ job \in [BackupJobs -> JobPoint]
    /\ reader \in [Restores -> [at : ReaderPoint, path : Paths \cup {None}, meta : BackupJobs \cup {None}, dump : BackupJobs \cup {None}]]
    /\ \A r \in Restores : /\ reader[r].at \in {"run", "done"} => reader[r].dump = reader[r].meta
                           /\ reader[r].at = "open" => reader[r].path \in Paths
                           /\ reader[r].at # "run" => temp[r] = {}
    /\ \A j \in BackupJobs : job[j] \in {"new", "done", "failed"} => temp[j] = {}

LEMMA BackupsStart == ASSUME B!BackupsAssumption, B!Init PROVE BackupsInv
BY DEF B!BackupsAssumption, B!Init, BackupsInv, B!TypeOK, JobPoint, ReaderPoint

LEMMA BackupStep ==
    ASSUME B!BackupsAssumption, BackupsInv, NEW j \in BackupJobs,
           \/ B!Create(j) \/ B!Dump(j) \/ B!Seal(j) \/ B!LookAgain(j) \/ B!PublishEnvelope(j)
           \/ B!WriteMetadata(j) \/ B!PublishMetadata(j) \/ B!Fail(j) \/ B!Die(j)
    PROVE  BackupsInv'
<1>1. j \notin Restores
  BY DEF B!BackupsAssumption
<1>2. reader' = reader /\ bfaults' \in 0..BackupFaults
  BY DEF BackupsInv, B!TypeOK, B!Create, B!Dump, B!Seal, B!LookAgain, B!PublishEnvelope, B!WriteMetadata, B!PublishMetadata,
         B!Fail, B!Die, B!BackupsAssumption
<1>3. envelope' \in [Paths -> BackupJobs \cup {None}] /\ metadata' \in [Paths -> BackupJobs \cup {None}]
  BY DEF BackupsInv, B!TypeOK, B!Create, B!Dump, B!Seal, B!LookAgain, B!PublishEnvelope, B!WriteMetadata, B!PublishMetadata,
         B!Fail, B!Die, B!Store, B!BackupsAssumption
<1>4. /\ job' \in [BackupJobs -> JobPoint] /\ job'[j] # "new" /\ \A k \in BackupJobs \ {j} : job'[k] = job[k]
  BY DEF B!Create, B!Dump, B!Seal, B!LookAgain, B!PublishEnvelope, B!WriteMetadata, B!PublishMetadata,
         B!Fail, B!Die, B!Goto, JobPoint, BackupsInv
<1>5. temp' = temp \/ \E fs \in {{}, {"plain"}, {"plain", "envelope"}, {"plain", "meta"}} : temp' = [temp EXCEPT ![j] = fs]
  BY DEF B!Create, B!Dump, B!Seal, B!LookAgain, B!PublishEnvelope, B!WriteMetadata, B!PublishMetadata, B!Fail, B!Die, B!Temp
<1>6. temp' \in [BackupJobs \cup Restores -> SUBSET B!Kinds] /\ \A c \in (BackupJobs \cup Restores) \ {j} : temp'[c] = temp[c]
  BY <1>5 DEF BackupsInv, B!TypeOK, B!Kinds
<1>7. job'[j] \in {"done", "failed"} => temp'[j] = {}
  <2>1. CASE B!Create(j)
    BY <2>1 DEF B!Create, B!Goto, B!Temp, BackupsInv, B!TypeOK
  <2>2. CASE B!Dump(j) \/ B!Die(j) \/ B!PublishEnvelope(j) \/ B!WriteMetadata(j)
    BY <2>2 DEF B!Dump, B!Die, B!PublishEnvelope, B!WriteMetadata, B!Goto, BackupsInv
  <2>3. CASE B!Seal(j) \/ B!LookAgain(j)
    BY <2>3 DEF B!Seal, B!LookAgain, B!Goto, B!Temp, BackupsInv, B!TypeOK
  <2>4. CASE B!PublishMetadata(j) \/ B!Fail(j)
    BY <2>4 DEF B!PublishMetadata, B!Fail, B!Temp, BackupsInv, B!TypeOK
  <2> QED BY <2>1, <2>2, <2>3, <2>4
<1> QED
  BY <1>1, <1>2, <1>3, <1>4, <1>6, <1>7 DEF BackupsInv, B!TypeOK

LEMMA RestoreStep ==
    ASSUME B!BackupsAssumption, BackupsInv, NEW r \in Restores, (\E p \in Paths : B!ReadMetadata(r, p)) \/ B!Decrypt(r) \/ B!Replay(r)
    PROVE  BackupsInv'
<1>1. r \notin BackupJobs
  BY DEF B!BackupsAssumption
<1>2. CASE \E p \in Paths : B!ReadMetadata(r, p)
  BY <1>2 DEF B!ReadMetadata, BackupsInv, B!TypeOK, ReaderPoint
<1>3. CASE B!Decrypt(r)
  <2> DEFINE j == envelope[reader[r].path]
             ok == B!Matches(r, j) /\ DriverOf[reader[r].meta] = DriverOf[r]
  <2>1. /\ reader[r].at = "open" /\ UNCHANGED <<envelope, metadata, job, bfaults>>
        /\ reader' = [reader EXCEPT ![r].at = IF ok THEN "run" ELSE "failed", ![r].dump = IF ok THEN j ELSE None]
        /\ temp' = [temp EXCEPT ![r] = IF ok THEN {"restored"} ELSE {}]
    BY <1>3 DEF B!Decrypt, B!Temp
  <2>2. ok => j = reader[r].meta
    BY DEF B!Matches
  <2>3. j \in BackupJobs \cup {None}
    BY <2>1 DEF BackupsInv, B!TypeOK
  <2> HIDE DEF ok, j
  <2>4. reader' \in [Restores -> [at : ReaderPoint, path : Paths \cup {None}, meta : BackupJobs \cup {None}, dump : BackupJobs \cup {None}]]
    <3>1. reader' = [reader EXCEPT ![r] = [reader[r] EXCEPT !.at = IF ok THEN "run" ELSE "failed", !.dump = IF ok THEN j ELSE None]]
      BY <2>1 DEF BackupsInv
    <3>2. reader[r] \in [at : ReaderPoint, path : Paths \cup {None}, meta : BackupJobs \cup {None}, dump : BackupJobs \cup {None}]
      BY DEF BackupsInv
    <3>3. [reader[r] EXCEPT !.at = IF ok THEN "run" ELSE "failed", !.dump = IF ok THEN j ELSE None]
             \in [at : ReaderPoint, path : Paths \cup {None}, meta : BackupJobs \cup {None}, dump : BackupJobs \cup {None}]
      BY <2>3, <3>2 DEF ReaderPoint
    <3> QED BY <3>1, <3>3 DEF BackupsInv
  <2>5. ASSUME NEW q \in Restores
        PROVE  /\ reader'[q].at \in {"run", "done"} => reader'[q].dump = reader'[q].meta
               /\ reader'[q].at = "open" => reader'[q].path \in Paths
               /\ reader'[q].at # "run" => temp'[q] = {}
    <3>1. CASE q # r
      BY <2>1, <3>1 DEF BackupsInv, B!TypeOK
    <3>2. CASE q = r /\ ok
      BY <2>1, <2>2, <3>2 DEF BackupsInv
    <3>3. CASE q = r /\ ~ok
      BY <2>1, <3>3 DEF BackupsInv, B!TypeOK
    <3> QED BY <3>1, <3>2, <3>3
  <2>6. B!TypeOK'
    BY <2>1 DEF BackupsInv, B!TypeOK, B!Kinds
  <2> QED BY <1>1, <2>1, <2>4, <2>5, <2>6 DEF BackupsInv, B!TypeOK
<1>4. CASE B!Replay(r)
  BY <1>1, <1>4 DEF B!Replay, B!Temp, BackupsInv, B!TypeOK, ReaderPoint, B!BackupsAssumption
<1> QED BY <1>2, <1>3, <1>4

LEMMA BackupsKept == ASSUME B!BackupsAssumption, BackupsInv, B!Next PROVE BackupsInv'
<1>1. ASSUME NEW j \in BackupJobs,
             \/ B!Create(j) \/ B!Dump(j) \/ B!Seal(j) \/ B!LookAgain(j) \/ B!PublishEnvelope(j)
             \/ B!WriteMetadata(j) \/ B!PublishMetadata(j) \/ B!Fail(j) \/ B!Die(j)
      PROVE  BackupsInv'
  BY <1>1, BackupStep
<1>2. ASSUME NEW r \in Restores, (\E p \in Paths : B!ReadMetadata(r, p)) \/ B!Decrypt(r) \/ B!Replay(r) PROVE BackupsInv'
  BY <1>2, RestoreStep
<1> QED BY <1>1, <1>2 DEF B!Next

LEMMA BackupsHoldIn == BackupsInv => B!TypeOK /\ B!ArtifactsHold
BY DEF BackupsInv, B!ArtifactsHold, B!RestoredAsDescribed, B!NothingStaged

-----------------------------------------------------------------------------
(* Imports and exports. *)

TaskState == {"none", "pending", "claimed", "done", "dead", "cancelled"}
Asking == {"create", "created", "errors", "enqueue", "queued", "persist"}
RequestPoint == {"idle", "accepted", "refused", "failed"} \cup Asking
WorkPoint == {"off", "idle", "get", "mark", "marked", "rows", "finished", "end"}
OperatorPoint == {"idle", "looked", "persist", "done"}
(* A job of r, in a memory, in the database or in somebody's hand, has no more processed rows *)
(* than r has rows.                                                                           *)
JobOf(r) == {j \in I!Jobs : j.processed <= Rows[r]}

JobsInv == jobs \in [ImportServers -> [Imported -> I!Jobs]] /\ \A s \in ImportServers : \A r \in Imported : jobs[s][r] \in JobOf(r)
RowsInv == rows \in [Imported -> I!Jobs] /\ \A r \in Imported : rows[r] \in JobOf(r)
TasksInv ==
    /\ tasks \in [Imported -> [state : TaskState, attempts : Nat, missed : Nat]]
    /\ \A r \in Imported : /\ tasks[r].attempts <= MaxAttempts + ifaults
                           /\ tasks[r].state = "pending" => tasks[r].attempts < MaxAttempts + ifaults
AskedInv ==
    /\ req \in [Imported -> [pc : RequestPoint, id : Imported \cup {None}, at : ImportServers \cup {None}, copy : I!Jobs]]
    /\ \A r \in Imported : req[r].copy \in JobOf(r) /\ (req[r].pc \in Asking => req[r].at \in ImportServers)
WorkInv ==
    /\ work \in [ImportServers -> [pc : WorkPoint, id : Imported \cup {None}, at : Nat, fails : BOOLEAN, copy : I!Jobs]]
    /\ \A s \in ImportServers : /\ work[s].pc \notin {"idle", "off"} => work[s].id \in Imported
                                /\ work[s].id \in Imported => work[s].at <= Rows[work[s].id] /\ work[s].copy \in JobOf(work[s].id)
OperatorsInv ==
    /\ op \in [Operators -> [pc : OperatorPoint, id : Imported \cup {None}, copy : I!Jobs]]
    /\ \A o \in Operators : op[o].pc \in {"looked", "persist"} => op[o].id \in Imported /\ op[o].copy \in JobOf(op[o].id)
FaultsInv == ifaults \in 0..MaxFaults
ImportsInv ==
    JobsInv /\ RowsInv /\ TasksInv /\ AskedInv /\ WorkInv /\ OperatorsInv /\ FaultsInv /\ artifacts \in [ImportServers -> SUBSET Imported]

LEMMA NoJobs == ASSUME I!ImportsAssumption, NEW r \in Imported PROVE I!NoJob \in JobOf(r) /\ I!NewJob \in JobOf(r) /\ I!NoJob \in I!Jobs
BY DEF I!ImportsAssumption, I!NoJob, I!NewJob, JobOf, I!Jobs, I!Statuses

WorkSet == [pc : WorkPoint, id : Imported \cup {None}, at : Nat, fails : BOOLEAN, copy : I!Jobs]
LEMMA IdleWork ==
    ASSUME I!ImportsAssumption
    PROVE  I!NoWork \in WorkSet /\ I!NoWork.pc = "idle" /\ I!NoWork.id = None /\ I!NoWork.at = 0 /\ I!NoWork.copy = I!NoJob
<1>1. I!NoJob \in I!Jobs
  BY DEF I!NoJob, I!Jobs, I!Statuses
<1>2. ASSUME NEW x \in BOOLEAN, NEW n \in Nat, NEW j \in I!Jobs PROVE [pc |-> "idle", id |-> None, at |-> n, fails |-> x, copy |-> j] \in WorkSet
  BY DEF WorkSet, WorkPoint
<1>3. I!NoWork \in WorkSet
  BY <1>1, <1>2 DEF I!NoWork
<1>4. I!NoWork.pc = "idle" /\ I!NoWork.id = None /\ I!NoWork.at = 0 /\ I!NoWork.copy = I!NoJob
  BY DEF I!NoWork
<1> QED BY <1>3, <1>4

LEMMA ImportsStart == ASSUME I!ImportsAssumption, NEW active, NEW up, I!Start(active, up) PROVE ImportsInv
<1>1. JobsInv /\ RowsInv /\ artifacts \in [ImportServers -> SUBSET Imported]
  BY NoJobs DEF I!Start, JobsInv, RowsInv
<1>2. TasksInv /\ FaultsInv
  BY DEF I!Start, TasksInv, FaultsInv, I!NoTask, TaskState, I!ImportsAssumption
<1>3. AskedInv
  BY NoJobs DEF I!Start, AskedInv, RequestPoint, Asking
<1>n. I!NoJob \in I!Jobs
  BY DEF I!NoJob, I!Jobs, I!Statuses
<1>4. WorkInv
  <2>1. work = [s \in ImportServers |-> IF s \in up THEN I!NoWork ELSE [I!NoWork EXCEPT !.pc = "off"]]
    BY DEF I!Start
  <2>2. LET off == [I!NoWork EXCEPT !.pc = "off"] IN off \in WorkSet /\ off.pc = "off" /\ off.id = None
    BY IdleWork DEF WorkSet, WorkPoint
  <2> QED BY <2>1, <2>2, IdleWork DEF WorkInv, WorkSet, I!ImportsAssumption
<1>5. OperatorsInv
  BY <1>n DEF I!Start, OperatorsInv, OperatorPoint
<1> QED BY <1>1, <1>2, <1>3, <1>4, <1>5 DEF ImportsInv

LEMMA PutKept == ASSUME JobsInv, NEW s \in ImportServers, NEW r \in Imported, NEW j \in JobOf(r), I!Put(s, r, j) PROVE JobsInv'
<1>1. jobs' = [jobs EXCEPT ![s] = [jobs[s] EXCEPT ![r] = j]] /\ j \in I!Jobs
  BY DEF I!Put, JobOf
<1>2. [jobs[s] EXCEPT ![r] = j] \in [Imported -> I!Jobs]
  BY <1>1 DEF JobsInv
<1>3. jobs' \in [ImportServers -> [Imported -> I!Jobs]]
  BY <1>1, <1>2 DEF JobsInv
<1>4. ASSUME NEW z \in ImportServers, NEW q \in Imported PROVE jobs'[z][q] \in {jobs[z][q]} \/ (q = r /\ jobs'[z][q] = j)
  BY <1>1 DEF JobsInv
<1>5. \A z \in ImportServers : \A q \in Imported : jobs'[z][q] \in JobOf(q)
  BY <1>4 DEF JobsInv
<1> QED BY <1>3, <1>5 DEF JobsInv, JobOf

LEMMA PersistKept == ASSUME RowsInv, NEW r \in Imported, NEW j \in JobOf(r), I!Persist(r, j) PROVE RowsInv'
BY DEF I!Persist, RowsInv, JobOf

LEMMA Altered == ASSUME NEW r, NEW j \in JobOf(r), NEW status \in I!Statuses, NEW task \in Imported \cup {None}
  PROVE [j EXCEPT !.status = status] \in JobOf(r) /\ [j EXCEPT !.task = task] \in JobOf(r)
<1>1. j \in I!Jobs /\ j.processed <= Rows[r]
  BY DEF JobOf
<1>2. [j EXCEPT !.status = status] \in I!Jobs /\ [j EXCEPT !.task = task] \in I!Jobs
  BY <1>1 DEF I!Jobs
<1>3. [j EXCEPT !.status = status].processed = j.processed /\ [j EXCEPT !.task = task].processed = j.processed
  BY <1>1 DEF I!Jobs
<1> QED BY <1>1, <1>2, <1>3 DEF JobOf

LEMMA Counted == ASSUME NEW r \in Imported, NEW j \in JobOf(r), NEW n \in Nat, n <= Rows[r] PROVE [j EXCEPT !.processed = n] \in JobOf(r)
BY DEF JobOf, I!Jobs
LEMMA Ended == ASSUME NEW r \in Imported, NEW j \in JobOf(r), NEW status \in I!Statuses, NEW n \in Nat, n <= Rows[r]
  PROVE [j EXCEPT !.status = status, !.processed = n] \in JobOf(r)
BY DEF JobOf, I!Jobs

LEMMA SpendKept == ASSUME I!ImportsAssumption, FaultsInv, NEW fault, I!Spend(fault) PROVE FaultsInv' /\ ifaults' >= ifaults /\ ifaults \in Nat /\ ifaults' \in Nat
BY DEF I!ImportsAssumption, FaultsInv, I!Spend

(* With more faults the bound of the attempts is larger. *)
LEMMA TasksWait == ASSUME I!ImportsAssumption, FaultsInv, FaultsInv', TasksInv, UNCHANGED tasks, ifaults' >= ifaults PROVE TasksInv'
<1>1. ifaults \in Nat /\ ifaults' \in Nat /\ MaxAttempts \in Nat
  BY DEF FaultsInv, I!ImportsAssumption
<1>2. ASSUME NEW r \in Imported PROVE tasks[r].attempts \in Nat
  BY DEF TasksInv
<1> QED BY <1>1, <1>2 DEF TasksInv

LEMMA GoKept == ASSUME AskedInv, NEW r \in Imported, NEW to \in RequestPoint, I!Go(r, to), to \in Asking => req[r].at \in ImportServers PROVE AskedInv'
BY DEF I!Go, AskedInv, JobOf

LEMMA RequestStepKept ==
    ASSUME I!ImportsAssumption, ImportsInv, NEW r \in Imported, I!RequestStep(r) \/ \E s \in ImportServers : I!Commit(r, s)
    PROVE  ImportsInv'
<1> USE DEF ImportsInv
<1>1. UNCHANGED <<work, op, artifacts>>
  BY DEF I!RequestStep, I!Commit, I!CreateRow, I!TakePersisted, I!AddErrors, I!Enqueue, I!NoteTask, I!PersistTask, I!quiet
<1>2. WorkInv' /\ OperatorsInv' /\ artifacts' \in [ImportServers -> SUBSET Imported]
  BY <1>1 DEF WorkInv, OperatorsInv, JobOf
<1>3. FaultsInv' /\ ifaults' >= ifaults
  <2>1. UNCHANGED ifaults \/ I!Spend(TRUE)
    BY DEF I!RequestStep, I!Commit, I!CreateRow, I!TakePersisted, I!AddErrors, I!Enqueue, I!NoteTask, I!PersistTask, I!quiet
  <2>2. UNCHANGED ifaults => FaultsInv' /\ ifaults' >= ifaults
    BY DEF FaultsInv
  <2>3. I!Spend(TRUE) => FaultsInv' /\ ifaults' >= ifaults
    BY SpendKept
  <2> QED BY <2>1, <2>2, <2>3
<1>p. "created" \in RequestPoint /\ "failed" \in RequestPoint /\ "errors" \in RequestPoint /\ "enqueue" \in RequestPoint
      /\ "queued" \in RequestPoint /\ "persist" \in RequestPoint /\ "accepted" \in RequestPoint /\ "refused" \in RequestPoint
      /\ "create" \in RequestPoint /\ "failed" \notin Asking /\ "accepted" \notin Asking /\ "refused" \notin Asking
  BY DEF RequestPoint, Asking
<1>4. CASE \E s \in ImportServers : I!Commit(r, s)
  <2>1. PICK s \in ImportServers : I!Commit(r, s)
    BY <1>4
  <2>2. TasksInv' /\ RowsInv'
    BY <1>3, <2>1, TasksWait DEF I!Commit, RowsInv, JobOf
  <2>3. CASE I!Go(r, "refused") /\ UNCHANGED jobs
    BY <1>2, <1>3, <1>p, <2>2, <2>3, GoKept DEF JobsInv, JobOf
  <2>4. ASSUME NEW q \in Imported, req' = [req EXCEPT ![r] = [@ EXCEPT !.pc = "accepted", !.id = q, !.at = s]], UNCHANGED jobs PROVE ImportsInv'
    <3>1. AskedInv'
      BY <1>p, <2>4 DEF AskedInv, JobOf
    <3> QED BY <1>2, <1>3, <2>2, <2>4, <3>1 DEF JobsInv, JobOf
  <2>5. CASE I!Put(s, r, I!NewJob) /\ req' = [req EXCEPT ![r] = [@ EXCEPT !.pc = "create", !.id = r, !.at = s]]
    <3>1. AskedInv'
      BY <1>p, <2>5 DEF AskedInv, JobOf
    <3>2. JobsInv'
      BY <2>5, NoJobs, PutKept
    <3> QED BY <1>2, <1>3, <2>2, <3>1, <3>2
  <2> QED BY <2>1, <2>3, <2>4, <2>5 DEF I!Commit
<1>a. req[r].pc \in Asking => req[r].at \in ImportServers
  BY DEF AskedInv
<1>5. CASE I!CreateRow(r)
  <2>1. UNCHANGED <<jobs, tasks>> /\ (rows' = rows \/ rows' = [rows EXCEPT ![r] = I!NewJob]) /\ (I!Go(r, "created") \/ I!Go(r, "failed")) /\ req[r].pc = "create"
    BY <1>5 DEF I!CreateRow, I!At
  <2>2. RowsInv'
    BY <2>1, NoJobs DEF RowsInv, JobOf
  <2>3. AskedInv'
    BY <1>a, <1>p, <2>1, GoKept DEF Asking
  <2> QED BY <1>2, <1>3, <2>1, <2>2, <2>3, TasksWait DEF JobsInv, JobOf
<1>6. CASE I!TakePersisted(r)
  <2>1. UNCHANGED <<rows, tasks>> /\ I!Put(req[r].at, r, I!NewJob) /\ I!Go(r, "errors") /\ req[r].pc = "created" /\ req[r].at \in ImportServers
    BY <1>6, <1>a DEF I!TakePersisted, I!At, Asking
  <2>2. JobsInv' /\ AskedInv'
    BY <1>p, <2>1, GoKept, NoJobs, PutKept
  <2> QED BY <1>2, <1>3, <2>1, <2>2, TasksWait DEF RowsInv, JobOf
<1>7. CASE I!AddErrors(r)
  <2>1. UNCHANGED <<rows, jobs, tasks>> /\ (I!Go(r, "enqueue") \/ I!Go(r, "failed")) /\ req[r].pc = "errors"
    BY <1>7 DEF I!AddErrors, I!At
  <2>2. AskedInv'
    BY <1>a, <1>p, <2>1, GoKept DEF Asking
  <2> QED BY <1>2, <1>3, <2>1, <2>2, TasksWait DEF RowsInv, JobsInv, JobOf
<1>8. CASE I!Enqueue(r)
  <2>1. UNCHANGED <<rows, jobs>> /\ req[r].pc = "enqueue"
    BY <1>8 DEF I!Enqueue, I!At
  <2>2. TasksInv'
    <3>1. tasks' = tasks \/ tasks' = [tasks EXCEPT ![r] = [I!NoTask EXCEPT !.state = "pending"]]
      BY <1>8 DEF I!Enqueue
    <3>2. CASE tasks' = [tasks EXCEPT ![r] = [I!NoTask EXCEPT !.state = "pending"]]
      <4>1. [I!NoTask EXCEPT !.state = "pending"] = [state |-> "pending", attempts |-> 0, missed |-> 0]
        BY DEF I!NoTask
      <4>2. MaxAttempts \in Nat \ {0} /\ ifaults \in Nat /\ ifaults' \in Nat /\ ifaults' >= ifaults
        BY <1>3 DEF FaultsInv, I!ImportsAssumption
      <4>3. tasks' \in [Imported -> [state : TaskState, attempts : Nat, missed : Nat]]
        BY <3>2, <4>1 DEF TasksInv, TaskState
      <4>4. ASSUME NEW q \in Imported PROVE tasks'[q].attempts <= MaxAttempts + ifaults' /\ (tasks'[q].state = "pending" => tasks'[q].attempts < MaxAttempts + ifaults')
        <5>1. tasks[q].attempts \in Nat
          BY DEF TasksInv
        <5>2. CASE q = r
          BY <3>2, <4>1, <4>2, <5>2 DEF TasksInv
        <5>3. CASE q # r
          BY <3>2, <4>2, <5>1, <5>3 DEF TasksInv
        <5> QED BY <5>2, <5>3
      <4> QED BY <4>3, <4>4 DEF TasksInv
    <3> QED BY <1>3, <3>1, <3>2, TasksWait
  <2>3. AskedInv'
    <3>1. CASE I!Go(r, "failed")
      BY <1>p, <3>1, GoKept
    <3>2. ASSUME NEW q \in Imported, req' = [req EXCEPT ![r].pc = "queued", ![r].copy.task = q] PROVE AskedInv'
      <4>1. req' = [req EXCEPT ![r] = [req[r] EXCEPT !.pc = "queued", !.copy = [req[r].copy EXCEPT !.task = q]]]
        BY <3>2 DEF AskedInv
      <4>2. [req[r].copy EXCEPT !.task = q] \in JobOf(r) /\ [req[r].copy EXCEPT !.task = q] \in I!Jobs
        BY DEF AskedInv, JobOf, I!Jobs
      <4> QED BY <1>a, <1>p, <2>1, <4>1, <4>2 DEF AskedInv, Asking, JobOf
    <3>3. I!Go(r, "failed") \/ \E q \in Imported : req' = [req EXCEPT ![r].pc = "queued", ![r].copy.task = q]
      BY <1>8 DEF I!Enqueue, I!Queued
    <3> QED BY <3>1, <3>2, <3>3
  <2> QED BY <1>2, <1>3, <2>1, <2>2, <2>3 DEF RowsInv, JobsInv, JobOf
<1>9. CASE I!NoteTask(r)
  <2> DEFINE s == req[r].at
             noted == [jobs[s][r] EXCEPT !.task = req[r].copy.task]
  <2>1. UNCHANGED <<rows, tasks>> /\ req[r].pc = "queued" /\ s \in ImportServers
    BY <1>9, <1>a DEF I!NoteTask, I!At, Asking
  <2>2. noted \in JobOf(r) /\ noted \in I!Jobs
    <3>1. jobs[s][r] \in JobOf(r) /\ req[r].copy.task \in Imported \cup {None}
      BY <2>1 DEF JobsInv, AskedInv, I!Jobs
    <3>2. noted \in JobOf(r)
      BY <3>1, Altered DEF JobOf, I!Jobs, I!Statuses
    <3> QED BY <3>2 DEF JobOf
  <2>3. \/ I!Put(s, r, noted) /\ req' = [req EXCEPT ![r].pc = "persist", ![r].copy = noted]
        \/ I!Go(r, "accepted") /\ UNCHANGED jobs
    BY <1>9 DEF I!NoteTask
  <2> HIDE DEF noted
  <2>4. CASE I!Put(s, r, noted) /\ req' = [req EXCEPT ![r].pc = "persist", ![r].copy = noted]
    <3>1. JobsInv'
      BY <2>1, <2>2, <2>4, PutKept
    <3>2. req' = [req EXCEPT ![r] = [req[r] EXCEPT !.pc = "persist", !.copy = noted]]
      BY <2>4 DEF AskedInv
    <3>3. AskedInv'
      BY <1>p, <2>1, <2>2, <3>2 DEF AskedInv, JobOf
    <3> QED BY <1>2, <1>3, <2>1, <3>1, <3>3, TasksWait DEF RowsInv, JobOf
  <2>5. CASE I!Go(r, "accepted") /\ UNCHANGED jobs
    BY <1>2, <1>3, <1>p, <2>1, <2>5, GoKept, TasksWait DEF RowsInv, JobsInv, JobOf
  <2> QED BY <2>3, <2>4, <2>5
<1>10. CASE I!PersistTask(r)
  <2>1. UNCHANGED <<jobs, tasks>> /\ I!Persist(r, req[r].copy) /\ I!Go(r, "accepted") /\ req[r].copy \in JobOf(r)
    BY <1>10 DEF I!PersistTask, AskedInv
  <2>2. RowsInv' /\ AskedInv'
    BY <1>p, <2>1, GoKept, PersistKept
  <2> QED BY <1>2, <1>3, <2>1, <2>2, TasksWait DEF JobsInv, JobOf
<1> QED BY <1>4, <1>5, <1>6, <1>7, <1>8, <1>9, <1>10 DEF I!RequestStep

LEMMA TurnKept == ASSUME WorkInv, NEW s \in ImportServers, NEW to \in WorkPoint \ {"idle"}, I!Turn(s, to), work[s].pc \notin {"idle", "off"} PROVE WorkInv'
BY DEF I!Turn, WorkInv, JobOf
LEMMA FailsKept == ASSUME WorkInv, NEW s \in ImportServers, I!Fails(s), work[s].pc \notin {"idle", "off"} PROVE WorkInv'
<1>1. work' = [work EXCEPT ![s] = [work[s] EXCEPT !.pc = "end", !.fails = TRUE]]
  BY DEF I!Fails, WorkInv
<1> QED BY <1>1 DEF WorkInv, JobOf, WorkPoint

(* The worker goes on with a new copy of its job, or another number of rows. *)
LEMMA WorkedOn ==
    ASSUME WorkInv, NEW s \in ImportServers, work[s].pc \notin {"idle", "off"}, NEW to \in WorkPoint \ {"idle"}, NEW fails \in BOOLEAN,
           NEW j \in JobOf(work[s].id), NEW n \in Nat, n <= Rows[work[s].id],
           work' = [work EXCEPT ![s] = [work[s] EXCEPT !.pc = to, !.fails = fails, !.copy = j, !.at = n]]
    PROVE  WorkInv'
BY DEF WorkInv, JobOf

(* A worker that is at one of the points of a task has a job of the table. *)
LEMMA WithJob ==
    ASSUME WorkInv, NEW s \in ImportServers, work[s].pc \in {"get", "mark", "marked", "rows", "finished", "end"}
    PROVE  /\ work[s].id \in Imported /\ work[s].at \in Nat /\ work[s].at <= Rows[work[s].id]
           /\ work[s].copy \in JobOf(work[s].id) /\ work[s].fails \in BOOLEAN
           /\ work[s].pc \notin {"idle", "off"} /\ work[s].pc \in WorkPoint \ {"idle"}
<1>1. work[s].pc \notin {"idle", "off"}
  OBVIOUS
<1>2. work[s].id \in Imported
  <2>1. \A z \in ImportServers : work[z].pc \notin {"idle", "off"} => work[z].id \in Imported
    BY Zenon DEF WorkInv
  <2> QED BY <1>1, <2>1
<1>3. work[s].at \in Nat /\ work[s].fails \in BOOLEAN
  BY DEF WorkInv
<1>4. work[s].at <= Rows[work[s].id] /\ work[s].copy \in JobOf(work[s].id)
  BY <1>2 DEF WorkInv
<1>5. work[s].pc \notin {"idle", "off"} /\ work[s].pc \in WorkPoint \ {"idle"}
  BY <1>1 DEF WorkPoint
<1> QED BY <1>2, <1>3, <1>4, <1>5

LEMMA FinishKept ==
    ASSUME JobsInv, WorkInv, artifacts \in [ImportServers -> SUBSET Imported], NEW s \in ImportServers, I!Doing(s, "rows"),
           NEW status \in I!Final, NEW files \in SUBSET Imported, I!Finish(s, status, files)
    PROVE  JobsInv' /\ WorkInv' /\ artifacts' \in [ImportServers -> SUBSET Imported]
<1> DEFINE ended == [jobs[s][work[s].id] EXCEPT !.status = status, !.processed = work[s].at]
<1>0. work[s].pc = "rows"
  BY DEF I!Doing
<1>1. work[s].pc \notin {"idle", "off"} /\ work[s].id \in Imported /\ work[s].at \in Nat /\ work[s].at <= Rows[work[s].id]
  BY <1>0, WithJob
<1>2. ended \in JobOf(work[s].id)
  BY <1>1, Ended DEF JobsInv, I!Final, I!Statuses
<1>3. /\ I!Put(s, work[s].id, ended)
      /\ work' = [work EXCEPT ![s].pc = "finished", ![s].fails = status # "succeeded", ![s].copy = ended]
      /\ artifacts' = [artifacts EXCEPT ![s] = @ \cup files]
  BY DEF I!Finish
<1> HIDE DEF ended
<1>4. JobsInv'
  BY <1>1, <1>2, <1>3, PutKept
<1>5. work' = [work EXCEPT ![s] = [work[s] EXCEPT !.pc = "finished", !.fails = (status # "succeeded"), !.copy = ended, !.at = work[s].at]]
  BY <1>3 DEF WorkInv
<1>6. WorkInv'
  BY <1>1, <1>2, <1>5, WorkedOn DEF WorkPoint
<1> QED BY <1>3, <1>4, <1>6

LEMMA WorkStepKept ==
    ASSUME I!ImportsAssumption, ImportsInv, NEW s \in ImportServers, I!WorkStep(s) \/ I!Interrupt(s)
    PROVE  ImportsInv'
<1> USE DEF ImportsInv
<1>1. UNCHANGED <<req, op>>
  BY DEF I!WorkStep, I!GetForWorker, I!MarkRunning, I!PersistRunning, I!UpdateProgress, I!FailFields, I!Complete, I!PersistEnd,
         I!EndTask, I!Claim, I!Interrupt, I!Finish, I!still
<1>2. AskedInv' /\ OperatorsInv'
  BY <1>1 DEF AskedInv, OperatorsInv, JobOf
<1>n. I!NoWork \in WorkSet /\ I!NoWork.pc = "idle" /\ I!NoWork.id = None /\ I!NoWork.at = 0 /\ I!NoWork.copy = I!NoJob
  BY IdleWork
<1>f. ifaults \in Nat /\ MaxAttempts \in Nat \ {0} /\ Rows \in [Imported -> Nat]
  BY DEF FaultsInv, I!ImportsAssumption
<1>3. ASSUME NEW id \in Imported, I!Claim(s, id) PROVE ImportsInv'
  <2>1. /\ work' = [work EXCEPT ![s] = [I!NoWork EXCEPT !.pc = "get", !.id = id]] /\ tasks[id].state = "pending"
        /\ tasks' = [tasks EXCEPT ![id] = [state |-> "claimed", attempts |-> tasks[id].attempts + 1,
                                           missed |-> tasks[id].missed + (IF I!Known(s, id) THEN 0 ELSE 1)]]
        /\ UNCHANGED <<jobs, rows, artifacts, ifaults>>
    BY <1>3 DEF I!Claim, TasksInv
  <2> DEFINE w == [I!NoWork EXCEPT !.pc = "get", !.id = id]
  <2>2. w \in WorkSet /\ w.id = id /\ w.at = 0 /\ w.copy = I!NoJob
    BY <1>n DEF WorkSet, WorkPoint
  <2>3. I!NoJob \in JobOf(id) /\ 0 <= Rows[id]
    BY <1>f, NoJobs
  <2> HIDE DEF w
  <2>w. work' = [work EXCEPT ![s] = w]
    BY <2>1 DEF w
  <2>4. WorkInv'
    BY <2>w, <2>2, <2>3 DEF WorkInv, WorkSet, JobOf
  <2> DEFINE m == tasks[id].missed + (IF I!Known(s, id) THEN 0 ELSE 1)
  <2>m. m \in Nat
    BY DEF TasksInv
  <2>t. tasks' = [tasks EXCEPT ![id] = [state |-> "claimed", attempts |-> tasks[id].attempts + 1, missed |-> m]]
    BY <2>1
  <2> HIDE DEF m
  <2>5. TasksInv'
    BY <1>f, <2>1, <2>m, <2>t DEF TasksInv, TaskState
  <2> QED BY <1>2, <2>1, <2>4, <2>5 DEF JobsInv, RowsInv, JobOf, FaultsInv
<1>4. CASE I!GetForWorker(s)
  <2>1. work[s].pc = "get" /\ (I!Turn(s, "mark") \/ I!Fails(s)) /\ UNCHANGED <<jobs, rows, artifacts, tasks, ifaults>>
    BY <1>4 DEF I!GetForWorker, I!Doing
  <2>2. WorkInv'
    BY <2>1, TurnKept, FailsKept DEF WorkPoint
  <2> QED BY <1>2, <2>1, <2>2 DEF JobsInv, RowsInv, JobOf, FaultsInv, TasksInv
<1>5. CASE I!MarkRunning(s)
  <2> DEFINE running == [jobs[s][work[s].id] EXCEPT !.status = "running"]
  <2>0. work[s].pc = "mark" /\ UNCHANGED <<rows, artifacts, tasks, ifaults>>
    BY <1>5 DEF I!MarkRunning, I!Doing
  <2>1. work[s].pc \notin {"idle", "off"} /\ work[s].id \in Imported /\ UNCHANGED <<rows, artifacts, tasks, ifaults>>
    BY <2>0, WithJob
  <2>2. running \in JobOf(work[s].id)
    BY <2>1, Altered DEF JobsInv, I!Statuses
  <2>3. (I!Fails(s) /\ UNCHANGED jobs) \/ (I!Put(s, work[s].id, running) /\ work' = [work EXCEPT ![s].pc = "marked", ![s].copy = running])
    BY <1>5 DEF I!MarkRunning
  <2> HIDE DEF running
  <2>4. CASE I!Fails(s) /\ UNCHANGED jobs
    <3>1. WorkInv'
      BY <2>1, <2>4, FailsKept
    <3> QED BY <1>2, <2>1, <2>4, <3>1 DEF JobsInv, RowsInv, JobOf, FaultsInv, TasksInv
  <2>5. CASE I!Put(s, work[s].id, running) /\ work' = [work EXCEPT ![s].pc = "marked", ![s].copy = running]
    <3>1. JobsInv'
      BY <2>1, <2>2, <2>5, PutKept
    <3>2. work' = [work EXCEPT ![s] = [work[s] EXCEPT !.pc = "marked", !.fails = work[s].fails, !.copy = running, !.at = work[s].at]]
      BY <2>5 DEF WorkInv
    <3>3. work[s].fails \in BOOLEAN /\ work[s].at \in Nat /\ work[s].at <= Rows[work[s].id]
      BY <2>0, WithJob
    <3>4. WorkInv'
      BY <2>1, <2>2, <3>2, <3>3, WorkedOn DEF WorkPoint
    <3> QED BY <1>2, <2>1, <3>1, <3>4 DEF RowsInv, JobOf, FaultsInv, TasksInv
  <2> QED BY <2>3, <2>4, <2>5
<1>6. CASE I!PersistRunning(s) \/ I!PersistEnd(s)
  <2>0. work[s].pc \in {"marked", "finished"}
    BY <1>6 DEF I!PersistRunning, I!PersistEnd, I!Doing
  <2>1. /\ work[s].pc \notin {"idle", "off"} /\ UNCHANGED <<jobs, artifacts, tasks, ifaults>> /\ (I!Turn(s, "rows") \/ I!Turn(s, "end"))
        /\ I!Persist(work[s].id, work[s].copy)
    BY <1>6 DEF I!PersistRunning, I!PersistEnd, I!Doing
  <2>2. work[s].id \in Imported /\ work[s].copy \in JobOf(work[s].id)
    <3>1. work[s].pc \in {"get", "mark", "marked", "rows", "finished", "end"}
      BY <2>0
    <3> QED BY <3>1, WithJob
  <2>3. WorkInv'
    BY <2>1, TurnKept DEF WorkPoint
  <2>4. RowsInv'
    BY <2>1, <2>2, PersistKept
  <2> QED BY <1>2, <2>1, <2>3, <2>4 DEF JobsInv, JobOf, FaultsInv, TasksInv
<1>7. CASE I!UpdateProgress(s)
  <2> DEFINE j == [jobs[s][work[s].id] EXCEPT !.processed = work[s].at + 1]
  <2>0. work[s].pc = "rows"
    BY <1>7 DEF I!UpdateProgress, I!Doing
  <2>1. /\ work[s].id \in Imported /\ work[s].at \in Nat /\ work[s].at < Rows[work[s].id]
        /\ I!Put(s, work[s].id, j) /\ work' = [work EXCEPT ![s].at = @ + 1]
        /\ UNCHANGED <<rows, artifacts, tasks, ifaults>>
    BY <1>7, <2>0, WithJob DEF I!UpdateProgress
  <2>2. Rows[work[s].id] \in Nat /\ work[s].at + 1 <= Rows[work[s].id]
    BY <1>f, <2>1
  <2>3. jobs[s][work[s].id] \in JobOf(work[s].id)
    BY <2>1 DEF JobsInv
  <2>n. work[s].at + 1 \in Nat
    BY <2>1
  <2>4. j \in JobOf(work[s].id)
    BY <2>1, <2>2, <2>3, <2>n, Counted
  <2> HIDE DEF j
  <2>5. JobsInv'
    BY <2>1, <2>4, PutKept
  <2>6. work' = [work EXCEPT ![s] = [work[s] EXCEPT !.pc = work[s].pc, !.fails = work[s].fails, !.copy = work[s].copy, !.at = work[s].at + 1]]
    BY <2>1 DEF WorkInv
  <2>7. /\ work[s].fails \in BOOLEAN /\ work[s].copy \in JobOf(work[s].id) /\ work[s].at + 1 \in Nat
        /\ work[s].pc \in WorkPoint \ {"idle"} /\ work[s].pc \notin {"idle", "off"}
    BY <2>0, WithJob
  <2>8. WorkInv'
    <3>1. work[s].id \in Imported /\ work[s].at + 1 <= Rows[work[s].id]
      BY <2>1, <2>2
    <3> QED BY <2>6, <2>7, <3>1, WorkedOn
  <2> QED BY <1>2, <2>1, <2>5, <2>8 DEF RowsInv, JobOf, FaultsInv, TasksInv
<1>8. CASE I!FailFields(s) \/ I!Complete(s) \/ I!Interrupt(s)
  <2>0. I!Doing(s, "rows") /\ UNCHANGED <<rows, tasks>>
    BY <1>8 DEF I!FailFields, I!Complete, I!Interrupt, I!Finish
  <2>1. I!Doing(s, "rows") /\ UNCHANGED <<rows, tasks>> /\ work[s].id \in Imported
    BY <2>0, WithJob DEF I!Doing
  <2>2. FaultsInv' /\ ifaults' >= ifaults
    <3>1. UNCHANGED ifaults => FaultsInv' /\ ifaults' >= ifaults
      BY DEF FaultsInv
    <3>2. I!Spend(TRUE) => FaultsInv' /\ ifaults' >= ifaults
      BY SpendKept
    <3> QED BY <1>8, <3>1, <3>2 DEF I!FailFields, I!Complete, I!Interrupt
  <2>3. \E status \in I!Final : \E files \in SUBSET Imported : I!Finish(s, status, files)
    <3>1. I!Finish(s, "failed", {}) \/ I!Finish(s, "cancelled", {}) \/ I!Finish(s, "succeeded", {work[s].id}) \/ I!Finish(s, "succeeded", {})
      BY <1>8 DEF I!FailFields, I!Complete, I!Interrupt
    <3>2. "failed" \in I!Final /\ "cancelled" \in I!Final /\ "succeeded" \in I!Final /\ {} \in SUBSET Imported /\ {work[s].id} \in SUBSET Imported
      BY <2>1 DEF I!Final
    <3> QED BY <3>1, <3>2
  <2>4. JobsInv' /\ WorkInv' /\ artifacts' \in [ImportServers -> SUBSET Imported]
    BY <2>1, <2>3, FinishKept
  <2>5. TasksInv'
    BY <2>1, <2>2, TasksWait
  <2> QED BY <1>2, <2>1, <2>2, <2>4, <2>5 DEF RowsInv, JobOf
<1>9. CASE I!EndTask(s)
  <2>1. work[s].pc = "end" /\ work[s].id \in Imported /\ work' = [work EXCEPT ![s] = I!NoWork] /\ UNCHANGED <<jobs, rows, artifacts, ifaults>>
    BY <1>9, WithJob DEF I!EndTask, I!Doing
  <2>2. WorkInv'
    BY <1>n, <2>1 DEF WorkInv, WorkSet, JobOf, I!ImportsAssumption
  <2>3. PICK state \in TaskState : tasks' = [tasks EXCEPT ![work[s].id].state = state] /\ (state = "pending" => tasks[work[s].id].attempts < MaxAttempts)
    BY <1>9 DEF I!EndTask, TaskState
  <2>4. tasks' = [tasks EXCEPT ![work[s].id] = [tasks[work[s].id] EXCEPT !.state = state]]
    BY <2>3
  <2>5. tasks' \in [Imported -> [state : TaskState, attempts : Nat, missed : Nat]]
    BY <2>1, <2>4 DEF TasksInv
  <2>6. ASSUME NEW q \in Imported
        PROVE  tasks'[q].attempts <= MaxAttempts + ifaults /\ (tasks'[q].state = "pending" => tasks'[q].attempts < MaxAttempts + ifaults)
    <3>1. tasks'[q].attempts = tasks[q].attempts /\ tasks[q].attempts \in Nat /\ (q # work[s].id => tasks'[q] = tasks[q])
      BY <2>1, <2>4 DEF TasksInv
    <3>2. q = work[s].id => tasks'[q].state = state
      BY <2>1, <2>4 DEF TasksInv
    <3> QED BY <1>f, <2>3, <3>1, <3>2 DEF TasksInv
  <2>7. TasksInv'
    BY <2>1, <2>5, <2>6 DEF TasksInv
  <2> QED BY <1>2, <2>1, <2>2, <2>7 DEF JobsInv, RowsInv, JobOf, FaultsInv
<1> QED BY <1>3, <1>4, <1>5, <1>6, <1>7, <1>8, <1>9 DEF I!WorkStep

LEMMA RestartKept == ASSUME I!ImportsAssumption, ImportsInv, NEW s \in ImportServers, I!Restart(s) PROVE ImportsInv'
<1> USE DEF ImportsInv
<1>n. I!NoJob \in I!Jobs /\ \A r \in Imported : I!NoJob \in JobOf(r)
  BY NoJobs DEF I!NoJob, I!Jobs, I!Statuses
<1>1. JobsInv' /\ artifacts' \in [ImportServers -> SUBSET Imported] /\ RowsInv'
  BY <1>n DEF I!Restart, JobsInv, RowsInv, JobOf
<1>2. AskedInv'
  <2>1. req' = [r \in Imported |-> IF req[r].at = s /\ req[r].pc # "accepted" THEN [req[r] EXCEPT !.pc = "failed"] ELSE req[r]]
    BY DEF I!Restart
  <2>2. "failed" \in RequestPoint /\ "failed" \notin Asking
    BY DEF RequestPoint, Asking
  <2> QED BY <2>1, <2>2 DEF AskedInv, JobOf
<1>3. WorkInv'
  <2>1. work' = [work EXCEPT ![s] = I!NoWork]
    BY DEF I!Restart
  <2> QED BY <2>1, IdleWork DEF WorkInv, WorkSet, JobOf, I!ImportsAssumption
<1>4. OperatorsInv'
  BY DEF I!Restart, OperatorsInv, OperatorPoint, JobOf
<1>5. ifaults \in Nat /\ MaxAttempts \in Nat /\ ifaults' = ifaults + 1 /\ FaultsInv'
  BY DEF I!Restart, I!Spend, FaultsInv, I!ImportsAssumption
<1>6. \A r \in Imported : tasks'[r] \in [state : TaskState, attempts : Nat, missed : Nat] /\ tasks'[r].attempts = tasks[r].attempts
  BY DEF I!Restart, TasksInv, TaskState
<1>7. ASSUME NEW r \in Imported PROVE tasks'[r].attempts < MaxAttempts + ifaults'
  <2>1. tasks[r].attempts \in Nat /\ tasks[r].attempts <= MaxAttempts + ifaults
    BY DEF TasksInv
  <2> QED BY <1>5, <1>6, <2>1
<1>8. TasksInv'
  <2>1. tasks' \in [Imported -> [state : TaskState, attempts : Nat, missed : Nat]]
    BY <1>6 DEF I!Restart
  <2>2. \A r \in Imported : tasks'[r].attempts \in Nat
    BY <1>6
  <2> QED BY <1>5, <1>7, <2>1, <2>2 DEF TasksInv
<1> QED BY <1>1, <1>2, <1>3, <1>4, <1>5, <1>8

LEMMA OperatorStepKept ==
    ASSUME I!ImportsAssumption, ImportsInv, NEW o \in Operators, I!OpStep(o) \/ \E id \in Imported : I!Look(o, id)
    PROVE  ImportsInv'
<1> USE DEF ImportsInv
<1>0. Server[o] \in ImportServers
  BY DEF I!ImportsAssumption
<1>1. UNCHANGED <<artifacts, tasks, req, work, ifaults>>
  BY DEF I!OpStep, I!Look, I!Cancel, I!Retry, I!Store, I!PersistOp
<1>2. TasksInv' /\ AskedInv' /\ WorkInv' /\ FaultsInv' /\ artifacts' \in [ImportServers -> SUBSET Imported]
  BY <1>1 DEF TasksInv, AskedInv, WorkInv, FaultsInv, JobOf
<1>3. ASSUME NEW id \in Imported, I!Look(o, id) PROVE ImportsInv'
  <2>1. UNCHANGED <<jobs, rows>> /\ op' = [op EXCEPT ![o] = [pc |-> "looked", id |-> id, copy |-> jobs[Server[o]][id]]]
    BY <1>3 DEF I!Look
  <2>2. jobs[Server[o]][id] \in JobOf(id) /\ jobs[Server[o]][id] \in I!Jobs
    BY <1>0 DEF JobsInv
  <2>3. OperatorsInv'
    BY <2>1, <2>2 DEF OperatorsInv, OperatorPoint, JobOf
  <2> QED BY <1>2, <2>1, <2>3 DEF JobsInv, RowsInv, JobOf
<1>4. ASSUME NEW j \in JobOf(op[o].id), op[o].pc = "looked", I!Store(o, j) PROVE ImportsInv'
  <2>1. op[o].id \in Imported /\ I!Put(Server[o], op[o].id, j) /\ op' = [op EXCEPT ![o].pc = "persist", ![o].copy = j] /\ UNCHANGED rows
    BY <1>4 DEF I!Store, OperatorsInv
  <2>2. JobsInv'
    BY <1>0, <2>1, PutKept
  <2>3. op' = [op EXCEPT ![o] = [op[o] EXCEPT !.pc = "persist", !.copy = j]] /\ j \in I!Jobs
    BY <2>1 DEF OperatorsInv, JobOf
  <2>4. OperatorsInv'
    BY <2>1, <2>3 DEF OperatorsInv, OperatorPoint, JobOf
  <2> QED BY <1>2, <2>1, <2>2, <2>4 DEF RowsInv, JobOf
<1>5. CASE I!Cancel(o)
  <2>1. op[o].pc = "looked" /\ op[o].id \in Imported /\ I!Store(o, [jobs[Server[o]][op[o].id] EXCEPT !.status = "cancelled"])
    BY <1>5 DEF I!Cancel, I!Looked, OperatorsInv
  <2>2. jobs[Server[o]][op[o].id] \in JobOf(op[o].id)
    BY <1>0, <2>1 DEF JobsInv
  <2>3. [jobs[Server[o]][op[o].id] EXCEPT !.status = "cancelled"] \in JobOf(op[o].id)
    BY <2>2, Altered DEF I!Statuses
  <2> QED BY <1>4, <2>1, <2>3
<1>6. CASE I!Retry(o)
  <2>1. op[o].pc = "looked" /\ op[o].copy \in JobOf(op[o].id) /\ I!Store(o, [op[o].copy EXCEPT !.status = "pending"])
    BY <1>6 DEF I!Retry, I!Looked, OperatorsInv
  <2>2. [op[o].copy EXCEPT !.status = "pending"] \in JobOf(op[o].id)
    BY <2>1, Altered DEF I!Statuses
  <2> QED BY <1>4, <2>1, <2>2
<1>7. CASE I!PersistOp(o)
  <2>1. op[o].id \in Imported /\ op[o].copy \in JobOf(op[o].id) /\ I!Persist(op[o].id, op[o].copy) /\ UNCHANGED jobs
        /\ op' = [op EXCEPT ![o].pc = "done"]
    BY <1>7 DEF I!PersistOp, OperatorsInv
  <2>2. RowsInv'
    BY <2>1, PersistKept
  <2>3. OperatorsInv'
    BY <2>1 DEF OperatorsInv, OperatorPoint, JobOf
  <2> QED BY <1>2, <2>1, <2>2, <2>3 DEF JobsInv, JobOf
<1> QED BY <1>3, <1>5, <1>6, <1>7 DEF I!OpStep

LEMMA ImportsKept == ASSUME I!ImportsAssumption, ImportsInv, I!Next PROVE ImportsInv'
BY RequestStepKept, WorkStepKept, RestartKept, OperatorStepKept DEF I!Next

LEMMA ImportsTyped == ASSUME I!ImportsAssumption, ImportsInv PROVE I!TypeOK
<1>1. \A s \in ImportServers : work[s].id = None \/ work[s].at <= Rows[work[s].id]
  BY DEF ImportsInv, WorkInv
<1>2. \A r \in Imported : tasks[r].attempts <= MaxAttempts + ifaults /\ rows[r].processed <= Rows[r]
  BY DEF ImportsInv, TasksInv, RowsInv, JobOf
<1> QED BY <1>1, <1>2 DEF ImportsInv, JobsInv, RowsInv, FaultsInv, I!TypeOK

(* A step takes a cancelled job of a memory back to life only as CancelHolds lets it. *)
Excused(s, id) ==
    \/ \E o \in Operators : op[o].id = id /\ I!Looked(o, "retry") /\ op'[o].pc = "persist"
    \/ work[s].id = id /\ I!Doing(s, "rows")
    \/ I!At(id, "created")
KeepsCancel ==
    \A s \in ImportServers : \A id \in Imported :
        jobs[s][id].status = "cancelled" /\ jobs'[s][id].status \notin {"cancelled", "none"} => Excused(s, id)

LEMMA PutKeepsCancel ==
    ASSUME JobsInv, NEW s \in ImportServers, NEW r \in Imported, NEW j, I!Put(s, r, j),
           jobs[s][r].status = "cancelled" => j.status \in {"cancelled", "none"} \/ Excused(s, r)
    PROVE  KeepsCancel
<1>1. jobs' = [jobs EXCEPT ![s] = [jobs[s] EXCEPT ![r] = j]]
  BY DEF I!Put
<1>2. ASSUME NEW z \in ImportServers, NEW q \in Imported PROVE jobs'[z][q] = jobs[z][q] \/ (z = s /\ q = r /\ jobs'[z][q] = j)
  BY <1>1 DEF JobsInv
<1> QED BY <1>2 DEF KeepsCancel

LEMMA StillKeepsCancel == ASSUME UNCHANGED jobs PROVE KeepsCancel
BY DEF KeepsCancel

LEMMA StepKeepsCancel == ASSUME I!ImportsAssumption, ImportsInv, I!Next PROVE KeepsCancel
<1>j. JobsInv
  BY DEF ImportsInv
<1>1. ASSUME NEW r \in Imported, NEW s \in ImportServers, I!Commit(r, s) PROVE KeepsCancel
  <2>1. CASE I!Known(s, r)
    <3>1. UNCHANGED jobs
      BY <1>1, <2>1 DEF I!Commit, I!SameKey
    <3> QED BY <3>1, StillKeepsCancel
  <2>2. CASE ~I!Known(s, r)
    <3>1. UNCHANGED jobs \/ I!Put(s, r, I!NewJob)
      BY <1>1 DEF I!Commit
    <3>2. jobs[s][r].status # "cancelled"
      BY <2>2 DEF I!Known
    <3> QED BY <1>j, <3>1, <3>2, PutKeepsCancel, StillKeepsCancel
  <2> QED BY <2>1, <2>2
<1>2. ASSUME NEW r \in Imported, I!TakePersisted(r) PROVE KeepsCancel
  <2>1. I!At(r, "created") /\ I!Put(req[r].at, r, I!NewJob) /\ req[r].at \in ImportServers
    BY <1>2 DEF I!TakePersisted, I!At, ImportsInv, AskedInv, Asking
  <2> QED BY <1>j, <2>1, PutKeepsCancel DEF Excused
<1>3. ASSUME NEW r \in Imported, I!NoteTask(r) PROVE KeepsCancel
  <2> DEFINE s == req[r].at
             noted == [jobs[s][r] EXCEPT !.task = req[r].copy.task]
  <2>1. UNCHANGED jobs \/ I!Put(s, r, noted)
    BY <1>3 DEF I!NoteTask
  <2>2. s \in ImportServers
    BY <1>3 DEF I!NoteTask, I!At, ImportsInv, AskedInv, Asking
  <2>3. noted.status = jobs[s][r].status
    BY <1>j, <2>2 DEF JobsInv, I!Jobs
  <2> HIDE DEF noted
  <2> QED BY <1>j, <2>1, <2>2, <2>3, PutKeepsCancel, StillKeepsCancel
<1>4. ASSUME NEW r \in Imported, I!RequestStep(r) PROVE KeepsCancel
  <2>1. I!CreateRow(r) \/ I!AddErrors(r) \/ I!Enqueue(r) \/ I!PersistTask(r) => UNCHANGED jobs
    BY DEF I!CreateRow, I!AddErrors, I!Enqueue, I!PersistTask
  <2> QED BY <1>2, <1>3, <1>4, <2>1, StillKeepsCancel DEF I!RequestStep
<1>5. ASSUME NEW s \in ImportServers, I!MarkRunning(s) PROVE KeepsCancel
  <2> DEFINE running == [jobs[s][work[s].id] EXCEPT !.status = "running"]
  <2>1. UNCHANGED jobs \/ (I!Put(s, work[s].id, running) /\ jobs[s][work[s].id].status # "cancelled")
    BY <1>5 DEF I!MarkRunning
  <2>2. work[s].id \in Imported
    BY <1>5, WithJob DEF I!MarkRunning, I!Doing, ImportsInv
  <2> HIDE DEF running
  <2> QED BY <1>j, <2>1, <2>2, PutKeepsCancel, StillKeepsCancel
<1>6. ASSUME NEW s \in ImportServers, I!UpdateProgress(s) \/ I!FailFields(s) \/ I!Complete(s) \/ I!Interrupt(s) PROVE KeepsCancel
  <2>1. I!Doing(s, "rows") /\ work[s].id \in Imported /\ \E j : I!Put(s, work[s].id, j)
    BY <1>6, WithJob DEF I!UpdateProgress, I!FailFields, I!Complete, I!Interrupt, I!Finish, I!Doing, ImportsInv
  <2> QED BY <1>j, <2>1, PutKeepsCancel DEF Excused
<1>7. ASSUME NEW s \in ImportServers, I!WorkStep(s) PROVE KeepsCancel
  <2>1. I!GetForWorker(s) \/ I!PersistRunning(s) \/ I!PersistEnd(s) \/ I!EndTask(s) \/ (\E id \in Imported : I!Claim(s, id)) => UNCHANGED jobs
    BY DEF I!GetForWorker, I!PersistRunning, I!PersistEnd, I!EndTask, I!Claim
  <2> QED BY <1>5, <1>6, <1>7, <2>1, StillKeepsCancel DEF I!WorkStep
<1>8. ASSUME NEW s \in ImportServers, I!Restart(s) PROVE KeepsCancel
  <2>1. \A z \in ImportServers : \A r \in Imported : jobs'[z][r] = jobs[z][r] \/ jobs'[z][r] = I!NoJob
    BY <1>8, <1>j DEF I!Restart, JobsInv
  <2> QED BY <2>1 DEF KeepsCancel, I!NoJob
<1>9. ASSUME NEW o \in Operators, I!Cancel(o) PROVE KeepsCancel
  <2> DEFINE ended == [jobs[Server[o]][op[o].id] EXCEPT !.status = "cancelled"]
  <2>1. I!Put(Server[o], op[o].id, ended) /\ op[o].id \in Imported /\ Server[o] \in ImportServers
    BY <1>9 DEF I!Cancel, I!Looked, I!Store, ImportsInv, OperatorsInv, I!ImportsAssumption
  <2>2. ended.status = "cancelled"
    BY <1>j, <2>1 DEF JobsInv, I!Jobs
  <2> HIDE DEF ended
  <2> QED BY <1>j, <2>1, <2>2, PutKeepsCancel
<1>10. ASSUME NEW o \in Operators, I!Retry(o) PROVE KeepsCancel
  <2>1. /\ I!Looked(o, "retry") /\ op[o].id \in Imported /\ Server[o] \in ImportServers
        /\ op' = [op EXCEPT ![o].pc = "persist", ![o].copy = [op[o].copy EXCEPT !.status = "pending"]]
        /\ I!Put(Server[o], op[o].id, [op[o].copy EXCEPT !.status = "pending"])
    BY <1>10 DEF I!Retry, I!Looked, I!Store, ImportsInv, OperatorsInv, I!ImportsAssumption
  <2>2. op'[o].pc = "persist"
    BY <2>1 DEF ImportsInv, OperatorsInv
  <2> QED BY <1>j, <2>1, <2>2, PutKeepsCancel DEF Excused
<1>11. ASSUME NEW o \in Operators, I!PersistOp(o) \/ \E id \in Imported : I!Look(o, id) PROVE KeepsCancel
  <2>1. UNCHANGED jobs
    BY <1>11 DEF I!PersistOp, I!Look
  <2> QED BY <2>1, StillKeepsCancel
<1> QED BY <1>1, <1>4, <1>6, <1>7, <1>8, <1>9, <1>10, <1>11 DEF I!Next, I!OpStep

-----------------------------------------------------------------------------
(* Start and end of the process. *)

Starting == {"collector", "files", "database", "replica", "redis", "auth", "settings", "mail", "tasks", "imports", "apply", "ui"}
Running == {"observability", "preparing", "loops", "listen", "serving", "shutdown"}
Ending == {"closing", "returned", "exited"}
Preparations == {"loaded", "unreachable", "malformed"}
Registrable == {"collector", "database", "redis", "apply", "ui"}
LoopNames == {"worker", "scheduler", "reconciliation", "maintenance"}

(* The order in which New registers the dependencies, and what it has not come to yet. *)
Rank(d) == IF d = "collector" THEN 1 ELSE IF d = "database" THEN 2 ELSE IF d = "redis" THEN 3 ELSE IF d = "apply" THEN 4 ELSE 5
Bound ==
    IF lpc = "collector" THEN 1
    ELSE IF lpc \in {"files", "database"} \/ (lpc = "replica" /\ config.database = "read_write") THEN 2
    ELSE IF lpc \in {"replica", "redis"} THEN 3
    ELSE IF lpc = "ui" THEN 5
    ELSE IF lpc = "observability" THEN 6
    ELSE 4
Registered(d) == \E i \in 1..Len(closers) : closers[i] = d

ProcessTyped ==
    /\ config \in Configs /\ lpc \in Starting \cup Running \cup Ending /\ open \subseteq L!Opens
    /\ closers \in Seq(Registrable) /\ handle \in BOOLEAN /\ stopped \in BOOLEAN
    /\ loops \in [LoopNames -> {"off", "idle", "busy"}]
    /\ served \in [HttpRequests -> {"none", "running", "answered", "failed", "cut off"}]
    /\ prepared \in Seq(Preparations)
OrderInv ==
    /\ \A i, j \in 1..Len(closers) : i < j => Rank(closers[i]) < Rank(closers[j])
    /\ lpc \in Starting => \A i \in 1..Len(closers) : Rank(closers[i]) < Bound
OpenInv ==
    /\ \A d \in open \ {"replica"} : Registered(d) \/ (d = "database" /\ lpc = "replica" /\ config.database = "read_write")
    /\ "replica" \in open => Registered("database")
    /\ lpc \in (Starting \cup Running) \ {"collector"} => "collector" \in open
    /\ L!HasDatabase /\ lpc \in (Starting \cup Running) \ {"collector", "files", "database"} => "database" \in open
    /\ lpc \in {"returned", "exited"} /\ outcome # "panicked" => open = {}
DependedInv == {"redis", "apply", "ui"} \cap open # {} => "collector" \in open /\ (L!HasDatabase => "database" \in open)
Loaded == Len(prepared) = 2 /\ prepared[1] # "malformed" /\ prepared[2] # "malformed"
PreparedInv ==
    /\ lpc \in Starting \cup {"observability"} => prepared = <<>>
    /\ lpc = "preparing" => Len(prepared) = 1 /\ prepared[1] # "malformed"
    /\ lpc \in {"loops", "listen", "serving", "shutdown"} => Loaded
    /\ (\E r \in HttpRequests : served[r] # "none") => Loaded /\ lpc \in {"serving", "shutdown"} \cup Ending
StoppedInv ==
    /\ outcome = "panicked" => lpc = "exited"
    /\ \A r \in HttpRequests : served[r] \in {"failed", "cut off"} => stopped \/ outcome = "panicked"
    /\ (\E r \in HttpRequests : served[r] = "running") /\ lpc \in Ending => stopped
    /\ lpc \in Starting => \A l \in LoopNames : loops[l] = "off"
ProcessInv == ProcessTyped /\ OrderInv /\ OpenInv /\ DependedInv /\ PreparedInv /\ StoppedInv

LEMMA ConfigFields == ASSUME L!LifecycleAssumption, config \in Configs PROVE config.database \in L!Modes
BY DEF L!LifecycleAssumption

LEMMA StartupIs ==
    /\ DOMAIN L!Startup = 1..12 /\ Len(L!Startup) = 12 /\ Starting = {L!Startup[i] : i \in DOMAIN L!Startup}
    /\ \A i, j \in 1..12 : L!Startup[i] = L!Startup[j] => i = j
<1>1. DOMAIN L!Startup = 1..12 /\ Len(L!Startup) = 12
  BY DEF L!Startup
<1>2. \A i, j \in 1..12 : L!Startup[i] = L!Startup[j] => i = j
  BY DEF L!Startup
<1>3. Starting = {L!Startup[i] : i \in 1..12}
  BY DEF L!Startup, Starting
<1> QED BY <1>1, <1>2, <1>3

LEMMA NextStep == ASSUME NEW i \in 1..12 PROVE L!After(L!Startup[i]) = IF i = 12 THEN "observability" ELSE L!Startup[i + 1]
<1>1. (CHOOSE n \in DOMAIN L!Startup : L!Startup[n] = L!Startup[i]) = i
  BY StartupIs
<1> QED BY <1>1, StartupIs DEF L!After

LEMMA AfterIs ==
    /\ L!After("collector") = "files" /\ L!After("files") = "database" /\ L!After("database") = "replica" /\ L!After("replica") = "redis"
    /\ L!After("redis") = "auth" /\ L!After("auth") = "settings" /\ L!After("settings") = "mail" /\ L!After("mail") = "tasks"
    /\ L!After("tasks") = "imports" /\ L!After("imports") = "apply" /\ L!After("apply") = "ui" /\ L!After("ui") = "observability"
<1>1. /\ L!Startup[1] = "collector" /\ L!Startup[2] = "files" /\ L!Startup[3] = "database" /\ L!Startup[4] = "replica" /\ L!Startup[5] = "redis"
      /\ L!Startup[6] = "auth" /\ L!Startup[7] = "settings" /\ L!Startup[8] = "mail" /\ L!Startup[9] = "tasks" /\ L!Startup[10] = "imports"
      /\ L!Startup[11] = "apply" /\ L!Startup[12] = "ui"
  BY DEF L!Startup
<1>2. \A i \in 1..12 : L!After(L!Startup[i]) = IF i = 12 THEN "observability" ELSE L!Startup[i + 1]
  BY NextStep
<1>3. L!After(L!Startup[1]) = L!Startup[2] /\ L!After(L!Startup[2]) = L!Startup[3] /\ L!After(L!Startup[3]) = L!Startup[4]
  BY <1>2
<1>4. L!After(L!Startup[4]) = L!Startup[5] /\ L!After(L!Startup[5]) = L!Startup[6] /\ L!After(L!Startup[6]) = L!Startup[7]
  BY <1>2
<1>5. L!After(L!Startup[7]) = L!Startup[8] /\ L!After(L!Startup[8]) = L!Startup[9] /\ L!After(L!Startup[9]) = L!Startup[10]
  BY <1>2
<1>6. L!After(L!Startup[10]) = L!Startup[11] /\ L!After(L!Startup[11]) = L!Startup[12] /\ L!After(L!Startup[12]) = "observability"
  BY <1>2
<1> QED BY <1>1, <1>3, <1>4, <1>5, <1>6

LEMMA ProcessStart == ASSUME L!LifecycleAssumption, L!Init PROVE ProcessInv
<1>1. closers = <<>> /\ prepared = <<>> /\ lpc = "collector" /\ open = {}
  BY DEF L!Init
<1>2. Len(closers) = 0 /\ closers \in Seq(Registrable) /\ prepared \in Seq(Preparations)
  BY <1>1
<1>3. ProcessTyped
  BY <1>2 DEF L!Init, ProcessTyped, Starting, LoopNames
<1>4. OrderInv /\ OpenInv /\ DependedInv
  BY <1>1, <1>2 DEF L!Init, OrderInv, OpenInv, DependedInv, L!HasDatabase
<1>5. PreparedInv /\ StoppedInv
  BY <1>1 DEF L!Init, PreparedInv, StoppedInv, Ending, Starting, LoopNames
<1> QED BY <1>3, <1>4, <1>5 DEF ProcessInv

(* A dependency of a higher rank than the ones before it becomes the last. *)
LEMMA RegisterKept ==
    ASSUME closers \in Seq(Registrable), NEW d \in Registrable, closers' = closers \o <<d>>,
           \A i, j \in 1..Len(closers) : i < j => Rank(closers[i]) < Rank(closers[j]),
           \A i \in 1..Len(closers) : Rank(closers[i]) < Rank(d)
    PROVE  /\ closers' \in Seq(Registrable)
           /\ \A i, j \in 1..Len(closers') : i < j => Rank(closers'[i]) < Rank(closers'[j])
           /\ \A i \in 1..Len(closers') : Rank(closers'[i]) <= Rank(d)
           /\ \A e : Registered(e)' <=> Registered(e) \/ e = d
<1>1. Len(closers') = Len(closers) + 1 /\ Len(closers) \in Nat /\ closers' \in Seq(Registrable)
  BY DEF Registrable
<1>2. \A i \in 1..Len(closers') : closers'[i] = IF i = Len(closers) + 1 THEN d ELSE closers[i]
  BY <1>1
<1>3. \A i \in 1..Len(closers) : i \in 1..Len(closers') /\ i # Len(closers) + 1
  BY <1>1
<1>4. \A i \in 1..Len(closers') : i = Len(closers) + 1 \/ i \in 1..Len(closers)
  BY <1>1
<1>5. ASSUME NEW i \in 1..Len(closers'), NEW j \in 1..Len(closers'), i < j PROVE Rank(closers'[i]) < Rank(closers'[j])
  <2>1. i \in 1..Len(closers) /\ (j = Len(closers) + 1 \/ j \in 1..Len(closers))
    BY <1>1, <1>5
  <2> QED BY <1>2, <1>3, <1>5, <2>1
<1>6. \A i \in 1..Len(closers') : Rank(closers'[i]) <= Rank(d)
  <2>1. \A e : Rank(e) \in Nat
    BY DEF Rank
  <2> QED BY <1>2, <1>4, <2>1
<1>7. \A e : Registered(e)' <=> Registered(e) \/ e = d
  <2>1. Len(closers) + 1 \in 1..Len(closers')
    BY <1>1
  <2> QED BY <1>2, <1>3, <1>4, <2>1 DEF Registered
<1> QED BY <1>1, <1>5, <1>6, <1>7

(* What New leaves alone, and where it goes. *)
LEMMA NewMoves ==
    ASSUME L!New
    PROVE  /\ lpc \in Starting /\ lpc' = L!After(lpc) /\ lpc' \in (Starting \ {"collector"}) \cup {"observability"}
           /\ UNCHANGED <<config, loops, served, prepared, cancelled, stopped, outcome>>
<1>1. lpc \in Starting /\ lpc' = L!After(lpc) /\ UNCHANGED <<config, loops, served, prepared, cancelled, stopped, outcome>>
  BY StartupIs DEF L!New
<1> QED BY <1>1, AfterIs DEF Starting

LEMMA BoundGrows == ASSUME lpc \in Starting, lpc' = L!After(lpc), UNCHANGED config PROVE Bound \in Nat /\ Bound' \in Nat /\ Bound <= Bound'
BY AfterIs DEF Bound, Starting

LEMMA RankIs == \A d : Rank(d) \in Nat
BY DEF Rank

(* A step of New adds d to what is open and registers "registered", nothing or one dependency. *)
LEMMA NewKept == ASSUME L!LifecycleAssumption, ProcessInv, L!New PROVE ProcessInv'
<1> USE DEF ProcessInv
<1>0. L!HasDatabase' = L!HasDatabase /\ config.database \in L!Modes
  BY NewMoves, ConfigFields DEF L!HasDatabase, ProcessTyped
<1>1. PreparedInv' /\ StoppedInv'
  BY NewMoves DEF PreparedInv, StoppedInv, Starting, Ending, Loaded
<1>2. /\ config' \in Configs /\ lpc' \in Starting \cup Running \cup Ending /\ stopped' \in BOOLEAN
      /\ loops' \in [LoopNames -> {"off", "idle", "busy"}] /\ prepared' \in Seq(Preparations)
      /\ served' \in [HttpRequests -> {"none", "running", "answered", "failed", "cut off"}]
  BY NewMoves DEF ProcessTyped, Running
<1>c. closers \in Seq(Registrable) /\ closers \o <<>> = closers
  BY ConcatEmptySeq DEF ProcessTyped
<1>3. CASE ~L!Enabled(lpc)
  <2>1. UNCHANGED <<open, closers, handle>>
    BY <1>3 DEF L!New
  <2>2. OrderInv'
    <3>1. \A i \in 1..Len(closers) : Rank(closers[i]) < Bound
      BY NewMoves DEF OrderInv
    <3> QED BY <2>1, <3>1, NewMoves, BoundGrows, RankIs DEF OrderInv
  <2>3. OpenInv'
    <3>1. lpc \in {"files", "database", "replica", "redis", "ui"}
      BY <1>3, NewMoves DEF L!Enabled, Starting
    <3>2. lpc = "database" => ~L!HasDatabase
      BY <1>3 DEF L!Enabled
    <3>3. lpc = "replica" => config.database # "read_write"
      BY <1>3 DEF L!Enabled
    <3>4. \A d : Registered(d)' = Registered(d)
      BY <2>1 DEF Registered
    <3>5. lpc' \in {"returned", "exited"} => FALSE
      BY NewMoves DEF Starting
    <3> QED BY <1>0, <2>1, <3>1, <3>2, <3>3, <3>4, <3>5, NewMoves, AfterIs DEF OpenInv, Starting, Running
  <2>4. DependedInv'
    BY <1>0, <2>1 DEF DependedInv
  <2>5. ProcessTyped'
    BY <1>2, <2>1 DEF ProcessTyped
  <2> QED BY <1>1, <2>2, <2>3, <2>4, <2>5
<1>4. CASE L!Enabled(lpc) /\ lpc \notin L!Opens
  <2>1. L!Registered(lpc) = <<>>
    BY <1>4 DEF L!Registered, L!Opens
  <2>2. UNCHANGED <<open, closers>> /\ handle' \in BOOLEAN
    BY <1>4, <1>c, <2>1 DEF L!New, L!Opens, ProcessTyped
  <2>3. OrderInv'
    <3>1. \A i \in 1..Len(closers) : Rank(closers[i]) < Bound
      BY NewMoves DEF OrderInv
    <3> QED BY <2>2, <3>1, NewMoves, BoundGrows, RankIs DEF OrderInv
  <2>4. OpenInv'
    <3>1. lpc \notin {"collector", "database", "replica"}
      BY <1>4 DEF L!Opens
    <3>4. \A d : Registered(d)' = Registered(d)
      BY <2>2 DEF Registered
    <3>5. lpc' \in {"returned", "exited"} => FALSE
      BY NewMoves DEF Starting
    <3> QED BY <1>0, <2>2, <3>1, <3>4, <3>5, NewMoves, AfterIs DEF OpenInv, Starting, Running
  <2>5. DependedInv'
    BY <1>0, <2>2 DEF DependedInv
  <2>6. ProcessTyped'
    BY <1>2, <2>2 DEF ProcessTyped
  <2> QED BY <1>1, <2>3, <2>4, <2>5, <2>6
<1>5. CASE L!Enabled(lpc) /\ lpc = "database" /\ config.database = "read_write"
  <2>1. L!Registered(lpc) = <<>>
    BY <1>5 DEF L!Registered, L!Opens
  <2>2. closers' = closers /\ open' = open \cup {"database"} /\ handle' \in BOOLEAN /\ lpc' = "replica"
    <3>1. "database" \in L!Opens
      BY DEF L!Opens
    <3>2. closers' = closers \o L!Registered(lpc) /\ open' = (IF lpc \in L!Opens THEN open \cup {lpc} ELSE open)
      BY <1>5 DEF L!New
    <3>3. handle' \in BOOLEAN
      BY <1>5 DEF L!New, ProcessTyped
    <3>4. lpc' = "replica"
      BY <1>5, NewMoves, AfterIs
    <3> QED BY <1>5, <1>c, <2>1, <3>1, <3>2, <3>3, <3>4
  <2>3. OrderInv'
    <3>1. \A i \in 1..Len(closers) : Rank(closers[i]) < Bound
      BY NewMoves DEF OrderInv
    <3> QED BY <2>2, <3>1, NewMoves, BoundGrows, RankIs DEF OrderInv
  <2>4. OpenInv'
    <3>4. \A d : Registered(d)' = Registered(d)
      BY <2>2 DEF Registered
    <3> QED BY <1>0, <1>5, <2>2, <3>4, NewMoves DEF OpenInv, Starting, Running
  <2>5. DependedInv'
    BY <1>0, <2>2 DEF DependedInv
  <2>6. ProcessTyped'
    BY <1>2, <2>2 DEF ProcessTyped, L!Opens
  <2> QED BY <1>1, <2>3, <2>4, <2>5, <2>6
<1>6. ASSUME L!Enabled(lpc), lpc \in L!Opens, ~(lpc = "database" /\ config.database = "read_write") PROVE ProcessInv'
  <2> DEFINE d == IF lpc = "replica" THEN "database" ELSE lpc
  <2>0. /\ lpc = "database" => config.database = "single"
        /\ lpc = "replica" => config.database = "read_write"
    BY <1>0, <1>6 DEF L!Enabled, L!Modes, L!HasDatabase
  <2>1. L!Registered(lpc) = <<d>> /\ d \in Registrable
    BY <1>6, <2>0 DEF L!Registered, L!Opens, Registrable
  <2>2. closers' = closers \o <<d>> /\ open' = open \cup {lpc} /\ handle' \in BOOLEAN
    BY <1>6, <2>1 DEF L!New, ProcessTyped
  <2>3. Rank(d) = Bound
    BY <1>6, <2>0 DEF Rank, Bound, L!Opens
  <2>4. Rank(d) < Bound' \/ lpc' = "observability"
    BY <1>6, <2>0, NewMoves, AfterIs DEF Rank, Bound, L!Opens
  <2>s. (d = lpc /\ lpc # "replica") \/ (d = "database" /\ lpc = "replica")
    OBVIOUS
  <2> HIDE DEF d
  <2>5. \A i \in 1..Len(closers) : Rank(closers[i]) < Rank(d)
    BY <2>3, NewMoves DEF OrderInv
  <2>6. /\ closers' \in Seq(Registrable)
        /\ \A i, j \in 1..Len(closers') : i < j => Rank(closers'[i]) < Rank(closers'[j])
        /\ \A i \in 1..Len(closers') : Rank(closers'[i]) <= Rank(d)
        /\ \A e : Registered(e)' <=> Registered(e) \/ e = d
    BY <1>c, <2>1, <2>2, <2>5, RegisterKept DEF OrderInv
  <2>7. OrderInv'
    <3>1. Bound' \in Nat
      BY DEF Bound
    <3>2. "observability" \notin Starting
      BY DEF Starting
    <3>3. ASSUME lpc' \in Starting, NEW i \in 1..Len(closers') PROVE Rank(closers'[i]) < Bound'
      <4>1. Rank(d) < Bound' /\ Rank(closers'[i]) <= Rank(d)
        BY <2>4, <2>6, <3>2, <3>3
      <4> QED BY <3>1, <4>1, RankIs
    <3> QED BY <2>6, <3>3 DEF OrderInv
  <2>8. OpenInv'
    <3>1. lpc' \notin {"replica", "returned", "exited"} \/ lpc = "database"
      BY <1>6, NewMoves, AfterIs DEF L!Opens, Starting
    <3>2. ASSUME NEW e \in open' \ {"replica"} PROVE Registered(e)'
      <4>1. Registered(e) \/ (e = "database" /\ lpc = "replica") \/ e = lpc
        BY <2>2 DEF OpenInv
      <4> QED BY <2>6, <2>s, <3>2, <4>1
    <3>3. "replica" \in open' => Registered("database")'
      BY <2>2, <2>6, <2>s DEF OpenInv
    <3>4. "collector" \in open'
      BY <2>2, NewMoves DEF OpenInv
    <3>5. L!HasDatabase /\ lpc' \notin {"collector", "files", "database"} => "database" \in open'
      BY <1>6, <2>0, <2>2, NewMoves, AfterIs DEF OpenInv, L!Opens, Starting
    <3> QED BY <1>0, <3>1, <3>2, <3>3, <3>4, <3>5, NewMoves, AfterIs DEF OpenInv, Starting
  <2>9. DependedInv'
    <3>1. lpc \in {"redis", "apply", "ui"} => "collector" \in open /\ (L!HasDatabase => "database" \in open)
      BY DEF OpenInv, Starting
    <3> QED BY <1>0, <2>2, <3>1 DEF DependedInv
  <2>10. ProcessTyped'
    BY <1>2, <1>6, <2>2, <2>6 DEF ProcessTyped
  <2> QED BY <1>1, <2>7, <2>8, <2>9, <2>10
<1> QED BY <1>3, <1>4, <1>5, <1>6

LEMMA NewFailsKept == ASSUME L!LifecycleAssumption, ProcessInv, L!NewFails PROVE ProcessInv'
<1> USE DEF ProcessInv
<1>1. /\ lpc \in Starting /\ L!Enabled(lpc) /\ open' = open \ L!Abandoned /\ handle' \in BOOLEAN /\ lpc' = "closing"
      /\ UNCHANGED <<config, closers, loops, served, prepared, cancelled, stopped>> /\ outcome' = "not started"
  BY StartupIs DEF L!NewFails, ProcessTyped
<1>2. lpc = "replica" => config.database = "read_write" /\ L!Abandoned = {"database"}
  BY <1>1 DEF L!Enabled, L!Abandoned
<1>3. lpc # "replica" => L!Abandoned = {}
  BY DEF L!Abandoned
<1>4. \A d : Registered(d)' = Registered(d)
  BY <1>1 DEF Registered
<1>5. lpc = "replica" => "redis" \notin open /\ "apply" \notin open /\ "ui" \notin open
  <2>1. ASSUME lpc = "replica", NEW d \in {"redis", "apply", "ui"}, d \in open PROVE FALSE
    <3>1. PICK i \in 1..Len(closers) : closers[i] = d
      BY <2>1 DEF OpenInv, Registered
    <3>2. Rank(d) < 2
      BY <1>1, <1>2, <2>1, <3>1 DEF OrderInv, Bound
    <3> QED BY <2>1, <3>2 DEF Rank
  <2> QED BY <2>1
<1>6. OpenInv'
  BY <1>1, <1>2, <1>3, <1>4 DEF OpenInv, Starting, Running
<1>7. DependedInv'
  BY <1>1, <1>2, <1>3, <1>5 DEF DependedInv, L!HasDatabase
<1>8. OrderInv' /\ ProcessTyped'
  BY <1>1 DEF OrderInv, ProcessTyped, Starting, Ending
<1>9. PreparedInv' /\ StoppedInv'
  BY <1>1 DEF PreparedInv, StoppedInv, Starting, Ending, Loaded
<1> QED BY <1>6, <1>7, <1>8, <1>9

(* After New, and before the dependencies are closed, nothing changes of them. *)
LEMMA RunKept ==
    ASSUME ProcessInv, UNCHANGED <<config, open, closers>>, lpc \in Running \cup Ending, lpc' \in Running \cup Ending,
           lpc = "closing" => lpc' # "returned" /\ (lpc' = "exited" => outcome' = "panicked"),
           lpc' \in {"returned", "exited"} => lpc \in {"returned", "exited"} \/ outcome' = "panicked",
           outcome = outcome' \/ lpc \notin {"returned", "exited"} \/ outcome' = "panicked",
           lpc' \in Running => lpc \in Running
    PROVE  OrderInv' /\ OpenInv' /\ DependedInv'
<1>1. \A d : Registered(d)' = Registered(d)
  BY DEF Registered
<1>2. lpc' \notin Starting /\ lpc # "replica"
  BY DEF Running, Ending, Starting
<1>3. lpc' \in Running => "collector" \in open' /\ (L!HasDatabase' => "database" \in open')
  BY DEF ProcessInv, OpenInv, Running, L!HasDatabase
<1> QED BY <1>1, <1>2, <1>3 DEF ProcessInv, OrderInv, OpenInv, DependedInv, L!HasDatabase, Running

(* closeResources takes one pool or dependency, the last, at a time. *)
LEMMA CloseNextKept == ASSUME L!LifecycleAssumption, ProcessInv, L!CloseNext PROVE ProcessInv'
<1> USE DEF ProcessInv
<1> DEFINE n == Len(closers)
<1>1. lpc = "closing" /\ closers # <<>> /\ UNCHANGED <<config, lpc, loops, served, prepared, cancelled, stopped, outcome>>
  BY DEF L!CloseNext
<1>2. closers \in Seq(Registrable) /\ n \in Nat \ {0} /\ L!Last = closers[n]
  BY <1>1, EmptySeq DEF ProcessTyped, L!Last
<1>3. PreparedInv' /\ StoppedInv'
  BY <1>1 DEF PreparedInv, StoppedInv, Ending, Loaded
<1>l. L!HasDatabase' = L!HasDatabase
  BY <1>1 DEF L!HasDatabase
(* What was registered after something is open no longer when its turn comes. *)
<1>4. ASSUME NEW d \in {"redis", "apply", "ui"}, d \in open PROVE L!Last \notin {"collector", "database"}
  <2>1. PICK i \in 1..n : closers[i] = d
    BY <1>4 DEF OpenInv, Registered
  <2>2. i = n \/ Rank(closers[i]) < Rank(closers[n])
    BY <1>2, <2>1 DEF OrderInv
  <2> QED BY <1>2, <1>4, <2>1, <2>2 DEF Rank
<1>5. ASSUME UNCHANGED <<closers, handle>>, NEW d \in {"replica", "database"}, open' = open \ {d}, L!Last = "database", d = "database" => "replica" \notin open PROVE ProcessInv'
  <2>1. \A e : Registered(e)' = Registered(e)
    BY <1>5 DEF Registered
  <2>2. OrderInv' /\ ProcessTyped'
    <3>1. OrderInv'
      BY <1>1, <1>5 DEF OrderInv, Starting
    <3>2. ProcessTyped'
      BY <1>1, <1>5 DEF ProcessTyped
    <3> QED BY <3>1, <3>2
  <2>3. OpenInv'
    BY <1>1, <1>5, <2>1 DEF OpenInv, Starting, Running
  <2>4. DependedInv'
    BY <1>4, <1>5, <1>l DEF DependedInv
  <2> QED BY <1>3, <2>2, <2>3, <2>4
<1>6. ASSUME closers' = L!Popped, open' = open \ {L!Last}, handle' = (handle /\ L!Last # "database"), L!Last = "database" => "replica" \notin open PROVE ProcessInv'
  <2>1. closers' \in Seq(Registrable) /\ Len(closers') = n - 1 /\ \A i \in 1..(n - 1) : closers'[i] = closers[i] /\ i \in 1..n
    <3>1. closers' = SubSeq(closers, 1, n - 1) /\ 1 \in 1..(n + 1) /\ n - 1 \in (1 - 1)..n
      BY <1>2, <1>6 DEF L!Popped
    <3>2. \A i \in 1..(n - 1) : i \in 1..n /\ 1 + i - 1 = i
      BY <1>2
    <3>3. /\ SubSeq(closers, 1, n - 1) \in Seq(Registrable)
          /\ Len(SubSeq(closers, 1, n - 1)) = IF 1 <= n - 1 THEN n - 1 - 1 + 1 ELSE 0
          /\ \A i \in 1..(n - 1 - 1 + 1) : SubSeq(closers, 1, n - 1)[i] = closers[1 + i - 1]
      BY <1>2, <3>1, SubSeqProperties
    <3>4. n - 1 - 1 + 1 = n - 1 /\ (1 <= n - 1 \/ n - 1 = 0)
      <4>1. \A k \in Nat \ {0} : k - 1 - 1 + 1 = k - 1 /\ (1 <= k - 1 \/ k - 1 = 0)
        OBVIOUS
      <4> QED BY <1>2, <4>1
    <3> QED BY <3>1, <3>2, <3>3, <3>4
  <2>2. \A e : Registered(e) /\ e # L!Last => Registered(e)'
    <3>1. ASSUME NEW i \in 1..n, i # n PROVE i \in 1..(n - 1)
      BY <1>2, <3>1
    <3> QED BY <1>2, <2>1, <3>1 DEF Registered
  <2>3. OrderInv'
    BY <1>1, <2>1 DEF OrderInv, Starting
  <2>4. handle' \in BOOLEAN
    BY <1>6 DEF ProcessTyped
  <2>5. ProcessTyped'
    BY <1>1, <1>6, <2>1, <2>4 DEF ProcessTyped
  <2>6. OpenInv'
    BY <1>1, <1>6, <2>2 DEF OpenInv, Starting, Running
  <2>7. DependedInv'
    BY <1>4, <1>6, <1>l DEF DependedInv
  <2> QED BY <1>3, <2>3, <2>5, <2>6, <2>7
<1> QED BY <1>5, <1>6 DEF L!CloseNext

LEMMA PrepareKept == ASSUME L!LifecycleAssumption, ProcessInv, L!Prepare PROVE ProcessInv'
<1> USE DEF ProcessInv
<1>1. lpc \in {"observability", "preparing"} /\ UNCHANGED <<config, open, closers, handle, loops, served, cancelled>>
  BY DEF L!Prepare
<1>2. PICK p \in Preparations : /\ prepared' = Append(prepared, p)
        /\ \/ p # "malformed" /\ lpc' = (IF lpc = "observability" THEN "preparing" ELSE "loops") /\ UNCHANGED <<outcome, stopped>>
           \/ p = "malformed" /\ lpc' = "closing" /\ outcome' = "not prepared" /\ stopped' = TRUE
  BY DEF L!Prepare, L!ForceClose, Preparations
<1>3. prepared \in Seq(Preparations) /\ prepared' \in Seq(Preparations) /\ Len(prepared') = Len(prepared) + 1 /\ prepared'[Len(prepared) + 1] = p
      /\ \A i \in 1..Len(prepared) : prepared'[i] = prepared[i]
  <2>1. prepared \in Seq(Preparations) /\ prepared' = Append(prepared, p)
    BY <1>2 DEF ProcessTyped
  <2> QED BY <2>1, AppendProperties
<1>4. lpc' \in Running \cup Ending /\ lpc' \notin {"returned", "exited"}
  BY <1>2 DEF Running, Ending
<1>5. OrderInv' /\ OpenInv' /\ DependedInv'
  BY <1>1, <1>4, RunKept DEF Running
<1>6. ProcessTyped'
  BY <1>1, <1>2, <1>3, <1>4 DEF ProcessTyped
<1>7. \A r \in HttpRequests : served[r] = "none"
  BY <1>1 DEF PreparedInv, Ending
<1>8. PreparedInv'
  <2>1. CASE lpc = "observability"
    <3>1. prepared = <<>> /\ Len(prepared) = 0
      BY <2>1 DEF PreparedInv
    <3>2. Len(prepared') = 1 /\ prepared'[1] = p
      BY <1>3, <3>1
    <3>3. (lpc' = "preparing" /\ p # "malformed") \/ lpc' = "closing"
      BY <1>2, <2>1
    <3> QED BY <1>1, <1>7, <3>2, <3>3 DEF PreparedInv, Starting
  <2>2. CASE lpc = "preparing"
    <3>1. Len(prepared) = 1 /\ prepared[1] # "malformed"
      BY <2>2 DEF PreparedInv
    <3>2. Len(prepared') = 2 /\ prepared'[1] = prepared[1] /\ prepared'[2] = p
      BY <1>3, <3>1
    <3>3. (lpc' = "loops" /\ p # "malformed") \/ lpc' = "closing"
      BY <1>2, <2>2
    <3> QED BY <1>1, <1>7, <3>1, <3>2, <3>3 DEF PreparedInv, Starting, Loaded
  <2> QED BY <1>1, <2>1, <2>2
<1>9. StoppedInv'
  BY <1>1, <1>2, <1>7 DEF StoppedInv, Starting
<1> QED BY <1>5, <1>6, <1>8, <1>9

(* The main goroutine between the start and the end, and what is told to it. *)
LEMMA RunStepKept ==
    ASSUME L!LifecycleAssumption, ProcessInv,
           L!StartLoops \/ L!Listen \/ L!Signal \/ L!ServeFails \/ L!Cancelled \/ L!Shutdown \/ L!ShutdownExpires
    PROVE  ProcessInv'
<1> USE DEF ProcessInv
<1>1. UNCHANGED <<config, open, closers, handle, served, prepared>>
  BY DEF L!StartLoops, L!Listen, L!Signal, L!ServeFails, L!Cancelled, L!Shutdown, L!ShutdownExpires
<1>2. CASE L!StartLoops
  <2>1. lpc = "loops" /\ lpc' = "listen" /\ UNCHANGED <<stopped, outcome>> /\ DOMAIN loops = LoopNames
    BY <1>2 DEF L!StartLoops, ProcessTyped
  <2>2. loops' \in [LoopNames -> {"off", "idle", "busy"}]
    BY <1>2, <2>1 DEF L!StartLoops
  <2>3. OrderInv' /\ OpenInv' /\ DependedInv'
    BY <1>1, <2>1, RunKept DEF Running
  <2>4. ProcessTyped'
    BY <1>1, <2>1, <2>2 DEF ProcessTyped, Running
  <2> QED BY <1>1, <2>1, <2>3, <2>4 DEF PreparedInv, StoppedInv, Starting, Loaded, Ending
<1>3. CASE L!Signal
  <2>1. UNCHANGED <<lpc, stopped, outcome, loops>>
    BY <1>3 DEF L!Signal
  <2>2. OrderInv' /\ OpenInv' /\ DependedInv'
    BY <1>1, <2>1 DEF OrderInv, OpenInv, DependedInv, Bound, Registered, L!HasDatabase
  <2> QED BY <1>1, <2>1, <2>2 DEF ProcessTyped, PreparedInv, StoppedInv, Loaded
<1>4. CASE L!Listen \/ L!ServeFails \/ L!Cancelled \/ L!Shutdown \/ L!ShutdownExpires
  <2>1. UNCHANGED loops /\ lpc \in {"listen", "serving", "shutdown"} /\ lpc' \in {"serving", "shutdown", "closing"}
    BY <1>4 DEF L!Listen, L!ServeFails, L!Cancelled, L!Shutdown, L!ShutdownExpires, L!ForceClose
  <2>2. \/ lpc' # "closing" /\ UNCHANGED <<outcome, stopped>>
        \/ lpc' = "closing" /\ outcome' # "panicked" /\ stopped' = TRUE
        \/ lpc' = "closing" /\ outcome' # "panicked" /\ UNCHANGED stopped /\ \A r \in HttpRequests : served[r] # "running"
    BY <1>4 DEF L!Listen, L!ServeFails, L!Cancelled, L!Shutdown, L!ShutdownExpires, L!ForceClose, L!Drained, L!Running
  <2>3. OrderInv' /\ OpenInv' /\ DependedInv'
    BY <1>1, <2>1, RunKept DEF Running, Ending
  <2>4. ProcessTyped'
    BY <1>1, <2>1, <2>2 DEF ProcessTyped, Running, Ending
  <2>5. PreparedInv'
    BY <1>1, <2>1 DEF PreparedInv, Starting, Loaded, Ending
  <2>6. StoppedInv'
    BY <1>1, <2>1, <2>2 DEF StoppedInv, Ending, Starting
  <2> QED BY <2>3, <2>4, <2>5, <2>6
<1> QED BY <1>2, <1>3, <1>4

LEMMA EndKept == ASSUME L!LifecycleAssumption, ProcessInv, L!Return \/ L!Exit PROVE ProcessInv'
<1> USE DEF ProcessInv
<1>1. UNCHANGED <<config, open, closers, handle, prepared, stopped, outcome>>
  BY DEF L!Return, L!Exit
<1>r. \A e : Registered(e)' = Registered(e)
  BY <1>1 DEF Registered
<1>2. CASE L!Return
  <2>1. lpc = "closing" /\ lpc' = "returned" /\ closers = <<>> /\ UNCHANGED <<served, loops>> /\ Len(closers) = 0
    BY <1>2 DEF L!Return
  <2>2. \A e : ~Registered(e)
    BY <2>1 DEF Registered
  <2>3. open = {}
    BY <2>1, <2>2 DEF OpenInv
  <2>4. OrderInv' /\ OpenInv' /\ DependedInv'
    BY <1>1, <1>r, <2>1, <2>3 DEF OrderInv, OpenInv, DependedInv, Starting, Running
  <2> QED BY <1>1, <2>1, <2>4 DEF ProcessTyped, PreparedInv, StoppedInv, Loaded, Starting, Ending
<1>3. CASE L!Exit
  <2>1. /\ lpc = "returned" /\ lpc' = "exited" /\ DOMAIN loops = LoopNames /\ loops' = [l \in DOMAIN loops |-> "off"]
        /\ served' = [r \in HttpRequests |-> IF served[r] = "running" THEN "cut off" ELSE served[r]]
    BY <1>3 DEF L!Exit, ProcessTyped
  <2>2. loops' \in [LoopNames -> {"off", "idle", "busy"}]
    BY <2>1
  <2>3. served' \in [HttpRequests -> {"none", "running", "answered", "failed", "cut off"}]
    BY <2>1 DEF ProcessTyped
  <2>4. OrderInv' /\ OpenInv' /\ DependedInv'
    BY <1>1, <1>r, <2>1 DEF OrderInv, OpenInv, DependedInv, Starting, Running, L!HasDatabase
  <2>5. ProcessTyped'
    BY <1>1, <2>1, <2>2, <2>3 DEF ProcessTyped, Ending
  <2>6. PreparedInv' /\ StoppedInv'
    BY <1>1, <2>1 DEF PreparedInv, StoppedInv, Loaded, Starting, Ending
  <2> QED BY <2>4, <2>5, <2>6
<1> QED BY <1>2, <1>3

LEMMA LoopStepKept == ASSUME L!LifecycleAssumption, ProcessInv, NEW l \in LoopNames, L!Tick(l) \/ L!LoopUses(l) PROVE ProcessInv'
<1> USE DEF ProcessInv
<1>1. UNCHANGED <<config, open, closers, handle, prepared, stopped>> /\ lpc # "exited" /\ lpc \notin Starting
  BY DEF L!Tick, L!LoopUses, StoppedInv
<1>r. \A e : Registered(e)' = Registered(e)
  BY <1>1 DEF Registered
<1>2. ASSUME UNCHANGED <<lpc, outcome, served>>, loops' \in [LoopNames -> {"off", "idle", "busy"}] PROVE ProcessInv'
  <2>1. OrderInv' /\ OpenInv' /\ DependedInv'
    BY <1>1, <1>r, <1>2 DEF OrderInv, OpenInv, DependedInv, Bound, L!HasDatabase
  <2> QED BY <1>1, <1>2, <2>1 DEF ProcessTyped, PreparedInv, StoppedInv, Loaded
<1>3. ASSUME lpc' = "exited", outcome' = "panicked", loops' \in [LoopNames -> {"off", "idle", "busy"}],
             served' = [r \in HttpRequests |-> IF served[r] = "running" THEN "cut off" ELSE served[r]]
      PROVE  ProcessInv'
  <2>1. OrderInv' /\ OpenInv' /\ DependedInv'
    <3>1. OrderInv'
      BY <1>1, <1>3 DEF OrderInv, Starting
    <3>2. OpenInv'
      BY <1>1, <1>r, <1>3 DEF OpenInv, Starting, Running
    <3>3. DependedInv'
      BY <1>1 DEF DependedInv, L!HasDatabase
    <3> QED BY <3>1, <3>2, <3>3
  <2>2. ProcessTyped'
    BY <1>1, <1>3 DEF ProcessTyped, Ending
  <2>3. PreparedInv' /\ StoppedInv'
    BY <1>1, <1>3 DEF PreparedInv, StoppedInv, Loaded, Starting, Ending
  <2> QED BY <2>1, <2>2, <2>3
<1>4. DOMAIN loops = LoopNames
  BY DEF ProcessTyped
<1>5. CASE L!Tick(l)
  BY <1>2, <1>5 DEF L!Tick, ProcessTyped
<1>6. CASE L!LoopUses(l)
  BY <1>2, <1>3, <1>4, <1>6 DEF L!LoopUses, ProcessTyped
<1> QED BY <1>5, <1>6

LEMMA ServeKept == ASSUME L!LifecycleAssumption, ProcessInv, NEW r \in HttpRequests, L!Accept(r) \/ L!Answer(r) PROVE ProcessInv'
<1> USE DEF ProcessInv
<1>1. UNCHANGED <<config, lpc, open, closers, handle, loops, prepared, cancelled, stopped, outcome>>
  BY DEF L!Accept, L!Answer
<1>2. OrderInv' /\ OpenInv' /\ DependedInv'
  BY <1>1 DEF OrderInv, OpenInv, DependedInv, Bound, Registered, L!HasDatabase
<1>3. CASE L!Accept(r)
  <2>1. lpc = "serving" /\ served' = [served EXCEPT ![r] = "running"]
    BY <1>3 DEF L!Accept
  <2> QED BY <1>1, <1>2, <2>1 DEF ProcessTyped, PreparedInv, StoppedInv, Loaded, Starting, Ending
<1>4. CASE L!Answer(r)
  <2>1. served[r] = "running" /\ lpc # "exited" /\ served' = [served EXCEPT ![r] = IF L!Usable THEN "answered" ELSE "failed"]
    BY <1>4 DEF L!Answer, L!Running
  <2>2. lpc \in {"serving", "shutdown"} \cup Ending
    BY <2>1 DEF PreparedInv
  <2>3. L!Usable \/ stopped
    BY <2>1, <2>2 DEF L!Usable, OpenInv, Running, Starting, StoppedInv
  <2>4. ProcessTyped'
    BY <1>1, <2>1 DEF ProcessTyped
  <2>5. PreparedInv' /\ StoppedInv'
    BY <1>1, <2>1, <2>2, <2>3 DEF PreparedInv, StoppedInv, Loaded, ProcessTyped
  <2> QED BY <1>2, <2>4, <2>5
<1> QED BY <1>3, <1>4

LEMMA ProcessKept == ASSUME L!LifecycleAssumption, ProcessInv, L!Next PROVE ProcessInv'
<1>1. DOMAIN loops = LoopNames
  BY DEF ProcessInv, ProcessTyped
<1> QED BY <1>1, NewKept, NewFailsKept, PrepareKept, RunStepKept, CloseNextKept, EndKept, LoopStepKept, ServeKept DEF L!Next, L!Main

LEMMA ProcessHolds == ASSUME ProcessInv PROVE L!TypeOK /\ L!ClosersHold /\ L!RequestsServed
<1> USE DEF ProcessInv
<1>1. L!TypeOK
  <2>1. \A i \in DOMAIN closers : closers[i] \in L!Opens
    <3>1. closers \in Seq(Registrable)
      BY DEF ProcessTyped
    <3>2. Registrable \subseteq L!Opens
      BY DEF Registrable, L!Opens
    <3>3. \A i \in DOMAIN closers : closers[i] \in Registrable
      BY <3>1, ElementOfSeq
    <3> QED BY <3>2, <3>3
  <2> QED BY <2>1 DEF ProcessTyped, L!TypeOK
<1>2. L!ClosersHold
  <2>1. DOMAIN closers = 1..Len(closers)
    BY LenProperties DEF ProcessTyped
  <2>2. lpc = "closing" => \A d \in open \ {"replica"} : Registered(d)
    BY DEF OpenInv
  <2>3. lpc = "closing" => \A d \in open \ {"replica"} : d \in {closers[i] : i \in DOMAIN closers}
    BY <2>1, <2>2 DEF Registered
  <2> QED BY <2>3 DEF L!ClosersHold, OpenInv, DependedInv
<1>3. L!RequestsServed
  BY DEF L!RequestsServed, PreparedInv, StoppedInv, Loaded
<1> QED BY <1>1, <1>2, <1>3

-----------------------------------------------------------------------------
(* Request spans. *)

RuntimeSet ==
    [ queue : Seq(Spans), closed : BOOLEAN, pending : Nat, epoch : Nat, signalled : BOOLEAN, mutex : Spans \cup {None},
      sending : Spans \cup {None}, worker : {"idle", "sending", "sent", "gone"}, connected : BOOLEAN, panicked : BOOLEAN ]
Busy(rt) == IF rt.worker \in {"sending", "sent"} THEN 1 ELSE 0
Entered(rt) == IF rt.mutex = None THEN 0 ELSE 1

(* One runtime, whoever acts on it: the count of what is pending is exact. *)
RuntimeOK(rt) ==
    /\ ~rt.panicked /\ (rt.signalled <=> rt.pending = 0)
    /\ Len(rt.queue) <= QueueSize /\ rt.pending = Len(rt.queue) + Busy(rt) + Entered(rt)
    /\ rt.worker = "sending" => rt.sending \in Spans
    /\ rt.worker = "gone" => rt.closed /\ Len(rt.queue) = 0
    /\ rt.closed => rt.mutex = None
    /\ ~rt.connected => rt.worker = "gone"
GoodRuntimes == {rt \in RuntimeSet : RuntimeOK(rt)}
(* What is in a runtime: queued or in the hand of the worker. *)
Holds(rt, r) == (rt.worker = "sending" /\ rt.sending = r) \/ \E k \in 1..Len(rt.queue) : rt.queue[k] = r

LEMMA NewRuntimeGood == ASSUME O!ObservabilityAssumption PROVE O!NewRuntime \in GoodRuntimes /\ O!NewRuntime.mutex = None /\ ~O!NewRuntime.closed
<1>0. QueueSize \in Nat /\ None \notin Spans
  BY DEF O!ObservabilityAssumption
<1>1. ASSUME NEW f \in BOOLEAN, NEW t \in BOOLEAN
      PROVE  [queue |-> <<>>, closed |-> f, pending |-> 0, epoch |-> 0, signalled |-> t, mutex |-> None,
              sending |-> None, worker |-> "idle", connected |-> t, panicked |-> f] \in RuntimeSet
  BY <1>1 DEF RuntimeSet
<1>2. O!NewRuntime \in RuntimeSet
  BY <1>1 DEF O!NewRuntime
<1>3. O!NewRuntime.queue = <<>> /\ O!NewRuntime.pending = 0 /\ O!NewRuntime.mutex = None /\ O!NewRuntime.worker = "idle"
  BY DEF O!NewRuntime
<1>4. ~O!NewRuntime.closed /\ ~O!NewRuntime.panicked /\ O!NewRuntime.signalled /\ O!NewRuntime.connected
  BY DEF O!NewRuntime
<1>5. Len(O!NewRuntime.queue) = 0
  BY <1>3
<1>6. RuntimeOK(O!NewRuntime)
  BY <1>0, <1>3, <1>4, <1>5 DEF RuntimeOK, Busy, Entered
<1> QED BY <1>2, <1>3, <1>4, <1>6 DEF GoodRuntimes

LEMMA CountedGood ==
    ASSUME O!ObservabilityAssumption, NEW rt \in GoodRuntimes, NEW r \in Spans, rt.mutex = None, ~rt.closed
    PROVE  LET x == [O!Counted(rt) EXCEPT !.mutex = r]
           IN  x \in GoodRuntimes /\ x.mutex = r /\ x.closed = rt.closed /\ x.queue = rt.queue /\ x.worker = rt.worker /\ x.sending = rt.sending
<1> DEFINE p == rt.pending + 1
           e == IF rt.pending = 0 THEN rt.epoch + 1 ELSE rt.epoch
           s == IF rt.pending = 0 THEN FALSE ELSE rt.signalled
           x == [O!Counted(rt) EXCEPT !.mutex = r]
<1>1. rt \in RuntimeSet /\ RuntimeOK(rt) /\ r # None
  BY DEF GoodRuntimes, O!ObservabilityAssumption
<1>2. rt.pending \in Nat /\ rt.epoch \in Nat /\ rt.signalled \in BOOLEAN /\ Len(rt.queue) \in Nat
  BY <1>1 DEF RuntimeSet
<1>3. p \in Nat /\ e \in Nat /\ s \in BOOLEAN /\ p # 0
  <2>1. p \in Nat /\ p # 0 /\ e \in Nat
    BY <1>2
  <2>2. s \in BOOLEAN
    BY <1>2
  <2> QED BY <2>1, <2>2
<1>4. O!Counted(rt) = [rt EXCEPT !.pending = p, !.epoch = e, !.signalled = s]
  BY DEF O!Counted
<1>s. ~s
  BY <1>1 DEF RuntimeOK
<1> HIDE DEF e, s
<1>5. x \in RuntimeSet
  BY <1>1, <1>3, <1>4 DEF RuntimeSet
<1>6. /\ x.queue = rt.queue /\ x.closed = rt.closed /\ x.pending = p /\ x.signalled = s /\ x.mutex = r
      /\ x.sending = rt.sending /\ x.worker = rt.worker /\ x.connected = rt.connected /\ x.panicked = rt.panicked
  BY <1>1, <1>4 DEF RuntimeSet
<1> HIDE DEF x
<1>7. RuntimeOK(x)
  <2>1. Busy(x) = Busy(rt) /\ Entered(rt) = 0 /\ Entered(x) = 1
    BY <1>1, <1>6 DEF Busy, Entered
  <2>2. Busy(rt) \in Nat
    BY DEF Busy
  <2>3. x.pending = Len(x.queue) + Busy(x) + Entered(x)
    BY <1>1, <1>2, <1>6, <2>1, <2>2 DEF RuntimeOK
  <2> QED BY <1>1, <1>2, <1>3, <1>6, <1>s, <2>3 DEF RuntimeOK
<1> QED BY <1>5, <1>6, <1>7 DEF GoodRuntimes, x

(* Something pending is done: the channel is closed when it was the last, which is not closed yet. *)
LEMMA CompletedIs ==
    ASSUME NEW rt \in GoodRuntimes, rt.pending # 0
    PROVE  LET x == O!Completed(rt)
           IN  /\ x \in RuntimeSet /\ x.pending = rt.pending - 1 /\ (x.signalled <=> x.pending = 0) /\ ~x.panicked
               /\ x.queue = rt.queue /\ x.closed = rt.closed /\ x.mutex = rt.mutex /\ x.sending = rt.sending
               /\ x.worker = rt.worker /\ x.connected = rt.connected
<1> DEFINE p == rt.pending - 1
           s == IF rt.pending = 1 THEN TRUE ELSE rt.signalled
           b == rt.panicked \/ (rt.pending = 1 /\ rt.signalled)
           x == O!Completed(rt)
<1>1. rt \in RuntimeSet /\ RuntimeOK(rt)
  BY DEF GoodRuntimes
<1>2. rt.pending \in Nat /\ rt.signalled \in BOOLEAN /\ rt.panicked \in BOOLEAN
  BY <1>1 DEF RuntimeSet
<1>3. p \in Nat /\ s \in BOOLEAN /\ b \in BOOLEAN
  <2>1. p \in Nat
    BY <1>2
  <2>2. s \in BOOLEAN
    BY <1>2
  <2>3. b \in BOOLEAN
    BY <1>2
  <2> QED BY <2>1, <2>2, <2>3
<1>4. ~b /\ (s <=> p = 0)
  BY <1>1, <1>2 DEF RuntimeOK
<1>5. x = [rt EXCEPT !.pending = p, !.signalled = s, !.panicked = b]
  BY DEF O!Completed
<1> HIDE DEF s, b
<1>6. x \in RuntimeSet
  BY <1>1, <1>3, <1>5 DEF RuntimeSet
<1>7. /\ x.queue = rt.queue /\ x.closed = rt.closed /\ x.pending = p /\ x.signalled = s /\ x.mutex = rt.mutex
      /\ x.sending = rt.sending /\ x.worker = rt.worker /\ x.connected = rt.connected /\ x.panicked = b
  BY <1>1, <1>5 DEF RuntimeSet
<1> QED BY <1>4, <1>6, <1>7

LEMMA SentGood ==
    ASSUME O!ObservabilityAssumption, NEW rt \in GoodRuntimes, NEW r \in Spans, rt.mutex = r, Len(rt.queue) < QueueSize
    PROVE  LET x == [rt EXCEPT !.queue = Append(@, r), !.mutex = None, !.panicked = @ \/ rt.closed]
           IN  x \in GoodRuntimes /\ x.mutex = None /\ x.closed = rt.closed /\ (\A q : Holds(rt, q) => Holds(x, q)) /\ Holds(x, r)
<1> DEFINE b == rt.panicked \/ rt.closed
           q == Append(rt.queue, r)
           x == [rt EXCEPT !.queue = Append(@, r), !.mutex = None, !.panicked = @ \/ rt.closed]
<1>1. rt \in RuntimeSet /\ RuntimeOK(rt) /\ r # None /\ QueueSize \in Nat
  BY DEF GoodRuntimes, O!ObservabilityAssumption
<1>2. rt.pending \in Nat /\ rt.queue \in Seq(Spans) /\ Len(rt.queue) \in Nat
  BY <1>1 DEF RuntimeSet
<1>3. ~b /\ b \in BOOLEAN
  BY <1>1 DEF RuntimeOK
<1>4. q \in Seq(Spans) /\ Len(q) = Len(rt.queue) + 1 /\ (\A k \in 1..Len(rt.queue) : q[k] = rt.queue[k]) /\ q[Len(rt.queue) + 1] = r
  BY <1>2, AppendProperties
<1>5. x = [rt EXCEPT !.queue = q, !.mutex = None, !.panicked = b]
  BY <1>1 DEF RuntimeSet
<1> HIDE DEF b, q
<1>6. x \in RuntimeSet
  BY <1>1, <1>3, <1>4, <1>5 DEF RuntimeSet
<1>7. /\ x.queue = q /\ x.closed = rt.closed /\ x.pending = rt.pending /\ x.signalled = rt.signalled /\ x.mutex = None
      /\ x.sending = rt.sending /\ x.worker = rt.worker /\ x.connected = rt.connected /\ x.panicked = b
  BY <1>1, <1>5 DEF RuntimeSet
<1> HIDE DEF x
<1>8. RuntimeOK(x)
  <2>1. Busy(x) = Busy(rt) /\ Entered(rt) = 1 /\ Entered(x) = 0
    BY <1>1, <1>7 DEF Busy, Entered
  <2>2. Busy(rt) \in Nat
    BY DEF Busy
  <2>3. x.pending = Len(x.queue) + Busy(x) + Entered(x)
    BY <1>1, <1>2, <1>4, <1>7, <2>1, <2>2 DEF RuntimeOK
  <2>4. Len(x.queue) <= QueueSize
    BY <1>1, <1>2, <1>4, <1>7
  <2>5. ~rt.closed /\ rt.worker # "gone"
    BY <1>1 DEF RuntimeOK
  <2> QED BY <1>1, <1>3, <1>7, <2>3, <2>4, <2>5 DEF RuntimeOK
<1>9. \A k \in 1..Len(rt.queue) : k \in 1..Len(q)
  BY <1>2, <1>4
<1>10. Len(rt.queue) + 1 \in 1..Len(q)
  BY <1>2, <1>4
<1> QED BY <1>4, <1>6, <1>7, <1>8, <1>9, <1>10 DEF GoodRuntimes, Holds, x

LEMMA DroppedGood ==
    ASSUME O!ObservabilityAssumption, NEW rt \in GoodRuntimes, NEW r \in Spans, rt.mutex = r
    PROVE  LET x == [O!Completed(rt) EXCEPT !.mutex = None]
           IN  x \in GoodRuntimes /\ x.mutex = None /\ x.closed = rt.closed /\ \A q : Holds(rt, q) => Holds(x, q)
<1> DEFINE y == O!Completed(rt)
           x == [y EXCEPT !.mutex = None]
<1>1. rt \in RuntimeSet /\ RuntimeOK(rt) /\ r # None
  BY DEF GoodRuntimes, O!ObservabilityAssumption
<1>2. rt.pending \in Nat /\ Len(rt.queue) \in Nat /\ Busy(rt) \in Nat /\ Entered(rt) = 1
  BY <1>1 DEF RuntimeSet, Busy, Entered
<1>3. rt.pending # 0
  BY <1>1, <1>2 DEF RuntimeOK
<1>4. /\ y \in RuntimeSet /\ y.pending = rt.pending - 1 /\ (y.signalled <=> y.pending = 0) /\ ~y.panicked
      /\ y.queue = rt.queue /\ y.closed = rt.closed /\ y.sending = rt.sending /\ y.worker = rt.worker /\ y.connected = rt.connected
  BY <1>3, CompletedIs
<1> HIDE DEF y
<1>5. x \in RuntimeSet /\ x.mutex = None /\ x.pending = y.pending /\ x.signalled = y.signalled /\ x.panicked = y.panicked
      /\ x.queue = y.queue /\ x.closed = y.closed /\ x.sending = y.sending /\ x.worker = y.worker /\ x.connected = y.connected
  BY <1>4 DEF RuntimeSet
<1> HIDE DEF x
<1>6. RuntimeOK(x)
  <2>1. Busy(x) = Busy(rt) /\ Entered(x) = 0
    BY <1>4, <1>5 DEF Busy, Entered
  <2>2. x.pending = Len(x.queue) + Busy(x) + Entered(x)
    BY <1>1, <1>2, <1>4, <1>5, <2>1 DEF RuntimeOK
  <2> QED BY <1>1, <1>4, <1>5, <2>2 DEF RuntimeOK
<1>7. \A q : Holds(rt, q) => Holds(x, q)
  BY <1>4, <1>5 DEF Holds
<1> QED BY <1>4, <1>5, <1>6, <1>7 DEF GoodRuntimes, x, y

LEMMA TakenGood ==
    ASSUME O!ObservabilityAssumption, NEW rt \in GoodRuntimes, rt.worker = "idle", rt.queue # <<>>
    PROVE  LET x == [rt EXCEPT !.queue = Tail(@), !.sending = Head(rt.queue), !.worker = "sending"]
           IN  x \in GoodRuntimes /\ x.mutex = rt.mutex /\ x.closed = rt.closed /\ \A q : Holds(rt, q) => Holds(x, q)
<1> DEFINE h == Head(rt.queue)
           t == Tail(rt.queue)
           x == [rt EXCEPT !.queue = Tail(@), !.sending = Head(rt.queue), !.worker = "sending"]
<1>1. rt \in RuntimeSet /\ RuntimeOK(rt) /\ QueueSize \in Nat
  BY DEF GoodRuntimes, O!ObservabilityAssumption
<1>2. rt.queue \in Seq(Spans) /\ Len(rt.queue) \in Nat /\ Len(rt.queue) # 0
  BY <1>1, EmptySeq DEF RuntimeSet
<1>3. h \in Spans /\ t \in Seq(Spans) /\ Len(t) = Len(rt.queue) - 1 /\ (\A k \in 1..Len(t) : t[k] = rt.queue[k + 1]) /\ h = rt.queue[1]
  BY <1>2, HeadTailProperties
<1>4. x = [rt EXCEPT !.queue = t, !.sending = h, !.worker = "sending"]
  BY <1>1 DEF RuntimeSet
<1> HIDE DEF h, t
<1>5. x \in RuntimeSet
  BY <1>1, <1>3, <1>4 DEF RuntimeSet
<1>6. /\ x.queue = t /\ x.closed = rt.closed /\ x.pending = rt.pending /\ x.signalled = rt.signalled /\ x.mutex = rt.mutex
      /\ x.sending = h /\ x.worker = "sending" /\ x.connected = rt.connected /\ x.panicked = rt.panicked
  BY <1>1, <1>4 DEF RuntimeSet
<1> HIDE DEF x
<1>7. RuntimeOK(x)
  <2>1. Busy(x) = 1 /\ Busy(rt) = 0 /\ Entered(x) = Entered(rt) /\ Entered(rt) \in Nat
    BY <1>6 DEF Busy, Entered
  <2>2. x.pending = Len(x.queue) + Busy(x) + Entered(x)
    BY <1>1, <1>2, <1>3, <1>6, <2>1 DEF RuntimeOK
  <2>3. Len(x.queue) <= QueueSize
    BY <1>1, <1>2, <1>3, <1>6 DEF RuntimeOK
  <2> QED BY <1>1, <1>3, <1>6, <2>2, <2>3 DEF RuntimeOK
<1>8. ASSUME NEW q, Holds(rt, q) PROVE Holds(x, q)
  <2>1. PICK k \in 1..Len(rt.queue) : rt.queue[k] = q
    BY <1>8 DEF Holds
  <2>2. CASE k = 1
    BY <1>3, <1>6, <2>1, <2>2 DEF Holds
  <2>3. CASE k # 1
    <3>1. k - 1 \in 1..Len(t) /\ (k - 1) + 1 = k
      BY <1>2, <1>3, <2>1, <2>3
    <3> QED BY <1>3, <1>6, <2>1, <3>1 DEF Holds
  <2> QED BY <2>2, <2>3
<1> QED BY <1>5, <1>6, <1>7, <1>8 DEF GoodRuntimes, x

LEMMA ExportedGood ==
    ASSUME O!ObservabilityAssumption, NEW rt \in GoodRuntimes, rt.worker = "sending"
    PROVE  LET x == [rt EXCEPT !.worker = "sent", !.sending = None]
           IN  x \in GoodRuntimes /\ x.mutex = rt.mutex /\ x.closed = rt.closed /\ \A q : Holds(rt, q) => Holds(x, q) \/ q = rt.sending
<1> DEFINE x == [rt EXCEPT !.worker = "sent", !.sending = None]
<1>1. rt \in RuntimeSet /\ RuntimeOK(rt)
  BY DEF GoodRuntimes
<1>2. x \in RuntimeSet
  BY <1>1 DEF RuntimeSet
<1>3. /\ x.queue = rt.queue /\ x.closed = rt.closed /\ x.pending = rt.pending /\ x.signalled = rt.signalled /\ x.mutex = rt.mutex
      /\ x.sending = None /\ x.worker = "sent" /\ x.connected = rt.connected /\ x.panicked = rt.panicked
  BY <1>1 DEF RuntimeSet
<1> HIDE DEF x
<1>4. Busy(x) = Busy(rt) /\ Entered(x) = Entered(rt)
  BY <1>3 DEF Busy, Entered
<1>5. RuntimeOK(x)
  BY <1>1, <1>3, <1>4 DEF RuntimeOK
<1> QED BY <1>2, <1>3, <1>5 DEF GoodRuntimes, Holds, x

LEMMA FinishedGood ==
    ASSUME O!ObservabilityAssumption, NEW rt \in GoodRuntimes, rt.worker = "sent"
    PROVE  LET x == [O!Completed(rt) EXCEPT !.worker = "idle"]
           IN  x \in GoodRuntimes /\ x.mutex = rt.mutex /\ x.closed = rt.closed /\ \A q : Holds(rt, q) => Holds(x, q)
<1> DEFINE y == O!Completed(rt)
           x == [y EXCEPT !.worker = "idle"]
<1>1. rt \in RuntimeSet /\ RuntimeOK(rt)
  BY DEF GoodRuntimes
<1>2. rt.pending \in Nat /\ Len(rt.queue) \in Nat /\ Busy(rt) = 1 /\ Entered(rt) \in Nat
  BY <1>1 DEF RuntimeSet, Busy, Entered
<1>3. rt.pending # 0
  BY <1>1, <1>2 DEF RuntimeOK
<1>4. /\ y \in RuntimeSet /\ y.pending = rt.pending - 1 /\ (y.signalled <=> y.pending = 0) /\ ~y.panicked
      /\ y.queue = rt.queue /\ y.closed = rt.closed /\ y.mutex = rt.mutex /\ y.sending = rt.sending /\ y.worker = rt.worker /\ y.connected = rt.connected
  BY <1>3, CompletedIs
<1> HIDE DEF y
<1>5. x \in RuntimeSet /\ x.mutex = y.mutex /\ x.pending = y.pending /\ x.signalled = y.signalled /\ x.panicked = y.panicked
      /\ x.queue = y.queue /\ x.closed = y.closed /\ x.sending = y.sending /\ x.worker = "idle" /\ x.connected = y.connected
  BY <1>4 DEF RuntimeSet
<1> HIDE DEF x
<1>6. RuntimeOK(x)
  <2>1. Busy(x) = 0 /\ Entered(x) = Entered(rt)
    BY <1>4, <1>5 DEF Busy, Entered
  <2>2. x.pending = Len(x.queue) + Busy(x) + Entered(x)
    BY <1>1, <1>2, <1>4, <1>5, <2>1 DEF RuntimeOK
  <2> QED BY <1>1, <1>4, <1>5, <2>2 DEF RuntimeOK
<1>7. \A q : Holds(rt, q) => Holds(x, q)
  BY <1>4, <1>5 DEF Holds
<1> QED BY <1>4, <1>5, <1>6, <1>7 DEF GoodRuntimes, x, y

LEMMA EndedGood ==
    ASSUME O!ObservabilityAssumption, NEW rt \in GoodRuntimes, rt.worker = "idle", rt.closed, rt.queue = <<>>
    PROVE  LET x == [rt EXCEPT !.worker = "gone"]
           IN  x \in GoodRuntimes /\ x.mutex = rt.mutex /\ x.closed = rt.closed /\ \A q : Holds(rt, q) => Holds(x, q)
<1> DEFINE x == [rt EXCEPT !.worker = "gone"]
<1>1. rt \in RuntimeSet /\ RuntimeOK(rt) /\ Len(rt.queue) = 0
  BY DEF GoodRuntimes
<1>2. x \in RuntimeSet
  BY <1>1 DEF RuntimeSet
<1>3. /\ x.queue = rt.queue /\ x.closed = rt.closed /\ x.pending = rt.pending /\ x.signalled = rt.signalled /\ x.mutex = rt.mutex
      /\ x.sending = rt.sending /\ x.worker = "gone" /\ x.connected = rt.connected /\ x.panicked = rt.panicked
  BY <1>1 DEF RuntimeSet
<1> HIDE DEF x
<1>4. Busy(x) = Busy(rt) /\ Entered(x) = Entered(rt)
  BY <1>3 DEF Busy, Entered
<1>5. RuntimeOK(x)
  BY <1>1, <1>3, <1>4 DEF RuntimeOK
<1>6. \A q : Holds(rt, q) => Holds(x, q)
  BY <1>3 DEF Holds
<1> QED BY <1>2, <1>3, <1>5, <1>6 DEF GoodRuntimes, x

LEMMA ClosedGood ==
    ASSUME O!ObservabilityAssumption, NEW rt \in GoodRuntimes, rt.mutex = None, ~rt.closed, NEW b \in BOOLEAN, b = (rt.panicked \/ rt.closed)
    PROVE  LET x == [rt EXCEPT !.panicked = b, !.closed = TRUE]
           IN  x \in GoodRuntimes /\ x.mutex = rt.mutex /\ x.closed /\ \A q : Holds(rt, q) => Holds(x, q)
<1> DEFINE x == [rt EXCEPT !.panicked = b, !.closed = TRUE]
<1>1. rt \in RuntimeSet /\ RuntimeOK(rt) /\ ~b
  BY DEF GoodRuntimes, RuntimeOK
<1>2. x \in RuntimeSet
  BY <1>1 DEF RuntimeSet
<1>3. /\ x.queue = rt.queue /\ x.closed /\ x.pending = rt.pending /\ x.signalled = rt.signalled /\ x.mutex = rt.mutex
      /\ x.sending = rt.sending /\ x.worker = rt.worker /\ x.connected = rt.connected /\ ~x.panicked
  BY <1>1 DEF RuntimeSet
<1> HIDE DEF x
<1>4. Busy(x) = Busy(rt) /\ Entered(x) = Entered(rt)
  BY <1>3 DEF Busy, Entered
<1>5. RuntimeOK(x)
  BY <1>1, <1>3, <1>4 DEF RuntimeOK
<1>6. \A q : Holds(rt, q) => Holds(x, q)
  BY <1>3 DEF Holds
<1> QED BY <1>2, <1>3, <1>5, <1>6 DEF GoodRuntimes, x

LEMMA DisconnectedGood ==
    ASSUME O!ObservabilityAssumption, NEW rt \in GoodRuntimes, rt.worker = "gone"
    PROVE  LET x == [rt EXCEPT !.connected = FALSE]
           IN  x \in GoodRuntimes /\ x.mutex = rt.mutex /\ x.closed = rt.closed /\ \A q : Holds(rt, q) => Holds(x, q)
<1> DEFINE x == [rt EXCEPT !.connected = FALSE]
<1>1. rt \in RuntimeSet /\ RuntimeOK(rt)
  BY DEF GoodRuntimes
<1>2. x \in RuntimeSet
  BY <1>1 DEF RuntimeSet
<1>3. /\ x.queue = rt.queue /\ x.closed = rt.closed /\ x.pending = rt.pending /\ x.signalled = rt.signalled /\ x.mutex = rt.mutex
      /\ x.sending = rt.sending /\ x.worker = rt.worker /\ x.panicked = rt.panicked
  BY <1>1 DEF RuntimeSet
<1> HIDE DEF x
<1>4. Busy(x) = Busy(rt) /\ Entered(x) = Entered(rt)
  BY <1>3 DEF Busy, Entered
<1>5. RuntimeOK(x)
  BY <1>1, <1>3, <1>4 DEF RuntimeOK
<1>6. \A q : Holds(rt, q) => Holds(x, q)
  BY <1>3 DEF Holds
<1> QED BY <1>2, <1>3, <1>5, <1>6 DEF GoodRuntimes, x

(* The runtimes and who holds them: the span that is being counted has the mutex, who is about  *)
(* to put a runtime in place or to close it is the only one to do so, what is queued is in the   *)
(* runtime that its request saw, and what a Flush found queued still is, or is exported or lost. *)
CallerPoint ==
    {"new", "recording", "counted", "done", "flushing", "blocked", "flushed", "expired", "waiting", "locked", "swapped", "closing"}
Owns(c) == opc[c] \in {"waiting", "locked", "swapped"} /\ held[c] # None
SpansTyped ==
    /\ runtimes \in Seq(GoodRuntimes) /\ manager \in [runtime : O!Made \cup {None}, closed : BOOLEAN]
    /\ lock \in [readers : SUBSET O!Callers, writer : O!Callers \cup {None}, waiting : SUBSET O!Callers]
    /\ opc \in [O!Callers -> CallerPoint] /\ held \in [O!Callers -> O!Made \cup {None}]
    /\ fate \in [Spans -> {"none", "skipped", "queued", "exported", "dropped"}] /\ before \in [Flushers -> SUBSET Spans]
MutexInv ==
    /\ \A r \in Spans : opc[r] = "counted" => held[r] \in O!Made /\ runtimes[held[r]].mutex = r
    /\ \A i \in O!Made : runtimes[i].mutex # None => opc[runtimes[i].mutex] = "counted" /\ held[runtimes[i].mutex] = i
OwnersInv ==
    /\ \A c, d \in O!Callers : Owns(c) /\ Owns(d) /\ c # d => held[c] # held[d]
    /\ \A c \in O!Callers : Owns(c) => held[c] # manager.runtime /\ ~runtimes[held[c]].closed
    /\ \A c \in O!Callers : opc[c] = "closing" => held[c] # None
    /\ manager.runtime # None => ~runtimes[manager.runtime].closed
FateInv == \A r \in Spans : fate[r] = "queued" => opc[r] = "done" /\ held[r] \in O!Made /\ Holds(runtimes[held[r]], r)
FlushInv ==
    \A f \in Flushers :
        /\ opc[f] \in {"flushing", "blocked", "flushed", "expired"} =>
              \A r \in before[f] : opc[r] = "done" /\ fate[r] \in {"queued", "exported", "dropped"}
        /\ opc[f] = "flushed" => \A r \in before[f] : held[r] = held[f] => fate[r] \in {"exported", "dropped"}
SpansInv == SpansTyped /\ MutexInv /\ OwnersInv /\ FateInv /\ FlushInv

LEMMA CallersAre == Spans \subseteq O!Callers /\ Flushers \subseteq O!Callers /\ Reloads \subseteq O!Callers /\ Closer \in O!Callers
BY DEF O!Callers

LEMMA MadeIs == ASSUME runtimes \in Seq(GoodRuntimes) PROVE /\ O!Made = 1..Len(runtimes) /\ Len(runtimes) \in Nat
                                                            /\ \A i \in O!Made : runtimes[i] \in GoodRuntimes
BY LenProperties, ElementOfSeq DEF O!Made

LEMMA SpansStart == ASSUME O!ObservabilityAssumption, O!Init PROVE SpansInv
<1> DEFINE rt == O!NewRuntime
<1>1. runtimes = <<rt>> /\ rt \in GoodRuntimes /\ rt.mutex = None /\ ~rt.closed
  BY NewRuntimeGood DEF O!Init
<1> HIDE DEF rt
<1>2. runtimes \in Seq(GoodRuntimes) /\ Len(runtimes) = 1 /\ runtimes[1] = rt /\ O!Made = 1..1
  BY <1>1 DEF O!Made
<1>3. /\ opc = [c \in O!Callers |-> "new"] /\ held = [c \in O!Callers |-> None] /\ fate = [r \in Spans |-> "none"]
      /\ before = [f \in Flushers |-> {}] /\ manager = [runtime |-> 1, closed |-> FALSE]
  BY DEF O!Init
<1>4. lock \in [readers : SUBSET O!Callers, writer : O!Callers \cup {None}, waiting : SUBSET O!Callers]
  BY DEF O!Init
<1>5. manager \in [runtime : O!Made \cup {None}, closed : BOOLEAN] /\ manager.runtime = 1
  BY <1>2, <1>3
<1>6. SpansTyped
  BY <1>2, <1>3, <1>4, <1>5 DEF SpansTyped, CallerPoint
<1>7. MutexInv
  BY <1>1, <1>2, <1>3, CallersAre DEF MutexInv
<1>8. OwnersInv
  BY <1>1, <1>2, <1>3, <1>5 DEF OwnersInv, Owns
<1>9. FateInv /\ FlushInv
  BY <1>3, CallersAre DEF FateInv, FlushInv
<1> QED BY <1>6, <1>7, <1>8, <1>9 DEF SpansInv

(* One runtime changes, to another good one. *)
LEMMA Changed1 ==
    ASSUME runtimes \in Seq(GoodRuntimes), NEW i \in O!Made, NEW x \in GoodRuntimes, runtimes' = [runtimes EXCEPT ![i] = x]
    PROVE  runtimes' \in Seq(GoodRuntimes) /\ O!Made' = O!Made /\ runtimes'[i] = x /\ \A j \in O!Made : j # i => runtimes'[j] = runtimes[j]
<1>1. i \in 1..Len(runtimes) /\ O!Made = 1..Len(runtimes)
  BY MadeIs
<1>2. /\ runtimes' \in Seq(GoodRuntimes) /\ Len(runtimes') = Len(runtimes)
      /\ \A j \in 1..Len(runtimes) : runtimes'[j] = IF j = i THEN x ELSE runtimes[j]
  BY <1>1, ExceptSeq
<1>3. O!Made' = 1..Len(runtimes')
  BY <1>2, LenProperties DEF O!Made
<1> QED BY <1>1, <1>2, <1>3

(* A step of a worker, or the last of a Close: nobody's place changes, nor the mutex. *)
LEMMA WorkerKept ==
    ASSUME O!ObservabilityAssumption, SpansInv, NEW i \in O!Made, NEW x \in GoodRuntimes, runtimes' = [runtimes EXCEPT ![i] = x],
           x.mutex = runtimes[i].mutex, x.closed = runtimes[i].closed,
           \A q : Holds(runtimes[i], q) => Holds(x, q), UNCHANGED <<manager, lock, held, fate, before>>,
           opc' \in [O!Callers -> CallerPoint], \A c \in O!Callers : opc'[c] = opc[c] \/ (opc[c] = "closing" /\ opc'[c] = "done")
    PROVE  SpansInv'
<1> USE DEF SpansInv
<1>1. runtimes' \in Seq(GoodRuntimes) /\ O!Made' = O!Made /\ runtimes'[i] = x /\ \A j \in O!Made : j # i => runtimes'[j] = runtimes[j]
  BY Changed1 DEF SpansTyped
<1>2. \A j \in O!Made : runtimes'[j].mutex = runtimes[j].mutex /\ runtimes'[j].closed = runtimes[j].closed
  BY <1>1
<1>3. \A j \in O!Made : \A q : Holds(runtimes[j], q) => Holds(runtimes'[j], q)
  BY <1>1
<1>4. SpansTyped'
  BY <1>1 DEF SpansTyped, O!Callers
<1>5. MutexInv'
  <2>1. \A c \in O!Callers : opc'[c] = "counted" <=> opc[c] = "counted"
    OBVIOUS
  <2>2. \A j \in O!Made : runtimes[j].mutex # None => runtimes[j].mutex \in Spans
    BY MadeIs DEF SpansTyped, GoodRuntimes, RuntimeSet
  <2> QED BY <1>1, <1>2, <2>1, <2>2, CallersAre DEF MutexInv
<1>6. OwnersInv'
  BY <1>1, <1>2 DEF OwnersInv, Owns, SpansTyped, O!Callers
<1>7. FateInv'
  BY <1>1, <1>3, CallersAre DEF FateInv
<1>8. FlushInv'
  <2>1. ASSUME NEW f \in Flushers PROVE opc'[f] \in {"flushing", "blocked", "flushed", "expired"} => opc'[f] = opc[f]
    BY CallersAre
  <2>2. \A r \in Spans : opc[r] = "done" => opc'[r] = "done"
    BY CallersAre
  <2> QED BY <2>1, <2>2 DEF FlushInv, SpansTyped
<1> QED BY <1>4, <1>5, <1>6, <1>7, <1>8

LEMMA MutexHeld == ASSUME SpansTyped, NEW i \in O!Made, runtimes[i].mutex # None PROVE runtimes[i].mutex \in Spans
BY MadeIs DEF SpansTyped, GoodRuntimes, RuntimeSet

LEMMA WorkerStepKept ==
    ASSUME O!ObservabilityAssumption, SpansInv, NEW i \in O!Made,
           O!Take(i) \/ O!Answered(i) \/ O!Refused(i) \/ O!CompletePending(i) \/ O!WorkerEnds(i)
    PROVE  SpansInv'
<1> DEFINE rt == runtimes[i]
<1>1. rt \in GoodRuntimes /\ opc \in [O!Callers -> CallerPoint]
  BY MadeIs DEF SpansInv, SpansTyped
<1>2. CASE O!Take(i)
  <2> DEFINE x == [rt EXCEPT !.queue = Tail(@), !.sending = Head(rt.queue), !.worker = "sending"]
  <2>1. rt.worker = "idle" /\ rt.queue # <<>> /\ runtimes' = [runtimes EXCEPT ![i] = x] /\ UNCHANGED <<manager, lock, opc, held, fate, before>>
    BY <1>2 DEF O!Take
  <2>2. x \in GoodRuntimes /\ x.mutex = rt.mutex /\ x.closed = rt.closed /\ \A q : Holds(rt, q) => Holds(x, q)
    BY <1>1, <2>1, TakenGood
  <2> HIDE DEF x
  <2> QED BY <1>1, <2>1, <2>2, WorkerKept
<1>3. CASE O!CompletePending(i)
  <2> DEFINE x == [O!Completed(rt) EXCEPT !.worker = "idle"]
  <2>1. rt.worker = "sent" /\ runtimes' = [runtimes EXCEPT ![i] = x] /\ UNCHANGED <<manager, lock, opc, held, fate, before>>
    BY <1>3 DEF O!CompletePending
  <2>2. x \in GoodRuntimes /\ x.mutex = rt.mutex /\ x.closed = rt.closed /\ \A q : Holds(rt, q) => Holds(x, q)
    BY <1>1, <2>1, FinishedGood
  <2> HIDE DEF x
  <2> QED BY <1>1, <2>1, <2>2, WorkerKept
<1>4. CASE O!WorkerEnds(i)
  <2> DEFINE x == [rt EXCEPT !.worker = "gone"]
  <2>1. rt.worker = "idle" /\ rt.closed /\ rt.queue = <<>> /\ UNCHANGED <<manager, lock, opc, held, fate, before>>
    BY <1>4 DEF O!WorkerEnds
  <2>r. runtimes' = [runtimes EXCEPT ![i] = x]
    BY <1>4 DEF O!WorkerEnds
  <2>2. x \in GoodRuntimes /\ x.mutex = rt.mutex /\ x.closed = rt.closed /\ \A q : Holds(rt, q) => Holds(x, q)
    BY <1>1, <2>1, EndedGood
  <2> HIDE DEF x
  <2> QED BY <1>1, <2>1, <2>r, <2>2, WorkerKept
<1>5. CASE O!Answered(i) \/ O!Refused(i)
  <2> USE DEF SpansInv
  <2> DEFINE x == [rt EXCEPT !.worker = "sent", !.sending = None]
             s == rt.sending
  <2>1. rt.worker = "sending" /\ runtimes' = [runtimes EXCEPT ![i] = x] /\ UNCHANGED <<manager, lock, opc, held, before>>
        /\ \E v \in {"exported", "dropped"} : fate' = [fate EXCEPT ![s] = v]
    BY <1>5 DEF O!Answered, O!Refused, O!Exported
  <2>2. x \in GoodRuntimes /\ x.mutex = rt.mutex /\ x.closed = rt.closed /\ \A q : Holds(rt, q) => Holds(x, q) \/ q = s
    BY <1>1, <2>1, ExportedGood
  <2>3. s \in Spans
    BY <1>1, <2>1 DEF GoodRuntimes, RuntimeOK
  <2> HIDE DEF x, s
  <2>4. runtimes' \in Seq(GoodRuntimes) /\ O!Made' = O!Made /\ runtimes'[i] = x /\ \A j \in O!Made : j # i => runtimes'[j] = runtimes[j]
    BY <2>1, <2>2, Changed1 DEF SpansTyped
  <2>5. \A j \in O!Made : runtimes'[j].mutex = runtimes[j].mutex /\ runtimes'[j].closed = runtimes[j].closed
    BY <2>2, <2>4
  <2>6. \A j \in O!Made : \A q : Holds(runtimes[j], q) => Holds(runtimes'[j], q) \/ q = s
    BY <2>2, <2>4
  <2>7. \A r \in Spans : (r # s => fate'[r] = fate[r]) /\ fate'[s] \in {"exported", "dropped"}
    BY <2>1, <2>3 DEF SpansTyped
  <2>8. SpansTyped'
    BY <2>1, <2>3, <2>4 DEF SpansTyped, O!Callers
  <2>9. MutexInv'
    BY <2>1, <2>4, <2>5 DEF MutexInv
  <2>10. OwnersInv'
    BY <2>1, <2>4, <2>5 DEF OwnersInv, Owns, SpansTyped, O!Callers
  <2>11. FateInv'
    BY <2>1, <2>4, <2>6, <2>7 DEF FateInv
  <2>12. FlushInv'
    BY <2>1, <2>3, <2>7 DEF FlushInv, SpansTyped
  <2> QED BY <2>8, <2>9, <2>10, <2>11, <2>12
<1> QED BY <1>2, <1>3, <1>4, <1>5

(* A caller goes from one point to another; the runtimes and the manager stay. *)
LEMMA CallerMoved ==
    ASSUME SpansInv, NEW c \in O!Callers, NEW to \in CallerPoint, O!Goto(c, to)
    PROVE  /\ opc' \in [O!Callers -> CallerPoint] /\ opc'[c] = to /\ \A d \in O!Callers : d # c => opc'[d] = opc[d]
BY DEF SpansInv, SpansTyped, O!Goto

LEMMA ReadersKept ==
    ASSUME SpansTyped, NEW c \in O!Callers,
           O!ReadUnlock(c) \/ UNCHANGED lock \/ lock' = [lock EXCEPT !.readers = @ \cup {c}]
           \/ lock' = [lock EXCEPT !.waiting = @ \cup {c}] \/ lock' = [lock EXCEPT !.writer = c, !.waiting = @ \ {c}] \/ lock' = [lock EXCEPT !.writer = None]
    PROVE  lock' \in [readers : SUBSET O!Callers, writer : O!Callers \cup {None}, waiting : SUBSET O!Callers]
<1> DEFINE Locks == [readers : SUBSET O!Callers, writer : O!Callers \cup {None}, waiting : SUBSET O!Callers]
<1>1. lock \in Locks
  BY DEF SpansTyped
<1>2. ASSUME NEW R \in SUBSET O!Callers, NEW w \in O!Callers \cup {None}, NEW W \in SUBSET O!Callers
      PROVE  [lock EXCEPT !.readers = R] \in Locks /\ [lock EXCEPT !.waiting = W] \in Locks
             /\ [lock EXCEPT !.writer = w, !.waiting = W] \in Locks /\ [lock EXCEPT !.writer = w] \in Locks
  BY <1>1
<1>3. lock.readers \cup {c} \in SUBSET O!Callers /\ lock.readers \ {c} \in SUBSET O!Callers
      /\ lock.waiting \cup {c} \in SUBSET O!Callers /\ lock.waiting \ {c} \in SUBSET O!Callers
  BY <1>1
<1>4. CASE O!ReadUnlock(c)
  BY <1>2, <1>3, <1>4 DEF O!ReadUnlock
<1>5. CASE UNCHANGED lock
  BY <1>1, <1>5
<1>6. CASE lock' = [lock EXCEPT !.readers = @ \cup {c}]
  BY <1>2, <1>3, <1>6
<1>7. CASE lock' = [lock EXCEPT !.waiting = @ \cup {c}]
  BY <1>2, <1>3, <1>7
<1>8. CASE lock' = [lock EXCEPT !.writer = c, !.waiting = @ \ {c}]
  BY <1>2, <1>3, <1>8
<1>9. CASE lock' = [lock EXCEPT !.writer = None]
  BY <1>2, <1>9
<1> QED BY <1>4, <1>5, <1>6, <1>7, <1>8, <1>9

LEMMA RequestStepHolds ==
    ASSUME O!ObservabilityAssumption, SpansInv, NEW r \in Spans, O!RecordHTTP(r) \/ O!Skip(r)
    PROVE  SpansInv'
<1> USE DEF SpansInv
<1>1. r \in O!Callers /\ manager.runtime \in O!Made \cup {None} /\ UNCHANGED <<runtimes, manager, before>> /\ O!Made' = O!Made
  BY CallersAre DEF SpansTyped, O!RecordHTTP, O!Skip, O!Made
<1>2. CASE O!RecordHTTP(r)
  <2>1. opc[r] = "new" /\ O!Goto(r, "recording") /\ held' = [held EXCEPT ![r] = manager.runtime] /\ UNCHANGED fate
        /\ lock' = [lock EXCEPT !.readers = @ \cup {r}]
    BY <1>2 DEF O!RecordHTTP, O!ReadLock
  <2>2. opc' \in [O!Callers -> CallerPoint] /\ opc'[r] = "recording" /\ \A d \in O!Callers : d # r => opc'[d] = opc[d]
    BY <1>1, <2>1, CallerMoved DEF CallerPoint
  <2>3. held' \in [O!Callers -> O!Made \cup {None}] /\ \A d \in O!Callers : d # r => held'[d] = held[d]
    BY <1>1, <2>1 DEF SpansTyped
  <2>4. SpansTyped'
    BY <1>1, <2>1, <2>2, <2>3, ReadersKept DEF SpansTyped, O!Callers
  <2>5. MutexInv'
    <3>1. \A i \in O!Made : runtimes[i].mutex # None => runtimes[i].mutex \in Spans
      BY MutexHeld
    <3> QED BY <1>1, <2>1, <2>2, <2>3, <3>1, CallersAre DEF MutexInv
  <2>6. OwnersInv'
    <3>1. \A d \in O!Callers : (Owns(d)' <=> Owns(d)) /\ (Owns(d) => d # r)
      BY <2>1, <2>2, <2>3 DEF Owns
    <3>2. O!Callers' = O!Callers
      BY DEF O!Callers
    <3> QED BY <1>1, <2>2, <2>3, <3>1, <3>2 DEF OwnersInv
  <2>7. FateInv'
    BY <1>1, <2>1, <2>2, <2>3, CallersAre DEF FateInv
  <2>8. FlushInv'
    <3>1. \A f \in Flushers : opc'[f] \in {"flushing", "blocked", "flushed", "expired"} => f # r /\ opc'[f] = opc[f] /\ held'[f] = held[f]
      BY <2>2, <2>3, CallersAre
    <3>2. \A q \in Spans : opc[q] = "done" => opc'[q] = "done" /\ held'[q] = held[q]
      BY <2>1, <2>2, <2>3, CallersAre
    <3> QED BY <1>1, <2>1, <3>1, <3>2 DEF FlushInv, SpansTyped
  <2> QED BY <2>4, <2>5, <2>6, <2>7, <2>8
<1>3. CASE O!Skip(r)
  <2>1. opc[r] = "recording" /\ O!Goto(r, "done") /\ UNCHANGED held /\ fate' = [fate EXCEPT ![r] = "skipped"] /\ O!ReadUnlock(r)
    BY <1>3 DEF O!Skip, O!Leave
  <2>2. opc' \in [O!Callers -> CallerPoint] /\ opc'[r] = "done" /\ \A d \in O!Callers : d # r => opc'[d] = opc[d]
    BY <1>1, <2>1, CallerMoved DEF CallerPoint
  <2>3. fate' \in [Spans -> {"none", "skipped", "queued", "exported", "dropped"}] /\ fate'[r] = "skipped" /\ \A q \in Spans : q # r => fate'[q] = fate[q]
    BY <2>1 DEF SpansTyped
  <2>4. SpansTyped'
    BY <1>1, <2>1, <2>2, <2>3, ReadersKept DEF SpansTyped, O!Callers
  <2>5. MutexInv'
    <3>1. \A i \in O!Made : runtimes[i].mutex # None => runtimes[i].mutex \in Spans
      BY MutexHeld
    <3> QED BY <1>1, <2>1, <2>2, <3>1, CallersAre DEF MutexInv
  <2>6. OwnersInv'
    <3>1. \A d \in O!Callers : Owns(d)' <=> Owns(d)
      BY <2>1, <2>2 DEF Owns
    <3>2. O!Callers' = O!Callers
      BY DEF O!Callers
    <3> QED BY <1>1, <2>1, <2>2, <3>1, <3>2 DEF OwnersInv
  <2>7. FateInv'
    BY <1>1, <2>1, <2>2, <2>3, CallersAre DEF FateInv
  <2>8. FlushInv'
    <3>1. \A f \in Flushers : opc'[f] \in {"flushing", "blocked", "flushed", "expired"} => opc'[f] = opc[f]
      BY <2>2, CallersAre
    <3>2. \A q \in Spans : opc[q] = "done" => opc'[q] = "done" /\ fate'[q] = fate[q]
      BY <2>1, <2>2, <2>3, CallersAre
    <3> QED BY <1>1, <2>1, <3>1, <3>2 DEF FlushInv, SpansTyped
  <2> QED BY <2>4, <2>5, <2>6, <2>7, <2>8
<1> QED BY <1>2, <1>3

LEMMA CountHolds == ASSUME O!ObservabilityAssumption, SpansInv, NEW r \in Spans, O!Count(r) PROVE SpansInv'
<1> USE DEF SpansInv
<1> DEFINE i == held[r]
           rt == runtimes[i]
           x == [O!Counted(rt) EXCEPT !.mutex = r]
<1>1. r \in O!Callers /\ i \in O!Made /\ rt \in GoodRuntimes
  BY CallersAre, MadeIs DEF O!Count, SpansTyped
<1>2. opc[r] = "recording" /\ rt.mutex = None /\ ~rt.closed /\ O!Goto(r, "counted") /\ UNCHANGED <<manager, lock, held, seen, fate, before>>
  BY DEF O!Count, O!Runtime
<1>3. runtimes' = [runtimes EXCEPT ![i] = x]
  BY <1>1 DEF O!Count, SpansTyped
<1>4. x \in GoodRuntimes /\ x.mutex = r /\ x.closed = rt.closed /\ \A q : Holds(rt, q) => Holds(x, q)
  <2>1. x \in GoodRuntimes /\ x.mutex = r /\ x.closed = rt.closed /\ x.queue = rt.queue /\ x.worker = rt.worker /\ x.sending = rt.sending
    BY <1>1, <1>2, CountedGood
  <2> HIDE DEF x
  <2> QED BY <2>1 DEF Holds
<1>n. r # None
  BY DEF O!ObservabilityAssumption
<1> HIDE DEF x
<1>5. runtimes' \in Seq(GoodRuntimes) /\ O!Made' = O!Made /\ runtimes'[i] = x /\ \A j \in O!Made : j # i => runtimes'[j] = runtimes[j]
  BY <1>1, <1>3, <1>4, Changed1 DEF SpansTyped
<1>6. opc' \in [O!Callers -> CallerPoint] /\ opc'[r] = "counted" /\ \A d \in O!Callers : d # r => opc'[d] = opc[d]
  BY <1>1, <1>2, CallerMoved DEF CallerPoint
<1>7. \A j \in O!Made : runtimes'[j].closed = runtimes[j].closed /\ \A q : Holds(runtimes[j], q) => Holds(runtimes'[j], q)
  BY <1>4, <1>5
<1>8. SpansTyped'
  BY <1>2, <1>5, <1>6 DEF SpansTyped, O!Callers
<1>9. MutexInv'
  <2>1. \A j \in O!Made : runtimes[j].mutex # None => runtimes[j].mutex \in Spans
    BY MutexHeld
  <2>2. ASSUME NEW q \in Spans, opc'[q] = "counted" PROVE held'[q] \in O!Made' /\ runtimes'[held'[q]].mutex = q
    <3>1. CASE q = r
      BY <1>1, <1>2, <1>4, <1>5, <3>1
    <3>2. CASE q # r
      <4>1. opc[q] = "counted" /\ held[q] \in O!Made /\ runtimes[held[q]].mutex = q /\ q # None
        BY <1>6, <2>2, <3>2, CallersAre DEF MutexInv, O!ObservabilityAssumption
      <4> QED BY <1>2, <1>5, <4>1
    <3> QED BY <3>1, <3>2
  <2>3. ASSUME NEW j \in O!Made', runtimes'[j].mutex # None PROVE opc'[runtimes'[j].mutex] = "counted" /\ held'[runtimes'[j].mutex] = j
    <3>1. CASE j = i
      BY <1>2, <1>4, <1>5, <1>6, <3>1
    <3>2. CASE j # i
      <4>1. runtimes[j].mutex \in Spans /\ opc[runtimes[j].mutex] = "counted" /\ held[runtimes[j].mutex] = j /\ runtimes'[j] = runtimes[j]
        BY <1>5, <2>1, <2>3, <3>2 DEF MutexInv
      <4> QED BY <1>2, <1>6, <4>1, CallersAre
    <3> QED BY <3>1, <3>2
  <2> QED BY <2>2, <2>3 DEF MutexInv
<1>10. OwnersInv'
  <2>1. \A d \in O!Callers : (Owns(d)' <=> Owns(d)) /\ (opc'[d] = "closing" => opc[d] = "closing")
    BY <1>2, <1>6 DEF Owns
  <2>2. O!Callers' = O!Callers
    BY DEF O!Callers
  <2>3. /\ \A d \in O!Callers : Owns(d) => runtimes'[held[d]].closed = runtimes[held[d]].closed
        /\ manager.runtime # None => runtimes'[manager.runtime].closed = runtimes[manager.runtime].closed
    BY <1>7 DEF SpansTyped, Owns
  <2> QED BY <1>2, <2>1, <2>2, <2>3 DEF OwnersInv
<1>11. FateInv'
  BY <1>2, <1>5, <1>6, <1>7, CallersAre DEF FateInv
<1>12. FlushInv'
  <2>1. \A f \in Flushers : opc'[f] \in {"flushing", "blocked", "flushed", "expired"} => opc'[f] = opc[f]
    BY <1>6, CallersAre
  <2>2. \A q \in Spans : opc[q] = "done" => opc'[q] = "done"
    BY <1>2, <1>6, CallersAre
  <2> QED BY <1>2, <2>1, <2>2 DEF FlushInv, SpansTyped
<1> QED BY <1>8, <1>9, <1>10, <1>11, <1>12

LEMMA SendHolds == ASSUME O!ObservabilityAssumption, SpansInv, NEW r \in Spans, O!Send(r) PROVE SpansInv'
<1> USE DEF SpansInv
<1> DEFINE i == held[r]
           rt == runtimes[i]
           queued == Len(rt.queue) < QueueSize
<1>0. r # None /\ r \in O!Callers /\ opc[r] = "counted" /\ UNCHANGED <<manager, held, before>>
  BY CallersAre DEF O!ObservabilityAssumption, O!Send
<1>1. i \in O!Made /\ rt \in GoodRuntimes /\ rt.mutex = r
  BY <1>0, MadeIs DEF SpansTyped, MutexInv
<1>2. PICK x \in GoodRuntimes, to \in {"queued", "dropped"} :
        /\ runtimes' = [runtimes EXCEPT ![i] = x] /\ O!Leave(r, to) /\ x.mutex = None /\ x.closed = rt.closed
        /\ (\A q : Holds(rt, q) => Holds(x, q)) /\ (to = "queued" => Holds(x, r))
  <2>1. CASE queued
    <3> DEFINE x == [rt EXCEPT !.queue = Append(@, r), !.mutex = None, !.panicked = @ \/ rt.closed]
    <3>1. runtimes' = [runtimes EXCEPT ![i] = x] /\ O!Leave(r, "queued")
      BY <2>1 DEF O!Send, O!Runtime
    <3>2. x \in GoodRuntimes /\ x.mutex = None /\ x.closed = rt.closed /\ (\A q : Holds(rt, q) => Holds(x, q)) /\ Holds(x, r)
      BY <1>1, <2>1, SentGood
    <3> QED BY <3>1, <3>2
  <2>2. CASE ~queued
    <3> DEFINE x == [O!Completed(rt) EXCEPT !.mutex = None]
    <3>1. runtimes' = [runtimes EXCEPT ![i] = x] /\ O!Leave(r, "dropped")
      BY <2>2 DEF O!Send, O!Runtime
    <3>2. x \in GoodRuntimes /\ x.mutex = None /\ x.closed = rt.closed /\ (\A q : Holds(rt, q) => Holds(x, q))
      BY <1>1, DroppedGood
    <3> QED BY <3>1, <3>2
  <2> QED BY <2>1, <2>2
<1>3. O!Goto(r, "done") /\ O!ReadUnlock(r) /\ fate' = [fate EXCEPT ![r] = to]
  BY <1>2 DEF O!Leave
<1>4. fate' \in [Spans -> {"none", "skipped", "queued", "exported", "dropped"}] /\ fate'[r] = to /\ \A q \in Spans : q # r => fate'[q] = fate[q]
  BY <1>3 DEF SpansTyped
<1>5. runtimes' \in Seq(GoodRuntimes) /\ O!Made' = O!Made /\ runtimes'[i] = x /\ \A j \in O!Made : j # i => runtimes'[j] = runtimes[j]
  BY <1>1, <1>2, Changed1 DEF SpansTyped
<1>6. opc' \in [O!Callers -> CallerPoint] /\ opc'[r] = "done" /\ \A d \in O!Callers : d # r => opc'[d] = opc[d]
  BY <1>0, <1>3, CallerMoved DEF CallerPoint
<1>7. \A j \in O!Made : runtimes'[j].closed = runtimes[j].closed /\ \A q : Holds(runtimes[j], q) => Holds(runtimes'[j], q)
  BY <1>2, <1>5
<1>8. SpansTyped'
  BY <1>0, <1>3, <1>4, <1>5, <1>6, ReadersKept DEF SpansTyped, O!Callers
<1>9. MutexInv'
  <2>1. \A j \in O!Made : runtimes[j].mutex # None => runtimes[j].mutex \in Spans
    BY MutexHeld
  <2>2. ASSUME NEW q \in Spans, opc'[q] = "counted" PROVE held'[q] \in O!Made' /\ runtimes'[held'[q]].mutex = q
    <3>1. q # r /\ opc[q] = "counted"
      BY <1>6, <2>2, CallersAre
    <3>2. held[q] \in O!Made /\ runtimes[held[q]].mutex = q
      BY <3>1 DEF MutexInv
    <3>3. held[q] # i
      BY <1>1, <3>1, <3>2
    <3> QED BY <1>0, <1>5, <3>2, <3>3
  <2>3. ASSUME NEW j \in O!Made', runtimes'[j].mutex # None PROVE opc'[runtimes'[j].mutex] = "counted" /\ held'[runtimes'[j].mutex] = j
    <3>1. j # i /\ runtimes'[j] = runtimes[j] /\ j \in O!Made
      BY <1>2, <1>5, <2>3
    <3>2. runtimes[j].mutex \in Spans /\ opc[runtimes[j].mutex] = "counted" /\ held[runtimes[j].mutex] = j
      BY <2>1, <2>3, <3>1 DEF MutexInv
    <3>3. runtimes[j].mutex # r
      BY <3>1, <3>2
    <3> QED BY <1>0, <1>6, <3>1, <3>2, <3>3, CallersAre
  <2> QED BY <2>2, <2>3 DEF MutexInv
<1>10. OwnersInv'
  <2>1. \A d \in O!Callers : (Owns(d)' <=> Owns(d)) /\ (opc'[d] = "closing" => opc[d] = "closing")
    BY <1>0, <1>6 DEF Owns
  <2>2. O!Callers' = O!Callers
    BY DEF O!Callers
  <2>3. /\ \A d \in O!Callers : Owns(d) => runtimes'[held[d]].closed = runtimes[held[d]].closed
        /\ manager.runtime # None => runtimes'[manager.runtime].closed = runtimes[manager.runtime].closed
    BY <1>7 DEF SpansTyped, Owns
  <2> QED BY <1>0, <2>1, <2>2, <2>3 DEF OwnersInv
<1>11. FateInv'
  <2>1. ASSUME NEW q \in Spans, fate'[q] = "queued" PROVE opc'[q] = "done" /\ held'[q] \in O!Made' /\ Holds(runtimes'[held'[q]], q)
    <3>1. CASE q = r
      BY <1>0, <1>1, <1>2, <1>4, <1>5, <1>6, <2>1, <3>1
    <3>2. CASE q # r
      BY <1>0, <1>4, <1>5, <1>6, <1>7, <2>1, <3>2, CallersAre DEF FateInv
    <3> QED BY <3>1, <3>2
  <2> QED BY <2>1 DEF FateInv
<1>12. FlushInv'
  <2>1. \A f \in Flushers : opc'[f] \in {"flushing", "blocked", "flushed", "expired"} => opc'[f] = opc[f]
    BY <1>6, CallersAre
  <2>2. \A q \in Spans : opc[q] = "done" => opc'[q] = "done" /\ fate'[q] = fate[q]
    BY <1>0, <1>4, <1>6, CallersAre
  <2> QED BY <1>0, <2>1, <2>2 DEF FlushInv, SpansTyped
<1> QED BY <1>8, <1>9, <1>10, <1>11, <1>12

(* Somebody moves who neither counts, nor owns a runtime before or after it, nor closes one; "idle" tells who. *)
LEMMA BystanderMoved ==
    ASSUME O!ObservabilityAssumption, SpansInv, NEW c \in O!Callers, NEW to \in CallerPoint, O!Goto(c, to),
           UNCHANGED <<runtimes, manager, fate>>, opc[c] \notin {"counted", "done"}, to # "counted",
           held' \in [O!Callers -> O!Made \cup {None}], \A d \in O!Callers : d # c => held'[d] = held[d]
    PROVE  /\ MutexInv' /\ FateInv' /\ O!Made' = O!Made /\ O!Callers' = O!Callers
           /\ opc' \in [O!Callers -> CallerPoint] /\ opc'[c] = to /\ \A d \in O!Callers : d # c => opc'[d] = opc[d]
           /\ \A q \in Spans : opc[q] = "done" => opc'[q] = "done" /\ held'[q] = held[q]
<1> USE DEF SpansInv
<1>1. opc' \in [O!Callers -> CallerPoint] /\ opc'[c] = to /\ \A d \in O!Callers : d # c => opc'[d] = opc[d]
  BY CallerMoved
<1>2. O!Made' = O!Made /\ O!Callers' = O!Callers
  BY DEF O!Made, O!Callers
<1>3. \A i \in O!Made : runtimes[i].mutex # None => runtimes[i].mutex \in Spans
  BY MutexHeld
<1>4. MutexInv'
  BY <1>1, <1>2, <1>3, CallersAre DEF MutexInv
<1>5. FateInv'
  BY <1>1, <1>2, CallersAre DEF FateInv
<1>6. \A q \in Spans : opc[q] = "done" => opc'[q] = "done" /\ held'[q] = held[q]
  BY <1>1, CallersAre
<1> QED BY <1>1, <1>2, <1>4, <1>5, <1>6

LEMMA FlushStepHolds ==
    ASSUME O!ObservabilityAssumption, SpansInv, NEW f \in Flushers, O!Flush(f) \/ O!Look(f) \/ O!Signal(f) \/ O!Expire(f)
    PROVE  SpansInv'
<1> USE DEF SpansInv
<1>1. f \in O!Callers /\ manager.runtime \in O!Made \cup {None} /\ UNCHANGED <<runtimes, manager, fate>>
  BY CallersAre DEF SpansTyped, O!Flush, O!Look, O!Signal, O!Expire
<1>2. CASE O!Flush(f)
  <2>1. opc[f] = "new" /\ O!Goto(f, "flushing") /\ held' = [held EXCEPT ![f] = manager.runtime]
        /\ lock' = [lock EXCEPT !.readers = @ \cup {f}] /\ before' = [before EXCEPT ![f] = {r \in Spans : fate[r] = "queued"}]
    BY <1>2 DEF O!Flush, O!ReadLock
  <2>2. held' \in [O!Callers -> O!Made \cup {None}] /\ \A d \in O!Callers : d # f => held'[d] = held[d]
    BY <1>1, <2>1 DEF SpansTyped
  <2>3. /\ MutexInv' /\ FateInv' /\ O!Made' = O!Made /\ O!Callers' = O!Callers
        /\ opc' \in [O!Callers -> CallerPoint] /\ opc'[f] = "flushing" /\ \A d \in O!Callers : d # f => opc'[d] = opc[d]
        /\ \A q \in Spans : opc[q] = "done" => opc'[q] = "done" /\ held'[q] = held[q]
    BY <1>1, <2>1, <2>2, BystanderMoved DEF CallerPoint
  <2>4. before' \in [Flushers -> SUBSET Spans] /\ before'[f] = {r \in Spans : fate[r] = "queued"} /\ \A g \in Flushers : g # f => before'[g] = before[g]
    BY <2>1 DEF SpansTyped
  <2>5. SpansTyped'
    BY <1>1, <2>1, <2>2, <2>3, <2>4, ReadersKept DEF SpansTyped
  <2>6. OwnersInv'
    <3>1. \A d \in O!Callers : (Owns(d)' <=> Owns(d)) /\ (Owns(d) => d # f)
      BY <2>1, <2>2, <2>3 DEF Owns
    <3> QED BY <1>1, <2>2, <2>3, <3>1 DEF OwnersInv
  <2>7. FlushInv'
    <3>1. \A r \in before'[f] : opc'[r] = "done" /\ fate'[r] \in {"queued", "exported", "dropped"}
      BY <1>1, <2>3, <2>4 DEF FateInv
    <3>2. ASSUME NEW g \in Flushers, g # f
          PROVE  /\ opc'[g] \in {"flushing", "blocked", "flushed", "expired"} => \A r \in before'[g] : opc'[r] = "done" /\ fate'[r] \in {"queued", "exported", "dropped"}
                 /\ opc'[g] = "flushed" => \A r \in before'[g] : held'[r] = held'[g] => fate'[r] \in {"exported", "dropped"}
      <4>1. opc'[g] = opc[g] /\ before'[g] = before[g] /\ held'[g] = held[g] /\ before[g] \subseteq Spans
        BY <2>2, <2>3, <2>4, <3>2, CallersAre DEF SpansTyped
      <4> QED BY <1>1, <2>3, <4>1 DEF FlushInv
    <3> QED BY <2>3, <3>1, <3>2 DEF FlushInv
  <2> QED BY <2>3, <2>5, <2>6, <2>7
<1>3. ASSUME opc[f] \in {"flushing", "blocked"}, NEW to \in {"flushing", "blocked", "flushed", "expired"}, O!Goto(f, to),
             UNCHANGED <<held, before>>, O!ReadUnlock(f) \/ UNCHANGED lock,
             to = "flushed" => \A r \in before[f] : held[r] = held[f] => fate[r] \in {"exported", "dropped"}
      PROVE  SpansInv'
  <2>1. held' \in [O!Callers -> O!Made \cup {None}] /\ to \in CallerPoint
    BY <1>3 DEF SpansTyped, CallerPoint
  <2>2. /\ MutexInv' /\ FateInv' /\ O!Made' = O!Made /\ O!Callers' = O!Callers
        /\ opc' \in [O!Callers -> CallerPoint] /\ opc'[f] = to /\ \A d \in O!Callers : d # f => opc'[d] = opc[d]
        /\ \A q \in Spans : opc[q] = "done" => opc'[q] = "done" /\ held'[q] = held[q]
    BY <1>1, <1>3, <2>1, BystanderMoved
  <2>3. SpansTyped'
    BY <1>1, <1>3, <2>1, <2>2, ReadersKept DEF SpansTyped
  <2>4. OwnersInv'
    <3>1. \A d \in O!Callers : Owns(d)' <=> Owns(d)
      BY <1>3, <2>2 DEF Owns
    <3> QED BY <1>1, <1>3, <2>2, <3>1 DEF OwnersInv
  <2>5. FlushInv'
    <3>1. /\ \A r \in before[f] : opc[r] = "done" /\ fate[r] \in {"queued", "exported", "dropped"}
          /\ before[f] \subseteq Spans
      BY <1>3 DEF FlushInv, SpansTyped
    <3>2. \A g \in Flushers : g # f => opc'[g] = opc[g] /\ before[g] \subseteq Spans
      BY <2>2, CallersAre DEF SpansTyped
    <3> QED BY <1>1, <1>3, <2>2, <3>1, <3>2 DEF FlushInv
  <2> QED BY <2>2, <2>3, <2>4, <2>5
<1>4. CASE O!Look(f)
  <2>1. opc[f] = "flushing" /\ UNCHANGED <<held, before>>
    BY <1>4 DEF O!Look
  <2>2. CASE held[f] = None \/ (held[f] # None /\ O!Runtime(f).pending = 0)
    <3>1. ASSUME NEW r \in before[f], held[r] = held[f] PROVE fate[r] \in {"exported", "dropped"}
      <4>1. r \in Spans /\ fate[r] \in {"queued", "exported", "dropped"}
        BY <2>1 DEF FlushInv, SpansTyped
      <4>2. ASSUME fate[r] = "queued" PROVE FALSE
        <5>1. held[r] \in O!Made /\ Holds(runtimes[held[r]], r) /\ runtimes[held[r]] \in GoodRuntimes
          BY <4>1, <4>2, MadeIs DEF FateInv, SpansTyped
        <5>2. held[f] # None /\ runtimes[held[r]].pending = 0
          <6>1. held[r] \in Nat
            BY <5>1, MadeIs DEF SpansTyped
          <6> QED BY <2>2, <3>1, <6>1 DEF O!Runtime, O!ObservabilityAssumption
        <5>3. ASSUME NEW rt \in GoodRuntimes, rt.pending = 0 PROVE ~Holds(rt, r)
          <6>1. Len(rt.queue) \in Nat /\ Busy(rt) \in Nat /\ Entered(rt) \in Nat
            BY DEF GoodRuntimes, RuntimeSet, Busy, Entered
          <6>2. Len(rt.queue) = 0 /\ Busy(rt) = 0
            BY <5>3, <6>1 DEF GoodRuntimes, RuntimeOK
          <6> QED BY <6>2 DEF Holds, Busy
        <5> QED BY <5>1, <5>2, <5>3
      <4> QED BY <4>1, <4>2
    <3>2. O!Goto(f, "flushed") /\ O!ReadUnlock(f)
      BY <1>4, <2>2 DEF O!Look
    <3> QED BY <1>3, <2>1, <3>1, <3>2
  <2>3. CASE ~(held[f] = None \/ (held[f] # None /\ O!Runtime(f).pending = 0))
    <3>1. O!Goto(f, "blocked") /\ UNCHANGED lock
      BY <1>4, <2>3 DEF O!Look
    <3> QED BY <1>3, <2>1, <3>1
  <2> QED BY <2>2, <2>3
<1>5. CASE O!Signal(f)
  BY <1>3, <1>5 DEF O!Signal
<1>6. CASE O!Expire(f)
  BY <1>3, <1>6 DEF O!Expire
<1> QED BY <1>2, <1>4, <1>5, <1>6

(* What a Reload or Close does before it closes a runtime. *)
LEMMA AwaitHolds == ASSUME O!ObservabilityAssumption, SpansInv, NEW c \in Reloads \cup {Closer}, O!Await(c) PROVE SpansInv'
<1> USE DEF SpansInv
<1> DEFINE n == Len(runtimes) + 1
<1>1. c \in O!Callers /\ opc[c] = "new" /\ O!Goto(c, "waiting") /\ UNCHANGED <<manager, fate, before>> /\ lock' = [lock EXCEPT !.waiting = @ \cup {c}]
      /\ runtimes' = (IF c \in Reloads THEN Append(runtimes, O!NewRuntime) ELSE runtimes)
      /\ held' = [held EXCEPT ![c] = IF c \in Reloads THEN n ELSE None]
  BY CallersAre DEF O!Await
<1>2. opc' \in [O!Callers -> CallerPoint] /\ opc'[c] = "waiting" /\ \A d \in O!Callers : d # c => opc'[d] = opc[d]
  BY <1>1, CallerMoved DEF CallerPoint
<1>m. O!Made = 1..Len(runtimes) /\ Len(runtimes) \in Nat /\ O!NewRuntime \in GoodRuntimes /\ O!NewRuntime.mutex = None /\ ~O!NewRuntime.closed
      /\ O!Callers' = O!Callers
  BY MadeIs, NewRuntimeGood DEF SpansTyped, O!Callers
<1>3. /\ runtimes' \in Seq(GoodRuntimes) /\ O!Made \subseteq O!Made' /\ \A j \in O!Made : runtimes'[j] = runtimes[j]
      /\ c \in Reloads => O!Made' = O!Made \cup {n} /\ runtimes'[n] = O!NewRuntime /\ n \notin O!Made
      /\ c \notin Reloads => O!Made' = O!Made
  <2>1. CASE c \in Reloads
    <3>1. /\ runtimes' \in Seq(GoodRuntimes) /\ Len(runtimes') = n /\ runtimes'[n] = O!NewRuntime /\ \A j \in 1..Len(runtimes) : runtimes'[j] = runtimes[j]
      BY <1>1, <1>m, <2>1, AppendProperties DEF SpansTyped
    <3>2. O!Made' = 1..n
      BY <3>1, LenProperties DEF O!Made
    <3>3. 1..n = (1..Len(runtimes)) \cup {n} /\ n \notin 1..Len(runtimes)
      BY <1>m
    <3> QED BY <1>m, <2>1, <3>1, <3>2, <3>3
  <2>2. CASE c \notin Reloads
    BY <1>1, <2>2 DEF O!Made, SpansTyped
  <2> QED BY <2>1, <2>2
<1> HIDE DEF n
<1>4. /\ held'[c] = (IF c \in Reloads THEN n ELSE None) /\ held' \in [O!Callers -> O!Made' \cup {None}]
      /\ \A d \in O!Callers : d # c => held'[d] = held[d]
  BY <1>1, <1>3 DEF SpansTyped
<1>5. SpansTyped'
  BY <1>1, <1>2, <1>3, <1>4, <1>m, ReadersKept DEF SpansTyped
<1>6. \A q \in Spans : opc[q] = "done" => opc'[q] = "done" /\ held'[q] = held[q]
  BY <1>1, <1>2, <1>4, CallersAre
<1>7. MutexInv'
  <2>1. \A j \in O!Made : runtimes[j].mutex # None => runtimes[j].mutex \in Spans
    BY MutexHeld
  <2>2. ASSUME NEW q \in Spans, opc'[q] = "counted" PROVE held'[q] \in O!Made' /\ runtimes'[held'[q]].mutex = q
    <3>1. q # c /\ opc[q] = "counted" /\ held'[q] = held[q]
      BY <1>2, <1>4, <2>2, CallersAre
    <3> QED BY <1>3, <3>1 DEF MutexInv
  <2>3. ASSUME NEW j \in O!Made', runtimes'[j].mutex # None PROVE opc'[runtimes'[j].mutex] = "counted" /\ held'[runtimes'[j].mutex] = j
    <3>1. j \in O!Made /\ runtimes'[j] = runtimes[j]
      BY <1>3, <1>m, <2>3
    <3>2. runtimes[j].mutex \in Spans /\ opc[runtimes[j].mutex] = "counted" /\ held[runtimes[j].mutex] = j
      BY <2>1, <2>3, <3>1 DEF MutexInv
    <3>3. runtimes[j].mutex # c
      BY <1>1, <3>2
    <3> QED BY <1>2, <1>4, <3>1, <3>2, <3>3, CallersAre
  <2> QED BY <2>2, <2>3 DEF MutexInv
<1>8. FateInv'
  BY <1>1, <1>3, <1>6 DEF FateInv
<1>9. FlushInv'
  <2>1. \A f \in Flushers : opc'[f] \in {"flushing", "blocked", "flushed", "expired"} => opc'[f] = opc[f] /\ held'[f] = held[f]
    BY <1>2, <1>4, CallersAre
  <2> QED BY <1>1, <1>6, <2>1 DEF FlushInv, SpansTyped
<1>10. OwnersInv'
  <2>1. \A d \in O!Callers : d # c => (Owns(d)' <=> Owns(d)) /\ (opc'[d] = "closing" => opc[d] = "closing") /\ held'[d] = held[d]
    BY <1>2, <1>4 DEF Owns
  <2>2. Owns(c)' => c \in Reloads /\ held'[c] = n
    BY <1>4 DEF Owns
  <2>3. \A d \in O!Callers : Owns(d) => held[d] \in O!Made
    BY DEF Owns, SpansTyped
  <2>4. manager.runtime # None => manager.runtime \in O!Made /\ runtimes'[manager.runtime] = runtimes[manager.runtime]
    BY <1>3 DEF SpansTyped
  <2>5. Owns(c)' => n # manager.runtime /\ ~runtimes'[n].closed /\ \A d \in O!Callers : Owns(d) => held[d] # n
    <3>1. n \in Nat
      BY <1>m DEF n
    <3> QED BY <1>3, <1>m, <2>2, <2>3, <2>4, <3>1 DEF O!ObservabilityAssumption
  <2>6. \A d \in O!Callers : Owns(d) => runtimes'[held[d]] = runtimes[held[d]]
    BY <1>3, <2>3
  <2>7. ASSUME NEW d \in O!Callers, NEW e \in O!Callers, Owns(d)', Owns(e)', d # e PROVE held'[d] # held'[e]
    BY <2>1, <2>2, <2>5, <2>7 DEF OwnersInv
  <2>8. ASSUME NEW d \in O!Callers, Owns(d)' PROVE held'[d] # manager'.runtime /\ ~runtimes'[held'[d]].closed
    <3>1. CASE d = c
      BY <1>1, <2>2, <2>5, <2>8, <3>1
    <3>2. CASE d # c
      BY <1>1, <2>1, <2>6, <2>8, <3>2 DEF OwnersInv
    <3> QED BY <3>1, <3>2
  <2>9. ASSUME NEW d \in O!Callers, opc'[d] = "closing" PROVE held'[d] # None
    BY <1>2, <2>1, <2>9 DEF OwnersInv
  <2>10. manager'.runtime # None => ~runtimes'[manager'.runtime].closed
    BY <1>1, <2>4 DEF OwnersInv
  <2> QED BY <1>m, <2>7, <2>8, <2>9, <2>10 DEF OwnersInv
<1> QED BY <1>5, <1>7, <1>8, <1>9, <1>10

LEMMA LockHolds == ASSUME O!ObservabilityAssumption, SpansInv, NEW c \in Reloads \cup {Closer}, O!Lock(c) PROVE SpansInv'
<1> USE DEF SpansInv
<1>1. /\ c \in O!Callers /\ opc[c] = "waiting" /\ O!Goto(c, "locked") /\ UNCHANGED <<runtimes, manager, held, fate, before>>
      /\ lock' = [lock EXCEPT !.writer = c, !.waiting = @ \ {c}] /\ held' \in [O!Callers -> O!Made \cup {None}]
  BY CallersAre DEF O!Lock, SpansTyped
<1>2. /\ MutexInv' /\ FateInv' /\ O!Made' = O!Made /\ O!Callers' = O!Callers
      /\ opc' \in [O!Callers -> CallerPoint] /\ opc'[c] = "locked" /\ \A d \in O!Callers : d # c => opc'[d] = opc[d]
      /\ \A q \in Spans : opc[q] = "done" => opc'[q] = "done" /\ held'[q] = held[q]
  BY <1>1, BystanderMoved DEF CallerPoint
<1>3. SpansTyped'
  BY <1>1, <1>2, ReadersKept DEF SpansTyped
<1>4. OwnersInv'
  <2>1. \A d \in O!Callers : (Owns(d)' <=> Owns(d)) /\ (opc'[d] = "closing" => opc[d] = "closing")
    BY <1>1, <1>2 DEF Owns
  <2> QED BY <1>1, <1>2, <2>1 DEF OwnersInv
<1>5. FlushInv'
  <2>1. \A f \in Flushers : opc'[f] \in {"flushing", "blocked", "flushed", "expired"} => opc'[f] = opc[f]
    BY <1>2, CallersAre
  <2> QED BY <1>1, <1>2, <2>1 DEF FlushInv, SpansTyped
<1> QED BY <1>2, <1>3, <1>4, <1>5

LEMMA SwapHolds == ASSUME O!ObservabilityAssumption, SpansInv, NEW c \in Reloads \cup {Closer}, O!Swap(c) PROVE SpansInv'
<1> USE DEF SpansInv
<1>1. /\ c \in O!Callers /\ opc[c] = "locked" /\ O!Goto(c, "swapped") /\ UNCHANGED <<runtimes, fate, before>>
      /\ lock' = [lock EXCEPT !.writer = None]
  BY CallersAre DEF O!Swap
<1>0. held[c] \in O!Made \cup {None} /\ manager.runtime \in O!Made \cup {None} /\ held \in [O!Callers -> O!Made \cup {None}]
  BY <1>1 DEF SpansTyped
<1>2. \E h \in O!Made \cup {None} :
        /\ held' = [held EXCEPT ![c] = h] /\ manager' \in [runtime : O!Made \cup {None}, closed : BOOLEAN]
        /\ \/ h \in {held[c], None} /\ UNCHANGED manager
           \/ h = manager.runtime /\ manager'.runtime \in {held[c], None}
  <2>1. CASE manager.closed
    <3>1. UNCHANGED manager /\ held' = [held EXCEPT ![c] = IF c \in Reloads THEN held[c] ELSE None]
      BY <1>0, <1>1, <2>1 DEF O!Swap
    <3> QED BY <1>0, <3>1 DEF SpansTyped
  <2>2. CASE ~manager.closed
    <3> DEFINE m == IF c \in Reloads THEN held[c] ELSE None
    <3>1. held' = [held EXCEPT ![c] = manager.runtime]
      BY <2>2 DEF O!Swap
    <3>2. \E b \in BOOLEAN : manager' = [runtime |-> m, closed |-> b]
      BY <2>2 DEF O!Swap
    <3>3. m \in {held[c], None} /\ m \in O!Made \cup {None}
      BY <1>0
    <3> HIDE DEF m
    <3>4. manager' \in [runtime : O!Made \cup {None}, closed : BOOLEAN] /\ manager'.runtime = m
      BY <3>2, <3>3
    <3> QED BY <1>0, <3>1, <3>3, <3>4
  <2> QED BY <2>1, <2>2
<1>3. PICK h \in O!Made \cup {None} :
        /\ held' = [held EXCEPT ![c] = h] /\ manager' \in [runtime : O!Made \cup {None}, closed : BOOLEAN]
        /\ \/ h \in {held[c], None} /\ UNCHANGED manager
           \/ h = manager.runtime /\ manager'.runtime \in {held[c], None}
  BY <1>2
<1>4. opc' \in [O!Callers -> CallerPoint] /\ opc'[c] = "swapped" /\ \A d \in O!Callers : d # c => opc'[d] = opc[d]
  BY <1>1, CallerMoved DEF CallerPoint
<1>5. held' \in [O!Callers -> O!Made \cup {None}] /\ held'[c] = h /\ \A d \in O!Callers : d # c => held'[d] = held[d]
  BY <1>0, <1>1, <1>3
<1>6. O!Made' = O!Made /\ O!Callers' = O!Callers
  BY <1>1 DEF O!Made, O!Callers
<1>7. SpansTyped'
  BY <1>1, <1>3, <1>4, <1>5, <1>6, ReadersKept DEF SpansTyped
<1>8. MutexInv'
  <2>1. \A i \in O!Made : runtimes[i].mutex # None => runtimes[i].mutex \in Spans
    BY MutexHeld
  <2>2. ASSUME NEW q \in Spans, opc'[q] = "counted" PROVE held'[q] \in O!Made' /\ runtimes'[held'[q]].mutex = q
    BY <1>1, <1>4, <1>5, <1>6, <2>2, CallersAre DEF MutexInv
  <2>3. ASSUME NEW j \in O!Made', runtimes'[j].mutex # None PROVE opc'[runtimes'[j].mutex] = "counted" /\ held'[runtimes'[j].mutex] = j
    <3>1. runtimes[j].mutex \in Spans /\ opc[runtimes[j].mutex] = "counted" /\ held[runtimes[j].mutex] = j
      BY <1>1, <1>6, <2>1, <2>3 DEF MutexInv
    <3>2. runtimes[j].mutex # c
      BY <1>1, <3>1
    <3> QED BY <1>1, <1>4, <1>5, <3>1, <3>2, CallersAre
  <2> QED BY <2>2, <2>3 DEF MutexInv
<1>9. \A q \in Spans : opc[q] = "done" => opc'[q] = "done" /\ held'[q] = held[q]
  BY <1>1, <1>4, <1>5, CallersAre
<1>10. FateInv'
  BY <1>1, <1>6, <1>9 DEF FateInv
<1>11. FlushInv'
  <2>1. \A f \in Flushers : opc'[f] \in {"flushing", "blocked", "flushed", "expired"} => opc'[f] = opc[f] /\ held'[f] = held[f]
    BY <1>4, <1>5, CallersAre
  <2> QED BY <1>1, <1>9, <2>1 DEF FlushInv, SpansTyped
<1>12. OwnersInv'
  <2>1. \A d \in O!Callers : d # c => (Owns(d)' <=> Owns(d)) /\ (opc'[d] = "closing" => opc[d] = "closing") /\ held'[d] = held[d]
    BY <1>4, <1>5 DEF Owns
  <2>2. (Owns(c) <=> held[c] # None) /\ (Owns(c)' <=> h # None)
    BY <1>1, <1>4, <1>5 DEF Owns
  <2>3. h # None => ~runtimes[h].closed /\ \A d \in O!Callers : d # c /\ Owns(d) => held[d] # h
    BY <1>1, <1>3, <2>2 DEF OwnersInv
  <2>4. h # None => h # manager'.runtime
    BY <1>1, <1>3, <2>2 DEF OwnersInv
  <2>5. manager'.runtime # None => ~runtimes[manager'.runtime].closed /\ \A d \in O!Callers : d # c /\ Owns(d) => held[d] # manager'.runtime
    BY <1>1, <1>3, <2>2 DEF OwnersInv
  <2>6. ASSUME NEW d \in O!Callers, NEW e \in O!Callers, Owns(d)', Owns(e)', d # e PROVE held'[d] # held'[e]
    BY <1>5, <2>1, <2>2, <2>3, <2>6 DEF OwnersInv
  <2>7. ASSUME NEW d \in O!Callers, Owns(d)' PROVE held'[d] # manager'.runtime /\ ~runtimes'[held'[d]].closed
    <3>1. CASE d = c
      BY <1>1, <1>5, <2>2, <2>3, <2>4, <2>7, <3>1
    <3>2. CASE d # c
      <4>1. Owns(d) /\ held'[d] = held[d] /\ held[d] # None /\ ~runtimes[held[d]].closed
        BY <2>1, <2>7, <3>2 DEF OwnersInv, Owns
      <4> QED BY <1>1, <2>5, <3>2, <4>1
    <3> QED BY <3>1, <3>2
  <2>8. ASSUME NEW d \in O!Callers, opc'[d] = "closing" PROVE held'[d] # None
    BY <1>4, <2>1, <2>8 DEF OwnersInv
  <2>9. manager'.runtime # None => ~runtimes'[manager'.runtime].closed
    BY <1>1, <2>5
  <2> QED BY <1>6, <2>6, <2>7, <2>8, <2>9 DEF OwnersInv
<1> QED BY <1>7, <1>8, <1>10, <1>11, <1>12

LEMMA CloseQueueHolds == ASSUME O!ObservabilityAssumption, SpansInv, NEW c \in Reloads \cup {Closer}, O!CloseQueue(c) PROVE SpansInv'
<1> USE DEF SpansInv
<1>1. c \in O!Callers /\ opc[c] = "swapped" /\ UNCHANGED <<manager, lock, held, fate, before>> /\ held[c] \in O!Made \cup {None}
      /\ held' \in [O!Callers -> O!Made \cup {None}]
  BY CallersAre DEF O!CloseQueue, SpansTyped
<1>2. CASE held[c] = None
  <2>1. O!Goto(c, "done") /\ UNCHANGED runtimes
    BY <1>2 DEF O!CloseQueue
  <2>2. /\ MutexInv' /\ FateInv' /\ O!Made' = O!Made /\ O!Callers' = O!Callers
        /\ opc' \in [O!Callers -> CallerPoint] /\ opc'[c] = "done" /\ \A d \in O!Callers : d # c => opc'[d] = opc[d]
        /\ \A q \in Spans : opc[q] = "done" => opc'[q] = "done" /\ held'[q] = held[q]
    BY <1>1, <2>1, BystanderMoved DEF CallerPoint
  <2>3. SpansTyped'
    BY <1>1, <2>1, <2>2 DEF SpansTyped
  <2>4. OwnersInv'
    <3>1. \A d \in O!Callers : (Owns(d)' <=> Owns(d)) /\ (opc'[d] = "closing" => opc[d] = "closing")
      BY <1>1, <1>2, <2>2 DEF Owns
    <3> QED BY <1>1, <2>1, <2>2, <3>1 DEF OwnersInv
  <2>5. FlushInv'
    <3>1. \A f \in Flushers : opc'[f] \in {"flushing", "blocked", "flushed", "expired"} => opc'[f] = opc[f]
      BY <2>2, CallersAre
    <3> QED BY <1>1, <2>2, <3>1 DEF FlushInv, SpansTyped
  <2> QED BY <2>2, <2>3, <2>4, <2>5
<1>3. CASE held[c] # None
  <2> DEFINE i == held[c]
             rt == runtimes[i]
             b == rt.panicked \/ rt.closed
             x == [rt EXCEPT !.panicked = b, !.closed = TRUE]
  <2>1. i \in O!Made /\ rt \in GoodRuntimes /\ ~rt.closed /\ Owns(c)
    BY <1>1, <1>3, MadeIs DEF OwnersInv, Owns, SpansTyped
  <2>2. rt.mutex = None /\ O!Goto(c, "closing")
    BY <1>3 DEF O!CloseQueue, O!Runtime
  <2>3. runtimes' = [runtimes EXCEPT ![i] = x]
    BY <1>3 DEF O!CloseQueue, O!Runtime
  <2>b. b \in BOOLEAN /\ b = (rt.panicked \/ rt.closed)
    BY <2>1 DEF GoodRuntimes, RuntimeSet
  <2> HIDE DEF b
  <2>4. x \in GoodRuntimes /\ x.mutex = rt.mutex /\ x.closed /\ \A q : Holds(rt, q) => Holds(x, q)
    BY <2>1, <2>2, <2>b, ClosedGood
  <2> HIDE DEF x
  <2>5. runtimes' \in Seq(GoodRuntimes) /\ O!Made' = O!Made /\ runtimes'[i] = x /\ \A j \in O!Made : j # i => runtimes'[j] = runtimes[j]
    BY <2>1, <2>3, <2>4, Changed1 DEF SpansTyped
  <2>6. opc' \in [O!Callers -> CallerPoint] /\ opc'[c] = "closing" /\ \A d \in O!Callers : d # c => opc'[d] = opc[d]
    BY <1>1, <2>2, CallerMoved DEF CallerPoint
  <2>7. \A j \in O!Made : runtimes'[j].mutex = runtimes[j].mutex /\ \A q : Holds(runtimes[j], q) => Holds(runtimes'[j], q)
    BY <2>4, <2>5
  <2>8. SpansTyped'
    BY <1>1, <2>5, <2>6 DEF SpansTyped, O!Callers
  <2>9. MutexInv'
    <3>1. \A j \in O!Made : runtimes[j].mutex # None => runtimes[j].mutex \in Spans
      BY MutexHeld
    <3>2. \A d \in O!Callers : opc'[d] = "counted" <=> opc[d] = "counted"
      BY <1>1, <2>6
    <3> QED BY <1>1, <2>5, <2>7, <3>1, <3>2, CallersAre DEF MutexInv
  <2>10. OwnersInv'
    <3>1. \A d \in O!Callers : Owns(d)' => Owns(d) /\ d # c
      BY <1>1, <2>6 DEF Owns
    <3>2. \A d \in O!Callers : Owns(d) /\ d # c => held[d] # i /\ held[d] \in O!Made
      BY <1>1, <2>1 DEF OwnersInv, Owns, SpansTyped
    <3>3. manager.runtime # i /\ (manager.runtime # None => manager.runtime \in O!Made)
      BY <1>1, <2>1 DEF OwnersInv, SpansTyped
    <3>4. ASSUME NEW d \in O!Callers, Owns(d)' PROVE held'[d] # manager'.runtime /\ ~runtimes'[held'[d]].closed
      BY <1>1, <2>5, <3>1, <3>2, <3>4 DEF OwnersInv
    <3>5. ASSUME NEW d \in O!Callers, opc'[d] = "closing" PROVE held'[d] # None
      BY <1>1, <1>3, <2>6, <3>5 DEF OwnersInv
    <3>6. manager'.runtime # None => ~runtimes'[manager'.runtime].closed
      BY <1>1, <2>5, <3>3 DEF OwnersInv
    <3>7. ASSUME NEW d \in O!Callers, NEW e \in O!Callers, Owns(d)', Owns(e)', d # e PROVE held'[d] # held'[e]
      BY <1>1, <3>1, <3>7 DEF OwnersInv
    <3>8. O!Callers' = O!Callers
      BY DEF O!Callers
    <3> QED BY <3>4, <3>5, <3>6, <3>7, <3>8 DEF OwnersInv
  <2>11. \A q \in Spans : opc[q] = "done" => opc'[q] = "done"
    BY <1>1, <2>6, CallersAre
  <2>12. FateInv'
    <3>1. \A q \in Spans : fate'[q] = "queued" => opc[q] = "done" /\ held[q] \in O!Made /\ Holds(runtimes[held[q]], q)
      BY <1>1 DEF FateInv
    <3> QED BY <1>1, <2>5, <2>7, <2>11, <3>1 DEF FateInv
  <2>13. FlushInv'
    <3>1. \A f \in Flushers : opc'[f] \in {"flushing", "blocked", "flushed", "expired"} => opc'[f] = opc[f]
      BY <2>6, CallersAre
    <3> QED BY <1>1, <2>11, <3>1 DEF FlushInv, SpansTyped
  <2> QED BY <2>8, <2>9, <2>10, <2>12, <2>13
<1> QED BY <1>2, <1>3

LEMMA CloseExporterHolds == ASSUME O!ObservabilityAssumption, SpansInv, NEW c \in Reloads \cup {Closer}, O!CloseExporter(c) PROVE SpansInv'
<1> DEFINE i == held[c]
           rt == runtimes[i]
           x == [rt EXCEPT !.connected = FALSE]
<1>1. c \in O!Callers /\ opc[c] = "closing" /\ rt.worker = "gone" /\ O!Goto(c, "done") /\ UNCHANGED <<manager, lock, held, fate, before>>
  BY CallersAre DEF O!CloseExporter, O!WorkersDone, O!Runtime
<1>2. i \in O!Made /\ rt \in GoodRuntimes
  BY <1>1, MadeIs DEF SpansInv, SpansTyped, OwnersInv
<1>3. runtimes' = [runtimes EXCEPT ![i] = x]
  BY DEF O!CloseExporter
<1>4. x \in GoodRuntimes /\ x.mutex = rt.mutex /\ x.closed = rt.closed /\ \A q : Holds(rt, q) => Holds(x, q)
  BY <1>1, <1>2, DisconnectedGood
<1>5. opc' \in [O!Callers -> CallerPoint] /\ opc'[c] = "done" /\ \A d \in O!Callers : d # c => opc'[d] = opc[d]
  BY <1>1, CallerMoved DEF CallerPoint
<1> HIDE DEF x
<1> QED BY <1>1, <1>2, <1>3, <1>4, <1>5, WorkerKept

LEMMA SpansKept == ASSUME O!ObservabilityAssumption, SpansInv, O!Next PROVE SpansInv'
<1>1. ASSUME NEW r \in Spans, O!RecordHTTP(r) \/ O!Skip(r) \/ O!Count(r) \/ O!Send(r) PROVE SpansInv'
  BY <1>1, RequestStepHolds, CountHolds, SendHolds
<1>2. ASSUME NEW i \in O!Made, O!Take(i) \/ O!Answered(i) \/ O!Refused(i) \/ O!CompletePending(i) \/ O!WorkerEnds(i) PROVE SpansInv'
  BY <1>2, WorkerStepKept
<1>3. ASSUME NEW f \in Flushers, O!Flush(f) \/ O!Look(f) \/ O!Signal(f) \/ O!Expire(f) PROVE SpansInv'
  BY <1>3, FlushStepHolds
<1>4. ASSUME NEW c \in Reloads \cup {Closer}, O!Await(c) \/ O!Lock(c) \/ O!Swap(c) \/ O!CloseQueue(c) \/ O!CloseExporter(c) PROVE SpansInv'
  BY <1>4, AwaitHolds, LockHolds, SwapHolds, CloseQueueHolds, CloseExporterHolds
<1> QED BY <1>1, <1>2, <1>3, <1>4 DEF O!Next

LEMMA SpansHoldIn == ASSUME O!ObservabilityAssumption, SpansInv PROVE O!TypeOK /\ O!SpansHold
<1> USE DEF SpansInv
<1>m. \A i \in O!Made : runtimes[i] \in GoodRuntimes
  BY MadeIs DEF SpansTyped
<1>1. O!TypeOK
  <2>1. \A i \in O!Made : runtimes[i].pending \in Nat /\ Len(runtimes[i].queue) <= QueueSize /\ runtimes[i].worker \in {"idle", "sending", "sent", "gone"}
    BY <1>m DEF GoodRuntimes, RuntimeSet, RuntimeOK
  <2> QED BY <2>1 DEF SpansTyped, O!TypeOK
<1>2. ASSUME NEW i \in O!Made
      PROVE  LET rt == runtimes[i]
             IN  /\ ~rt.panicked
                 /\ rt.pending = Len(rt.queue) + (IF rt.worker \in {"sending", "sent"} THEN 1 ELSE 0)
                                 + Cardinality({r \in Spans : opc[r] = "counted" /\ held[r] = i})
                 /\ rt.worker = "gone" => rt.pending = 0
                 /\ ~rt.connected => rt.worker = "gone"
  <2> DEFINE rt == runtimes[i]
             C == {r \in Spans : opc[r] = "counted" /\ held[r] = i}
  <2>1. RuntimeOK(rt) /\ rt \in RuntimeSet
    BY <1>m DEF GoodRuntimes
  <2>2. Cardinality(C) = Entered(rt)
    <3>1. CASE rt.mutex = None
      <4>1. C = {}
        BY <3>1 DEF MutexInv, O!ObservabilityAssumption
      <4> QED BY <3>1, <4>1, FS_EmptySet DEF Entered
    <3>2. CASE rt.mutex # None
      <4>1. rt.mutex \in Spans /\ opc[rt.mutex] = "counted" /\ held[rt.mutex] = i
        BY <3>2, MutexHeld DEF MutexInv
      <4>2. C = {rt.mutex}
        BY <4>1 DEF MutexInv
      <4> QED BY <3>2, <4>2, FS_Singleton DEF Entered
    <3> QED BY <3>1, <3>2
  <2>3. rt.pending = Len(rt.queue) + Busy(rt) + Entered(rt)
    BY <2>1 DEF RuntimeOK
  <2>4. rt.worker = "gone" => Busy(rt) = 0 /\ Entered(rt) = 0 /\ Len(rt.queue) = 0
    BY <2>1 DEF RuntimeOK, Busy, Entered
  <2>5. rt.worker = "gone" => rt.pending = 0
    BY <2>3, <2>4
  <2> HIDE DEF C
  <2>6. rt.pending = Len(rt.queue) + (IF rt.worker \in {"sending", "sent"} THEN 1 ELSE 0) + Cardinality(C)
    BY <2>2, <2>3 DEF Busy
  <2> QED BY <2>1, <2>5, <2>6 DEF RuntimeOK, C
<1>3. \A f \in Flushers : opc[f] = "flushed" => \A r \in before[f] : held[r] = held[f] => fate[r] \in {"exported", "dropped"}
  BY DEF FlushInv
<1>4. \A S : O!Cardinality(S) = Cardinality(S)
  BY DEF O!Cardinality, Cardinality
<1>5. ASSUME NEW i \in O!Made
      PROVE  LET rt == runtimes[i]
             IN  /\ ~rt.panicked
                 /\ rt.pending = Len(rt.queue) + (IF rt.worker \in {"sending", "sent"} THEN 1 ELSE 0)
                                 + O!Cardinality({r \in Spans : opc[r] = "counted" /\ held[r] = i})
                 /\ rt.worker = "gone" => rt.pending = 0
                 /\ ~rt.connected => rt.worker = "gone"
  BY <1>2, <1>4
<1> QED BY <1>1, <1>3, <1>5 DEF O!SpansHold

-----------------------------------------------------------------------------
(* The server. *)

allVars == <<part, settingsVars, filesVars, importsVars, backupsVars, spansVars, processVars>>
ServerInv == FilesInv /\ StagesInv /\ ImportsInv /\ BackupsInv /\ SpansInv /\ ProcessInv

(* What a part's invariant speaks of are its own variables. *)
LEMMA FilesStay == ASSUME FilesInv, UNCHANGED filesVars PROVE FilesInv'
<1> USE DEF filesVars
<1>1. FileTypes'
  BY DEF FilesInv, FileTypes, ReqTypes, StoreTypes, PassTypes
<1>2. (\A u \in Uploads : UploadInv(u))' /\ (\A f \in Uploads : FileInv(f))' /\ KeyInv'
  BY DEF FilesInv, ActorsInv, UploadInv, FileInv, KeyInv, HasObject, Gone, F!Exists
<1>3. (\A e \in Editors : EditorInv(e))' /\ (\A m \in Cleaners : CleanerInv(m))'
  BY DEF FilesInv, ActorsInv, EditorInv, CleanerInv, HasObject, Gone, GoneAs, F!Exists, F!item
<1> QED BY <1>1, <1>2, <1>3 DEF FilesInv, ActorsInv
LEMMA StagesStill == ASSUME StagesInv, UNCHANGED filesVars PROVE StagesInv'
BY DEF filesVars, StagesInv, StageInv, Uploading, F!Passed
LEMMA ImportsStay == ASSUME ImportsInv, UNCHANGED importsVars PROVE ImportsInv'
BY DEF importsVars, ImportsInv, JobsInv, RowsInv, TasksInv, AskedInv, WorkInv, OperatorsInv, FaultsInv
LEMMA BackupsStay == ASSUME BackupsInv, UNCHANGED backupsVars PROVE BackupsInv'
BY DEF backupsVars, BackupsInv, B!TypeOK
LEMMA SpansStay == ASSUME SpansInv, UNCHANGED spansVars PROVE SpansInv'
<1> USE DEF spansVars, O!Made
<1>1. SpansTyped'
  BY DEF SpansInv, SpansTyped
<1>2. MutexInv' /\ FateInv'
  BY DEF SpansInv, MutexInv, FateInv
<1>3. OwnersInv' /\ FlushInv'
  BY DEF SpansInv, OwnersInv, FlushInv, Owns
<1> QED BY <1>1, <1>2, <1>3 DEF SpansInv
LEMMA ProcessStay == ASSUME ProcessInv, UNCHANGED processVars PROVE ProcessInv'
<1> USE DEF processVars, L!HasDatabase
<1>1. ProcessTyped' /\ Bound' = Bound /\ Loaded' = Loaded /\ L!HasDatabase' = L!HasDatabase
  BY DEF ProcessInv, ProcessTyped, Bound, Loaded
<1>2. OrderInv'
  BY <1>1 DEF ProcessInv, OrderInv
<1>3. OpenInv' /\ DependedInv'
  BY DEF ProcessInv, OpenInv, DependedInv, Registered
<1>4. PreparedInv' /\ StoppedInv'
  BY <1>1 DEF ProcessInv, PreparedInv, StoppedInv
<1> QED BY <1>1, <1>2, <1>3, <1>4 DEF ProcessInv

LEMMA ServerStart == MCInit => ServerInv
<1> SUFFICES ASSUME MCInit PROVE ServerInv
  OBVIOUS
<1>1. FilesInv /\ StagesInv
  BY MCAssumption, FilesStart, StagesStart DEF MCInit, FilesInit, FilesRest
<1>2. ImportsInv
  BY MCAssumption, ImportsStart DEF MCInit, ImportsInit, ImportsRest
<1>3. BackupsInv /\ SpansInv
  BY MCAssumption, BackupsStart, SpansStart DEF MCInit
<1>4. ProcessInv
  BY MCAssumption, ProcessStart DEF MCInit, ProcessRest
<1> QED BY <1>1, <1>2, <1>3, <1>4 DEF ServerInv

LEMMA ServerKept == ServerInv /\ [MCNext]_allVars => ServerInv'
<1> SUFFICES ASSUME ServerInv, [MCNext]_allVars PROVE ServerInv'
  OBVIOUS
<1>1. FilesInv' /\ StagesInv'
  <2>1. F!Next \/ UNCHANGED filesVars
    BY DEF MCNext, allVars
  <2> QED BY <2>1, MCAssumption, FilesKept, FilesStay, StagesKept, StagesStill DEF ServerInv
<1>2. ImportsInv'
  <2>1. I!Next \/ UNCHANGED importsVars
    BY DEF MCNext, allVars
  <2> QED BY <2>1, MCAssumption, ImportsKept, ImportsStay DEF ServerInv
<1>3. BackupsInv'
  <2>1. B!Next \/ UNCHANGED backupsVars
    BY DEF MCNext, allVars
  <2> QED BY <2>1, MCAssumption, BackupsKept, BackupsStay DEF ServerInv
<1>4. SpansInv'
  <2>1. O!Next \/ UNCHANGED spansVars
    BY DEF MCNext, allVars
  <2> QED BY <2>1, MCAssumption, SpansKept, SpansStay DEF ServerInv
<1>5. ProcessInv'
  <2>1. L!Next \/ UNCHANGED processVars
    BY DEF MCNext, allVars
  <2> QED BY <2>1, MCAssumption, ProcessKept, ProcessStay DEF ServerInv
<1> QED BY <1>1, <1>2, <1>3, <1>4, <1>5 DEF ServerInv

(* In every reachable state the five parts keep their invariants. *)
THEOREM ServerAlways == MCSpec => []ServerInv
<1>1. MCSpec => MCInit /\ [][MCNext]_allVars
  BY DEF MCSpec, allVars
<1> QED BY <1>1, ServerStart, ServerKept, PTL

(* On one server, beside everything else that it stores and holds open, a revision of the   *)
(* module has one committed winner and what is stored is a combination that validates.      *)
THEOREM ServerSaves == ASSUME OneServer PROVE MCSpec => []SettingsHold
<1>1. MCInit => SavesInv
  BY MCAssumption, SavesStart DEF MCInit, MCAssumption
<1>2. SavesInv /\ [MCNext]_allVars => SavesInv'
  <2> SUFFICES ASSUME SavesInv, [MCNext]_allVars PROVE SavesInv'
    OBVIOUS
  <2>1. [Next]_vars
    BY DEF MCNext, allVars, settingsVars
  <2> QED BY <2>1, MCAssumption, SavesKept DEF MCAssumption
<1>3. SavesInv => SettingsHold
  BY SavesHoldIn
<1>4. MCSpec => MCInit /\ [][MCNext]_allVars
  BY DEF MCSpec, allVars
<1> QED BY <1>1, <1>2, <1>3, <1>4, PTL

(* An upload that was answered has its object where its row says, and a file in use keeps   *)
(* it; a deletion that ended leaves neither object nor staging object, and a failed row at  *)
(* most the object that it names; a key answers with one file: for any uploads, editors,    *)
(* deleters, passes of the maintenance, crashes and faults of store or database.  Excepted  *)
(* are the rows that an Update ran over (overtaken), deletions that were forced on a file    *)
(* in use (forced), and the uploads that promote, or stage and break off, when the deletion *)
(* is past them already (late, left).                                                        *)
THEOREM ServerFiles == MCSpec => []FilesHold
<1>1. ServerInv => FilesHold
  BY FilesHoldIn DEF ServerInv, FilesHold
<1> QED BY <1>1, ServerAlways, PTL

(* Imports keep their counts and attempts bounded, a restore replays the dump whose         *)
(* description it read, spans are conserved and no channel is closed twice, and what the    *)
(* process opened is closed in the order that its users need.                               *)
THEOREM ServerParts == MCSpec => []ServerHolds
<1>1. ServerInv => ServerHolds
  BY MCAssumption, ImportsTyped, BackupsHoldIn, SpansHoldIn, ProcessHolds DEF ServerInv, ServerHolds
<1> QED BY <1>1, ServerAlways, PTL

(* No step takes a deletion back but an Update that ran over it, and none a cancellation    *)
(* but a retry or the answer that crossed it.                                               *)
THEOREM ServerKeeps == MCSpec => KeptForGood
<1> DEFINE Deleted == \A f \in Uploads :
                         \/ f \in overtaken'
                         \/ row[f].status = "deleting" /\ row'[f].status \in {"deleting", "deleted"}
                         \/ row[f].status = "deleted" /\ row'[f].status = "deleted"
                         \/ row[f].status \notin {"deleting", "deleted"}
<1>1. ServerInv /\ [MCNext]_allVars => [Deleted]_(F!vars)
  <2> SUFFICES ASSUME ServerInv, [MCNext]_allVars PROVE [Deleted]_(F!vars)
    OBVIOUS
  <2>1. F!Next \/ UNCHANGED filesVars
    BY DEF MCNext, allVars
  <2>2. CASE F!Next
    <3>1. \A f \in Uploads : FileStep(f)
      BY <2>2, MCAssumption, FilesKept DEF ServerInv
    <3> QED BY <3>1, StepKeepsDeletion
  <2>3. CASE UNCHANGED filesVars
    BY <2>3 DEF filesVars, F!vars, F!history
  <2> QED BY <2>1, <2>2, <2>3
<1>2. ServerInv /\ [MCNext]_allVars => [KeepsCancel]_(I!vars)
  <2> SUFFICES ASSUME ServerInv, [MCNext]_allVars PROVE [KeepsCancel]_(I!vars)
    OBVIOUS
  <2>1. I!Next \/ UNCHANGED importsVars
    BY DEF MCNext, allVars
  <2>2. CASE I!Next
    BY <2>2, MCAssumption, StepKeepsCancel DEF ServerInv
  <2>3. CASE UNCHANGED importsVars
    BY <2>3 DEF importsVars, I!vars
  <2> QED BY <2>1, <2>2, <2>3
<1>3. MCSpec => [][MCNext]_allVars
  BY DEF MCSpec, allVars
<1>4. MCSpec => F!DeletionHolds
  BY <1>1, <1>3, ServerAlways, PTL DEF F!DeletionHolds
<1>5. MCSpec => I!CancelHolds
  BY <1>2, <1>3, ServerAlways, PTL DEF I!CancelHolds, KeepsCancel, Excused
<1> QED BY <1>4, <1>5 DEF KeptForGood
=============================================================================
