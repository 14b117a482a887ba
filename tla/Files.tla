--------------------------------- MODULE Files ---------------------------------
(***************************************************************************)
(* The life of an uploaded file: a row of gvba_storage_file_objects in the *)
(* database and an object in the provider's store (application/file,       *)
(* platform/fileplatform).  No transaction spans the two, so an upload is  *)
(* a chain of steps - row, staging object, key, promotion, ready - that    *)
(* may stop anywhere, and the maintenance loop of every server             *)
(* (bootstrap/app.go) finishes, fails or deletes what it finds.            *)
(*                                                                         *)
(* GORMRepository.Update reads the row, judges the transition and then     *)
(* writes by id alone: what happens in between is overwritten; and a PATCH *)
(* of a pending row brings back the object key that the upload has just   *)
(* replaced.  overtaken records the files to which either has happened     *)
(* and lost something.                                                     *)
(*                                                                         *)
(* Left out: contents, MIME rules and sizes (an upload is valid or not),   *)
(* access rules, categories, signed URLs, presets, providers without a     *)
(* staging area.                                                           *)
(***************************************************************************)
EXTENDS Naturals, FiniteSets, Sequences

CONSTANTS
    Uploads,        \* upload requests, each with the file it would create
    Editors,        \* PATCH requests for a file's metadata
    Deleters,       \* DELETE requests
    Cleaners,       \* the maintenance goroutines, one per server
    Keyed,          \* the uploads that carry the one Idempotency-Key considered
    Limit,          \* rows a maintenance pass lists (100 in the code)
    MaxFaults,      \* bound on failed calls and crashes
    NoUpload

FilesAssumption ==
    /\ Keyed \subseteq Uploads /\ Editors \cap Deleters = {} /\ Uploads \cap (Editors \cup Deleters) = {}
    /\ Limit \in Nat \ {0} /\ MaxFaults \in Nat
    /\ NoUpload \notin Uploads \cup Editors \cup Deleters

VARIABLES
    row,            \* gvba_storage_file_objects
    order,          \* the rows in the order of updated_at
    staged,         \* .staging/<id> of the store
    object,         \* the final keys of each file that hold an object
    used,           \* files with a live row in gvba_storage_media_usages
    old,            \* files whose row is more than an hour old
    pc, loc,        \* requests and their locals
    mpc, mloc,      \* maintenance goroutines and the rows they have listed
    idemMu, idem,   \* CatalogAdapter.idemMu and .idem, for the one key
    returned,       \* history: the file each upload has answered with
    overtaken,      \* history: files of which an Update wrote over a change it had not
                    \*   read, or whose key a PATCH took back
    forced,         \* history: files whose deletion was forced
    late,           \* history: files promoted after the deletion was past their object
    left,           \* history: files whose upload broke off and left a staging object after
                    \*   the deletion was past it
    faults

store   == <<staged, object>>
history == <<returned, overtaken, forced, late, left>>
keys    == <<idemMu, idem>>
vars    == <<row, order, staged, object, used, old, pc, loc, mpc, mloc,
             idemMu, idem, history, faults>>

Requests == Uploads \cup Editors \cup Deleters
Status   == {"absent", "pending", "ready", "failed", "damaged", "deleting", "deleted"}
Key      == {"declared", "detected"}    \* dateObjectKey with either extension
Row      == [status : Status, key : Key]
NoRow    == [status |-> "absent", key |-> "declared"]
Exists(f) == row[f].status # "absent"

Idle == [file |-> NoUpload, copy |-> NoRow, seen |-> NoRow]
Listed == [file : Uploads, copy : Row, seen : Row]

(* The requests that will come, and the servers whose maintenance runs. *)
Start(requests, running) ==
    /\ row = [f \in Uploads |-> NoRow] /\ order = <<>>
    /\ staged = {} /\ object = [f \in Uploads |-> {}] /\ used = {} /\ old = {}
    /\ pc = [r \in Requests |-> IF r \in requests THEN "new" ELSE "done"]
    /\ loc = [r \in Requests |-> Idle]
    /\ mpc = [m \in Cleaners |-> IF m \in running THEN "reconcile" ELSE "off"] /\ mloc = [m \in Cleaners |-> <<>>]
    /\ idemMu = NoUpload /\ idem = NoUpload
    /\ returned = [u \in Uploads |-> NoUpload]
    /\ overtaken = {} /\ forced = {} /\ late = {} /\ left = {} /\ faults = 0
Init == Start(Requests, Cleaners)

-----------------------------------------------------------------------------
(* The repository. *)

(* A statement that changes the row of f, which becomes the latest. *)
Write(f, r) ==
    /\ row' = [row EXCEPT ![f] = r]
    /\ order' = IF Exists(f)
                THEN [i \in DOMAIN order |-> IF i = Len(order) THEN f
                                             ELSE IF f \in {order[j] : j \in 1..i} THEN order[i + 1] ELSE order[i]]
                ELSE Append(order, f)

(* The Limit rows of a status that come first, as the one sequence of their places in order. *)
ListByStatus(status) ==
    LET with  == {i \in DOMAIN order : row[order[i]].status = status}
        first == {i \in with : Cardinality({j \in with : j < i}) < Limit}
    IN  {found \in [1..Cardinality(first) -> first] : \A i, j \in DOMAIN found : i < j => found[i] < found[j]}

(* Mutant of the next: whatever is not settled may become ready. *)
AnyToReady(from, to) == from = to \/ (from \in {"pending", "deleting"} /\ to = "ready")

repositoryUpdateTransition(from, to) == from = to \/ (from = "pending" /\ to = "ready")

(* The first half of Update: is the new row acceptable beside the stored one? *)
UpdateAccepts(f, new) ==
    /\ Exists(f)
    /\ row[f].status = "pending" \/ new.key = row[f].key
    /\ repositoryUpdateTransition(row[f].status, new.status)
(* The second half: new is written, whatever the row holds by then.  seen is the row  *)
(* that the first half has judged; nothing is lost where somebody else has written it *)
(* the same.                                                                          *)
UpdateWrite(f, new, seen) ==
    /\ Write(f, new)
    /\ overtaken' = IF row[f] \notin {seen, new} THEN overtaken \cup {f} ELSE overtaken

repositoryStatusTransition(from, to) ==
    \/ from = to
    \/ from = "pending" /\ to \in {"ready", "failed", "deleting"}
    \/ from = "ready" /\ to \in {"damaged", "deleting"}
    \/ from \in {"failed", "damaged"} /\ to \in {"pending", "deleting"}
    \/ from = "deleting" /\ to = "deleted"

(* MarkStatus writes only if the status is still the one it has judged. *)
MarkStatus(f, status) ==
    IF repositoryStatusTransition(row[f].status, status)
    THEN Write(f, [row[f] EXCEPT !.status = status])
    ELSE UNCHANGED <<row, order>>

Failing == faults < MaxFaults /\ faults' = faults + 1
Fine    == UNCHANGED faults

-----------------------------------------------------------------------------
(* CatalogAdapter.Upload and Service.Upload. *)

At(r, l)   == pc[r] = l
Goto(r, l) == pc' = [pc EXCEPT ![r] = l]

(* A deletion of u is carried out, or some server is at one of these points of it. *)
Passed(u, points) ==
    row[u].status = "deleted" \/ \E m \in Cleaners : mpc[m] \in points /\ Head(mloc[m]).file = u

(* The request returns: deferred, idemMu is released. *)
Return(r) ==
    /\ Goto(r, "done") /\ loc' = [loc EXCEPT ![r] = Idle]
    /\ idemMu' = IF idemMu = r THEN NoUpload ELSE idemMu

(* A keyed upload waits for the mutex, and is answered with the file of an *)
(* earlier one; otherwise the row is created, pending.                     *)
UploadCall(u) ==
    /\ At(u, "new")
    /\ u \in Keyed => idemMu = NoUpload
    /\ IF u \in Keyed /\ idem # NoUpload
       THEN /\ Goto(u, "done") /\ returned' = [returned EXCEPT ![u] = idem]
            /\ UNCHANGED <<row, order, loc, idemMu, overtaken, forced, late, left>>
       ELSE /\ idemMu' = IF u \in Keyed THEN u ELSE idemMu
            /\ Goto(u, "stage") /\ Write(u, [status |-> "pending", key |-> "declared"])
            /\ loc' = [loc EXCEPT ![u] = [file |-> u, copy |-> row'[u], seen |-> NoRow]]
            /\ UNCHANGED history
    /\ UNCHANGED <<store, used, old, mpc, mloc, idem>> /\ Fine

PutStaging(u) ==
    /\ At(u, "stage") /\ Goto(u, "observe")
    /\ staged' = staged \cup {u}
    /\ UNCHANGED <<row, order, object, used, old, loc, mpc, mloc, keys, history>> /\ Fine

(* The contents have been seen: refused, or known by their detected type. *)
Observe(u) ==
    /\ At(u, "observe")
    /\ \/ Goto(u, "unstage") /\ UNCHANGED loc
       \/ /\ Goto(u, "keyread")
          /\ \E k \in Key : loc' = [loc EXCEPT ![u].copy.key = k]
    /\ UNCHANGED <<row, order, store, used, old, mpc, mloc, keys, history>> /\ Fine

(* Both Updates of an upload, of the key and of the ready status: what the first half *)
(* refuses ends the upload at "refused".                                              *)
UpdateRead(r, from, to, refused) ==
    /\ At(r, from) /\ Goto(r, IF UpdateAccepts(loc[r].file, loc[r].copy) THEN to ELSE refused)
    /\ loc' = [loc EXCEPT ![r].seen = row[loc[r].file]]
    /\ UNCHANGED <<row, order, store, used, old, mpc, mloc, keys, history>> /\ Fine

PublishKey(u) ==
    /\ At(u, "keywrite") /\ Goto(u, "promote")
    /\ UpdateWrite(u, loc[u].copy, loc[u].seen)
    /\ UNCHANGED <<store, used, old, loc, mpc, mloc, keys, returned, forced, late, left>> /\ Fine

(* The staging object is linked to the final key; there may be none any more. *)
Promote(u) ==
    /\ At(u, "promote")
    /\ IF u \in staged
       THEN /\ staged' = staged \ {u} /\ Goto(u, "readyread")
            /\ object' = [object EXCEPT ![u] = @ \cup {loc[u].copy.key}]
            /\ loc' = [loc EXCEPT ![u].copy.status = "ready"]
            /\ late' = IF Passed(u, {"delstaged", "delmark"}) THEN late \cup {u} ELSE late
       ELSE Goto(u, "unstage") /\ UNCHANGED <<store, loc, late>>
    /\ UNCHANGED <<row, order, used, old, mpc, mloc, keys, returned, overtaken, forced, left>> /\ Fine

Succeed(u) ==
    /\ returned' = [returned EXCEPT ![u] = u]
    /\ idem' = IF u \in Keyed THEN u ELSE idem

persistReady(u) ==
    /\ At(u, "readywrite") /\ Return(u)
    /\ UpdateWrite(u, loc[u].copy, loc[u].seen)
    /\ Succeed(u)
    /\ UNCHANGED <<store, used, old, mpc, mloc, forced, late, left>> /\ Fine

(* The object is in place but the row is not ready: the upload fails and leaves both *)
(* to the maintenance.                                                               *)
LeavePublished(u) ==
    /\ At(u, "left") /\ Return(u)
    /\ UNCHANGED <<row, order, store, used, old, mpc, mloc, idem, history>> /\ Fine

deleteStaging(u) ==
    /\ At(u, "unstage") /\ Goto(u, "fail")
    /\ staged' = staged \ {u}
    /\ UNCHANGED <<row, order, object, used, old, loc, mpc, mloc, keys, history>> /\ Fine
markFailed(u) ==
    /\ At(u, "fail") /\ Return(u) /\ MarkStatus(u, "failed")
    /\ UNCHANGED <<store, used, old, mpc, mloc, idem, history>> /\ Fine

(* A call fails: before the promotion the upload cleans up, after it it leaves the *)
(* object; a cleanup that fails is not repeated.                                   *)
UploadFault(u) ==
    /\ Failing
    /\ \/ /\ pc[u] \in {"stage", "keyread", "keywrite", "promote"}
          /\ Goto(u, "unstage") /\ UNCHANGED <<loc, idemMu>>
       \/ pc[u] \in {"readyread", "readywrite"} /\ Goto(u, "left") /\ UNCHANGED <<loc, idemMu>>
       \/ At(u, "unstage") /\ Goto(u, "fail") /\ UNCHANGED <<loc, idemMu>>
       \/ At(u, "fail") /\ Return(u)
    /\ left' = IF At(u, "unstage") /\ u \in staged /\ Passed(u, {"delmark"}) THEN left \cup {u} ELSE left
    /\ UNCHANGED <<row, order, store, used, old, mpc, mloc, idem, returned, overtaken, forced, late>>

Upload(u) ==
    \/ UploadCall(u) \/ PutStaging(u) \/ Observe(u) \/ PublishKey(u) \/ Promote(u)
    \/ UpdateRead(u, "keyread", "keywrite", "unstage")
    \/ UpdateRead(u, "readyread", "readywrite", "left")
    \/ persistReady(u) \/ LeavePublished(u) \/ deleteStaging(u) \/ markFailed(u)

-----------------------------------------------------------------------------
(* The other requests. *)

(* Every request on a file reads its row first; scopes and owners are left out. *)
authorizeAccess(f) == row[f].status \notin {"absent", "deleted"}

(* UpdateFile: the whole row, as it was read, is written back. *)
PatchCall(e) ==
    /\ At(e, "new") /\ Goto(e, "patchread")
    /\ \E f \in Uploads :
          /\ authorizeAccess(f)
          /\ loc' = [loc EXCEPT ![e] = [file |-> f, copy |-> row[f], seen |-> NoRow]]
    /\ UNCHANGED <<row, order, store, used, old, mpc, mloc, keys, history>> /\ Fine
PatchWrite(e) ==
    /\ At(e, "patchwrite") /\ Return(e)
    /\ LET f == loc[e].file
           takenBack == row[f].key # loc[e].copy.key
       IN  /\ Write(f, loc[e].copy)
           /\ overtaken' = IF row[f] \notin {loc[e].seen, loc[e].copy} \/ takenBack THEN overtaken \cup {f}
                                                              ELSE overtaken
    /\ UNCHANGED <<store, used, old, mpc, mloc, idem, returned, forced, late, left>> /\ Fine
Patch(e) == PatchCall(e) \/ UpdateRead(e, "patchread", "patchwrite", "done") \/ PatchWrite(e)

(* Usage rows and deletions take the same lock on the file's row. *)
Attach(f) ==
    /\ row[f].status = "ready" /\ used' = used \cup {f}
    /\ UNCHANGED <<row, order, store, old, pc, loc, mpc, mloc, keys, history, faults>>
Detach(f) ==
    /\ f \in used /\ used' = used \ {f}
    /\ UNCHANGED <<row, order, store, old, pc, loc, mpc, mloc, keys, history, faults>>

RequestDeletion(f, force) ==
    IF row[f].status \notin {"absent", "deleting", "deleted"} /\ (force \/ f \notin used)
    THEN /\ Write(f, [row[f] EXCEPT !.status = "deleting"])
         /\ forced' = IF force THEN forced \cup {f} ELSE forced
    ELSE UNCHANGED <<row, order, forced>>

(* CatalogAdapter.Delete: the usages are looked at first, without a lock; force takes a *)
(* confirmation.                                                                        *)
DeleteCall(d) ==
    /\ At(d, "new")
    /\ \E f \in Uploads, force, confirmed \in BOOLEAN :
          /\ authorizeAccess(f) /\ row[f].status # "deleting"
          /\ f \notin used \/ (force /\ confirmed)
          /\ loc' = [loc EXCEPT ![d].file = f]
          /\ Goto(d, IF force /\ confirmed THEN "force" ELSE "remove")
    /\ UNCHANGED <<row, order, store, used, old, mpc, mloc, keys, history>> /\ Fine
softDeleteFile(d) ==
    /\ pc[d] \in {"force", "remove"} /\ Return(d)
    /\ IF authorizeAccess(loc[d].file)
       THEN RequestDeletion(loc[d].file, At(d, "force"))
       ELSE UNCHANGED <<row, order, forced>>
    /\ UNCHANGED <<store, used, old, mpc, mloc, idem, returned, overtaken, late, left>> /\ Fine
Delete(d) == DeleteCall(d) \/ softDeleteFile(d)

(* A reader finds no object behind a ready row. *)
markDamaged(f) == MarkStatus(f, "damaged")
Open(f) ==
    /\ authorizeAccess(f) /\ row[f].status = "ready"
    /\ row[f].key \notin object[f] /\ markDamaged(f)
    /\ UNCHANGED <<store, used, old, pc, loc, mpc, mloc, keys, history, faults>>

-----------------------------------------------------------------------------
(* runFileMaintenance: three passes one after the other, then a pause.     *)
(* A pass lists rows and goes through the list; an error of the repository *)
(* ends it, an error of the store skips the row.                           *)

Passes   == [reconcile |-> "deleting", deleting |-> "pending", pending |-> "reconcile"]
Loop     == [reconcile |-> "probe", deleting |-> "delobject", pending |-> "judge"]
MAt(m, l)   == mpc[m] = l
MGoto(m, l) == mpc' = [mpc EXCEPT ![m] = l]
item(m)     == Head(mloc[m])

(* To the next row of the list, or with none left to the next pass. *)
EndPass(m, pass) == MGoto(m, Passes[pass]) /\ mloc' = [mloc EXCEPT ![m] = <<>>]
GoOn(m, pass, list) ==
    IF list = <<>> THEN EndPass(m, pass)
                   ELSE MGoto(m, Loop[pass]) /\ mloc' = [mloc EXCEPT ![m] = list]
Skip(m, pass) == GoOn(m, pass, Tail(mloc[m]))

List(m, pass, status) ==
    /\ MAt(m, pass)
    /\ \E found \in ListByStatus(status) :
          GoOn(m, pass, [i \in DOMAIN found |-> [file |-> order[found[i]], copy |-> row[order[found[i]]], seen |-> NoRow]])
    /\ UNCHANGED <<row, order, store, used, old, pc, loc, keys, history>> /\ Fine

(* Mutant of the next: the store answers for every key. *)
AlwaysExists(m) == TRUE

providerObjectExists(m) == item(m).copy.key \in object[item(m).file]

(* ReconcilePending: an object at the listed key makes the listed row ready. *)
ReconcileProbe(m) ==
    /\ MAt(m, "probe")
    /\ IF providerObjectExists(m) THEN MGoto(m, "readyread") /\ UNCHANGED mloc
                                  ELSE Skip(m, "reconcile")
    /\ UNCHANGED <<row, order, store, used, old, pc, loc, keys, history>> /\ Fine
ReconcileRead(m) ==
    /\ MAt(m, "readyread")
    /\ IF UpdateAccepts(item(m).file, [item(m).copy EXCEPT !.status = "ready"])
       THEN /\ MGoto(m, "readywrite")
            /\ mloc' = [mloc EXCEPT ![m][1].seen = row[item(m).file]]
       ELSE EndPass(m, "reconcile")
    /\ UNCHANGED <<row, order, store, used, old, pc, loc, keys, history>> /\ Fine
ReconcileWrite(m) ==
    /\ MAt(m, "readywrite") /\ Skip(m, "reconcile")
    /\ UpdateWrite(item(m).file, [item(m).copy EXCEPT !.status = "ready"], item(m).seen)
    /\ UNCHANGED <<store, used, old, pc, loc, keys, returned, forced, late, left>> /\ Fine
ReconcilePending(m) ==
    \/ List(m, "reconcile", "pending")
    \/ ReconcileProbe(m) \/ ReconcileRead(m) \/ ReconcileWrite(m)

(* ProcessDeleting: the object, the staging object, then the row. *)
deleteObject(m) ==
    /\ MAt(m, "delobject") /\ MGoto(m, "delstaged")
    /\ object' = [object EXCEPT ![item(m).file] = @ \ {item(m).copy.key}] /\ late' = late \ {item(m).file}
    /\ UNCHANGED <<row, order, staged, used, old, pc, loc, mloc, keys, returned, overtaken, forced, left>> /\ Fine
StagingGone(m, from, to) ==
    /\ MAt(m, from) /\ MGoto(m, to)
    /\ staged' = staged \ {item(m).file} /\ left' = left \ {item(m).file}
    /\ UNCHANGED <<row, order, object, used, old, pc, loc, mloc, keys, returned, overtaken, forced, late>> /\ Fine
(* MarkStatus, and the pass goes on, or ends when the transition is refused. *)
Conclude(m, from, status, pass) ==
    /\ MAt(m, from) /\ MarkStatus(item(m).file, status)
    /\ IF repositoryStatusTransition(row[item(m).file].status, status)
       THEN Skip(m, pass) ELSE EndPass(m, pass)
    /\ UNCHANGED <<store, used, old, pc, loc, keys, history>> /\ Fine
ProcessDeleting(m) ==
    \/ List(m, "deleting", "deleting")
    \/ deleteObject(m) \/ StagingGone(m, "delstaged", "delmark")
    \/ Conclude(m, "delmark", "deleted", "deleting")

(* CleanupPending: rows pending for an hour have failed. *)
CleanupYoung(m) ==
    /\ MAt(m, "judge")
    /\ IF item(m).file \in old THEN MGoto(m, "unstage") /\ UNCHANGED mloc ELSE Skip(m, "pending")
    /\ UNCHANGED <<row, order, store, used, old, pc, loc, keys, history>> /\ Fine
CleanupPending(m) ==
    \/ List(m, "pending", "pending")
    \/ CleanupYoung(m) \/ StagingGone(m, "unstage", "failmark")
    \/ Conclude(m, "failmark", "failed", "pending")

MaintenanceFault(m) ==
    /\ Failing
    /\ \/ mpc[m] = "probe" /\ Skip(m, "reconcile")
       \/ mpc[m] \in {"readyread", "readywrite"} /\ EndPass(m, "reconcile")
       \/ mpc[m] \in {"delobject", "delstaged"} /\ Skip(m, "deleting")
       \/ mpc[m] = "delmark" /\ EndPass(m, "deleting")
       \/ mpc[m] = "unstage" /\ Skip(m, "pending")
       \/ mpc[m] = "failmark" /\ EndPass(m, "pending")
       \/ mpc[m] \in DOMAIN Passes /\ EndPass(m, mpc[m])
    /\ UNCHANGED <<row, order, store, used, old, pc, loc, keys, history>>

Maintenance(m) == ReconcilePending(m) \/ ProcessDeleting(m) \/ CleanupPending(m)

(* An hour passes for a row; only a pending one is ever asked for it. *)
Age(f) ==
    /\ row[f].status = "pending" /\ f \notin old /\ old' = old \cup {f}
    /\ UNCHANGED <<row, order, store, used, pc, loc, mpc, mloc, keys, history, faults>>

(* The server stops and starts again: what was running never returns, and the results *)
(* kept for idempotency are gone.  A second server would keep its own.                *)
Crash ==
    /\ Failing
    /\ pc' = [r \in Requests |-> IF pc[r] = "new" THEN "new" ELSE "done"]
    /\ loc' = [r \in Requests |-> Idle]
    /\ idemMu' = NoUpload /\ idem' = NoUpload
    /\ mpc' = [m \in Cleaners |-> IF MAt(m, "off") THEN "off" ELSE "reconcile"]
    /\ mloc' = [m \in Cleaners |-> <<>>]
    /\ returned' = [u \in Uploads |-> NoUpload]
    /\ left' = left \cup {f \in staged : row[f].status = "deleted"}
    /\ UNCHANGED <<row, order, store, used, old, overtaken, forced, late>>

Next ==
    \/ \E u \in Uploads : Upload(u) \/ UploadFault(u)
    \/ \E e \in Editors : Patch(e)
    \/ \E d \in Deleters : Delete(d)
    \/ \E f \in Uploads : Attach(f) \/ Detach(f) \/ Open(f) \/ Age(f)
    \/ \E m \in Cleaners : Maintenance(m) \/ MaintenanceFault(m)
    \/ Crash

Spec == Init /\ [][Next]_vars
(* The maintenance goroutines run, and time passes.  A request may stop where it is. *)
Fairness ==
    /\ \A m \in Cleaners : WF_vars(Maintenance(m))
    /\ \A f \in Uploads : WF_vars(Age(f))
FairSpec == Spec /\ Fairness

-----------------------------------------------------------------------------
(* Properties. *)

TypeOK ==
    /\ row \in [Uploads -> [status : Status, key : Key]]
    /\ order \in Seq(Uploads) /\ staged \subseteq Uploads
    /\ object \in [Uploads -> SUBSET Key]
    /\ used \subseteq Uploads /\ old \subseteq Uploads
    /\ loc \in [Requests -> [file : Uploads \cup {NoUpload}, copy : Row, seen : Row]]
    /\ mloc \in [Cleaners -> Seq(Listed)]
    /\ idemMu \in Uploads \cup {NoUpload} /\ idem \in Uploads \cup {NoUpload}
    /\ returned \in [Uploads -> Uploads \cup {NoUpload}]
    /\ overtaken \subseteq Uploads /\ forced \subseteq Uploads
    /\ late \subseteq Uploads /\ left \subseteq Uploads
    /\ faults \in 0..MaxFaults

(* A row that says ready has its object at its key, through every order of upload,   *)
(* maintenance, deletion and crash - unless an Update wrote over a change that it    *)
(* had not read and undid it (Service.Upload, ReconcilePending, gorm_repository.go   *)
(* Update), or a PATCH took the key back.                                            *)
ReadyHasObject ==
    \A f \in Uploads \ overtaken : row[f].status = "ready" => row[f].key \in object[f]

(* A deletion holds: deleting only becomes deleted, and deleted stays, whoever else  *)
(* is at work on the row - with the same exception.                                  *)
DeletionHolds ==
    [][\A f \in Uploads :
          \/ f \in overtaken'
          \/ row[f].status = "deleting" /\ row'[f].status \in {"deleting", "deleted"}
          \/ row[f].status = "deleted" /\ row'[f].status = "deleted"
          \/ row[f].status \notin {"deleting", "deleted"}]_vars

(* The object of a file with a live usage stays where its readers look: only a       *)
(* forced deletion, or an Update over a deletion, takes it away (RequestDeletion and *)
(* Attach lock the same row).                                                        *)
UsedKept ==
    \A f \in used \ (forced \cup overtaken) :
        row[f].status \in {"ready", "damaged"} /\ row[f].key \in object[f]

(* An object lies under no key but the one its row names, so that whoever deletes     *)
(* finds it, a failed row's too (CleanupPending fails rows whose upload still runs) - *)
(* with the same exception.                                                          *)
UnderItsKey == \A f \in Uploads \ overtaken : object[f] \subseteq {row[f].key}

(* Behind a deleted row stays no object, unless the upload promoted it when the       *)
(* deletion was past it, with the same exception; and no staging object, unless the    *)
(* upload is still at work and has its own removal before it, or it stored it when the *)
(* deletion was past it and broke off (ProcessDeleting, service.go:1335-1346).         *)
NothingLeftBehind ==
    \A f \in Uploads : row[f].status = "deleted" =>
        /\ f \notin overtaken \cup late => object[f] = {}
        /\ f \in staged \ left => pc[f] \in {"observe", "keyread", "keywrite", "promote", "unstage"}

(* The uploads under one Idempotency-Key that a server answers, it answers with one  *)
(* file (CatalogAdapter.Upload, idemMu).                                             *)
OneFilePerKey ==
    \A u, v \in Keyed : NoUpload \notin {returned[u], returned[v]} => returned[u] = returned[v]

FilesHold == TypeOK /\ ReadyHasObject /\ UsedKept /\ UnderItsKey /\ NothingLeftBehind /\ OneFilePerKey

(* Where the maintenance runs, no row stays pending or deleting: an upload that      *)
(* stopped anywhere is finished or failed, a deletion is carried out                 *)
(* (runFileMaintenance).                                                             *)
RowsSettled ==
    (\E m \in Cleaners : ~MAt(m, "off")) => \A f \in Uploads : row[f].status \notin {"pending", "deleting"}
EveryRowSettles == []<>RowsSettled
=============================================================================
