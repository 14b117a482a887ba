------------------------------- MODULE Backups -------------------------------
(***************************************************************************)
(* Backup and restore: application/backup over the encrypted artifacts of  *)
(* platform/backup/local_artifact.go.                                      *)
(*                                                                         *)
(* An artifact is two files, the envelope at its destination and the       *)
(* metadata beside it.  Each is written to a temporary file first and then *)
(* renamed, which replaces whatever has the name by then; one look at the  *)
(* directory, one write and one rename are one step each.  The dump of a   *)
(* backup stands for itself, and for its digest.                           *)
(***************************************************************************)
EXTENDS Naturals

CONSTANTS
    Jobs, Restores,     \* calls of Backup and of Restore
    Paths, Dest,        \* destinations; that of each backup
    Drivers, DriverOf,  \* kinds of database; of each call's source
    Keys, KeyOf,        \* encryption keys; of each call
    Nothing,
    MaxFaults           \* bound on failures and crashes

BackupsAssumption ==
    /\ Dest \in [Jobs -> Paths] /\ Jobs \cap Restores = {}
    /\ DriverOf \in [Jobs \cup Restores -> Drivers] /\ KeyOf \in [Jobs \cup Restores -> Keys]
    /\ Nothing \notin Jobs /\ MaxFaults \in Nat

VARIABLES
    envelope, metadata, \* the files at each destination: of which backup they are
    temp,               \* temporary files of each call
    job,                \* progress of each backup
    reader,             \* of each restore: progress, metadata read, dump read
    faults

vars == <<envelope, metadata, temp, job, reader, faults>>

Kinds == {"plain", "envelope", "meta", "restored"}

Init ==
    /\ envelope = [p \in Paths |-> Nothing] /\ metadata = [p \in Paths |-> Nothing]
    /\ temp = [c \in Jobs \cup Restores |-> {}]
    /\ job = [j \in Jobs |-> "new"]
    /\ reader = [r \in Restores |-> [at |-> "new", path |-> Nothing, meta |-> Nothing, dump |-> Nothing]]
    /\ faults = 0

Goto(j, l)   == job' = [job EXCEPT ![j] = l]
Temp(c, fs)  == temp' = [temp EXCEPT ![c] = fs]
Store(f, p, j) == [f EXCEPT ![p] = j]

-----------------------------------------------------------------------------
(* Backup.  Neither file may exist, when the backup begins and again when  *)
(* the dump is complete.                                                   *)

Vacant(j) == envelope[Dest[j]] = Nothing /\ metadata[Dest[j]] = Nothing

Create(j) ==
    /\ job[j] = "new"
    /\ IF Vacant(j) THEN Goto(j, "dump") /\ Temp(j, {"plain"}) ELSE Goto(j, "failed") /\ UNCHANGED temp
    /\ UNCHANGED <<envelope, metadata, reader, faults>>

Dump(j) ==
    /\ job[j] = "dump" /\ Goto(j, "commit")
    /\ UNCHANGED <<envelope, metadata, temp, reader, faults>>

(* The dump is sealed into a temporary envelope. *)
Seal(j) ==
    /\ job[j] = "commit"
    /\ IF Vacant(j) THEN Goto(j, "sealed") /\ Temp(j, {"plain", "envelope"})
       ELSE Goto(j, "failed") /\ Temp(j, {})
    /\ UNCHANGED <<envelope, metadata, reader, faults>>

(* One more look, at the envelope only. *)
LookAgain(j) ==
    /\ job[j] = "sealed"
    /\ IF envelope[Dest[j]] = Nothing THEN Goto(j, "rename") /\ UNCHANGED temp
       ELSE Goto(j, "failed") /\ Temp(j, {})
    /\ UNCHANGED <<envelope, metadata, reader, faults>>

PublishEnvelope(j) ==
    /\ job[j] = "rename" /\ Goto(j, "meta")
    /\ envelope' = Store(envelope, Dest[j], j)
    /\ Temp(j, {"plain"})
    /\ UNCHANGED <<metadata, reader, faults>>

WriteMetadata(j) ==
    /\ job[j] = "meta" /\ Goto(j, "written")
    /\ Temp(j, {"plain", "meta"})
    /\ UNCHANGED <<envelope, metadata, reader, faults>>

PublishMetadata(j) ==
    /\ job[j] = "written" /\ Goto(j, "done")
    /\ metadata' = Store(metadata, Dest[j], j)
    /\ Temp(j, {})
    /\ UNCHANGED <<envelope, reader, faults>>

Working(j) == job[j] \notin {"new", "done", "failed", "dead"}

(* Whatever fails, the temporary files go, and the envelope as well if it  *)
(* has its name already, whoever has the name now.                         *)
Fail(j) ==
    /\ Working(j) /\ faults < MaxFaults /\ faults' = faults + 1
    /\ Goto(j, "failed")
    /\ Temp(j, {})
    /\ envelope' = IF job[j] \in {"meta", "written"} THEN Store(envelope, Dest[j], Nothing) ELSE envelope
    /\ UNCHANGED <<metadata, reader>>

(* The process dies with what it has written left where it is. *)
Die(j) ==
    /\ Working(j) /\ faults < MaxFaults /\ faults' = faults + 1
    /\ Goto(j, "dead")
    /\ UNCHANGED <<envelope, metadata, temp, reader>>

-----------------------------------------------------------------------------
(* Restore. *)

ReadMetadata(r, p) ==
    /\ reader[r].at = "new"
    /\ reader' = [reader EXCEPT ![r] =
           [at |-> IF metadata[p] = Nothing THEN "failed" ELSE "open",
            path |-> p, meta |-> metadata[p], dump |-> Nothing]]
    /\ UNCHANGED <<envelope, metadata, temp, job, faults>>

(* The key opens every chunk, and sizes and digest are those described. *)
Matches(r, j) == j # Nothing /\ KeyOf[j] = KeyOf[r] /\ j = reader[r].meta

Decrypt(r) ==
    LET j == envelope[reader[r].path]
        ok == Matches(r, j) /\ DriverOf[reader[r].meta] = DriverOf[r]
    IN /\ reader[r].at = "open"
       /\ reader' = [reader EXCEPT ![r].at = IF ok THEN "run" ELSE "failed",
                                   ![r].dump = IF ok THEN j ELSE Nothing]
       /\ Temp(r, IF ok THEN {"restored"} ELSE {})
       /\ UNCHANGED <<envelope, metadata, job, faults>>

(* The dump is replayed; the temporary copy goes with the reader. *)
Replay(r) ==
    /\ reader[r].at = "run"
    /\ \/ reader' = [reader EXCEPT ![r].at = "done"] /\ UNCHANGED faults
       \/ /\ faults < MaxFaults /\ faults' = faults + 1
          /\ reader' = [reader EXCEPT ![r].at = "failed"]
    /\ Temp(r, {})
    /\ UNCHANGED <<envelope, metadata, job>>

Next ==
    \/ \E j \in Jobs :
        \/ Create(j) \/ Dump(j) \/ Seal(j) \/ LookAgain(j) \/ PublishEnvelope(j)
        \/ WriteMetadata(j) \/ PublishMetadata(j) \/ Fail(j) \/ Die(j)
    \/ \E r \in Restores : (\E p \in Paths : ReadMetadata(r, p)) \/ Decrypt(r) \/ Replay(r)

Spec == Init /\ [][Next]_vars

-----------------------------------------------------------------------------
(* Properties. *)

(* Every variable has its type. *)
TypeOK ==
    /\ envelope \in [Paths -> Jobs \cup {Nothing}] /\ metadata \in [Paths -> Jobs \cup {Nothing}]
    /\ temp \in [Jobs \cup Restores -> SUBSET Kinds]
    /\ faults \in 0..MaxFaults

(* A restore that succeeds has replayed the dump of the very backup that   *)
(* it reports, however backups to the same place overtake each other; and  *)
(* a call that has ended leaves no temporary file, whole dump or part.     *)
RestoredAsDescribed ==
    \A r \in Restores : reader[r].at = "done" => reader[r].dump = reader[r].meta
NothingStaged ==
    /\ \A j \in Jobs : job[j] \in {"done", "failed"} => temp[j] = {}
    /\ \A r \in Restores : reader[r].at \in {"done", "failed"} => temp[r] = {}
ArtifactsHold == RestoredAsDescribed /\ NothingStaged

(* A backup that was reported complete can be restored. *)
CompletedStays ==
    \A j \in Jobs : job[j] = "done" => envelope[Dest[j]] = j /\ metadata[Dest[j]] = j
=============================================================================
