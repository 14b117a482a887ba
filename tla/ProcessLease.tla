---------------------------- MODULE ProcessLease ----------------------------
(* The lease files that let one installer run at a time: apply.lock of the servers          *)
(* (process_lease.go, every access under the flock of process.guard) and admin-init.lock of   *)
(* the Node initializer (init-state.mjs), which a server reclaims when its owner is dead       *)
(* (admin_init_lease.go).  Each side publishes its own file first and looks at the other's      *)
(* afterwards.  A file is its owner: every process publishes once, under an id of its own, so    *)
(* contents and inode of a lease are the publisher.  A file is removed by its name.               *)
EXTENDS Naturals

CONSTANTS
    Servers, Nodes,  \* processes; one that starts again is another process
    NoFile,          \* there is no such file, nobody has the guard
    Attempts,        \* rounds of acquireAdminInitLease (5 in the code)
    MaxDeaths,       \* processes that may die without releasing
    Stalls           \* whether the recovery of an interrupted reclaim may stall while others go on

LeaseAssumption == {Attempts, MaxDeaths} \subseteq Nat /\ Servers \cap Nodes = {} /\ NoFile \notin Servers \cup Nodes
                   /\ Stalls \in BOOLEAN

Procs == Servers \cup Nodes

VARIABLES
    applyLock, adminLock,
    tombstone,       \* admin-init.lock.reclaim, a hard link to the lease being reclaimed
    ripe,            \* the tombstone was not touched for the grace of 60 seconds
    guard, pc,
    seen,            \* the lease a process has read
    round, dead,
    deaths

files == <<applyLock, adminLock, tombstone, ripe>>
vars == <<files, guard, pc, seen, round, dead, deaths>>

At(p, at) == pc[p] = at
Go(p, at) == pc' = [pc EXCEPT ![p] = at]
See(p, file) == seen' = [seen EXCEPT ![p] = file]
Alive(owner) == owner \notin dead
Drop(file) == file' = NoFile
(* A link is a new change time of the inode. *)
Link(from) == tombstone' = from /\ ripe' = FALSE
ClearTombstone == tombstone' = NoFile /\ ripe' = FALSE
others == <<guard, seen, round, dead>>

-----------------------------------------------------------------------------
(* apply.lock. *)

TakeGuard(p) ==
    /\ At(p, "idle") /\ guard = NoFile /\ Go(p, "publish") /\ guard' = p
    /\ UNCHANGED <<files, seen, round, dead>>

(* publishProcessLease links the finished file without clobbering another's.               *)
PublishApply(p) ==
    /\ (At(p, "publish") \/ At(p, "republish"))
    /\ IF applyLock = NoFile
       THEN applyLock' = p /\ Go(p, "interrupted") /\ guard' = NoFile /\ UNCHANGED seen
       ELSE /\ UNCHANGED applyLock /\ See(p, applyLock)
            /\ IF At(p, "publish") /\ ~Alive(applyLock) THEN Go(p, "reclaim") /\ UNCHANGED guard
               ELSE Go(p, "out") /\ guard' = NoFile
    /\ UNCHANGED <<adminLock, tombstone, ripe, round, dead>>
ReclaimApply(p) ==
    /\ At(p, "reclaim") /\ Drop(applyLock) /\ Go(p, "republish")
    /\ UNCHANGED <<adminLock, tombstone, ripe, others>>

(* A live owner's lease is left alone even when the holder's file is asked to go.          *)
ReleaseApply(p) ==
    /\ (At(p, "leave") \/ At(p, "busy")) /\ p \in Servers /\ guard = NoFile /\ Go(p, "out")
    /\ applyLock' = IF applyLock = p THEN NoFile ELSE applyLock
    /\ UNCHANGED <<adminLock, tombstone, ripe, others>>

-----------------------------------------------------------------------------
(* A server that has apply.lock reconciles admin-init.lock.  First an interrupted reclaim: *)
(* the lease its tombstone keeps is put back.                                               *)

Interrupted(p) ==
    /\ At(p, "interrupted") /\ See(p, tombstone)
    /\ CASE tombstone = NoFile -> Go(p, "inspect")
         [] tombstone # NoFile /\ (~ripe \/ Alive(tombstone) \/ (adminLock # NoFile /\ Alive(adminLock))) -> Go(p, "busy")
         [] OTHER -> Go(p, IF adminLock = NoFile THEN "restore" ELSE "replace")
    /\ UNCHANGED <<files, guard, round, dead>>
Replace(p) ==
    /\ At(p, "replace") /\ Drop(adminLock) /\ Go(p, IF adminLock = NoFile THEN "busy" ELSE "restore")
    /\ UNCHANGED <<applyLock, tombstone, ripe, others>>
Restore(p) ==
    /\ At(p, "restore")
    /\ IF tombstone # seen[p] \/ adminLock # NoFile THEN Go(p, "busy") /\ UNCHANGED <<adminLock, ripe>>
       ELSE adminLock' = tombstone /\ ripe' = FALSE /\ Go(p, "restored")
    /\ UNCHANGED <<applyLock, tombstone, others>>
Restored(p) ==
    /\ At(p, "restored")
    /\ IF adminLock = seen[p] /\ tombstone = seen[p] THEN ClearTombstone /\ Go(p, "inspect")
       ELSE Go(p, "busy") /\ UNCHANGED <<tombstone, ripe>>
    /\ UNCHANGED <<applyLock, adminLock, others>>

(* Then the lease itself: a dead owner's is linked to the tombstone, which keeps every      *)
(* other reclaimer away, looked at again, and removed.                                       *)
Inspect(p) ==
    /\ At(p, "inspect") /\ See(p, adminLock)
    /\ Go(p, CASE adminLock = NoFile -> "in" [] adminLock # NoFile /\ Alive(adminLock) -> "busy" [] OTHER -> "claim")
    /\ UNCHANGED <<files, guard, round, dead>>
Claim(p) ==
    /\ At(p, "claim")
    /\ IF tombstone # NoFile \/ adminLock = NoFile THEN Go(p, "busy") /\ UNCHANGED <<tombstone, ripe>>
       ELSE Link(adminLock) /\ Go(p, "confirm")
    /\ UNCHANGED <<applyLock, adminLock, others>>

Confirm(p) ==
    /\ At(p, "confirm")
    /\ IF tombstone = seen[p] /\ adminLock = seen[p] THEN Go(p, "remove") /\ UNCHANGED <<tombstone, ripe>>
       ELSE Go(p, "busy") /\ ClearTombstone
    /\ UNCHANGED <<applyLock, adminLock, others>>
Remove(p) ==
    /\ At(p, "remove") /\ Drop(adminLock)
    /\ IF adminLock = NoFile THEN ClearTombstone /\ Go(p, "busy") ELSE Go(p, "clear") /\ UNCHANGED <<tombstone, ripe>>
    /\ UNCHANGED <<applyLock, others>>
Clear(p) ==
    /\ At(p, "clear")
    /\ IF tombstone = seen[p] THEN ClearTombstone /\ Go(p, "in") ELSE Go(p, "busy") /\ UNCHANGED <<tombstone, ripe>>
    /\ UNCHANGED <<applyLock, adminLock, others>>
Finish(p) == At(p, "in") /\ Go(p, "leave") /\ UNCHANGED <<files, others>>

-----------------------------------------------------------------------------
(* The Node initializer.  A process that is refused ends. *)

Exit(p) == Go(p, "out") /\ dead' = dead \cup {p}
Again(p) == round' = [round EXCEPT ![p] = @ + 1] /\ Go(p, "look")

Look(p) ==
    /\ p \in Nodes /\ (At(p, "idle") \/ At(p, "look")) /\ See(p, tombstone)
    /\ IF round[p] = Attempts \/ (tombstone # NoFile /\ (~ripe \/ (adminLock # NoFile /\ Alive(adminLock))))
       THEN Exit(p)
       ELSE /\ Go(p, CASE tombstone = NoFile -> "n_publish"
                       [] tombstone # NoFile /\ adminLock = NoFile -> "n_restore"
                       [] OTHER -> "n_replace")
            /\ UNCHANGED dead
    /\ UNCHANGED <<files, guard, round>>
NodeReplace(p) ==
    /\ At(p, "n_replace") /\ Drop(adminLock)
    /\ IF adminLock = NoFile THEN Exit(p) ELSE Go(p, "n_restore") /\ UNCHANGED dead
    /\ UNCHANGED <<applyLock, tombstone, ripe, guard, seen, round>>
NodeRestore(p) ==
    /\ At(p, "n_restore")
    /\ IF tombstone = NoFile \/ adminLock # NoFile THEN Exit(p) /\ UNCHANGED <<adminLock, ripe>>
       ELSE adminLock' = tombstone /\ ripe' = FALSE /\ Go(p, "n_restored") /\ UNCHANGED dead
    /\ UNCHANGED <<applyLock, tombstone, guard, seen, round>>
NodeRestored(p) ==
    /\ At(p, "n_restored")
    /\ IF adminLock = tombstone /\ tombstone # NoFile THEN ClearTombstone /\ Again(p) /\ UNCHANGED dead
       ELSE Exit(p) /\ UNCHANGED <<tombstone, ripe, round>>
    /\ UNCHANGED <<applyLock, adminLock, guard, seen>>

NodePublish(p) ==
    /\ At(p, "n_publish")
    /\ IF adminLock = NoFile THEN adminLock' = p /\ Go(p, "n_check") ELSE UNCHANGED adminLock /\ Go(p, "n_existing")
    /\ UNCHANGED <<applyLock, tombstone, ripe, others>>
NodeExisting(p) ==
    /\ At(p, "n_existing") /\ See(p, adminLock)
    /\ CASE adminLock = NoFile -> Again(p) /\ UNCHANGED dead
         [] adminLock # NoFile /\ Alive(adminLock) -> Exit(p) /\ UNCHANGED round
         [] OTHER -> Go(p, "n_claim") /\ UNCHANGED <<dead, round>>
    /\ UNCHANGED <<files, guard>>
NodeClaim(p) ==
    /\ At(p, "n_claim")
    /\ IF tombstone # NoFile \/ adminLock = NoFile THEN Exit(p) /\ UNCHANGED <<tombstone, ripe>>
       ELSE Link(adminLock) /\ Go(p, "n_confirm") /\ UNCHANGED dead
    /\ UNCHANGED <<applyLock, adminLock, guard, seen, round>>
NodeConfirm(p) ==
    /\ At(p, "n_confirm")
    /\ IF tombstone = seen[p] /\ adminLock = seen[p] THEN Go(p, "n_remove") /\ UNCHANGED dead ELSE Exit(p)
    /\ UNCHANGED <<files, guard, seen, round>>
NodeRemove(p) ==
    /\ At(p, "n_remove") /\ Drop(adminLock)
    /\ IF adminLock = NoFile THEN Exit(p) ELSE Go(p, "n_own") /\ UNCHANGED dead
    /\ UNCHANGED <<applyLock, tombstone, ripe, guard, seen, round>>
NodeOwn(p) ==
    /\ At(p, "n_own")
    /\ IF adminLock = NoFile THEN adminLock' = p /\ Go(p, "n_clear") /\ UNCHANGED dead ELSE UNCHANGED adminLock /\ Exit(p)
    /\ UNCHANGED <<applyLock, tombstone, ripe, guard, seen, round>>
NodeClear(p) ==
    /\ At(p, "n_clear")
    /\ IF adminLock = p /\ tombstone = seen[p] THEN ClearTombstone /\ Go(p, "n_check") /\ UNCHANGED dead
       ELSE Exit(p) /\ UNCHANGED <<tombstone, ripe>>
    /\ UNCHANGED <<applyLock, adminLock, guard, seen, round>>

(* Mutant of the next: apply.lock is not looked at.                                          *)
NodeUnchecked(p) == At(p, "n_check") /\ Go(p, "in") /\ UNCHANGED <<files, others>>
NodeCheck(p) ==
    /\ At(p, "n_check") /\ Go(p, IF applyLock = NoFile THEN "in" ELSE "leave")
    /\ UNCHANGED <<files, others>>
NodeLeave(p) ==
    /\ p \in Nodes /\ At(p, "leave")
    /\ IF adminLock = p THEN Go(p, "n_unlink") /\ UNCHANGED dead ELSE Exit(p)
    /\ UNCHANGED <<files, guard, seen, round>>
NodeUnlink(p) ==
    /\ At(p, "n_unlink") /\ Drop(adminLock) /\ Exit(p)
    /\ UNCHANGED <<applyLock, tombstone, ripe, guard, seen, round>>

-----------------------------------------------------------------------------
(* Death releases the flock, and no file.                                                    *)
Die(p) ==
    /\ deaths < MaxDeaths /\ deaths' = deaths + 1
    /\ pc[p] \notin {"idle", "out"} \/ (p \in Servers /\ p \notin dead /\ At(p, "out"))
    /\ dead' = dead \cup {p} /\ Go(p, "out")
    /\ guard' = IF guard = p THEN NoFile ELSE guard
    /\ UNCHANGED <<files, seen, round>>

(* The grace is over: no reclaim that is still going on takes that long.                     *)
Recovering == {"replace", "restore", "restored", "n_replace", "n_restore", "n_restored"}
Reclaiming == Recovering \cup {"confirm", "remove", "clear", "n_confirm", "n_remove", "n_own", "n_clear"}
Ripen ==
    /\ tombstone # NoFile /\ ~ripe /\ \A p \in Procs : pc[p] \notin Reclaiming
    /\ ripe' = TRUE
    /\ UNCHANGED <<applyLock, adminLock, tombstone, guard, pc, seen, round, dead>>

Init ==
    /\ applyLock = NoFile /\ adminLock = NoFile /\ tombstone = NoFile /\ ripe = FALSE /\ guard = NoFile
    /\ pc = [p \in Procs |-> "idle"] /\ seen = [p \in Procs |-> NoFile] /\ round = [p \in Procs |-> 0]
    /\ dead = {} /\ deaths = 0

ServerStep(p) ==
    \/ TakeGuard(p) \/ PublishApply(p) \/ ReclaimApply(p) \/ ReleaseApply(p) \/ Interrupted(p) \/ Replace(p)
    \/ Restore(p) \/ Restored(p) \/ Inspect(p) \/ Claim(p) \/ Confirm(p) \/ Remove(p) \/ Clear(p)
NodeStep(p) ==
    \/ Look(p) \/ NodeReplace(p) \/ NodeRestore(p) \/ NodeRestored(p) \/ NodePublish(p) \/ NodeExisting(p)
    \/ NodeClaim(p) \/ NodeConfirm(p) \/ NodeRemove(p) \/ NodeOwn(p) \/ NodeClear(p) \/ NodeCheck(p)
    \/ NodeLeave(p) \/ NodeUnlink(p)
Undisturbed(p) == Stalls \/ \A q \in Procs \ {p} : pc[q] \notin Recovering
Next ==
    \/ /\ UNCHANGED deaths
       /\ \/ \E p \in Servers : ServerStep(p) /\ Undisturbed(p)
          \/ \E p \in Nodes : NodeStep(p) /\ Undisturbed(p)
          \/ \E p \in Procs : Finish(p)
          \/ Ripen
    \/ \E p \in Procs : Die(p)
Spec == Init /\ [][Next]_vars
-----------------------------------------------------------------------------
TypeOK ==
    /\ {applyLock, adminLock, tombstone} \subseteq Procs \cup {NoFile} /\ applyLock \notin Nodes
    /\ guard \in Servers \cup {NoFile} /\ ripe \in BOOLEAN /\ (ripe => tombstone # NoFile)
    /\ seen \in [Procs -> Procs \cup {NoFile}] /\ dead \subseteq Procs
    /\ \A p \in Procs : round[p] <= Attempts
    /\ deaths <= MaxDeaths

(* Servers and initializers: at most one of them installs at a time, and it has its lease   *)
(* for as long as it does.                                                                  *)
OneInstaller ==
    \A p \in Procs : At(p, "in") =>
        /\ \A q \in Procs : At(q, "in") => p = q
        /\ (IF p \in Servers THEN applyLock ELSE adminLock) = p
=============================================================================
