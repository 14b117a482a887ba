---------------------------- MODULE ProcessLeaseProofs ----------------------------
(***************************************************************************)
(* What the lease files keep for any number of servers, initializers and   *)
(* deaths: their types, and, when the recovery of an interrupted reclaim   *)
(* is not overtaken, that one process installs at a time.                  *)
(*                                                                         *)
(* Three arguments meet.  apply.lock changes hands under the guard, and    *)
(* only a dead owner's is taken away.  admin-init.lock is taken away by    *)
(* the one process that has the tombstone, which saw its owner dead.       *)
(* Between a server and an initializer it is the order that counts: each   *)
(* publishes its own file before it looks at the other's.                  *)
(***************************************************************************)
EXTENDS MCInstalling, TLAPS

Guarded  == {"publish", "reclaim", "republish"}
(* A server here has published apply.lock and not yet withdrawn it. *)
HasApply == {"interrupted", "replace", "restore", "restored", "inspect", "claim", "confirm", "remove", "clear", "in",
             "leave", "busy"}
(* An initializer here has admin-init.lock. *)
HasAdmin == {"n_clear", "n_check", "in", "leave", "n_unlink"}
(* A server here has seen no live initializer. *)
Passed   == {"claim", "confirm", "remove", "clear", "in"}

ServerPoint == {"idle", "out"} \cup Guarded \cup HasApply
NodePoint   == {"idle", "out", "look", "n_publish", "n_existing", "n_claim", "n_confirm", "n_remove", "n_own",
                "n_replace", "n_restore", "n_restored"} \cup HasAdmin
(* Here the initializer may begin another round. *)
InRound == {"n_publish", "n_existing", "n_replace", "n_restore", "n_restored"}

RipeInv == ripe \in BOOLEAN /\ (ripe => tombstone # NoFile)
PlaceInv ==
    /\ applyLock \in Servers \cup {NoFile} /\ adminLock \in Nodes \cup {NoFile} /\ tombstone \in Nodes \cup {NoFile}
    /\ guard \in Servers \cup {NoFile}
    /\ seen \in [Procs -> Procs \cup {NoFile}] /\ dead \subseteq Procs
    /\ pc \in [Procs -> ServerPoint \cup NodePoint]
    /\ \A p \in Servers : pc[p] \in ServerPoint
    /\ \A p \in Nodes : pc[p] \in NodePoint /\ (pc[p] \in InRound => round[p] < Attempts)
    /\ round \in [Procs -> 0..Attempts] /\ deaths \in 0..MaxDeaths
TypeInv == RipeInv /\ PlaceInv

ApplyInv ==
    /\ \A p \in Servers : guard = p <=> pc[p] \in Guarded
    /\ \A p \in Servers : pc[p] = "reclaim" => applyLock \in dead
    /\ \A p \in Servers : pc[p] \in HasApply => applyLock = p
    /\ \A p \in dead : pc[p] = "out"

AdminInv ==
    /\ \A p \in Nodes : pc[p] \in HasAdmin => adminLock = p
    /\ \A p \in Procs : pc[p] \in Reclaiming => tombstone # NoFile
    /\ \A p, q \in Procs : pc[p] \in Reclaiming /\ pc[q] \in Reclaiming => p = q
    /\ \A p \in Procs : ripe /\ pc[p] \in Reclaiming => pc[p] \in {"replace", "restore", "n_replace", "n_restore"}
    /\ \A p \in Procs : pc[p] \in {"replace", "n_replace"} => adminLock \in dead
    /\ \A p \in Procs : pc[p] \in {"claim", "confirm", "remove", "n_claim", "n_confirm", "n_remove"} => seen[p] \in dead
    /\ \A p \in Procs : pc[p] \in {"remove", "n_remove"} => adminLock = seen[p]

OrderInv == \A p \in Servers, q \in Nodes : pc[q] = "in" => pc[p] \notin Passed

LeaseInv == TypeInv /\ ApplyInv /\ AdminInv /\ OrderInv

-----------------------------------------------------------------------------
(* Types.  One case per step, of a server and of an initializer. *)
LEMMA PlacesServer ==
    ASSUME LeaseAssumption, TypeInv, NEW p \in Servers, ServerStep(p), UNCHANGED deaths
    PROVE  PlaceInv'
<1> USE DEF LeaseAssumption, LeaseInv, TypeInv, Procs, At, Go, See, Drop, Link, ClearTombstone, others, files, Exit, Again, Alive, RipeInv, PlaceInv, ServerPoint, NodePoint, Guarded, HasApply, HasAdmin, InRound
<1>1. CASE TakeGuard(p)
  BY <1>1 DEF TakeGuard
<1>2. CASE PublishApply(p)
  BY <1>2 DEF PublishApply
<1>3. CASE ReclaimApply(p)
  BY <1>3 DEF ReclaimApply
<1>4. CASE ReleaseApply(p)
  BY <1>4 DEF ReleaseApply
<1>5. CASE Interrupted(p)
  BY <1>5 DEF Interrupted
<1>6. CASE Replace(p)
  BY <1>6 DEF Replace
<1>7. CASE Restore(p)
  BY <1>7 DEF Restore
<1>8. CASE Restored(p)
  BY <1>8 DEF Restored
<1>9. CASE Inspect(p)
  BY <1>9 DEF Inspect
<1>10. CASE Claim(p)
  BY <1>10 DEF Claim
<1>11. CASE Confirm(p)
  BY <1>11 DEF Confirm
<1>12. CASE Remove(p)
  BY <1>12 DEF Remove
<1>13. CASE Clear(p)
  BY <1>13 DEF Clear
<1> QED
  BY <1>1, <1>2, <1>3, <1>4, <1>5, <1>6, <1>7, <1>8, <1>9, <1>10, <1>11, <1>12, <1>13 DEF ServerStep

LEMMA PlacesNode ==
    ASSUME LeaseAssumption, TypeInv, NEW p \in Nodes, NodeStep(p), UNCHANGED deaths
    PROVE  PlaceInv'
<1> USE DEF LeaseAssumption, LeaseInv, TypeInv, Procs, At, Go, See, Drop, Link, ClearTombstone, others, files, Exit, Again, Alive, RipeInv, PlaceInv, ServerPoint, NodePoint, Guarded, HasApply, HasAdmin, InRound
<1>1. CASE Look(p)
  BY <1>1 DEF Look
<1>2. CASE NodeReplace(p)
  BY <1>2 DEF NodeReplace
<1>3. CASE NodeRestore(p)
  BY <1>3 DEF NodeRestore
<1>4. CASE NodeRestored(p)
  BY <1>4 DEF NodeRestored
<1>5. CASE NodePublish(p)
  BY <1>5 DEF NodePublish
<1>6. CASE NodeExisting(p)
  BY <1>6 DEF NodeExisting
<1>7. CASE NodeClaim(p)
  BY <1>7 DEF NodeClaim
<1>8. CASE NodeConfirm(p)
  BY <1>8 DEF NodeConfirm
<1>9. CASE NodeRemove(p)
  BY <1>9 DEF NodeRemove
<1>10. CASE NodeOwn(p)
  BY <1>10 DEF NodeOwn
<1>11. CASE NodeClear(p)
  BY <1>11 DEF NodeClear
<1>12. CASE NodeCheck(p)
  BY <1>12 DEF NodeCheck
<1>13. CASE NodeLeave(p)
  BY <1>13 DEF NodeLeave
<1>14. CASE NodeUnlink(p)
  BY <1>14 DEF NodeUnlink
<1> QED
  BY <1>1, <1>2, <1>3, <1>4, <1>5, <1>6, <1>7, <1>8, <1>9, <1>10, <1>11, <1>12, <1>13, <1>14 DEF NodeStep

(* Only a tombstone ripens. *)
LEMMA RipeServer ==
    ASSUME LeaseAssumption, TypeInv, NEW p \in Servers, ServerStep(p)
    PROVE  RipeInv'
<1> USE DEF LeaseInv, TypeInv, RipeInv, Go, Drop, Link, ClearTombstone, others, files, Exit, Again
<1>1. CASE TakeGuard(p)
  BY <1>1 DEF TakeGuard
<1>2. CASE PublishApply(p)
  BY <1>2 DEF PublishApply
<1>3. CASE ReclaimApply(p)
  BY <1>3 DEF ReclaimApply
<1>4. CASE ReleaseApply(p)
  BY <1>4 DEF ReleaseApply
<1>5. CASE Interrupted(p)
  BY <1>5 DEF Interrupted
<1>6. CASE Replace(p)
  BY <1>6 DEF Replace
<1>7. CASE Restore(p)
  BY <1>7 DEF Restore
<1>8. CASE Restored(p)
  BY <1>8 DEF Restored
<1>9. CASE Inspect(p)
  BY <1>9 DEF Inspect
<1>10. CASE Claim(p)
  BY <1>10 DEF Claim
<1>11. CASE Confirm(p)
  BY <1>11 DEF Confirm
<1>12. CASE Remove(p)
  BY <1>12 DEF Remove
<1>13. CASE Clear(p)
  BY <1>13 DEF Clear
<1> QED
  BY <1>1, <1>2, <1>3, <1>4, <1>5, <1>6, <1>7, <1>8, <1>9, <1>10, <1>11, <1>12, <1>13 DEF ServerStep

LEMMA RipeNode ==
    ASSUME LeaseAssumption, TypeInv, NEW p \in Nodes, NodeStep(p)
    PROVE  RipeInv'
<1> USE DEF LeaseInv, TypeInv, RipeInv, Go, Drop, Link, ClearTombstone, others, files, Exit, Again
<1>1. CASE Look(p)
  BY <1>1 DEF Look
<1>2. CASE NodeReplace(p)
  BY <1>2 DEF NodeReplace
<1>3. CASE NodeRestore(p)
  BY <1>3 DEF NodeRestore
<1>4. CASE NodeRestored(p)
  BY <1>4 DEF NodeRestored
<1>5. CASE NodePublish(p)
  BY <1>5 DEF NodePublish
<1>6. CASE NodeExisting(p)
  BY <1>6 DEF NodeExisting
<1>7. CASE NodeClaim(p)
  BY <1>7 DEF NodeClaim
<1>8. CASE NodeConfirm(p)
  BY <1>8 DEF NodeConfirm
<1>9. CASE NodeRemove(p)
  BY <1>9 DEF NodeRemove
<1>10. CASE NodeOwn(p)
  BY <1>10 DEF NodeOwn
<1>11. CASE NodeClear(p)
  BY <1>11 DEF NodeClear
<1>12. CASE NodeCheck(p)
  BY <1>12 DEF NodeCheck
<1>13. CASE NodeLeave(p)
  BY <1>13 DEF NodeLeave
<1>14. CASE NodeUnlink(p)
  BY <1>14 DEF NodeUnlink
<1> QED
  BY <1>1, <1>2, <1>3, <1>4, <1>5, <1>6, <1>7, <1>8, <1>9, <1>10, <1>11, <1>12, <1>13, <1>14 DEF NodeStep

LEMMA TypesKept == ASSUME LeaseAssumption, TypeInv, [Next]_vars PROVE TypeInv'
<1>1. ASSUME NEW p \in Servers, ServerStep(p), UNCHANGED deaths PROVE TypeInv'
  BY <1>1, PlacesServer, RipeServer DEF TypeInv
<1>2. ASSUME NEW p \in Nodes, NodeStep(p), UNCHANGED deaths PROVE TypeInv'
  BY <1>2, PlacesNode, RipeNode DEF TypeInv
<1>3. ASSUME NEW p \in Procs, Finish(p), UNCHANGED deaths PROVE TypeInv'
  <2>1. RipeInv'
    BY <1>3 DEF Finish, files, TypeInv, RipeInv
  <2>2. PlaceInv'
    BY <1>3 DEF Finish, At, Go, files, others, TypeInv, PlaceInv, Procs, ServerPoint, NodePoint, Guarded, HasApply,
         HasAdmin, InRound
  <2> QED
    BY <2>1, <2>2 DEF TypeInv
<1>4. CASE Ripen /\ UNCHANGED deaths
  <2>1. RipeInv'
    BY <1>4 DEF Ripen, RipeInv
  <2> QED
    BY <1>4, <2>1 DEF Ripen, TypeInv, PlaceInv
<1>5. ASSUME NEW p \in Procs, Die(p) PROVE TypeInv'
  <2>1. RipeInv'
    BY <1>5 DEF Die, files, TypeInv, RipeInv
  <2>2. PlaceInv'
    BY <1>5 DEF LeaseAssumption, Die, At, Go, files, TypeInv, PlaceInv, Procs, ServerPoint, NodePoint, InRound
  <2> QED
    BY <2>1, <2>2 DEF TypeInv
<1>6. CASE UNCHANGED vars
  BY <1>6 DEF vars, files, TypeInv, RipeInv, PlaceInv
<1> QED
  BY <1>1, <1>2, <1>3, <1>4, <1>5, <1>6 DEF Next

LEMMA InitTypes == ASSUME LeaseAssumption, Init PROVE TypeInv
<1>1. RipeInv
  BY DEF Init, RipeInv
<1>2. PlaceInv
  BY DEF LeaseAssumption, Init, PlaceInv, Procs, ServerPoint, NodePoint, InRound
<1> QED
  BY <1>1, <1>2 DEF TypeInv

(* The lease files hold processes, a tombstone alone is ripe, and nobody   *)
(* takes more rounds than Attempts, with every death and every stall.      *)
THEOREM TypeCorrect == ASSUME LeaseAssumption PROVE Spec => []TypeOK
<1>1. Init => TypeInv
  BY InitTypes
<1>2. TypeInv /\ [Next]_vars => TypeInv'
  BY TypesKept
<1>3. TypeInv => TypeOK
  <2> SUFFICES ASSUME TypeInv PROVE TypeOK
    OBVIOUS
  <2>1. ripe \in BOOLEAN /\ (ripe => tombstone # NoFile)
    BY DEF TypeInv, RipeInv
  <2>2. ASSUME NEW p \in Procs PROVE round[p] <= Attempts
    <3>1. round[p] \in 0..Attempts
      BY DEF TypeInv, PlaceInv
    <3> QED
      BY <3>1
  <2> QED
    BY <2>1, <2>2 DEF TypeInv, PlaceInv, TypeOK, Procs, LeaseAssumption
<1> QED
  BY <1>1, <1>2, <1>3, PTL DEF Spec

-----------------------------------------------------------------------------
(* apply.lock: who publishes or withdraws has the guard, and only a dead   *)
(* owner's file is removed.                                                *)
LEMMA ApplyServer ==
    ASSUME LeaseAssumption, LeaseInv, NEW p \in Servers, ServerStep(p)
    PROVE  ApplyInv'
<1> USE DEF LeaseAssumption, LeaseInv, TypeInv, Procs, At, Go, See, Drop, Link, ClearTombstone, others, files, Exit, Again, Alive, RipeInv, PlaceInv, ServerPoint, NodePoint, Guarded, HasApply, HasAdmin, ApplyInv
<1>1. CASE TakeGuard(p)
  BY <1>1 DEF TakeGuard
<1>2. CASE PublishApply(p)
  BY <1>2 DEF PublishApply
<1>3. CASE ReclaimApply(p)
  BY <1>3 DEF ReclaimApply
<1>4. CASE ReleaseApply(p)
  BY <1>4 DEF ReleaseApply
<1>5. CASE Interrupted(p)
  BY <1>5 DEF Interrupted
<1>6. CASE Replace(p)
  BY <1>6 DEF Replace
<1>7. CASE Restore(p)
  BY <1>7 DEF Restore
<1>8. CASE Restored(p)
  BY <1>8 DEF Restored
<1>9. CASE Inspect(p)
  BY <1>9 DEF Inspect
<1>10. CASE Claim(p)
  BY <1>10 DEF Claim
<1>11. CASE Confirm(p)
  BY <1>11 DEF Confirm
<1>12. CASE Remove(p)
  BY <1>12 DEF Remove
<1>13. CASE Clear(p)
  BY <1>13 DEF Clear
<1> QED
  BY <1>1, <1>2, <1>3, <1>4, <1>5, <1>6, <1>7, <1>8, <1>9, <1>10, <1>11, <1>12, <1>13 DEF ServerStep

LEMMA ApplyNode ==
    ASSUME LeaseAssumption, LeaseInv, NEW p \in Nodes, NodeStep(p)
    PROVE  ApplyInv'
<1> USE DEF LeaseAssumption, LeaseInv, TypeInv, Procs, At, Go, See, Drop, Link, ClearTombstone, others, files, Exit, Again, Alive, RipeInv, PlaceInv, ServerPoint, NodePoint, Guarded, HasApply, HasAdmin, ApplyInv
<1>1. CASE Look(p)
  BY <1>1 DEF Look
<1>2. CASE NodeReplace(p)
  BY <1>2 DEF NodeReplace
<1>3. CASE NodeRestore(p)
  BY <1>3 DEF NodeRestore
<1>4. CASE NodeRestored(p)
  BY <1>4 DEF NodeRestored
<1>5. CASE NodePublish(p)
  BY <1>5 DEF NodePublish
<1>6. CASE NodeExisting(p)
  BY <1>6 DEF NodeExisting
<1>7. CASE NodeClaim(p)
  BY <1>7 DEF NodeClaim
<1>8. CASE NodeConfirm(p)
  BY <1>8 DEF NodeConfirm
<1>9. CASE NodeRemove(p)
  BY <1>9 DEF NodeRemove
<1>10. CASE NodeOwn(p)
  BY <1>10 DEF NodeOwn
<1>11. CASE NodeClear(p)
  BY <1>11 DEF NodeClear
<1>12. CASE NodeCheck(p)
  BY <1>12 DEF NodeCheck
<1>13. CASE NodeLeave(p)
  BY <1>13 DEF NodeLeave
<1>14. CASE NodeUnlink(p)
  BY <1>14 DEF NodeUnlink
<1> QED
  BY <1>1, <1>2, <1>3, <1>4, <1>5, <1>6, <1>7, <1>8, <1>9, <1>10, <1>11, <1>12, <1>13, <1>14 DEF NodeStep

(* admin-init.lock: the one process that reclaims has the tombstone, and   *)
(* what it removes is the file of the dead owner it saw.                   *)
LEMMA AdminServer ==
    ASSUME LeaseAssumption, LeaseInv, NEW p \in Servers, ServerStep(p), Undisturbed(p), ~Stalls
    PROVE  AdminInv'
<1> USE DEF LeaseAssumption, LeaseInv, TypeInv, Procs, At, Go, See, Drop, Link, ClearTombstone, others, files, Exit, Again, Alive, RipeInv, PlaceInv, ServerPoint, NodePoint, Guarded, HasApply, HasAdmin, ApplyInv, AdminInv, Reclaiming, Recovering, Undisturbed
<1>1. CASE TakeGuard(p)
  BY <1>1 DEF TakeGuard
<1>2. CASE PublishApply(p)
  BY <1>2 DEF PublishApply
<1>3. CASE ReclaimApply(p)
  BY <1>3 DEF ReclaimApply
<1>4. CASE ReleaseApply(p)
  BY <1>4 DEF ReleaseApply
<1>5. CASE Interrupted(p)
  BY <1>5 DEF Interrupted
<1>6. CASE Replace(p)
  BY <1>6 DEF Replace
<1>7. CASE Restore(p)
  BY <1>7 DEF Restore
<1>8. CASE Restored(p)
  BY <1>8 DEF Restored
<1>9. CASE Inspect(p)
  BY <1>9 DEF Inspect
<1>10. CASE Claim(p)
  BY <1>10 DEF Claim
<1>11. CASE Confirm(p)
  BY <1>11 DEF Confirm
<1>12. CASE Remove(p)
  BY <1>12 DEF Remove
<1>13. CASE Clear(p)
  BY <1>13 DEF Clear
<1> QED
  BY <1>1, <1>2, <1>3, <1>4, <1>5, <1>6, <1>7, <1>8, <1>9, <1>10, <1>11, <1>12, <1>13 DEF ServerStep

LEMMA AdminNode ==
    ASSUME LeaseAssumption, LeaseInv, NEW p \in Nodes, NodeStep(p), Undisturbed(p), ~Stalls
    PROVE  AdminInv'
<1> USE DEF LeaseAssumption, LeaseInv, TypeInv, Procs, At, Go, See, Drop, Link, ClearTombstone, others, files, Exit, Again, Alive, RipeInv, PlaceInv, ServerPoint, NodePoint, Guarded, HasApply, HasAdmin, ApplyInv, AdminInv, Reclaiming, Recovering, Undisturbed
<1>1. CASE Look(p)
  BY <1>1 DEF Look
<1>2. CASE NodeReplace(p)
  BY <1>2 DEF NodeReplace
<1>3. CASE NodeRestore(p)
  BY <1>3 DEF NodeRestore
<1>4. CASE NodeRestored(p)
  BY <1>4 DEF NodeRestored
<1>5. CASE NodePublish(p)
  BY <1>5 DEF NodePublish
<1>6. CASE NodeExisting(p)
  BY <1>6 DEF NodeExisting
<1>7. CASE NodeClaim(p)
  BY <1>7 DEF NodeClaim
<1>8. CASE NodeConfirm(p)
  BY <1>8 DEF NodeConfirm
<1>9. CASE NodeRemove(p)
  BY <1>9 DEF NodeRemove
<1>10. CASE NodeOwn(p)
  BY <1>10 DEF NodeOwn
<1>11. CASE NodeClear(p)
  BY <1>11 DEF NodeClear
<1>12. CASE NodeCheck(p)
  BY <1>12 DEF NodeCheck
<1>13. CASE NodeLeave(p)
  BY <1>13 DEF NodeLeave
<1>14. CASE NodeUnlink(p)
  BY <1>14 DEF NodeUnlink
<1> QED
  BY <1>1, <1>2, <1>3, <1>4, <1>5, <1>6, <1>7, <1>8, <1>9, <1>10, <1>11, <1>12, <1>13, <1>14 DEF NodeStep

(* The order: an initializer that finds no apply.lock has published before *)
(* the server did, which then finds it.                                    *)
LEMMA OrderServer ==
    ASSUME LeaseAssumption, LeaseInv, NEW p \in Servers, ServerStep(p)
    PROVE  OrderInv'
<1> USE DEF LeaseAssumption, LeaseInv, TypeInv, Procs, At, Go, See, Drop, Link, ClearTombstone, others, files, Exit, Again, Alive, RipeInv, PlaceInv, ServerPoint, NodePoint, Guarded, HasApply, HasAdmin, ApplyInv, AdminInv, OrderInv, Passed
<1>1. CASE TakeGuard(p)
  BY <1>1 DEF TakeGuard
<1>2. CASE PublishApply(p)
  BY <1>2 DEF PublishApply
<1>3. CASE ReclaimApply(p)
  BY <1>3 DEF ReclaimApply
<1>4. CASE ReleaseApply(p)
  BY <1>4 DEF ReleaseApply
<1>5. CASE Interrupted(p)
  BY <1>5 DEF Interrupted
<1>6. CASE Replace(p)
  BY <1>6 DEF Replace
<1>7. CASE Restore(p)
  BY <1>7 DEF Restore
<1>8. CASE Restored(p)
  BY <1>8 DEF Restored
<1>9. CASE Inspect(p)
  BY <1>9 DEF Inspect
<1>10. CASE Claim(p)
  BY <1>10 DEF Claim
<1>11. CASE Confirm(p)
  BY <1>11 DEF Confirm
<1>12. CASE Remove(p)
  BY <1>12 DEF Remove
<1>13. CASE Clear(p)
  BY <1>13 DEF Clear
<1> QED
  BY <1>1, <1>2, <1>3, <1>4, <1>5, <1>6, <1>7, <1>8, <1>9, <1>10, <1>11, <1>12, <1>13 DEF ServerStep

LEMMA OrderNode ==
    ASSUME LeaseAssumption, LeaseInv, NEW p \in Nodes, NodeStep(p)
    PROVE  OrderInv'
<1> USE DEF LeaseAssumption, LeaseInv, TypeInv, Procs, At, Go, See, Drop, Link, ClearTombstone, others, files, Exit, Again, Alive, RipeInv, PlaceInv, ServerPoint, NodePoint, Guarded, HasApply, HasAdmin, ApplyInv, AdminInv, OrderInv, Passed
<1>1. CASE Look(p)
  BY <1>1 DEF Look
<1>2. CASE NodeReplace(p)
  BY <1>2 DEF NodeReplace
<1>3. CASE NodeRestore(p)
  BY <1>3 DEF NodeRestore
<1>4. CASE NodeRestored(p)
  BY <1>4 DEF NodeRestored
<1>5. CASE NodePublish(p)
  BY <1>5 DEF NodePublish
<1>6. CASE NodeExisting(p)
  BY <1>6 DEF NodeExisting
<1>7. CASE NodeClaim(p)
  BY <1>7 DEF NodeClaim
<1>8. CASE NodeConfirm(p)
  BY <1>8 DEF NodeConfirm
<1>9. CASE NodeRemove(p)
  BY <1>9 DEF NodeRemove
<1>10. CASE NodeOwn(p)
  BY <1>10 DEF NodeOwn
<1>11. CASE NodeClear(p)
  BY <1>11 DEF NodeClear
<1>12. CASE NodeCheck(p)
  BY <1>12 DEF NodeCheck
<1>13. CASE NodeLeave(p)
  BY <1>13 DEF NodeLeave
<1>14. CASE NodeUnlink(p)
  BY <1>14 DEF NodeUnlink
<1> QED
  BY <1>1, <1>2, <1>3, <1>4, <1>5, <1>6, <1>7, <1>8, <1>9, <1>10, <1>11, <1>12, <1>13, <1>14 DEF NodeStep

(* The steps of both, and deaths. *)
LEMMA StepsKeep == ASSUME LeaseAssumption, ~Stalls, LeaseInv, [Next]_vars PROVE LeaseInv'
<1>1. TypeInv'
  BY TypesKept DEF LeaseInv
<1>2. ASSUME NEW p \in Servers, ServerStep(p), Undisturbed(p) PROVE ApplyInv' /\ AdminInv' /\ OrderInv'
  BY <1>2, ApplyServer, AdminServer, OrderServer
<1>3. ASSUME NEW p \in Nodes, NodeStep(p), Undisturbed(p) PROVE ApplyInv' /\ AdminInv' /\ OrderInv'
  BY <1>3, ApplyNode, AdminNode, OrderNode
<1>4. ASSUME NEW p \in Procs, Finish(p) PROVE ApplyInv' /\ AdminInv' /\ OrderInv'
  <2> USE DEF LeaseAssumption, LeaseInv, TypeInv, PlaceInv, Procs, At, Go, files, others, Finish, ServerPoint, NodePoint, Guarded, HasApply,
          HasAdmin
  <2>1. ApplyInv'
    BY <1>4 DEF ApplyInv
  <2>2. AdminInv'
    BY <1>4 DEF AdminInv, Reclaiming, Recovering
  <2>3. OrderInv'
    BY <1>4 DEF OrderInv, Passed
  <2> QED
    BY <2>1, <2>2, <2>3
<1>5. ASSUME Ripen PROVE ApplyInv' /\ AdminInv' /\ OrderInv'
  <2>1. ApplyInv'
    BY <1>5 DEF Ripen, LeaseInv, ApplyInv
  <2>2. AdminInv'
    BY <1>5 DEF Ripen, LeaseInv, AdminInv
  <2>3. OrderInv'
    BY <1>5 DEF Ripen, LeaseInv, OrderInv
  <2> QED
    BY <2>1, <2>2, <2>3
<1>6. ASSUME NEW p \in Procs, Die(p) PROVE ApplyInv' /\ AdminInv' /\ OrderInv'
  <2> USE DEF LeaseAssumption, LeaseInv, TypeInv, PlaceInv, Procs, At, Go, files, Die, ServerPoint, NodePoint, Guarded, HasApply, HasAdmin
  <2>1. ApplyInv'
    BY <1>6 DEF ApplyInv
  <2>2. AdminInv'
    BY <1>6 DEF AdminInv, Reclaiming, Recovering
  <2>3. OrderInv'
    BY <1>6 DEF OrderInv, Passed
  <2> QED
    BY <2>1, <2>2, <2>3
<1>7. ASSUME UNCHANGED vars PROVE ApplyInv' /\ AdminInv' /\ OrderInv'
  <2>1. ApplyInv'
    BY <1>7 DEF vars, files, LeaseInv, ApplyInv
  <2>2. AdminInv'
    BY <1>7 DEF vars, files, LeaseInv, AdminInv
  <2>3. OrderInv'
    BY <1>7 DEF vars, files, LeaseInv, OrderInv
  <2> QED
    BY <2>1, <2>2, <2>3
<1> QED
  BY <1>1, <1>2, <1>3, <1>4, <1>5, <1>6, <1>7 DEF Next, LeaseInv

LEMMA InitHolds == ASSUME LeaseAssumption, Init PROVE LeaseInv
<1> USE DEF LeaseAssumption, Init, Procs
<1>1. ApplyInv
  BY DEF ApplyInv, Guarded, HasApply
<1>2. AdminInv
  BY DEF AdminInv, HasAdmin, Reclaiming, Recovering
<1>3. OrderInv
  BY DEF OrderInv
<1> QED
  BY <1>1, <1>2, <1>3, InitTypes DEF LeaseInv

(* One process installs at a time, and has its lease while it does: for    *)
(* any number of servers, initializers and deaths, in every order of their *)
(* steps in which the recovery of an interrupted reclaim is not overtaken. *)
THEOREM OneAtATime == ASSUME LeaseAssumption, ~Stalls PROVE Spec => []OneInstaller
<1>1. Init => LeaseInv
  BY InitHolds
<1>2. LeaseInv /\ [Next]_vars => LeaseInv'
  BY StepsKeep
<1>3. LeaseInv => OneInstaller
  <2> SUFFICES ASSUME LeaseInv, NEW p \in Procs, pc[p] = "in"
               PROVE  /\ \A q \in Procs : pc[q] = "in" => p = q
                      /\ (IF p \in Servers THEN applyLock ELSE adminLock) = p
    BY DEF OneInstaller, At
  <2>1. /\ \A q \in Servers : pc[q] = "in" => applyLock = q
        /\ \A q \in Nodes : pc[q] = "in" => adminLock = q
    BY DEF LeaseInv, ApplyInv, AdminInv, HasApply, HasAdmin
  <2>2. \A q \in Servers, n \in Nodes : ~(pc[q] = "in" /\ pc[n] = "in")
    BY DEF LeaseInv, OrderInv, Passed
  <2> QED
    BY <2>1, <2>2 DEF Procs
<1> QED
  BY <1>1, <1>2, <1>3, PTL DEF Spec
-----------------------------------------------------------------------------
(* The installation beside it (MCInstalling): each instance of Installer   *)
(* keeps what is proved in InstallerProofs, in its own behaviours.         *)

installing == <<part, installVars, leaseVars>>

LEMMA Assumed == LeaseAssumption /\ I!InstallerAssumption /\ K!InstallerAssumption
  BY MCAssumption

LEMMA LeaseApart == MCSpec => Spec
<1>1. MCInit => Init
  BY DEF MCInit
<1>2. [MCNext]_installing => [Next]_vars
  BY DEF MCNext, installing, leaseVars
<1>3. MCSpec => MCInit /\ [][MCNext]_installing
  BY DEF MCSpec, installing
<1> QED
  BY <1>1, <1>2, <1>3, PTL DEF Spec

InstallingInv == (part = "two" => I!InstallInv) /\ (part = "edited" => K!InstallInv)

LEMMA InstallingKept == InstallingInv /\ [MCNext]_installing => InstallingInv'
<1> SUFFICES ASSUME InstallingInv, [MCNext]_installing PROVE InstallingInv'
  OBVIOUS
<1>1. part' = part
  BY DEF MCNext, installing
<1>2. ASSUME part = "two" PROVE I!InstallInv'
  <2>1. [I!Next]_(I!vars)
    BY <1>2 DEF MCNext, installing, installVars, I!vars, I!stores
  <2> QED
    BY <1>2, <2>1, Assumed, I!NextInstalls DEF InstallingInv
<1>3. ASSUME part = "edited" PROVE K!InstallInv'
  <2>1. [K!Next]_(K!vars)
    BY <1>3 DEF MCNext, installing, installVars, K!vars, K!stores
  <2> QED
    BY <1>3, <2>1, Assumed, K!NextInstalls DEF InstallingInv
<1> QED
  BY <1>1, <1>2, <1>3 DEF InstallingInv

LEMMA InstallingAlways == MCSpec => []InstallingInv
<1>1. MCInit => InstallingInv
  <2>1. I!Init => I!InstallInv
    BY Assumed, I!InitInstalls
  <2>2. K!Init => K!InstallInv
    BY Assumed, K!InitInstalls
  <2> QED
    BY <2>1, <2>2 DEF MCInit, InstallingInv
<1>2. MCSpec => MCInit /\ [][MCNext]_installing
  BY DEF MCSpec, installing
<1> QED
  BY <1>1, <1>2, InstallingKept, PTL

(* What a transaction has done stands in the journal, and what the user    *)
(* wrote into .env stays: of any servers that install together, and of one *)
(* that others disturb, with any number of databases, failing calls,       *)
(* crashes and edits.                                                      *)
THEOREM EffectsAreKept == MCSpec => []EffectsHold
<1>1. InstallingInv /\ TypeOK => EffectsHold
  <2>1. I!InstallInv => I!TypeOK /\ I!EffectsJournaled /\ I!UserContentsKept
    BY Assumed, I!InvJournals, I!InvKeeps DEF I!InstallInv, I!Types
  <2>2. K!InstallInv => K!TypeOK /\ K!EffectsJournaled /\ K!UserContentsKept
    BY Assumed, K!InvJournals, K!InvKeeps DEF K!InstallInv, K!Types
  <2> QED
    BY <2>1, <2>2 DEF EffectsHold, InstallingInv
<1>2. Spec => []TypeOK
  BY Assumed, TypeCorrect
<1> QED
  BY <1>1, <1>2, InstallingAlways, LeaseApart, PTL

(* Behind a marker stand an administrator and a published .env, and behind *)
(* a completed job a marker.                                               *)
THEOREM MarkersAreComplete == MCSpec => []InstalledIsComplete
<1>1. InstallingInv => InstalledIsComplete
  <2>1. I!InstallInv => I!InstalledIsComplete
    BY Assumed, I!InvComplete
  <2>2. K!InstallInv => K!InstalledIsComplete
    BY Assumed, K!InvComplete
  <2> QED
    BY <2>1, <2>2 DEF InstalledIsComplete, InstallingInv
<1> QED
  BY <1>1, InstallingAlways, PTL
=============================================================================
