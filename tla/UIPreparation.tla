---------------------------- MODULE UIPreparation ----------------------------
(***************************************************************************)
(* The choice of the user interface before an installation: the jobs of    *)
(* application/installer/ui_prepare.go, the initializer they start         *)
(* (command_ui_initializer.go, admin/scripts/init.mjs) and the files it    *)
(* switches under a journal of its own (init-state.mjs), beside the        *)
(* installation, which must not see the choice change.                     *)
(*                                                                         *)
(* A run is one execution of the initializer, with the detached supervisor *)
(* that installs the dependencies; one look at the files or one atomic     *)
(* write is one step.  The checkout keeps all three interfaces (workspace  *)
(* mode).                                                                  *)
(***************************************************************************)
EXTENDS Naturals, FiniteSets

CONSTANTS
    UIs, None,
    Requests,           \* requests to the server
    MaxRuns,            \* bound on runs of the initializer
    Kept,               \* jobs a server remembers (8 in the code)
    MaxFaults, MaxCrashes, MaxPulls,
    PullsAnyTime        \* whether the lockfile may change under a run

PreparationAssumption ==
    /\ None \notin UIs /\ {MaxRuns, Kept, MaxFaults, MaxCrashes, MaxPulls} \subseteq Nat
    /\ PullsAnyTime \in BOOLEAN

VARIABLES
    files,              \* profile, receipt, report and journal of the checkout
    lock, modules,      \* version of the lockfile; what node_modules was installed for
    marker, apply,      \* the installation: done; its lock and its journal
    lease,              \* the run that has admin-init.lock
    run,
    job, active,        \* jobs of the server, by run
    closed, returned,   \* Close was called; what it returned
    request,
    faults, crashes, pulls

disk   == <<files, lock, modules, marker, apply, lease>>
server == <<job, active, closed, returned, request>>
budget == <<faults, crashes, pulls>>
vars   == <<disk, run, server, budget>>

Runs   == 1..MaxRuns
Ended  == {"ok", "bad", "dead"}
Names  == <<"profile", "receipt", "report", "journal">>
NoFiles == [profile |-> None, receipt |-> None, report |-> None, journal |-> None]
NoRun  == [at |-> "unused", ui |-> None, install |-> FALSE, was |-> NoFiles, hash |-> 0, undo |-> 0, torn |-> FALSE]

Init ==
    /\ files = NoFiles /\ lock = 0 /\ modules = None
    /\ marker = FALSE /\ apply = "none" /\ lease = 0
    /\ run = [s \in Runs |-> NoRun]
    /\ job = [s \in Runs |-> "none"] /\ active = 0 /\ closed = FALSE /\ returned = "no"
    /\ request = [r \in Requests |-> [at |-> "new", ui |-> None]]
    /\ faults = 0 /\ crashes = 0 /\ pulls = 0

Write(f, v)      == files' = [files EXCEPT ![f] = v]
Goto(s, l)       == run' = [run EXCEPT ![s].at = l]
Pending(u)       == [ui |-> u, phase |-> "dependencies_pending"]
Switching(u)     == [ui |-> u, phase |-> "switching_ui"]
ReceiptFor(u, n) == [ui |-> u, hash |-> n]
Ready(u)         == files.receipt = ReceiptFor(u, lock)
ApplyLocked      == apply \in {"locked", "running"}
ApplyJournal     == apply \in {"running", "left"}

(* What inspectWorkspaceState calls inconsistent. *)
Inconsistent ==
    /\ ~ApplyJournal
    /\ \/ /\ files.journal # None /\ files.journal.phase = "dependencies_pending"
          /\ files.profile \notin {None, files.journal.ui}
       \/ files.journal = None /\ files.profile = None /\ (marker \/ files.receipt # None)

(* A run that ends gives its lease back. *)
End(s, how) == Goto(s, how) /\ lease' = IF lease = s THEN 0 ELSE lease

-----------------------------------------------------------------------------
(* The lease of the initializer, and the lock of the installation: each    *)
(* side publishes its own and looks for the other's.                       *)

Acquire(s) ==
    /\ run[s].at = "start"
    /\ IF lease = 0 \/ run[lease].at = "dead" THEN lease' = s /\ Goto(s, "idle")
       ELSE End(s, "bad")
    /\ UNCHANGED <<files, lock, modules, marker, apply, server, budget>>

EnsureApplyIdle(s) ==
    /\ run[s].at = "idle"
    /\ IF ApplyLocked THEN End(s, "bad")
       ELSE Goto(s, IF run[s].ui = None THEN "reset" ELSE "preflight") /\ UNCHANGED lease
    /\ UNCHANGED <<files, lock, modules, marker, apply, server, budget>>

(* The server's installation, as the checkout sees it. *)
ApplyLock == apply \in {"none", "left"} /\ ~marker /\ apply' = IF apply = "none" THEN "locked" ELSE "running"
ApplyEnter ==
    /\ apply = "locked"
    /\ apply' = IF lease = 0 /\ files.journal = None /\ files.profile # None THEN "running" ELSE "none"
ApplyEnd  == apply = "running" /\ apply' = "none"
Applies ==
    /\ \/ ApplyLock /\ UNCHANGED marker
       \/ ApplyEnter /\ UNCHANGED marker
       \/ ApplyEnd /\ marker' \in BOOLEAN
    /\ UNCHANGED <<files, lock, modules, lease, run, server, budget>>
ApplyCrash ==
    /\ apply = "running" /\ crashes < MaxCrashes /\ crashes' = crashes + 1 /\ apply' = "left"
    /\ UNCHANGED <<files, lock, modules, marker, lease, run, server, faults, pulls>>

-----------------------------------------------------------------------------
(* A run that prepares an interface. *)

(* Mutant of Admissible: only the lock of an installation counts. *)
AdmissibleUnlocked(u) ==
    /\ ~ApplyLocked
    /\ files.journal # None =>
           /\ files.journal.ui = u
           /\ files.journal.phase = "dependencies_pending" => files.profile = u
           /\ files.journal.phase = "switching_ui" /\ files.profile = u => files.report = u

Admissible(u) ==
    /\ ~ApplyLocked /\ ~ApplyJournal
    /\ files.journal # None =>
           /\ files.journal.ui = u
           /\ files.journal.phase = "dependencies_pending" => files.profile = u
           /\ files.journal.phase = "switching_ui" /\ files.profile = u => files.report = u

Preflight(s) ==
    /\ run[s].at = "preflight"
    /\ IF Admissible(run[s].ui) THEN Goto(s, "select") /\ UNCHANGED lease ELSE End(s, "bad")
    /\ UNCHANGED <<files, lock, modules, marker, apply, server, budget>>

Selected(u) == marker /\ files.profile = u /\ files.journal = None /\ (files.receipt = None \/ Ready(u))

(* The switch begins with the journal, or goes on from the one that an     *)
(* interrupted run left.                                                   *)
Select(s) ==
    LET u       == run[s].ui
        install == ~Ready(u)
        j       == files.journal
        resumed == j # None /\ (j.phase = "dependencies_pending" \/ files.profile = u)
    IN /\ run[s].at = "select"
       /\ \/ /\ Inconsistent \/ ~Admissible(u)
             /\ End(s, "bad") /\ UNCHANGED files
          \/ /\ ~Inconsistent /\ Admissible(u) /\ (Selected(u) \/ resumed)
             /\ IF resumed /\ j.phase = "switching_ui"
                THEN Write("journal", IF install THEN Pending(u) ELSE None) ELSE UNCHANGED files
             /\ Goto(s, "dependencies") /\ UNCHANGED lease
          \/ /\ ~Inconsistent /\ Admissible(u) /\ ~Selected(u) /\ ~resumed
             /\ IF files.profile # u \/ install THEN Write("journal", Switching(u)) ELSE UNCHANGED files
             /\ run' = [run EXCEPT ![s].at = "report", ![s].install = install, ![s].was = files]
             /\ UNCHANGED lease
       /\ UNCHANGED <<lock, modules, marker, apply, server, budget>>

WriteReport(s) ==
    /\ run[s].at = "report" /\ Write("report", run[s].ui) /\ Goto(s, "receipt")
    /\ UNCHANGED <<lock, modules, marker, apply, lease, server, budget>>

DropReceipt(s) ==
    /\ run[s].at = "receipt" /\ Goto(s, "profile")
    /\ IF run[s].was.profile # run[s].ui \/ run[s].install THEN Write("receipt", None) ELSE UNCHANGED files
    /\ UNCHANGED <<lock, modules, marker, apply, lease, server, budget>>

(* "Commit the selector last." *)
WriteProfile(s) ==
    /\ run[s].at = "profile" /\ Write("profile", run[s].ui) /\ Goto(s, "commit")
    /\ UNCHANGED <<lock, modules, marker, apply, lease, server, budget>>

(* Mutant of Commit: the journal ends with the switch. *)
CommitDone(s) ==
    /\ run[s].at = "commit" /\ Goto(s, "dependencies")
    /\ Write("journal", None)
    /\ UNCHANGED <<lock, modules, marker, apply, lease, server, budget>>

Commit(s) ==
    /\ run[s].at = "commit" /\ Goto(s, "dependencies")
    /\ IF files.journal = None THEN UNCHANGED files
       ELSE Write("journal", IF run[s].install THEN Pending(run[s].ui) ELSE None)
    /\ UNCHANGED <<lock, modules, marker, apply, lease, server, budget>>

(* After a failure every file is restored, the journal last; if one of     *)
(* them cannot be, the journal stays to block the checkout.                *)
Undo(s) ==
    LET f    == Names[run[s].undo]
        keep == f = "journal" /\ run[s].torn
    IN /\ run[s].at = "undo"
       /\ \/ /\ IF keep THEN Write(f, IF files.journal = None THEN None ELSE Switching(run[s].ui))
                ELSE Write(f, run[s].was[f])
             /\ UNCHANGED faults /\ run' = [run EXCEPT ![s].undo = @ + 1, ![s].at = IF f = "journal" THEN "bad" ELSE @]
          \/ /\ faults < MaxFaults /\ faults' = faults + 1 /\ UNCHANGED files
             /\ run' = [run EXCEPT ![s].undo = @ + 1, ![s].torn = TRUE, ![s].at = IF f = "journal" THEN "bad" ELSE @]
       /\ lease' = IF f = "journal" THEN 0 ELSE lease
       /\ UNCHANGED <<lock, modules, marker, apply, server, crashes, pulls>>

Dependencies(s) ==
    /\ run[s].at = "dependencies"
    /\ \/ /\ Ready(run[s].ui)
          /\ run' = [run EXCEPT ![s].at = IF files.journal = None THEN "complete" ELSE "record", ![s].hash = lock]
          /\ UNCHANGED modules
       \/ /\ ~Ready(run[s].ui)
          /\ run' = [run EXCEPT ![s].at = "install", ![s].hash = lock]
          /\ modules' = None
    /\ UNCHANGED <<files, lock, marker, apply, lease, server, budget>>

Install(s) ==
    /\ run[s].at = "install" /\ Goto(s, "verify") /\ modules' = ReceiptFor(run[s].ui, run[s].hash)
    /\ UNCHANGED <<files, lock, marker, apply, lease, server, budget>>

(* The supervisor compares the lockfile with the one it has installed;     *)
(* the run that finds the receipt ready and the journal pending does not.  *)
CompletePreparation(s) ==
    LET u  == run[s].ui
        ok == files.journal \in {None, Pending(u)} /\ files.profile = u /\ (run[s].at = "verify" => run[s].hash = lock)
    IN /\ run[s].at \in {"verify", "record"}
       /\ IF ok THEN Write("receipt", ReceiptFor(u, lock)) /\ Goto(s, "unjournal") /\ UNCHANGED lease
          ELSE End(s, "bad") /\ UNCHANGED files
       /\ UNCHANGED <<lock, modules, marker, apply, server, budget>>

Unjournal(s) ==
    /\ run[s].at = "unjournal" /\ Write("journal", None) /\ Goto(s, "complete")
    /\ UNCHANGED <<lock, modules, marker, apply, lease, server, budget>>

Complete(s) ==
    /\ run[s].at = "complete" /\ End(s, "ok")
    /\ UNCHANGED <<files, lock, modules, marker, apply, server, budget>>

-----------------------------------------------------------------------------
(* A run that resets the choice: the files go one after the other. *)

Reset(s) ==
    /\ run[s].at = "reset"
    /\ IF marker \/ ApplyJournal \/ files.journal # None \/ Inconsistent THEN End(s, "bad") /\ UNCHANGED files
       ELSE Write("profile", None) /\ Goto(s, "reset receipt") /\ UNCHANGED lease
    /\ UNCHANGED <<lock, modules, marker, apply, server, budget>>
ResetReceipt(s) ==
    /\ run[s].at = "reset receipt" /\ Write("receipt", None) /\ Goto(s, "reset report")
    /\ UNCHANGED <<lock, modules, marker, apply, lease, server, budget>>
ResetReport(s) ==
    /\ run[s].at = "reset report" /\ Write("report", None) /\ Goto(s, "complete")
    /\ UNCHANGED <<lock, modules, marker, apply, lease, server, budget>>

-----------------------------------------------------------------------------
(* Failures, the end of a process, and a changed lockfile. *)

Working(s) == run[s].at \notin Ended \cup {"unused"}
InSwitch == {"report", "receipt", "profile", "commit"}

Fault(s) ==
    /\ Working(s) /\ run[s].at # "undo" /\ faults < MaxFaults /\ faults' = faults + 1
    /\ IF run[s].at \in InSwitch THEN run' = [run EXCEPT ![s].at = "undo", ![s].undo = 1] /\ UNCHANGED lease
       ELSE End(s, "bad")
    /\ UNCHANGED <<files, lock, modules, marker, apply, server, crashes, pulls>>

Crash(s) ==
    /\ Working(s) /\ crashes < MaxCrashes /\ crashes' = crashes + 1
    /\ Goto(s, "dead")
    /\ UNCHANGED <<disk, server, faults, pulls>>

Pull ==
    /\ pulls < MaxPulls /\ pulls' = pulls + 1 /\ lock' = lock + 1
    /\ PullsAnyTime \/ lease = 0
    /\ UNCHANGED <<files, modules, marker, apply, lease, run, server, faults, crashes>>

-----------------------------------------------------------------------------
(* The jobs of the server. *)

Busy == active # 0 /\ job[active] \in {"queued", "running"}
Reply(r, how) == request' = [request EXCEPT ![r] = [@ EXCEPT !.at = how]]
NextRun(s) == run[s].at = "unused" /\ job[s] = "none" /\ \A t \in Runs : t < s => run[t].at # "unused" \/ job[t] # "none"

(* What FileProfileProvider makes of the files: does the request agree     *)
(* with a preparation that is under way, or with the one that is done?     *)
Agrees(u) ==
    LET j == files.journal
    IN IF j # None THEN /\ j.phase = "dependencies_pending" => files.profile \in {None, j.ui}
                        /\ u \in {None, j.ui}
       ELSE IF ApplyJournal THEN FALSE
       ELSE IF files.profile = None THEN u # None
       ELSE u \in {None, files.profile}

(* Marker and profile are read before the lock is taken. *)
StartPrepare(r, u) ==
    /\ request[r].at = "new"
    /\ IF closed \/ marker \/ ~Agrees(u) THEN Reply(r, "refused")
       ELSE request' = [request EXCEPT ![r] = [at |-> "admitted", ui |-> u]]
    /\ UNCHANGED <<disk, run, job, active, closed, returned, budget>>
StartReset(r) ==
    /\ request[r].at = "new"
    /\ IF closed \/ marker \/ (Busy /\ run[active].ui # None) \/ (~Busy /\ ~Agrees(None)) THEN Reply(r, "refused")
       ELSE IF Busy THEN Reply(r, "joined") ELSE request' = [request EXCEPT ![r] = [at |-> "admitted", ui |-> None]]
    /\ UNCHANGED <<disk, run, job, active, closed, returned, budget>>

(* The jobs beyond the number kept, the oldest first: they end in order. *)
Pruned(jobs, s) ==
    LET ended == {t \in Runs : jobs[t] \in {"succeeded", "failed"} /\ t # s}
        over  == Cardinality({t \in Runs : jobs[t] # "none"}) - Kept
        old   == {t \in ended : Cardinality({x \in ended : x < t}) < over}
    IN [t \in Runs |-> IF t \in old THEN "none" ELSE jobs[t]]

Enqueue(r, s) ==
    /\ request[r].at = "admitted" /\ NextRun(s)
    /\ IF closed THEN Reply(r, "refused") /\ UNCHANGED <<job, active, run>>
       ELSE IF Busy THEN /\ Reply(r, IF run[active].ui = request[r].ui THEN "joined" ELSE "refused")
                         /\ UNCHANGED <<job, active, run>>
       ELSE /\ job' = Pruned([job EXCEPT ![s] = "queued"], s) /\ active' = s
            /\ run' = [run EXCEPT ![s].ui = request[r].ui, ![s].at = "queued"]
            /\ Reply(r, "accepted")
    /\ UNCHANGED <<disk, closed, returned, budget>>

Launch(s) ==
    /\ job[s] = "queued" /\ job' = [job EXCEPT ![s] = "running"]
    /\ Goto(s, IF closed THEN "bad" ELSE "start")
    /\ UNCHANGED <<disk, active, closed, returned, request, budget>>

Record(s) ==
    /\ job[s] = "running" /\ run[s].at \in Ended
    /\ job' = [job EXCEPT ![s] = IF run[s].at = "ok" /\ ~closed THEN "succeeded" ELSE "failed"]
    /\ active' = IF active = s THEN 0 ELSE active
    /\ UNCHANGED <<disk, run, closed, returned, request, budget>>

(* Close cancels the runs and waits for the jobs, ten seconds at most.     *)
(* The signal reaches the package manager, and the initializer behind it   *)
(* on some systems only.                                                   *)
Close == ~closed /\ closed' = TRUE /\ UNCHANGED <<disk, run, job, active, returned, request, budget>>
Kill(s) ==
    /\ closed /\ job[s] = "running" /\ Working(s) /\ Goto(s, "dead")
    /\ UNCHANGED <<disk, server, budget>>
CloseReturns ==
    /\ closed /\ returned = "no"
    /\ returned' \in (IF \E s \in Runs : job[s] \in {"queued", "running"} THEN {"timeout"} ELSE {"clean"})
    /\ UNCHANGED <<disk, run, job, active, closed, request, budget>>

(* The next server knows no job; the runs of the last one may go on. *)
Restart ==
    /\ returned # "no" \/ crashes < MaxCrashes
    /\ crashes' = IF returned # "no" THEN crashes ELSE crashes + 1
    /\ job' = [s \in Runs |-> "none"] /\ active' = 0 /\ closed' = FALSE /\ returned' = "no"
    /\ run' = [s \in Runs |-> IF run[s].at = "queued" THEN [run[s] EXCEPT !.at = "bad"] ELSE run[s]]
    /\ request' = [r \in Requests |-> IF request[r].at = "admitted" THEN [at |-> "refused", ui |-> None] ELSE request[r]]
    /\ UNCHANGED <<disk, faults, pulls>>

(* An operator runs the initializer by hand. *)
ByHand(s, u) ==
    /\ NextRun(s) /\ run' = [run EXCEPT ![s].at = "start", ![s].ui = u]
    /\ UNCHANGED <<disk, server, budget>>

-----------------------------------------------------------------------------
RunStep(s) ==
    \/ Acquire(s) \/ EnsureApplyIdle(s) \/ Preflight(s) \/ Select(s) \/ WriteReport(s) \/ DropReceipt(s)
    \/ WriteProfile(s) \/ Commit(s) \/ Undo(s) \/ Dependencies(s) \/ Install(s) \/ CompletePreparation(s)
    \/ Unjournal(s) \/ Complete(s) \/ Reset(s) \/ ResetReceipt(s) \/ ResetReport(s)

Next ==
    \/ \E s \in Runs : RunStep(s) \/ Fault(s) \/ Crash(s) \/ Launch(s) \/ Record(s) \/ Kill(s)
                       \/ \E u \in UIs \cup {None} : ByHand(s, u)
    \/ \E r \in Requests : StartReset(r) \/ (\E u \in UIs : StartPrepare(r, u)) \/ \E s \in Runs : Enqueue(r, s)
    \/ Applies \/ ApplyCrash \/ Pull \/ Close \/ CloseReturns \/ Restart

Spec == Init /\ [][Next]_vars

-----------------------------------------------------------------------------
(* Properties. *)

(* Every variable has its type. *)
TypeOK ==
    /\ lease \in 0..MaxRuns /\ active \in 0..MaxRuns
    /\ apply \in {"none", "locked", "running", "left"}
    /\ job \in [Runs -> {"none", "queued", "running", "succeeded", "failed"}]
    /\ returned \in {"no", "clean", "timeout"}

(* A choice without a pending journal is a choice whose dependencies have  *)
(* been installed, and a receipt of it that is up to date tells the truth  *)
(* about node_modules: however a switch is interrupted, undone or taken up *)
(* again by another run.                                                   *)
ChosenIsInstalled ==
    files.journal = None /\ files.profile # None =>
        /\ files.receipt # None /\ files.receipt.ui = files.profile
        /\ files.receipt.hash = lock => modules = files.receipt

(* After Close has returned without an error no job of the server runs and *)
(* none is left to start; a run that a server waits for is the only one    *)
(* it has.                                                                 *)
ClosedIsQuiet == returned = "clean" => \A s \in Runs : job[s] \notin {"queued", "running"}
OneJob == Cardinality({s \in Runs : job[s] \in {"queued", "running"}}) <= 1
JobsHold == ClosedIsQuiet /\ OneJob

(* "changing UI underneath that recovery would split selectedUi across the *)
(* backend transaction and the local workspace profile": while the         *)
(* installation has a journal, the choice stays.                           *)
ChoiceFixed == [][ApplyJournal /\ ApplyJournal' => files'.profile = files.profile]_vars

(* "直接重新运行 pnpm run init": a choice that can be taken up again by an    *)
(* ordinary run is what the initializer promises for a receipt without a   *)
(* profile.                                                                *)
RunAgain == [][\A s \in Runs : run[s].at = "select" /\ files.profile = None /\ files.receipt # None
                   => run'[s].at # "bad"]_vars
=============================================================================
