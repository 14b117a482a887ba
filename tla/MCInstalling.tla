---------------------------- MODULE MCInstalling ----------------------------
(* The installation, and the lease files it relies on, apart.  Three instances of Installer: *)
(* several servers; one server, databases, conflicts and changes by others; one server alone, *)
(* for the liveness, with the plan that reads the journal, as it is wired.  The others leave   *)
(* that check out, so that the recovery of a journal runs too, which it never does as wired.    *)
(* They are instances of the module with its proofs, so that what is proved there can be cited. *)
EXTENDS ProcessLease, FiniteSets, Sequences
CONSTANTS
    Tx, None, Foreign, Clash, Contents, Free, Stale, JobsKept, MaxFaults, MaxCrashes,
    Several, Alone,        \* the server processes that install together, and the one of the other instances
    Target, Targets,       \* the databases
    Equal, Any,            \* what the databases may hold under the ids of the seeds
    MaxEdits,              \* changes by others, of the second instance
    t1, t2, t3, s1, s2, d1, d2, Old, New, a1, a2, n1, n2
VARIABLES
    part,
    lease, node, journal, env, marker, identity, backups, mem, pending, known, jobs, user, faults, crashes, edits

installVars == <<lease, node, journal, env, marker, identity, backups, mem, pending, known, jobs, user, faults,
                 crashes, edits>>
leaseVars == vars

I == INSTANCE InstallerProofs WITH
        Procs <- Several, Databases <- Target, Seeds <- Equal, MaxEdits <- 0, PlanReadsJournal <- FALSE
K == INSTANCE InstallerProofs WITH
        Procs <- Alone, Databases <- Targets, Seeds <- Any, PlanReadsJournal <- FALSE
J == INSTANCE InstallerProofs WITH
        Procs <- Alone, Databases <- Target, Seeds <- Equal, MaxEdits <- 0, PlanReadsJournal <- TRUE

ASSUME MCAssumption == I!InstallerAssumption /\ K!InstallerAssumption /\ J!InstallerAssumption /\ LeaseAssumption

MCInit ==
    \/ part = "two" /\ I!Init /\ Init
    \/ part = "edited" /\ K!Init /\ Init
    \/ part = "one" /\ J!Init /\ Init
    \/ part = "lease" /\ J!Init /\ user = None /\ (\A d \in Target : identity[d].nav = None) /\ Init
MCNext ==
    \/ part = "two" /\ I!Next /\ UNCHANGED <<part, leaseVars>>
    \/ part = "edited" /\ K!Next /\ UNCHANGED <<part, leaseVars>>
    \/ part = "one" /\ J!Next /\ UNCHANGED <<part, leaseVars>>
    \/ part = "lease" /\ Next /\ UNCHANGED <<part, installVars>>
MCSpec == MCInit /\ [][MCNext]_<<part, installVars, leaseVars>> /\ J!Fairness

(* What an installation has done stands in its journal, and what the user wrote into .env stays. *)
EffectsHold ==
    /\ part = "two" => I!TypeOK /\ I!EffectsJournaled /\ I!UserContentsKept
    /\ part = "edited" => K!TypeOK /\ K!EffectsJournaled /\ K!UserContentsKept
    /\ part = "lease" => TypeOK
InstalledIsComplete == (part = "two" => I!InstalledIsComplete) /\ (part = "edited" => K!InstalledIsComplete)
(* Who keeps asking the program as it is wired gets the installation, unless a journal of an  *)
(* interrupted one stands.                                                                    *)
InstalledOrInterrupted == part = "one" => J!InstalledOrInterrupted
=============================================================================
