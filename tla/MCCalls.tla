--------------------------------- MODULE MCCalls ---------------------------------
(* Calls that race: for the tokens of a login session, as triggers of one task definition      *)
(* that compete under each policy (admission), and as triggers, cancels and retries of its      *)
(* runs while workers execute them (retry).  A behaviour is one of these, the others are at     *)
(* rest.  The runs are instances of the module with their proofs, so that what is proved there  *)
(* can be cited of them here.                                                                    *)
EXTENDS Sessions, TLC
CONSTANTS
    Workers, Runs, QueueIds, TriggerKeys, RetryKeys, Concurrency, MaxAttempts, MaxFaults,   \* of TaskRuns
    RetryCalls,                                                         \* what beside the triggers is called
    RunServer,                                                          \* the server that runs the calls
    NoRun, NoQueue, NoKey
VARIABLES
    part,
    policy, run, qtask, qkey, rpc, rloc, wpc, wloc, faults,
    settled     \* history: how a run had ended when nobody was working on it any more

runVars == <<policy, run, qtask, qkey, rpc, rloc, wpc, wloc, faults, settled>>

(* Values of constants in the runs. *)
AllPoints == Point
Callers   == Permutations(Clients)

A == INSTANCE TaskRunsProofs WITH
        Server <- [c \in Clients |-> RunServer], Keys <- TriggerKeys, Calls <- {"enqueue"},
        Policies <- {"forbid", "allow", "replace"}, FaultPoints <- {"worker", "stop"}, pc <- rpc, loc <- rloc
R == INSTANCE TaskRunsProofs WITH
        Server <- [c \in Clients |-> RunServer], Keys <- RetryKeys, Calls <- RetryCalls,
        Policies <- {"forbid"}, FaultPoints <- {"worker", "push", "client", "late"}, pc <- rpc, loc <- rloc

ASSUME MCAssumption == A!RunsAssumption /\ R!RunsAssumption

MCInit ==
    /\ settled = [r \in Runs |-> "no"]
    /\ \/ part = "sessions" /\ Init /\ R!Init
       \/ part = "admission" /\ Init /\ A!Init
       \/ part = "retry" /\ Init /\ R!Init
Settles(r) == run[r].status \in {"succeeded", "cancelled"} /\ R!Quiet(r)
RetryNext ==
    /\ R!Next
    /\ settled' = [r \in Runs |-> IF settled[r] = "no" /\ Settles(r)' THEN run'[r].status ELSE settled[r]]
MCNext ==
    \/ part = "sessions" /\ Next /\ UNCHANGED <<part, runVars>>
    \/ part = "admission" /\ A!Next /\ UNCHANGED <<part, settled, vars>>
    \/ part = "retry" /\ RetryNext /\ UNCHANGED <<part, vars>>
MCSpec == MCInit /\ [][MCNext]_<<part, vars, runVars>>

(* Under "forbid", "allow" and "replace" no more runs are active, or may be executed, than the *)
(* policy says; and no active run is left without a task of the queue.                           *)
RunsHold ==
    /\ part = "admission" => A!TypeOK /\ A!PolicyHolds /\ A!NoOrphan
    /\ part = "retry" => R!TypeOK
(* After a retry, too, an active run that nobody works on any more has its task in the queue. *)
NoOrphan == part = "retry" => R!NoOrphan
(* A finished run does not change any more. *)
FinishedStays == [][part = "admission" => A!FinalStays]_runVars
(* A run that succeeded or was cancelled, and that nobody was working on, stays so whatever is *)
(* called or fails later.                                                                        *)
SettledForGood == \A r \in Runs : settled[r] \in {"no", run[r].status}
=============================================================================
