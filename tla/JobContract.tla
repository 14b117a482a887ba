----------------------------- MODULE JobContract -----------------------------
(***************************************************************************)
(* What a queue of application/jobs promises, one operation per step: the  *)
(* behaviour of MemoryQueue, which runs every operation under one mutex    *)
(* and serves when no Redis is configured.  A task the caller of Enqueue   *)
(* got back is accepted; one it did not get back may be withdrawn again.   *)
(***************************************************************************)
EXTENDS Naturals

CONSTANTS
    Jobs,           \* task identifiers
    MaxAttempts     \* failed attempts before a task is dead-lettered

VARIABLES
    job,            \* status and failed attempts of every task
    accepted        \* tasks an Enqueue has returned

jobVars == <<job, accepted>>

Open   == {"pending", "running", "failed"}
Closed == {"succeeded", "dead_letter", "cancelled"}

JobInit ==
    /\ job = [j \in Jobs |-> [status |-> "absent", attempts |-> 0]]
    /\ accepted = {}

Submit(j) ==
    /\ job[j].status = "absent"
    /\ job' = [job EXCEPT ![j] = [status |-> "pending", attempts |-> 0]]
    /\ UNCHANGED accepted

(* A queue outside this process may have to undo a failed Enqueue. *)
Withdraw(j) ==
    /\ j \notin accepted
    /\ job[j].status = "pending"
    /\ job' = [job EXCEPT ![j].status = "absent"]
    /\ UNCHANGED accepted

(* Enqueue returns the task, a new one or the one its key stands for. *)
Accept(j) ==
    /\ job[j].status # "absent"
    /\ accepted' = accepted \cup {j}
    /\ UNCHANGED job

Move(j, to) ==
    /\ job[j].status \in Open
    /\ job' = [job EXCEPT ![j].status = to]
    /\ UNCHANGED accepted

(* ClaimPending or Start: a first run, a retry, or a run that is resumed. *)
Start(j)    == Move(j, "running")
Complete(j) == Move(j, "succeeded")
Cancel(j)   == Move(j, "cancelled")

Fail(j) ==
    /\ job[j].status \in Open
    /\ job' = [job EXCEPT ![j] =
                 [status   |-> IF @.attempts + 1 >= MaxAttempts THEN "dead_letter" ELSE "failed",
                  attempts |-> @.attempts + 1]]
    /\ UNCHANGED accepted

JobNext ==
    \E j \in Jobs :
        \/ Submit(j) \/ Withdraw(j) \/ Accept(j)
        \/ Start(j) \/ Complete(j) \/ Fail(j) \/ Cancel(j)

JobSpec == JobInit /\ [][JobNext]_jobVars
=============================================================================
