------------------------------ MODULE MCBackground ------------------------------
(* What runs behind the requests: the queue, the runs of tasks and the outgoing mail.  A        *)
(* behaviour is one of one of them, the others are at rest.  Runs and mail are instances of the  *)
(* modules with their proofs, so that what is proved there can be cited of them here.           *)
EXTENDS RedisQueue, TLC
CONSTANTS
    Clients, Workers, Server, Runs, QueueIds, RunKeys, Concurrency, NoRun, NoQueue, NoKey, MaxFaults,  \* of TaskRuns
    Sends, Editors, MailServers, MailServer, MailAccounts, MailKeys, NoAccount, NoCall,                \* of Mail
    p1, p2, t1, t2, k1, k2, c1, c2, w1, w2, r1, r2, q1, q2, s1, d1, d2, d3, e1, e2, m1, m2, h1, h2
VARIABLES
    part,
    policy, run, qtask, qkey, rpc, rloc, wpc, wloc, rfaults,
    account, message, routes, cooling, idempotencyMu, req, mpc, left, attempts, last, answer, edit, eepc, eread,
    delivered, unclear, mfaults

queueVars == vars
runVars == <<policy, run, qtask, qkey, rpc, rloc, wpc, wloc, rfaults>>
mailVars == <<account, message, routes, cooling, idempotencyMu, req, mpc, left, attempts, last, answer, edit, eepc,
              eread, delivered, unclear, mfaults>>

R == INSTANCE TaskRunsProofs WITH
        Keys <- RunKeys, Calls <- {"enqueue"}, Policies <- {"forbid"}, FaultPoints <- {"worker", "stop"},
        pc <- rpc, loc <- rloc, faults <- rfaults
M == INSTANCE MailProofs WITH
        Calls <- Sends, Servers <- MailServers, Server <- MailServer, Accounts <- MailAccounts, Keys <- MailKeys,
        pc <- mpc, epc <- eepc, faults <- mfaults

\* one server runs the tasks
ASSUME MCAssumption == R!RunsAssumption /\ M!MailAssumption /\ \A c, d \in Clients : Server[c] = Server[d]

(* Values of the constants in the runs. *)
OneKey  == [t \in Tasks |-> k1]
AllPoints == WorkerPC \cup EnqueuePC \cup CancelPC
NoPoints  == {}
(* A crash in these windows loses a task: between the release of the processing entry and the   *)
(* push back to pending, and between the writing of the idempotency key and the first push or the *)
(* withdrawal.                                                                                     *)
LosingPoints == {"rel2", "push", "append", "withdraw"}
SafeCrashes  == AllPoints \ LosingPoints
(* A failed command loses a task when it is the push of a retry or what precedes it, breaks the  *)
(* exclusion of workers when it is the SET of a lease, and makes a second task for a key when it   *)
(* is the lookup.                                                                                   *)
SafeFaults   == AllPoints \ {"rel2", "push", "lease", "lookup"}
RetryWindow  == {"idle", "rel2", "push"}
MCRunsOn == [c \in {c1, c2} |-> s1]
MCServedBy == [x \in {d1, d2, d3, e1, e2} |-> IF x = d2 THEN m2 ELSE m1]

MailAccount(n) == [state |-> "live", name |-> n, enabled |-> TRUE, password |-> "old"]
Accounts == [a \in MailAccounts |-> IF a = h1 THEN MailAccount("a") ELSE MailAccount("b")]
Letter(k, t, h) == [key |-> k, text |-> t, html |-> h]
Plain == Letter(k1, "a", FALSE)
EditOf(o, a, s, ids) == [op |-> o, account |-> a, name |-> "b", scope |-> s, ids |-> ids]
Edits == {EditOf(o, h1, "org", {}) : o \in {"enable", "disable", "password", "delete"}}
         \cup {EditOf("unroute", h1, "org", {})} \cup {EditOf("route", h1, s, {h2}) : s \in {"org", "tenant"}}
Quiet == [e \in Editors |-> EditOf("enable", h1, "org", {})]
Sent(q, others) == [i \in Sends |-> IF i = d3 THEN q ELSE others]
MailInit ==
    \* one key on two servers, with the same or another content
    \/ \E q \in {Plain, Letter(k1, "b", FALSE), Letter(k1, "a", TRUE)} :
          M!Start(Accounts, Sent(q, Plain), Quiet, {d1, d2, d3})
    \* accounts and routes that change under a call
    \/ \E o \in Edits, p \in {"disable", "delete"} :
          M!Start(Accounts, Sent(Letter(NoKey, "a", FALSE), Letter(NoKey, "a", FALSE)),
                  [e \in Editors |-> IF e = e1 THEN o ELSE EditOf(p, h1, "org", {})], {d1, e1, e2})
    \* two administrators create the same account
    \/ M!Start([a \in MailAccounts |-> [MailAccount("b") EXCEPT !.state = "none"]], Sent(Plain, Plain),
               [e \in Editors |-> EditOf("create", IF e = e1 THEN h1 ELSE h2, "org", {})], {e1, e2})
MailRest == M!Start(Accounts, Sent(Plain, Plain), Quiet, {})

MCInit ==
    \/ part = "queue" /\ Init /\ R!Init /\ MailRest
    \/ part = "runs" /\ Init /\ R!Init /\ MailRest
    \/ part = "mail" /\ Init /\ R!Init /\ MailInit
MCNext ==
    \/ part = "queue" /\ Next /\ UNCHANGED <<part, runVars, mailVars>>
    \/ part = "runs" /\ R!Next /\ UNCHANGED <<part, queueVars, mailVars>>
    \/ part = "mail" /\ M!Next /\ UNCHANGED <<part, queueVars, runVars>>
(* As Fairness of RedisQueue and of TaskRuns, while it is their turn. *)
QueueFair ==
    /\ \A p \in Procs : WF_vars(part = "queue" /\ (ClaimPending(p) \/ Execute(p)))
    /\ \A p \in Procs : WF_vars(part = "queue" /\ epc[p] # "idle" /\ Enqueue(p))
    /\ \A t \in Tasks : WF_vars(part = "queue" /\ ExpireLease(t)) /\ WF_vars(part = "queue" /\ ExpireClaimLock(t))
    /\ \A k \in Keys : WF_vars(part = "queue" /\ ExpireEnqueueLock(k))
RunsFair ==
    /\ \A c \in Clients : WF_runVars(part = "runs" /\ rpc[c] # "idle" /\ R!Client(c))
    /\ \A w \in Workers : WF_runVars(part = "runs" /\ R!Worker(w))
MCSpec == MCInit /\ [][MCNext]_<<part, queueVars, runVars, mailVars>> /\ QueueFair /\ RunsFair /\ M!Fairness

(* The variables of the runs have their types, and a task of policy "forbid" has one handler at a time. *)
OneHandler == part = "runs" => R!TypeOK /\ R!OneHandler
(* A message goes out once under its key, and what is recorded of it is true. *)
MailHolds == part = "mail" => M!MailHolds
(* A deleted account stays deleted, whoever was about to change it. *)
DeletedForGood == M!DeletedForGood
(* Tasks, runs and calls of Send come to an end, although a worker fails, a server stops or a command fails. *)
EverythingEnds ==
    []<>(AllSettled /\ (part = "runs" => R!ActiveRuns = {}) /\ \A i \in Sends : mpc[i] = "done")
=============================================================================
