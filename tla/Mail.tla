---------------------------------- MODULE Mail ----------------------------------
(***************************************************************************)
(* Outgoing mail (application/mail, platform/mail).                        *)
(*                                                                         *)
(* Send stores a message, tries one account after the other and stores how *)
(* it went; every one of these writes may fail, the provider may deliver   *)
(* and not say so, and the server may stop.  With an idempotency key the   *)
(* calls of one server wait for each other, and those of several meet in   *)
(* the unique index of the messages.  Accounts are rows that administrators *)
(* change meanwhile; a caller's route to them, and which accounts are       *)
(* cooling down, are the memory of each server.                             *)
(*                                                                         *)
(* One caller, in one organization.  A message is named by the call that    *)
(* made it; of its content there is whether it is a given text and whether  *)
(* it is HTML.  Connection tests change nothing.                            *)
(***************************************************************************)
EXTENDS Naturals, Sequences, FiniteSets, SequencesExt

CONSTANTS
    Calls, Editors, Servers,
    Server,                     \* where each call and editor is served
    Accounts, NoAccount, Keys, NoKey, NoCall,
    MaxAttempts, MaxFaults

MailAssumption ==
    /\ Server \in [Calls \cup Editors -> Servers]
    /\ NoAccount \notin Accounts /\ NoKey \notin Keys /\ NoCall \notin Calls
    /\ MaxAttempts \in Nat \ {0} /\ MaxFaults \in Nat /\ IsFiniteSet(Accounts)

VARIABLES
    account,                    \* gvba_notify_smtp_accounts
    message,                    \* gvba_notify_email_messages
    routes,                     \* by server and scope: the accounts the caller may use
    cooling,                    \* by server: accounts that failed a moment ago
    idempotencyMu,              \* by server: who holds it
    req, pc, left, attempts, last, answer,      \* Send
    edit, epc, eread,           \* the editors
    delivered, unclear,         \* history: by call, deliveries, and those that were taken for failures
    faults

stored  == <<account, message>>
memory  == <<routes, cooling, idempotencyMu>>
sending == <<req, pc, left, attempts, last, answer>>
editing == <<edit, epc, eread>>
history == <<delivered, unclear>>
vars    == <<stored, memory, sending, editing, history, faults>>

Scopes   == {"org", "tenant", "global"}
Account  == [state : {"none", "live", "deleted"}, name : {"a", "b"}, enabled : BOOLEAN, password : {"old", "new"}]
Message  == [status : {"none", "pending", "sending", "sent", "failed"}, key : Keys \cup {NoKey},
             text : {"a", "b"}, account : Accounts \cup {NoAccount}, attempts : 0..MaxAttempts]
NoMessage == [status |-> "none", key |-> NoKey, text |-> "a", account |-> NoAccount, attempts |-> 0]
Route    == [set : BOOLEAN, ids : SUBSET Accounts]
Request  == [key : Keys \cup {NoKey}, text : {"a", "b"}, html : BOOLEAN]
EditRequest == [op : {"create", "enable", "disable", "password", "delete", "route", "unroute"}, account : Accounts,
                name : {"a", "b"}, scope : Scopes, ids : SUBSET Accounts]
NoRoute  == [set |-> FALSE, ids |-> {}]
NoAnswer == [kind |-> "none", id |-> NoCall]

-----------------------------------------------------------------------------
(* Routes and accounts. *)

(* The nearest scope that has a route decides. *)
CallerRouteFor(s, scope) ==
    LET chain == SelectSeq(<<"org", "tenant", "global">>,
                           LAMBDA x : routes[s][x].set /\ (scope = "tenant" => x # "org"))
    IN  IF chain = <<>> THEN NoRoute ELSE routes[s][Head(chain)]

Usable(s) ==
    LET route == CallerRouteFor(s, "org")
    IN  {a \in Accounts : account[a].state = "live" /\ account[a].enabled /\ (route.set => a \in route.ids)}

(* All that may be used in their order, from any one of them on: a weighted choice *)
(* or the next in turn.                                                             *)
orderAccountsFor(s) ==
    LET order == SetToSeq(Usable(s))
    IN  {[k \in 1..Len(order) |-> order[((k + j) % Len(order)) + 1]] : j \in 1..Len(order)}
        \cup (IF order = <<>> THEN {<<>>} ELSE {})

-----------------------------------------------------------------------------
(* Send. *)

Goes(i, to) == pc' = [pc EXCEPT ![i] = to]
Releases(i) ==
    idempotencyMu' = [idempotencyMu EXCEPT ![Server[i]] = IF @ = i THEN NoCall ELSE @]
Answers(i, kind, id) ==
    /\ Goes(i, "done") /\ answer' = [answer EXCEPT ![i] = [kind |-> kind, id |-> id]]
    /\ Releases(i)

KeyRow(k) == {j \in Calls : message[j].status # "none" /\ message[j].key = k}

(* What is stored has lost that it was HTML. *)
sameIdempotencyPayload(j, q) == message[j].text = q.text /\ ~q.html

Replays(i, j) == Answers(i, IF sameIdempotencyPayload(j, req[i]) THEN "replayed" ELSE "conflict", j)

Send(i) ==
    /\ pc[i] = "new"
    /\ IF req[i].key = NoKey THEN Goes(i, "list") /\ UNCHANGED idempotencyMu
       ELSE /\ idempotencyMu[Server[i]] = NoCall
            /\ idempotencyMu' = [idempotencyMu EXCEPT ![Server[i]] = i] /\ Goes(i, "lookup")
    /\ UNCHANGED <<stored, routes, cooling, req, left, attempts, last, answer, editing, history, faults>>

(* It reads from a replica, which may be behind. *)
lookupIdempotent(i) ==
    /\ pc[i] \in {"lookup", "reread"}
    /\ UNCHANGED <<stored, routes, cooling, req, left, attempts, last, editing, history>>
    /\ \/ KeyRow(req[i].key) # {} /\ (\E j \in KeyRow(req[i].key) : Replays(i, j)) /\ UNCHANGED faults
       \/ /\ \/ KeyRow(req[i].key) = {} /\ UNCHANGED faults
             \/ faults < MaxFaults /\ faults' = faults + 1
          /\ IF pc[i] = "lookup" THEN Goes(i, "list") /\ UNCHANGED <<idempotencyMu, answer>>
             ELSE Answers(i, "error", NoCall)

ListAccounts(i) ==
    /\ pc[i] = "list" /\ Goes(i, "create")
    /\ \E order \in orderAccountsFor(Server[i]) : left' = [left EXCEPT ![i] = order]
    /\ UNCHANGED <<stored, memory, req, attempts, last, answer, editing, history, faults>>

(* Mutant of the next: the table has no unique index. *)
CreateUnindexed(i) ==
    /\ pc[i] = "create"
    /\ message' = [message EXCEPT ![i] = [NoMessage EXCEPT !.status = "pending", !.key = req[i].key, !.text = req[i].text]]
    /\ Goes(i, "next")
    /\ UNCHANGED <<account, memory, req, left, attempts, last, answer, editing, history, faults>>

(* The unique index refuses a second message of the key; the service looks again. *)
CreateMessage(i) ==
    /\ pc[i] = "create"
    /\ IF req[i].key # NoKey /\ KeyRow(req[i].key) # {}
       THEN Goes(i, "reread") /\ UNCHANGED message
       ELSE /\ message' = [message EXCEPT ![i] = [NoMessage EXCEPT !.status = "pending", !.key = req[i].key,
                                                                   !.text = req[i].text]]
            /\ Goes(i, "next")
    /\ UNCHANGED <<account, memory, req, left, attempts, last, answer, editing, history, faults>>

isCooling(i, a) == a \in cooling[Server[i]]

(* The next account that is not cooling, unless there is none or enough were tried. *)
NextAccount(i) ==
    LET more == left[i] # <<>> /\ attempts[i] < MaxAttempts IN
    /\ pc[i] = "next"
    /\ IF more /\ isCooling(i, Head(left[i]))
       THEN left' = [left EXCEPT ![i] = Tail(@)] /\ UNCHANGED <<pc, attempts>>
       ELSE IF more THEN /\ attempts' = [attempts EXCEPT ![i] = @ + 1]
                         /\ Goes(i, "mark") /\ UNCHANGED left
       ELSE Goes(i, "fail") /\ UNCHANGED <<left, attempts>>
    /\ UNCHANGED <<stored, memory, req, last, answer, editing, history, faults>>

(* The request is given up while it waits for the second attempt. *)
WaitCancelled(i) ==
    /\ pc[i] = "next" /\ attempts[i] \in 1..(MaxAttempts - 1) /\ left[i] # <<>> /\ ~isCooling(i, Head(left[i]))
    /\ faults < MaxFaults /\ faults' = faults + 1
    /\ Goes(i, "fail")
    /\ UNCHANGED <<stored, memory, req, left, attempts, last, answer, editing, history>>

MarkSending(i) ==
    /\ pc[i] = "mark" /\ Goes(i, "provider")
    /\ message' = [message EXCEPT ![i].status = "sending", ![i].account = Head(left[i]), ![i].attempts = attempts[i]]
    /\ UNCHANGED <<account, memory, req, left, attempts, last, answer, editing, history, faults>>

Provider(i, ok) ==
    /\ pc[i] = "provider" /\ Goes(i, "log")
    /\ last' = [last EXCEPT ![i] = ok]
    /\ UNCHANGED <<stored, memory, req, left, attempts, answer, editing>>
Deliver(i) == Provider(i, TRUE) /\ delivered' = [delivered EXCEPT ![i] = @ + 1] /\ UNCHANGED <<unclear, faults>>
Refuse(i) == Provider(i, FALSE) /\ UNCHANGED <<history, faults>>
(* Delivered, but the answer is lost. *)
TimesOut(i) ==
    /\ Provider(i, FALSE) /\ faults < MaxFaults /\ faults' = faults + 1
    /\ delivered' = [delivered EXCEPT ![i] = @ + 1] /\ unclear' = [unclear EXCEPT ![i] = @ + 1]

AppendAttempt(i) ==
    /\ pc[i] = "log" /\ Goes(i, "settle")
    /\ UNCHANGED <<stored, memory, req, left, attempts, last, answer, editing, history, faults>>
(* A delivery whose attempt cannot be logged counts as failed. *)
AppendFails(i) ==
    /\ pc[i] = "log" /\ Goes(i, "settle")
    /\ faults < MaxFaults /\ faults' = faults + 1
    /\ last' = [last EXCEPT ![i] = FALSE]
    /\ unclear' = [unclear EXCEPT ![i] = IF last[i] THEN @ + 1 ELSE @]
    /\ UNCHANGED <<stored, memory, req, left, attempts, answer, editing, delivered>>

StoreSent(i) ==
    /\ pc[i] = "settle" /\ last[i]
    /\ message' = [message EXCEPT ![i].status = "sent"]
    /\ Answers(i, "sent", i)
    /\ UNCHANGED <<account, routes, cooling, req, left, attempts, last, editing, history, faults>>

markCooling(i) ==
    /\ pc[i] = "settle" /\ ~last[i]
    /\ cooling' = [cooling EXCEPT ![Server[i]] = @ \cup {Head(left[i])}]
    /\ left' = [left EXCEPT ![i] = Tail(@)]
    /\ Goes(i, "next")
    /\ UNCHANGED <<stored, routes, idempotencyMu, req, attempts, last, answer, editing, history, faults>>

(* No account, all of them cooling, or all attempts failed. *)
StoreFailed(i) ==
    /\ pc[i] = "fail"
    /\ message' = [message EXCEPT ![i].status = "failed"]
    /\ Answers(i, "failed", i)
    /\ UNCHANGED <<account, routes, cooling, req, left, attempts, last, editing, history, faults>>

(* A statement fails, applied or not: the row stays as it is then. *)
WriteFails(i) ==
    /\ pc[i] \in {"list", "create", "mark", "fail"} \/ (pc[i] = "settle" /\ last[i])
    /\ faults < MaxFaults /\ faults' = faults + 1
    /\ message' \in {message, IF pc[i] = "list" \/ (pc[i] = "create" /\ req[i].key # NoKey /\ KeyRow(req[i].key) # {})
                               THEN message
                               ELSE [message EXCEPT ![i].key = req[i].key, ![i].text = req[i].text,
                                       ![i].status = CASE pc[i] = "create" -> "pending" [] pc[i] = "mark" -> "sending"
                                                       [] pc[i] = "settle" -> "sent" [] pc[i] = "fail" -> "failed"]}
    /\ IF pc[i] = "create" /\ req[i].key # NoKey THEN Goes(i, "reread") /\ UNCHANGED <<answer, idempotencyMu>>
       ELSE Answers(i, "error", NoCall)
    /\ UNCHANGED <<account, routes, cooling, req, left, attempts, last, editing, history>>

-----------------------------------------------------------------------------
(* The administration. *)

Edits(e, from, ops, to) == epc[e] = from /\ edit[e].op \in ops /\ epc' = [epc EXCEPT ![e] = to] /\ UNCHANGED edit
Elsewhere == UNCHANGED <<message, cooling, idempotencyMu, sending, history, faults>>

Taken(a, name) == \E b \in Accounts \ {a} : account[b].state = "live" /\ account[b].name = name

(* Looks for a duplicate; the insert is another statement. *)
CreateCheck(e) ==
    /\ Edits(e, "new", {"create"}, IF Taken(edit[e].account, edit[e].name) THEN "done" ELSE "write")
    /\ UNCHANGED <<account, routes, eread>> /\ Elsewhere
CreateAccount(e) ==
    /\ Edits(e, "write", {"create"}, "done")
    /\ account' = [account EXCEPT ![edit[e].account] = [state |-> "live", name |-> edit[e].name, enabled |-> TRUE,
                                                        password |-> "old"]]
    /\ UNCHANGED <<routes, eread>> /\ Elsewhere

Changes == {"enable", "disable", "password"}
(* The row as it was seen is filled in where the request says nothing; the password *)
(* is that of a second look.                                                         *)
accountInput(row, op) ==
    CASE op = "enable" -> [row EXCEPT !.enabled = TRUE]
      [] op = "disable" -> [row EXCEPT !.enabled = FALSE]
      [] op = "password" -> row
GetAccount(e) ==
    LET row == account[edit[e].account] IN
    /\ Edits(e, "new", Changes, IF row.state = "live" THEN "read" ELSE "done")
    /\ eread' = [eread EXCEPT ![e] = accountInput(row, edit[e].op)]
    /\ UNCHANGED <<account, routes>> /\ Elsewhere
normalizeAccountInputForUpdate(e) ==
    LET row == account[edit[e].account] IN
    /\ Edits(e, "read", Changes, IF row.state = "live" THEN "check" ELSE "done")
    /\ eread' = [eread EXCEPT ![e].password = IF edit[e].op = "password" THEN "new" ELSE row.password]
    /\ UNCHANGED <<account, routes>> /\ Elsewhere
UpdateChecks(e) ==
    LET a == edit[e].account IN
    /\ Edits(e, "check", Changes, IF account[a].state = "live" /\ ~Taken(a, eread[e].name) THEN "write" ELSE "done")
    /\ UNCHANGED <<account, routes, eread>> /\ Elsewhere

(* Mutant of the next: the row is saved whatever has become of it. *)
SaveAccount(e) ==
    /\ Edits(e, "write", Changes, "done")
    /\ account' = [account EXCEPT ![edit[e].account] = eread[e]]
    /\ UNCHANGED <<routes, eread>> /\ Elsewhere

UpdateAccount(e) ==
    LET a == edit[e].account IN
    /\ Edits(e, "write", Changes, "done")
    /\ account' = IF account[a].state = "live" THEN [account EXCEPT ![a] = eread[e]] ELSE account
    /\ UNCHANGED <<routes, eread>> /\ Elsewhere

DeleteAccount(e) ==
    LET a == edit[e].account IN
    /\ Edits(e, "new", {"delete"}, "done")
    /\ account' = IF account[a].state = "live" THEN [account EXCEPT ![a].state = "deleted"] ELSE account
    /\ UNCHANGED <<routes, eread>> /\ Elsewhere

SetCallerRouteFor(e) ==
    /\ Edits(e, "new", {"route"}, "done")
    /\ routes' = [routes EXCEPT ![Server[e]][edit[e].scope] = [set |-> TRUE, ids |-> edit[e].ids]]
    /\ UNCHANGED <<account, eread>> /\ Elsewhere
DeleteCallerRouteFor(e) ==
    /\ Edits(e, "new", {"unroute"}, "done")
    /\ routes' = [routes EXCEPT ![Server[e]][edit[e].scope] = NoRoute]
    /\ UNCHANGED <<account, eread>> /\ Elsewhere

-----------------------------------------------------------------------------
(* Thirty seconds have passed. *)
CoolDown ==
    \E s \in Servers : \E a \in cooling[s] :
        /\ cooling' = [cooling EXCEPT ![s] = @ \ {a}]
        /\ UNCHANGED <<stored, routes, idempotencyMu, sending, editing, history, faults>>

(* A server stops and comes back: its calls, its routes and its locks are gone. *)
Crash ==
    /\ faults < MaxFaults /\ faults' = faults + 1
    /\ \E s \in Servers :
        LET hit == {i \in Calls : Server[i] = s /\ pc[i] \notin {"new", "done"}} IN
        /\ hit # {}
        /\ pc' = [i \in Calls |-> IF i \in hit THEN "done" ELSE pc[i]]
        /\ answer' = [i \in Calls |-> IF i \in hit THEN [kind |-> "crash", id |-> NoCall] ELSE answer[i]]
        /\ epc' = [e \in Editors |-> IF Server[e] = s THEN "done" ELSE epc[e]]
        /\ routes' = [routes EXCEPT ![s] = [x \in Scopes |-> NoRoute]]
        /\ cooling' = [cooling EXCEPT ![s] = {}] /\ idempotencyMu' = [idempotencyMu EXCEPT ![s] = NoCall]
    /\ UNCHANGED <<stored, req, left, attempts, last, edit, eread, history>>

(* Each account that is created has an identifier of its own that nobody had before. *)
NewIdentifiers(accounts, edits) ==
    \A e \in Editors : edits[e].op = "create" =>
        /\ accounts[edits[e].account].state = "none"
        /\ \A f \in Editors \ {e} : edits[f].op = "create" => edits[f].account # edits[e].account

(* The calls and editors in "running" arrive. *)
Start(accounts, sends, edits, running) ==
    /\ accounts \in [Accounts -> Account] /\ sends \in [Calls -> Request] /\ edits \in [Editors -> EditRequest]
    /\ NewIdentifiers(accounts, edits)
    /\ account = accounts /\ message = [i \in Calls |-> NoMessage]
    /\ routes = [s \in Servers |-> [x \in Scopes |-> NoRoute]] /\ cooling = [s \in Servers |-> {}]
    /\ idempotencyMu = [s \in Servers |-> NoCall]
    /\ req = sends /\ pc = [i \in Calls |-> IF i \in running THEN "new" ELSE "done"]
    /\ left = [i \in Calls |-> <<>>] /\ attempts = [i \in Calls |-> 0] /\ last = [i \in Calls |-> FALSE]
    /\ answer = [i \in Calls |-> NoAnswer]
    /\ edit = edits /\ epc = [e \in Editors |-> IF e \in running THEN "new" ELSE "done"]
    /\ eread = [e \in Editors |-> [state |-> "none", name |-> "a", enabled |-> FALSE, password |-> "old"]]
    /\ delivered = [i \in Calls |-> 0] /\ unclear = [i \in Calls |-> 0] /\ faults = 0

SendSteps(i) ==
    \/ Send(i) \/ lookupIdempotent(i) \/ ListAccounts(i) \/ CreateMessage(i) \/ NextAccount(i) \/ MarkSending(i)
    \/ Deliver(i) \/ Refuse(i) \/ AppendAttempt(i) \/ StoreSent(i) \/ markCooling(i) \/ StoreFailed(i)

Next ==
    \/ \E i \in Calls : SendSteps(i) \/ WaitCancelled(i) \/ TimesOut(i) \/ AppendFails(i) \/ WriteFails(i)
    \/ \E e \in Editors :
          \/ CreateCheck(e) \/ CreateAccount(e) \/ GetAccount(e) \/ normalizeAccountInputForUpdate(e)
          \/ UpdateChecks(e) \/ UpdateAccount(e) \/ DeleteAccount(e)
          \/ SetCallerRouteFor(e) \/ DeleteCallerRouteFor(e)
    \/ CoolDown \/ Crash

Init == \E accounts \in [Accounts -> Account], sends \in [Calls -> Request], edits \in [Editors -> EditRequest],
            running \in SUBSET (Calls \cup Editors) : Start(accounts, sends, edits, running)
Spec == Init /\ [][Next]_vars

(* A request is served; Go's mutexes are fair; the provider and the database have timeouts. *)
Fairness == \A i \in Calls : WF_sending(SendSteps(i)) /\ SF_sending(Send(i))

-----------------------------------------------------------------------------
(* Properties. *)

(* Type invariant. *)
TypeOK ==
    /\ account \in [Accounts -> Account] /\ message \in [Calls -> Message]
    /\ routes \in [Servers -> [Scopes -> Route]] /\ cooling \in [Servers -> SUBSET Accounts]
    /\ idempotencyMu \in [Servers -> Calls \cup {NoCall}]
    /\ \A i \in Calls : /\ pc[i] \in {"new", "lookup", "list", "create", "reread", "next", "mark", "provider", "log",
                                       "settle", "fail", "done"}
                         /\ attempts[i] \in 0..MaxAttempts /\ last[i] \in BOOLEAN
    /\ eread \in [Editors -> Account] /\ faults \in 0..MaxFaults

(* Under one key there is one message, whichever servers the calls reach; all calls that *)
(* are answered with a message get that one.                                              *)
OneMessagePerKey ==
    /\ \A k \in Keys : Cardinality(KeyRow(k)) <= 1
    /\ \A i, j \in Calls : req[i].key = req[j].key /\ req[i].key # NoKey /\ NoCall \notin {answer[i].id, answer[j].id}
                           => answer[i].id = answer[j].id

(* A message goes out a second time only if the first delivery was taken for a failure: *)
(* retries with a key, and the accounts that are tried in turn, add none.               *)
DeliveredOnce ==
    /\ \A i \in Calls : delivered[i] <= 1 + unclear[i]
    /\ \A i, j \in Calls : i # j /\ req[i].key = req[j].key /\ req[i].key # NoKey => 0 \in {delivered[i], delivered[j]}

(* What is recorded of a message is true: sent means delivered, and failed that no *)
(* delivery was noticed.                                                            *)
RecordTrue ==
    \A i \in Calls :
        /\ message[i].status = "sent" => delivered[i] >= 1
        /\ message[i].status = "failed" => delivered[i] = unclear[i]

(* What Send keeps. *)
MailHolds == TypeOK /\ OneMessagePerKey /\ DeliveredOnce /\ RecordTrue

(* A deleted account never comes back, whoever was about to change it. *)
DeletedForGood == [][\A a \in Accounts : account[a].state = "deleted" => account'[a] = account[a]]_vars

(* Every call of Send is answered, whatever accounts do and however calls wait for a key. *)
EverySendEnds == <>(\A i \in Calls : pc[i] = "done")
=============================================================================
