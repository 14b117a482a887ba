------------------------------- MODULE Verification -------------------------------
(***************************************************************************)
(* Verification codes (application/notification/runtime.go) and the        *)
(* registry of callers, templates and policies that they depend on.        *)
(*                                                                         *)
(* Issue reserves a challenge under two locks and sends the code outside   *)
(* of them; a later Issue, a Verify or the clock may change the challenge  *)
(* while the provider is at work.  Issue and Verify take an idempotency    *)
(* key: a retry gets the answer of the first call, or waits for it.        *)
(*                                                                         *)
(* All of it is the memory of one process.  A challenge is named by the    *)
(* Issue that made it.  Platform administrators, who see every scope, and  *)
(* the texts of templates are left out; a test send is Issue's Send alone. *)
(***************************************************************************)
EXTENDS Naturals, FiniteSets, Sequences

CONSTANTS
    Issuers, Verifiers, Editors,   \* calls of Issue, of Verify, and PUT or DELETE of the registry
    Recipients,                    \* of one caller and one purpose
    Keys, NoKey,                   \* idempotency keys
    NoOne,
    TTL, ResendAfter, Hour, HourlyLimit, MaxFailures,
    MaxNow, MaxFailedSends         \* bounds

(* What the constants have to be. *)
VerificationAssumption ==
    /\ NoKey \notin Keys /\ NoOne \notin Issuers
    /\ {TTL, ResendAfter, Hour, HourlyLimit, MaxFailures} \subseteq Nat \ {0}
    /\ {MaxNow, MaxFailedSends} \subseteq Nat

VARIABLES
    registry,       \* callers, templates, policies, each by scope
    challenge,      \* challenges
    idempotency,    \* by scope and key: the payload and the outcome of the Issue that had it first
    issueFlight,    \* by scope and key: the Issue that is sending
    issued,         \* by scope and recipient: the times of the last hour's challenges
    verifyIdem,     \* by scope, challenge and key: the code that was presented, and the outcome
    sendIdemMu,     \* who holds it
    now,
    req, pc, policy, answer,        \* Issue
    vreq, vpc, vanswer,             \* Verify
    edit, epc, eread,               \* the registry's editors
    failed,                         \* sends that failed
    order,                          \* history: the challenges in the order of their reservation
    accepted                        \* history: for each challenge, the calls that found it right

runtime == <<registry, challenge, idempotency, issueFlight, issued, verifyIdem, sendIdemMu, now>>
issuing == <<req, pc, policy, answer>>
verifying == <<vreq, vpc, vanswer>>
editing == <<edit, epc, eread>>
history == <<failed, order, accepted>>
vars == <<runtime, issuing, verifying, editing, history>>

Scopes == {"system", "tenant", "org"}
Kinds  == {"caller", "template", "policy"}
Entry  == [set : BOOLEAN, live : BOOLEAN, systemOwned : BOOLEAN, maxFailures : 1..MaxFailures]
NoEntry == [set |-> FALSE, live |-> FALSE, systemOwned |-> FALSE, maxFailures |-> 1]
Statuses == {"none", "pending_send", "active", "superseded", "send_failed", "consumed", "expired", "locked"}
Challenge == [status : Statuses, scope : Scopes, recipient : Recipients, failures : 0..MaxFailures,
              max : 1..MaxFailures, expires : Nat]
NoAnswer == [kind |-> "none", id |-> NoOne]
IssueRequest  == [recipient : Recipients, key : Keys \cup {NoKey}, scope : Scopes]
VerifyRequest == [id : Issuers, key : Keys \cup {NoKey}, code : {"right", "wrong"}, scope : Scopes]
EditRequest   == [op : {"put", "delete"}, kind : Kinds, scope : Scopes, live : {"keep", "yes", "no"}, max : 1..MaxFailures]

-----------------------------------------------------------------------------
(* The registry. *)

(* From the nearest scope to the farthest. *)
registryScopes(s) ==
    CASE s = "org" -> <<"org", "tenant", "system">>
      [] s = "tenant" -> <<"tenant", "system">>
      [] s = "system" -> <<"system">>

Visible(s) == LET chain == registryScopes(s) IN {chain[k] : k \in 1..Len(chain)}
challengeScopeVisible(s, of) == of \in Visible(s)

(* The entry of the nearest scope that has one. *)
Resolve(kind, s) ==
    LET chain == registryScopes(s)
        has == {k \in 1..Len(chain) : registry[kind][chain[k]].set}
    IN  IF has = {} THEN NoEntry
        ELSE registry[kind][chain[CHOOSE k \in has : \A j \in has : k <= j]]

CallerFor(s) == Resolve("caller", s)
checkCallerFor(s) == CallerFor(s).set /\ CallerFor(s).live
TemplateFor(s) == Resolve("template", s)
resolveTemplateFor(s) == TemplateFor(s).set /\ TemplateFor(s).live
resolvePolicy(s) == Resolve("policy", s)

Registers(e) == UNCHANGED <<challenge, idempotency, issueFlight, issued, verifyIdem, sendIdemMu, now,
                            issuing, verifying, edit, history>>
Edited(e) == epc' = [epc EXCEPT ![e] = "done"] /\ UNCHANGED eread

(* PUT reads the entry that applies, which may be an inherited one; *)
(* what the body leaves out is kept.                                *)
Reads(e, kind, entry) ==
    /\ epc[e] = "new" /\ edit[e].op = "put" /\ edit[e].kind = kind
    /\ eread' = [eread EXCEPT ![e] = entry]
    /\ epc' = [epc EXCEPT ![e] = "set"]
    /\ Registers(e) /\ UNCHANGED registry

putCaller(e) == Reads(e, "caller", CallerFor(edit[e].scope))
putTemplate(e) == Reads(e, "template", TemplateFor(edit[e].scope))
putPolicy(e) == Reads(e, "policy", resolvePolicy(edit[e].scope))

Sets(e, kind) == epc[e] = "set" /\ edit[e].kind = kind

(* A new caller is enabled; a new template is not published. *)
Value(e) == [eread[e] EXCEPT !.set = TRUE,
                             !.live = IF edit[e].live # "keep" THEN edit[e].live = "yes"
                                      ELSE @ \/ (~eread[e].set /\ edit[e].kind # "template"),
                             !.maxFailures = IF edit[e].live = "keep" THEN edit[e].max ELSE @]

(* What is system-owned stays so. *)
SetCallerFor(e) ==
    LET s == edit[e].scope IN
    /\ Sets(e, "caller")
    /\ registry' = [registry EXCEPT !["caller"][s] =
                       [Value(e) EXCEPT !.systemOwned = @ \/ registry["caller"][s].systemOwned]]
    /\ Edited(e) /\ Registers(e)

SetTemplateFor(e) ==
    /\ Sets(e, "template")
    /\ registry' = [registry EXCEPT !["template"][edit[e].scope] = Value(e)]
    /\ Edited(e) /\ Registers(e)

SetVerificationPolicyFor(e) ==
    /\ Sets(e, "policy")
    /\ registry' = [registry EXCEPT !["policy"][edit[e].scope] = Value(e)]
    /\ Edited(e) /\ Registers(e)

(* DELETE looks at the caller's own scope alone; there is none for a policy. *)
DeleteCallerFor(e) ==
    LET s == edit[e].scope IN
    /\ epc[e] = "new" /\ edit[e].op = "delete" /\ edit[e].kind = "caller"
    /\ registry' = IF registry["caller"][s].systemOwned THEN registry
                   ELSE [registry EXCEPT !["caller"][s] = NoEntry]
    /\ Edited(e) /\ Registers(e)

DeleteTemplateFor(e) ==
    /\ epc[e] = "new" /\ edit[e].op = "delete" /\ edit[e].kind = "template"
    /\ registry' = [registry EXCEPT !["template"][edit[e].scope] = NoEntry]
    /\ Edited(e) /\ Registers(e)

-----------------------------------------------------------------------------
(* Issue. *)

Answers(i, kind, id) ==
    /\ pc' = [pc EXCEPT ![i] = "done"]
    /\ answer' = [answer EXCEPT ![i] = [kind |-> kind, id |-> id]]
Moves(i, to) == pc' = [pc EXCEPT ![i] = to] /\ UNCHANGED answer

IssueChecks(i) ==
    LET s == req[i].scope IN
    /\ pc[i] = "new"
    /\ policy' = [policy EXCEPT ![i] = resolvePolicy(s)]
    /\ IF checkCallerFor(s) /\ resolvePolicy(s).set THEN Moves(i, "reserve") ELSE Answers(i, "refused", NoOne)
    /\ UNCHANGED <<runtime, req, verifying, editing, history>>

KeyOf(q)    == <<q.scope, q.key>>
HolderOf(q) == <<q.scope, q.recipient>>

(* Timestamps of the last hour: a set, as ResendAfter keeps them apart. *)
Kept(x) == {t \in issued[x] : t + Hour > now}

(* Mutant of the next: one more than the limit. *)
LimitedLate(x) == Cardinality(Kept(x)) > HourlyLimit

(* That the latest one is too near means that some one is. *)
RateLimited(x) == Cardinality(Kept(x)) >= HourlyLimit \/ \E t \in Kept(x) : now < t + ResendAfter

SameTuple(i, x) == challenge[x].scope = req[i].scope /\ challenge[x].recipient = req[i].recipient

(* Mutant of the next: a code that is still being sent is left alone. *)
SupersedeActive(i) ==
    [x \in Issuers |-> IF SameTuple(i, x) /\ challenge[x].status = "active"
                       THEN [challenge[x] EXCEPT !.status = "superseded"] ELSE challenge[x]]

(* Every current code of the same caller, purpose and recipient. *)
Supersede(i) ==
    [x \in Issuers |-> IF SameTuple(i, x) /\ challenge[x].status \in {"active", "pending_send"}
                       THEN [challenge[x] EXCEPT !.status = "superseded"] ELSE challenge[x]]

NewChallenge(i) == [status |-> "pending_send", scope |-> req[i].scope, recipient |-> req[i].recipient,
                    failures |-> 0, max |-> policy[i].maxFailures, expires |-> now + TTL]

(* Under issueMu, and for the writes under mu. *)
Reserve(i) ==
    LET q == req[i] IN
    /\ pc[i] = "reserve"
    /\ UNCHANGED <<registry, verifyIdem, sendIdemMu, now, req, policy, verifying, editing, failed, accepted>>
    /\ IF q.key # NoKey /\ idempotency[KeyOf(q)].kind # "none"
       THEN /\ IF idempotency[KeyOf(q)].payload # q.recipient THEN Answers(i, "conflict", NoOne)
               ELSE Answers(i, idempotency[KeyOf(q)].kind, idempotency[KeyOf(q)].id)
            /\ UNCHANGED <<challenge, idempotency, issueFlight, issued, order>>
       ELSE IF q.key # NoKey /\ issueFlight[KeyOf(q)] # NoOne
       THEN /\ IF req[issueFlight[KeyOf(q)]].recipient # q.recipient THEN Answers(i, "conflict", NoOne)
               ELSE Moves(i, "wait")
            /\ UNCHANGED <<challenge, idempotency, issueFlight, issued, order>>
       ELSE IF RateLimited(HolderOf(q))
       THEN /\ issued' = [issued EXCEPT ![HolderOf(q)] = Kept(HolderOf(q))]
            /\ Answers(i, "limited", NoOne)
            /\ UNCHANGED <<challenge, idempotency, issueFlight, order>>
       ELSE /\ challenge' = [Supersede(i) EXCEPT ![i] = NewChallenge(i)]
            /\ issueFlight' = IF q.key = NoKey THEN issueFlight ELSE [issueFlight EXCEPT ![KeyOf(q)] = i]
            /\ issued' = [issued EXCEPT ![HolderOf(q)] = Kept(HolderOf(q)) \cup {now}]
            /\ order' = Append(order, i)
            /\ Moves(i, "send") /\ UNCHANGED idempotency

(* Send looks at the caller and the template of now, and then waits for sendIdemMu *)
(* (its key is the challenge's own).                                                *)
Send(i) ==
    LET s == req[i].scope IN
    /\ pc[i] = "send"
    /\ IF checkCallerFor(s) /\ resolveTemplateFor(s)
       THEN sendIdemMu = NoOne /\ sendIdemMu' = i /\ Moves(i, "sending")
       ELSE Moves(i, "unsent") /\ UNCHANGED sendIdemMu
    /\ UNCHANGED <<registry, challenge, idempotency, issueFlight, issued, verifyIdem, now, req, policy,
                   verifying, editing, history>>

Provider(i, to) ==
    /\ pc[i] = "sending" /\ sendIdemMu' = NoOne
    /\ Moves(i, to)
    /\ UNCHANGED <<registry, challenge, idempotency, issueFlight, issued, verifyIdem, now, req, policy,
                   verifying, editing, order, accepted>>
Delivered(i) == Provider(i, "sent") /\ UNCHANGED failed
NotDelivered(i) == failed < MaxFailedSends /\ failed' = failed + 1 /\ Provider(i, "unsent")

(* Mutant of the next: whatever has become of the challenge. *)
Revive(i) == [challenge EXCEPT ![i].status = IF pc[i] = "sent" THEN "active" ELSE "send_failed"]

(* Only a challenge that is still waiting for its send takes the outcome. *)
Settled(i) ==
    [challenge EXCEPT ![i].status = IF @ # "pending_send" THEN @
                                    ELSE IF pc[i] = "sent" THEN "active" ELSE "send_failed"]

(* Mutant of the next: a send that failed leaves the flight open. *)
FinishSent(i) ==
    LET kind == IF pc[i] = "sent" THEN "issued" ELSE "failed"
        q == req[i]
    IN
    /\ pc[i] \in {"sent", "unsent"}
    /\ challenge' = Settled(i)
    /\ idempotency' = IF q.key = NoKey THEN idempotency
                      ELSE [idempotency EXCEPT ![KeyOf(q)] = [kind |-> kind, id |-> i, payload |-> q.recipient]]
    /\ issueFlight' = IF q.key = NoKey \/ kind = "failed" THEN issueFlight ELSE [issueFlight EXCEPT ![KeyOf(q)] = NoOne]
    /\ Answers(i, kind, i)
    /\ UNCHANGED <<registry, issued, verifyIdem, sendIdemMu, now, req, policy, verifying, editing, history>>

Finish(i) ==
    LET kind == IF pc[i] = "sent" THEN "issued" ELSE "failed"
        q == req[i]
    IN
    /\ pc[i] \in {"sent", "unsent"}
    /\ challenge' = Settled(i)
    /\ idempotency' = IF q.key = NoKey THEN idempotency
                      ELSE [idempotency EXCEPT ![KeyOf(q)] = [kind |-> kind, id |-> i, payload |-> q.recipient]]
    /\ issueFlight' = IF q.key = NoKey THEN issueFlight ELSE [issueFlight EXCEPT ![KeyOf(q)] = NoOne]
    /\ Answers(i, kind, i)
    /\ UNCHANGED <<registry, issued, verifyIdem, sendIdemMu, now, req, policy, verifying, editing, history>>

(* The flight is done; its outcome is also what the key holds. *)
Joined(i) ==
    /\ pc[i] = "wait" /\ issueFlight[KeyOf(req[i])] = NoOne
    /\ Answers(i, idempotency[KeyOf(req[i])].kind, idempotency[KeyOf(req[i])].id)
    /\ UNCHANGED <<runtime, req, policy, verifying, editing, history>>

-----------------------------------------------------------------------------
(* Verify. *)

VerifyAnswers(v, outcome) ==
    /\ vpc' = [vpc EXCEPT ![v] = "done"]
    /\ vanswer' = [vanswer EXCEPT ![v] = outcome]
    /\ UNCHANGED vreq

Known(q) == q.key # NoKey /\ verifyIdem[<<q.scope, q.id, q.key>>].outcome # "none"
Replay(q) == IF verifyIdem[<<q.scope, q.id, q.key>>].code # q.code THEN "conflict" ELSE verifyIdem[<<q.scope, q.id, q.key>>].outcome

(* The optimistic look. *)
VerifyLooks(v) ==
    /\ vpc[v] = "new"
    /\ IF Known(vreq[v]) THEN VerifyAnswers(v, Replay(vreq[v]))
       ELSE vpc' = [vpc EXCEPT ![v] = "verify"] /\ UNCHANGED <<vreq, vanswer>>
    /\ UNCHANGED <<runtime, issuing, editing, history>>

(* What the code does to the challenge, and what it is answered. *)
Outcome(c, code) ==
    IF now >= c.expires THEN "expired"
    ELSE CASE c.status = "consumed" -> "consumed"
           [] c.status = "expired" -> "expired"
           [] c.status = "active" -> IF code = "right" THEN "ok"
                                     ELSE IF c.failures + 1 >= c.max THEN "locked" ELSE "incorrect"
           [] OTHER -> "not_active"
After(c, code) ==
    LET o == Outcome(c, code) IN
    IF now >= c.expires THEN [c EXCEPT !.status = "expired"]
    ELSE IF c.status # "active" THEN c
    ELSE IF o = "ok" THEN [c EXCEPT !.status = "consumed"]
    ELSE IF o = "locked" THEN [c EXCEPT !.status = "locked", !.failures = @ + 1]
    ELSE [c EXCEPT !.failures = @ + 1]

Judges(v, q) ==
    LET o == Outcome(challenge[q.id], q.code) IN
    /\ challenge' = [challenge EXCEPT ![q.id] = After(@, q.code)]
    /\ verifyIdem' = IF q.key = NoKey THEN verifyIdem
                     ELSE [verifyIdem EXCEPT ![<<q.scope, q.id, q.key>>] = [code |-> q.code, outcome |-> o]]
    /\ accepted' = IF o = "ok" THEN [accepted EXCEPT ![q.id] = @ \cup {v}] ELSE accepted
    /\ VerifyAnswers(v, o)

(* Under mu: the key is looked up again. *)
Verify(v) ==
    LET q == vreq[v] IN
    /\ vpc[v] = "verify"
    /\ IF Known(q) THEN VerifyAnswers(v, Replay(q)) /\ UNCHANGED <<challenge, verifyIdem, accepted>>
       ELSE IF challenge[q.id].status = "none" \/ ~challengeScopeVisible(q.scope, challenge[q.id].scope)
       THEN VerifyAnswers(v, "refused") /\ UNCHANGED <<challenge, verifyIdem, accepted>>
       ELSE Judges(v, q)
    /\ UNCHANGED <<registry, idempotency, issueFlight, issued, sendIdemMu, now, issuing, editing, failed, order>>

(* Diagnostics write, too: what has run out is marked. *)
ChallengeStatus(i) ==
    /\ challenge[i].status \in {"active", "pending_send"} /\ now >= challenge[i].expires
    /\ challenge' = [challenge EXCEPT ![i].status = "expired"]
    /\ UNCHANGED <<registry, idempotency, issueFlight, issued, verifyIdem, sendIdemMu, now,
                   issuing, verifying, editing, history>>

Tick ==
    /\ now < MaxNow
    /\ now' = now + 1
    /\ UNCHANGED <<registry, challenge, idempotency, issueFlight, issued, verifyIdem, sendIdemMu,
                   issuing, verifying, editing, history>>

-----------------------------------------------------------------------------
(* SeedBuiltInDefaults, before the first request. *)
Seeded == [kind \in Kinds |-> [s \in Scopes |->
              IF s = "system" THEN [set |-> TRUE, live |-> TRUE, systemOwned |-> kind = "caller", maxFailures |-> MaxFailures]
              ELSE NoEntry]]

NoChallenge == [status |-> "none", scope |-> "system", recipient |-> CHOOSE r \in Recipients : TRUE,
                failures |-> 0, max |-> 1, expires |-> 0]

(* The calls in "running" arrive. *)
Start(issues, verifies, edits, running) ==
    /\ issues \in [Issuers -> IssueRequest] /\ verifies \in [Verifiers -> VerifyRequest]
    /\ edits \in [Editors -> EditRequest]
    /\ registry = Seeded /\ challenge = [i \in Issuers |-> NoChallenge]
    /\ idempotency = [k \in Scopes \X Keys |-> [kind |-> "none", id |-> NoOne, payload |-> NoOne]]
    /\ issueFlight = [k \in Scopes \X Keys |-> NoOne] /\ issued = [x \in Scopes \X Recipients |-> {}]
    /\ verifyIdem = [x \in Scopes \X Issuers \X Keys |-> [code |-> "wrong", outcome |-> "none"]]
    /\ sendIdemMu = NoOne /\ now = 0
    /\ req = issues /\ pc = [i \in Issuers |-> IF i \in running THEN "new" ELSE "done"]
    /\ policy = [i \in Issuers |-> NoEntry] /\ answer = [i \in Issuers |-> NoAnswer]
    /\ vreq = verifies /\ vpc = [v \in Verifiers |-> IF v \in running THEN "new" ELSE "done"]
    /\ vanswer = [v \in Verifiers |-> "none"]
    /\ edit = edits /\ epc = [e \in Editors |-> IF e \in running THEN "new" ELSE "done"]
    /\ eread = [e \in Editors |-> NoEntry]
    /\ failed = 0 /\ order = <<>> /\ accepted = [i \in Issuers |-> {}]

IssueSteps(i) == IssueChecks(i) \/ Reserve(i) \/ Send(i) \/ Delivered(i) \/ Finish(i) \/ Joined(i)

Next ==
    \/ \E i \in Issuers : IssueSteps(i) \/ NotDelivered(i) \/ ChallengeStatus(i)
    \/ \E v \in Verifiers : VerifyLooks(v) \/ Verify(v)
    \/ \E e \in Editors :
          \/ putCaller(e) \/ putTemplate(e) \/ putPolicy(e) \/ SetCallerFor(e) \/ SetTemplateFor(e) \/ SetVerificationPolicyFor(e)
          \/ DeleteCallerFor(e) \/ DeleteTemplateFor(e)
    \/ Tick

Init == \E issues \in [Issuers -> IssueRequest], verifies \in [Verifiers -> VerifyRequest],
            edits \in [Editors -> EditRequest], running \in SUBSET (Issuers \cup Verifiers \cup Editors) :
              Start(issues, verifies, edits, running)
Spec == Init /\ [][Next]_vars

(* Go's scheduler runs every goroutine, its mutexes are fair, and a send ends (the *)
(* provider has a timeout).                                                          *)
Fairness == \A i \in Issuers : WF_vars(IssueSteps(i)) /\ SF_vars(Send(i))

-----------------------------------------------------------------------------
(* Properties. *)

(* Type invariant. *)
TypeOK ==
    /\ registry \in [Kinds -> [Scopes -> Entry]] /\ challenge \in [Issuers -> Challenge]
    /\ \A k \in Scopes \X Keys : issueFlight[k] \in Issuers \cup {NoOne} /\ idempotency[k].kind \in {"none", "issued", "failed"}
    /\ \A x \in Scopes \X Recipients : Cardinality(issued[x]) <= HourlyLimit
    /\ sendIdemMu \in Issuers \cup {NoOne} /\ now \in 0..MaxNow
    /\ \A i \in Issuers : /\ pc[i] \in {"new", "reserve", "wait", "send", "sending", "sent", "unsent", "done"}
                           /\ policy[i] \in Entry /\ answer[i].id \in Issuers \cup {NoOne}
    /\ \A v \in Verifiers : vpc[v] \in {"new", "verify", "done"}
    /\ \A e \in Editors : epc[e] \in {"new", "set", "done"} /\ eread[e] \in Entry
    /\ failed \in 0..MaxFailedSends /\ order \in Seq(Issuers)

Place(i) == CHOOSE k \in 1..Len(order) : order[k] = i

(* Of one caller, purpose and recipient only the code reserved last can be or become *)
(* valid, however late the sends of the earlier ones end.                             *)
NewestOnly ==
    \A i, j \in Issuers :
        /\ challenge[i].status \in {"pending_send", "active"} /\ challenge[j].status # "none"
        /\ challenge[i].scope = challenge[j].scope /\ challenge[i].recipient = challenge[j].recipient
        => Place(j) <= Place(i)

(* A challenge that was superseded, failed to be sent, was used up or guessed at too *)
(* often never becomes valid again, and no challenge is accepted twice.               *)
SpentForGood ==
    [][\A i \in Issuers :
         /\ challenge[i].status \notin {"none", "pending_send", "active"} =>
              challenge'[i].status \in {challenge[i].status, "expired"}
         /\ accepted'[i] # accepted[i] =>
              accepted[i] = {} /\ challenge[i].status = "active" /\ challenge[i].failures < challenge[i].max]_vars

(* Retries with a key agree: all calls of Issue that got a challenge for one key of a    *)
(* scope got the same, with the same outcome, and all calls of Verify that presented one *)
(* code under one key got the same answer.                                                *)
RetriesAgree ==
    /\ \A i, j \in Issuers :
         req[i].key # NoKey /\ KeyOf(req[i]) = KeyOf(req[j]) /\ answer[i].kind \in {"issued", "failed"}
           /\ answer[j].kind \in {"issued", "failed"} => answer[i] = answer[j]
    /\ \A v, w \in Verifiers :
         /\ vreq[v].key # NoKey /\ vreq[v] = vreq[w]
         /\ {vanswer[v], vanswer[w]} \cap {"none", "conflict", "refused"} = {}
         => vanswer[v] = vanswer[w]

(* What Issue and Verify keep. *)
CodesHold == NewestOnly /\ RetriesAgree

(* Every call of Issue is answered, those that wait for another one's send included. *)
EveryIssueAnswers == <>(\A i \in Issuers : pc[i] = "done")
=============================================================================
