--------------------------- MODULE VerificationProofs ---------------------------
(***************************************************************************)
(* What the verification codes keep for any number of calls, editors,      *)
(* recipients and keys: their types and the hourly limit, that of one      *)
(* caller, purpose and recipient only the code reserved last can be valid, *)
(* that retries with a key agree, and that a code that is spent stays so.  *)
(*                                                                         *)
(* The reservations are numbered by their order: each supersedes all that  *)
(* could still become valid, and none becomes valid a second time.  A key  *)
(* belongs to the Issue that has its flight until the outcome is recorded, *)
(* and a recorded outcome is never written again.                          *)
(*                                                                         *)
(* The later sections are of the two components that MCAccounts composes   *)
(* with the codes: the menu tree, whose cycles would have to be seen by    *)
(* the walk that checked the change, and the decisions, where a denial     *)
(* under the generation of now is one of the policies of now.              *)
(***************************************************************************)
EXTENDS MCAccounts, FiniteSetTheorems, TLAPS

Sending == {"send", "sending", "sent", "unsent"}
Unborn  == {"new", "reserve", "wait"}
Point   == Sending \cup Unborn \cup {"done"}
Current == {"pending_send", "active"}
Outcomes == {"none", "refused", "conflict", "ok", "consumed", "expired", "locked", "incorrect", "not_active"}

RegistryTypes ==
    /\ registry \in [Kinds -> [Scopes -> Entry]] /\ eread \in [Editors -> Entry]
    /\ edit \in [Editors -> EditRequest] /\ epc \in [Editors -> {"new", "set", "done"}]
IssueTypes ==
    /\ req \in [Issuers -> IssueRequest] /\ pc \in [Issuers -> Point] /\ policy \in [Issuers -> Entry]
    /\ answer \in [Issuers -> [kind : {"none", "refused", "conflict", "limited", "issued", "failed"},
                               id : Issuers \cup {NoOne}]]
    /\ \A i \in Issuers : pc[i] = "wait" => req[i].key # NoKey
KeyTypes ==
    /\ idempotency \in [Scopes \X Keys -> [kind : {"none", "issued", "failed"}, id : Issuers \cup {NoOne},
                                           payload : Recipients \cup {NoOne}]]
    /\ issueFlight \in [Scopes \X Keys -> Issuers \cup {NoOne}]
LimitTypes ==
    /\ \A x \in Scopes \X Recipients : IsFiniteSet(issued[x]) /\ Cardinality(issued[x]) <= HourlyLimit
    /\ issued \in [Scopes \X Recipients -> SUBSET Nat]
    /\ now \in 0..MaxNow /\ failed \in 0..MaxFailedSends /\ sendIdemMu \in Issuers \cup {NoOne}
ChallengeTypes == challenge \in [Issuers -> Challenge] /\ order \in Seq(Issuers)
VerifyTypes ==
    /\ vreq \in [Verifiers -> VerifyRequest] /\ vpc \in [Verifiers -> {"new", "verify", "done"}]
    /\ vanswer \in [Verifiers -> Outcomes]
    /\ verifyIdem \in [Scopes \X Issuers \X Keys -> [code : {"right", "wrong"}, outcome : Outcomes]]
    /\ accepted \in [Issuers -> SUBSET Verifiers]
TypeInv == RegistryTypes /\ IssueTypes /\ KeyTypes /\ LimitTypes /\ ChallengeTypes /\ VerifyTypes

(* A code that may still be used was never found right, nor guessed at too often. *)
UseInv ==
    \A i \in Issuers :
        /\ challenge[i].status \in Current => challenge[i].failures < challenge[i].max
        /\ accepted[i] # {} => challenge[i].status \in {"consumed", "expired"}
        /\ pc[i] \in Unborn => challenge[i].status = "none"

(* The history numbers the challenges; one that is current is the last of its tuple. *)
OrderInv ==
    /\ \A k \in 1..Len(order) : challenge[order[k]].status # "none"
    /\ \A i \in Issuers : challenge[i].status # "none" => \E k \in 1..Len(order) : order[k] = i
    /\ \A k, l \in 1..Len(order) : order[k] = order[l] => k = l
    /\ \A k, l \in 1..Len(order) :
          /\ challenge[order[k]].status \in Current
          /\ challenge[order[k]].scope = challenge[order[l]].scope
          /\ challenge[order[k]].recipient = challenge[order[l]].recipient
          => l <= k

(* A key is in flight or recorded, and who was answered was answered with the record. *)
FlightInv ==
    /\ \A i \in Issuers : pc[i] \in Sending /\ req[i].key # NoKey => issueFlight[KeyOf(req[i])] = i
    /\ \A x \in Scopes \X Keys : idempotency[x].kind # "none" => issueFlight[x] = NoOne
    /\ \A i \in Issuers : answer[i].kind \in {"issued", "failed"} /\ req[i].key # NoKey =>
          idempotency[KeyOf(req[i])].kind = answer[i].kind /\ idempotency[KeyOf(req[i])].id = answer[i].id

RetryInv ==
    \A v \in Verifiers :
        LET q == vreq[v] IN
        vanswer[v] \notin {"none", "conflict", "refused"} /\ q.key # NoKey =>
            /\ verifyIdem[<<q.scope, q.id, q.key>>].outcome = vanswer[v]
            /\ verifyIdem[<<q.scope, q.id, q.key>>].code = q.code

CodesInv == TypeInv /\ UseInv /\ OrderInv /\ FlightInv /\ RetryInv

-----------------------------------------------------------------------------
(* Types. *)

LEMMA Chains ==
    ASSUME NEW s \in Scopes
    PROVE  registryScopes(s) \in Seq(Scopes) /\ Len(registryScopes(s)) \in 1..3
<1>1. CASE s = "org"
  BY <1>1 DEF Scopes, registryScopes
<1>2. CASE s = "tenant"
  BY <1>2 DEF Scopes, registryScopes
<1>3. CASE s = "system"
  BY <1>3 DEF Scopes, registryScopes
<1> QED
  BY <1>1, <1>2, <1>3 DEF Scopes

LEMMA ResolveTyped ==
    ASSUME RegistryTypes, VerificationAssumption, NEW kind \in Kinds, NEW s \in Scopes
    PROVE  Resolve(kind, s) \in Entry
<1> DEFINE chain == registryScopes(s)
           has == {k \in 1..Len(chain) : registry[kind][chain[k]].set}
<1>1. CASE has = {}
  BY <1>1 DEF Resolve, NoEntry, Entry, VerificationAssumption
<1>2. CASE has # {}
  <2>1. chain \in Seq(Scopes) /\ Len(chain) \in 1..3
    BY Chains
  <2>2. has \subseteq 1..Len(chain)
    OBVIOUS
  <2> HIDE DEF has, chain
  <2>3. \E k \in has : \A j \in has : k <= j
    <3>1. CASE 1 \in has
      BY <2>1, <2>2, <3>1
    <3>2. CASE 1 \notin has /\ 2 \in has
      BY <2>1, <2>2, <3>2
    <3>3. CASE 1 \notin has /\ 2 \notin has
      <4>1. ASSUME NEW j \in has PROVE j = 3
        <5>1. j \in 1..3
          <6>1. j \in 1..Len(chain)
            BY <2>2
          <6>2. \A n \in 1..3 : 1..n \subseteq 1..3
            OBVIOUS
          <6> QED
            BY <2>1, <6>1, <6>2
        <5>2. j # 1 /\ j # 2
          BY <3>3
        <5> QED
          BY <5>1, <5>2
      <4> QED
        BY <1>2, <4>1
    <3> QED
      BY <3>1, <3>2, <3>3
  <2> DEFINE k == CHOOSE k \in has : \A j \in has : k <= j
  <2>4. k \in has
    BY <2>3
  <2> HIDE DEF k
  <2>5. registry[kind][chain[k]] \in Entry
    BY <2>1, <2>2, <2>4 DEF RegistryTypes
  <2>6. Resolve(kind, s) = registry[kind][chain[k]]
    BY <1>2 DEF Resolve, has, chain, k
  <2> QED
    BY <2>5, <2>6
<1> QED
  BY <1>1, <1>2

LEMMA EntriesTyped ==
    ASSUME RegistryTypes, VerificationAssumption, NEW s \in Scopes
    PROVE  CallerFor(s) \in Entry /\ TemplateFor(s) \in Entry /\ resolvePolicy(s) \in Entry /\ NoEntry \in Entry
<1>1. {"caller", "template", "policy"} = Kinds
  BY DEF Kinds
<1>2. NoEntry \in Entry
  BY DEF NoEntry, Entry, VerificationAssumption
<1> QED
  BY <1>1, <1>2, ResolveTyped DEF CallerFor, TemplateFor, resolvePolicy

LEMMA ChangedTyped ==
    ASSUME NEW row \in Entry, NEW l \in BOOLEAN, NEW m \in 1..MaxFailures
    PROVE  [row EXCEPT !.set = TRUE, !.live = l, !.maxFailures = m] \in Entry
BY DEF Entry

LEMMA OwnedTyped ==
    ASSUME NEW row \in Entry, NEW o \in BOOLEAN
    PROVE  [row EXCEPT !.systemOwned = o] \in Entry
BY DEF Entry

LEMMA ValueTyped == ASSUME RegistryTypes, NEW e \in Editors PROVE Value(e) \in Entry
<1> DEFINE l == IF edit[e].live # "keep" THEN edit[e].live = "yes"
                ELSE eread[e].live \/ (~eread[e].set /\ edit[e].kind # "template")
           m == IF edit[e].live = "keep" THEN edit[e].max ELSE eread[e].maxFailures
<1>1. l \in BOOLEAN
  BY Zenon
<1>2. eread[e] \in Entry /\ edit[e].max \in 1..MaxFailures /\ eread[e].maxFailures \in 1..MaxFailures
  BY DEF RegistryTypes, EditRequest, Entry
<1>3. m \in 1..MaxFailures
  BY <1>2
<1>4. Value(e) = [eread[e] EXCEPT !.set = TRUE, !.live = l, !.maxFailures = m]
  BY Zenon DEF Value
<1> HIDE DEF l, m
<1>5. [eread[e] EXCEPT !.set = TRUE, !.live = l, !.maxFailures = m] \in Entry
  BY <1>1, <1>2, <1>3, ChangedTyped, Zenon
<1> QED
  BY <1>4, <1>5, Zenon

LEMMA EntrySet ==
    ASSUME RegistryTypes, NEW kind \in Kinds, NEW s \in Scopes, NEW row \in Entry,
           registry' = [registry EXCEPT ![kind][s] = row]
    PROVE  registry' \in [Kinds -> [Scopes -> Entry]]
BY DEF RegistryTypes

LEMMA StepRegistry ==
    ASSUME RegistryTypes, VerificationAssumption, NEW e \in Editors,
           \/ putCaller(e) \/ putTemplate(e) \/ putPolicy(e)
           \/ SetCallerFor(e) \/ SetTemplateFor(e) \/ SetVerificationPolicyFor(e)
           \/ DeleteCallerFor(e) \/ DeleteTemplateFor(e)
    PROVE  RegistryTypes'
<1>1. edit[e].scope \in Scopes /\ edit[e].kind \in Kinds
  BY DEF RegistryTypes, EditRequest
<1>2. CASE putCaller(e) \/ putTemplate(e) \/ putPolicy(e)
  <2>1. PICK entry \in Entry : /\ eread' = [eread EXCEPT ![e] = entry] /\ epc' = [epc EXCEPT ![e] = "set"]
                               /\ UNCHANGED <<registry, edit>>
    BY <1>1, <1>2, EntriesTyped DEF putCaller, putTemplate, putPolicy, Reads, Registers
  <2> QED
    BY <2>1 DEF RegistryTypes
<1>3. CASE \/ SetCallerFor(e) \/ SetTemplateFor(e) \/ SetVerificationPolicyFor(e)
           \/ DeleteCallerFor(e) \/ DeleteTemplateFor(e)
  <2>1. epc' = [epc EXCEPT ![e] = "done"] /\ UNCHANGED <<eread, edit>>
    BY <1>3 DEF SetCallerFor, SetTemplateFor, SetVerificationPolicyFor, DeleteCallerFor, DeleteTemplateFor, Edited,
      Registers
  <2>2. "caller" \in Kinds /\ "template" \in Kinds /\ "policy" \in Kinds
    BY DEF Kinds
  <2>3. registry' \in [Kinds -> [Scopes -> Entry]]
    <3>1. CASE SetCallerFor(e)
      <4> DEFINE o == Value(e).systemOwned \/ registry["caller"][edit[e].scope].systemOwned
      <4>1. registry' = [registry EXCEPT !["caller"][edit[e].scope] = [Value(e) EXCEPT !.systemOwned = o]]
        BY <3>1, Zenon DEF SetCallerFor
      <4>2. o \in BOOLEAN
        BY Zenon
      <4> HIDE DEF o
      <4>3. [Value(e) EXCEPT !.systemOwned = o] \in Entry
        BY <4>2, ValueTyped, OwnedTyped
      <4> QED
        BY <1>1, <2>2, <4>1, <4>3, EntrySet
    <3>2. CASE SetTemplateFor(e) \/ SetVerificationPolicyFor(e)
      BY <1>1, <2>2, <3>2, ValueTyped, EntrySet DEF SetTemplateFor, SetVerificationPolicyFor
    <3>3. CASE DeleteCallerFor(e) \/ DeleteTemplateFor(e)
      <4>1. CASE UNCHANGED registry
        BY <4>1 DEF RegistryTypes
      <4>2. CASE \E kind \in Kinds : registry' = [registry EXCEPT ![kind][edit[e].scope] = NoEntry]
        BY <1>1, <4>2, EntriesTyped, EntrySet
      <4> QED
        BY <2>2, <3>3, <4>1, <4>2 DEF DeleteCallerFor, DeleteTemplateFor
    <3> QED
      BY <1>3, <3>1, <3>2, <3>3
  <2> QED
    BY <2>1, <2>3 DEF RegistryTypes
<1> QED
  BY <1>2, <1>3

LEMMA StepIssueTypes ==
    ASSUME VerificationAssumption, RegistryTypes, IssueTypes, KeyTypes, NEW i \in Issuers,
    IssueSteps(i) \/ NotDelivered(i)
    PROVE  IssueTypes'
<1>1. req[i] \in IssueRequest /\ req[i].scope \in Scopes /\ req[i].key \in Keys \cup {NoKey}
  BY DEF IssueTypes, IssueRequest
<1>2. req[i].key # NoKey => KeyOf(req[i]) \in Scopes \X Keys
  BY <1>1 DEF KeyOf
<1>3. UNCHANGED req
  BY DEF IssueSteps, IssueChecks, Reserve, Send, Delivered, NotDelivered, Finish, Joined, Provider
<1>4. policy' \in [Issuers -> Entry]
  BY <1>1, EntriesTyped DEF IssueSteps, IssueChecks, Reserve, Send, Delivered, NotDelivered, Finish, Joined, Provider,
     IssueTypes
<1>5. \/ \E to \in Point : Moves(i, to)
      \/ \E kind \in {"none", "refused", "conflict", "limited", "issued", "failed"}, id \in Issuers \cup {NoOne} :
            Answers(i, kind, id)
  <2>1. CASE IssueChecks(i)
    BY <2>1 DEF IssueChecks, Point, Sending, Unborn
  <2>2. CASE Reserve(i)
    <3>1. CASE \/ Answers(i, "conflict", NoOne) \/ Answers(i, "limited", NoOne) \/ Moves(i, "wait") \/ Moves(i, "send")
      BY <3>1 DEF Point, Sending, Unborn
    <3>2. CASE req[i].key # NoKey /\ Answers(i, idempotency[KeyOf(req[i])].kind, idempotency[KeyOf(req[i])].id)
      BY <1>2, <3>2 DEF KeyTypes
    <3> QED
      BY <2>2, <3>1, <3>2 DEF Reserve
  <2>3. CASE Send(i) \/ Delivered(i) \/ NotDelivered(i)
    BY <2>3 DEF Send, Delivered, NotDelivered, Provider, Point, Sending, Unborn
  <2>4. CASE Finish(i)
    BY <2>4 DEF Finish
  <2>5. CASE Joined(i)
    BY <1>2, <2>5 DEF Joined, KeyTypes, IssueTypes
  <2> QED
    BY <2>1, <2>2, <2>3, <2>4, <2>5 DEF IssueSteps
<1>6. pc' \in [Issuers -> Point]
  BY <1>5 DEF Moves, Answers, IssueTypes, Point
<1>7. answer' \in [Issuers -> [kind : {"none", "refused", "conflict", "limited", "issued", "failed"},
                               id : Issuers \cup {NoOne}]]
  BY <1>5 DEF Moves, Answers, IssueTypes
<1>8. \A j \in Issuers : pc'[j] = "wait" => req'[j].key # NoKey
  <2>1. pc'[i] = "wait" => req[i].key # NoKey
    BY DEF IssueSteps, IssueChecks, Reserve, Send, Delivered, NotDelivered, Finish, Joined, Provider, Moves, Answers,
      IssueTypes
  <2>2. \A j \in Issuers \ {i} : pc'[j] = pc[j]
    BY <1>5 DEF Moves, Answers, IssueTypes
  <2> QED
    BY <1>3, <2>1, <2>2 DEF IssueTypes
<1> QED
  BY <1>3, <1>4, <1>6, <1>7, <1>8 DEF IssueTypes

LEMMA StepKeyTypes ==
    ASSUME VerificationAssumption, IssueTypes, KeyTypes, NEW i \in Issuers, Reserve(i) \/ Finish(i)
    PROVE  KeyTypes'
<1>1. req[i].recipient \in Recipients /\ (req[i].key # NoKey => KeyOf(req[i]) \in Scopes \X Keys)
  BY DEF IssueTypes, IssueRequest, KeyOf
<1>2. UNCHANGED issueFlight \/ \E x \in Issuers \cup {NoOne} : issueFlight' = [issueFlight EXCEPT ![KeyOf(req[i])] = x]
  BY DEF Reserve, Finish
<1>3. issueFlight' \in [Scopes \X Keys -> Issuers \cup {NoOne}]
  BY <1>2 DEF KeyTypes
<1>4. \/ UNCHANGED idempotency
      \/ \E k \in {"issued", "failed"} :
            idempotency' = [idempotency EXCEPT ![KeyOf(req[i])] = [kind |-> k, id |-> i, payload |-> req[i].recipient]]
  BY DEF Reserve, Finish
<1>5. idempotency' \in [Scopes \X Keys -> [kind : {"none", "issued", "failed"}, id : Issuers \cup {NoOne},
                                           payload : Recipients \cup {NoOne}]]
  BY <1>1, <1>4 DEF KeyTypes
<1> QED
  BY <1>3, <1>5 DEF KeyTypes

LEMMA StepLimits ==
    ASSUME VerificationAssumption, IssueTypes, LimitTypes, NEW i \in Issuers, Reserve(i)
    PROVE  LimitTypes'
<1> DEFINE x == HolderOf(req[i])
<1>1. x \in Scopes \X Recipients
  BY DEF IssueTypes, IssueRequest, HolderOf
<1> HIDE DEF x
<1>2. Kept(x) \subseteq issued[x] /\ now \in Nat
  BY DEF Kept, LimitTypes, VerificationAssumption
<1>3. IsFiniteSet(Kept(x)) /\ Cardinality(Kept(x)) <= Cardinality(issued[x])
  BY <1>1, <1>2, FS_Subset DEF LimitTypes
<1>4. Cardinality(Kept(x)) \in Nat /\ Cardinality(issued[x]) \in Nat
  BY <1>1, <1>3, FS_CardinalityType DEF LimitTypes
<1>5. Cardinality(Kept(x)) <= HourlyLimit
  BY <1>1, <1>3, <1>4 DEF LimitTypes, VerificationAssumption
<1>6. ~RateLimited(x) => Cardinality(Kept(x) \cup {now}) <= HourlyLimit /\ IsFiniteSet(Kept(x) \cup {now})
  <2>1. IsFiniteSet(Kept(x) \cup {now})
    BY <1>3, FS_AddElement
  <2>2. Cardinality(Kept(x) \cup {now}) \in {Cardinality(Kept(x)), Cardinality(Kept(x)) + 1}
    BY <1>3, FS_AddElement
  <2>3. ~RateLimited(x) => Cardinality(Kept(x)) < HourlyLimit
    BY <1>4 DEF RateLimited, VerificationAssumption
  <2> QED
    BY <1>4, <2>1, <2>2, <2>3 DEF VerificationAssumption
<1>7. PICK S : /\ UNCHANGED issued \/ issued' = [issued EXCEPT ![x] = S]
               /\ S \subseteq Nat /\ IsFiniteSet(S) /\ Cardinality(S) <= HourlyLimit
  <2>1. Kept(x) \subseteq Nat /\ Kept(x) \cup {now} \subseteq Nat
    BY <1>1, <1>2 DEF LimitTypes
  <2>2. CASE UNCHANGED issued \/ issued' = [issued EXCEPT ![x] = Kept(x)]
    BY <1>3, <1>5, <2>1, <2>2
  <2>3. CASE ~RateLimited(x) /\ issued' = [issued EXCEPT ![x] = Kept(x) \cup {now}]
    BY <1>6, <2>1, <2>3
  <2> QED
    BY <2>2, <2>3 DEF Reserve, x
<1>8. UNCHANGED <<now, failed, sendIdemMu>>
  BY DEF Reserve
<1> QED
  BY <1>1, <1>7, <1>8 DEF LimitTypes

LEMMA OutcomeTyped ==
    ASSUME NEW c \in Challenge, NEW code
    PROVE  Outcome(c, code) \in Outcomes \ {"none", "refused", "conflict"}
BY DEF Outcome, Outcomes

LEMMA AfterTyped ==
    ASSUME VerificationAssumption, NEW c \in Challenge, NEW code, c.status \in Current => c.failures < c.max
    PROVE  /\ After(c, code) \in Challenge /\ After(c, code).max = c.max
           /\ After(c, code).scope = c.scope /\ After(c, code).recipient = c.recipient
           /\ After(c, code).status \in Current => After(c, code).failures < c.max
           /\ c.status \in Current \/ After(c, code).status \in {c.status, "expired"}
           /\ c.status # "none" => After(c, code).status # "none"
           /\ After(c, code).status \in Current => After(c, code).status = c.status
<1>1. c.status \in Statuses /\ c.failures \in 0..MaxFailures /\ c.max \in 1..MaxFailures
  BY DEF Challenge
<1>2. CASE now >= c.expires
  BY <1>1, <1>2 DEF After, Challenge, Statuses, Current
<1>3. CASE ~(now >= c.expires) /\ c.status # "active"
  BY <1>1, <1>3 DEF After
<1>4. CASE ~(now >= c.expires) /\ c.status = "active"
  <2>1. MaxFailures \in Nat
    BY DEF VerificationAssumption
  <2>2. Outcome(c, code) \in {"ok", "locked", "incorrect"} /\ (Outcome(c, code) = "incorrect" => c.failures + 1 < c.max)
    BY <1>1, <1>4, <2>1 DEF Outcome
  <2>3. c.failures + 1 \in 0..MaxFailures
    BY <1>1, <1>4, <2>1 DEF Current
  <2>4. CASE Outcome(c, code) = "ok"
    BY <1>1, <1>4, <2>4 DEF After, Challenge, Statuses, Current
  <2>5. CASE Outcome(c, code) = "locked"
    BY <1>1, <1>4, <2>3, <2>5 DEF After, Challenge, Statuses, Current
  <2>6. CASE Outcome(c, code) = "incorrect"
    BY <1>1, <1>4, <2>2, <2>3, <2>6 DEF After, Challenge, Statuses, Current
  <2> QED
    BY <2>2, <2>4, <2>5, <2>6
<1> QED
  BY <1>2, <1>3, <1>4

LEMMA StepVerifyTypes ==
    ASSUME VerificationAssumption, ChallengeTypes, VerifyTypes, NEW v \in Verifiers, VerifyLooks(v) \/ Verify(v)
    PROVE  VerifyTypes'
<1> DEFINE q == vreq[v]
           x == <<q.scope, q.id, q.key>>
<1>1. q \in VerifyRequest /\ q.id \in Issuers /\ q.code \in {"right", "wrong"}
  BY DEF VerifyTypes, VerifyRequest
<1>2. q.key # NoKey => x \in Scopes \X Issuers \X Keys
  BY <1>1 DEF VerifyRequest
<1>3. PICK o \in Outcomes :
        /\ VerifyAnswers(v, o) \/ (vpc' = [vpc EXCEPT ![v] = "verify"] /\ UNCHANGED <<vreq, vanswer>>)
        /\ \/ UNCHANGED verifyIdem
           \/ q.key # NoKey /\ verifyIdem' = [verifyIdem EXCEPT ![x] = [code |-> q.code, outcome |-> o]]
        /\ UNCHANGED accepted \/ accepted' = [accepted EXCEPT ![q.id] = @ \cup {v}]
  <2>1. Known(q) => Replay(q) \in Outcomes
    BY <1>2 DEF Known, Replay, VerifyTypes, Outcomes
  <2>2. CASE VerifyLooks(v)
    BY <2>1, <2>2 DEF VerifyLooks, runtime, history, Outcomes
  <2>3. CASE Verify(v) /\ ~Judges(v, q)
    BY <2>1, <2>3 DEF Verify, Outcomes
  <2>4. CASE Judges(v, q)
    BY <1>1, <2>4, OutcomeTyped DEF Judges, ChallengeTypes
  <2> QED
    BY <2>2, <2>3, <2>4
<1>4. vreq' = vreq /\ vpc' \in [Verifiers -> {"new", "verify", "done"}] /\ vanswer' \in [Verifiers -> Outcomes]
  BY <1>3 DEF VerifyAnswers, VerifyTypes
<1> HIDE DEF x
<1>5. verifyIdem' \in [Scopes \X Issuers \X Keys -> [code : {"right", "wrong"}, outcome : Outcomes]]
  BY <1>1, <1>2, <1>3 DEF VerifyTypes
<1>6. accepted' \in [Issuers -> SUBSET Verifiers]
  BY <1>1, <1>3 DEF VerifyTypes
<1> QED
  BY <1>4, <1>5, <1>6 DEF VerifyTypes

-----------------------------------------------------------------------------
(* Challenges. *)

(* How a step may change a challenge that there is: its status, and its failures. *)
Ages(c, d) ==
    /\ d \in Challenge /\ d.max = c.max /\ d.scope = c.scope /\ d.recipient = c.recipient
    /\ d.status = "none" <=> c.status = "none"
    /\ c.status \notin Current => d.status \in {c.status, "expired"}
    /\ d.status \in Current => d.failures < d.max

LEMMA AgesItself ==
    ASSUME UseInv, ChallengeTypes, NEW i \in Issuers
    PROVE  Ages(challenge[i], challenge[i])
BY DEF Ages, UseInv, ChallengeTypes

LEMMA StatusTyped ==
    ASSUME NEW c \in Challenge, NEW st \in Statuses
    PROVE  /\ [c EXCEPT !.status = st] \in Challenge
           /\ [c EXCEPT !.status = st].status = st /\ [c EXCEPT !.status = st].failures = c.failures
           /\ [c EXCEPT !.status = st].max = c.max /\ [c EXCEPT !.status = st].scope = c.scope
           /\ [c EXCEPT !.status = st].recipient = c.recipient
BY DEF Challenge

LEMMA AgesOther ==
    ASSUME UseInv, ChallengeTypes, NEW i \in Issuers, challenge[i].status \in Current,
           NEW st \in {"active", "superseded", "send_failed", "expired"}
    PROVE  Ages(challenge[i], [challenge[i] EXCEPT !.status = st])
<1>1. challenge[i] \in Challenge /\ challenge[i].failures < challenge[i].max
  BY DEF UseInv, ChallengeTypes
<1>2. st \in Statuses /\ st # "none"
  BY DEF Statuses
<1> QED
  BY <1>1, <1>2, StatusTyped DEF Ages, Current

(* Every step but a reservation lets challenges age. *)
LEMMA Aging ==
    ASSUME VerificationAssumption, TypeInv, UseInv, [Next]_vars, NEW i \in Issuers,
           ~(Reserve(i) /\ order' # order)
    PROVE  Ages(challenge[i], challenge'[i])
<1> USE DEF TypeInv
<1>1. CASE challenge'[i] = challenge[i]
  BY <1>1, AgesItself
<1>2. CASE \E j \in Issuers : Reserve(j)
  <2>1. PICK j \in Issuers : Reserve(j)
    BY <1>2
  <2>2. CASE order' = order
    <3>1. order # Append(order, j)
      BY DEF ChallengeTypes
    <3> QED
      BY <1>1, <2>1, <2>2, <3>1 DEF Reserve
  <2>3. CASE order' # order /\ j # i
    <3>1. challenge' = [Supersede(j) EXCEPT ![j] = NewChallenge(j)]
      BY <2>1, <2>3 DEF Reserve
    <3>2. challenge'[i] = Supersede(j)[i]
      BY <2>3, <3>1 DEF Supersede
    <3>3. challenge'[i] # challenge[i] => /\ challenge[i].status \in Current
                                         /\ challenge'[i] = [challenge[i] EXCEPT !.status = "superseded"]
      BY <3>2 DEF Supersede, Current
    <3> QED
      BY <1>1, <3>3, AgesOther
  <2> QED
    BY <2>1, <2>2, <2>3
<1>3. CASE \E j \in Issuers : Finish(j)
  <2>1. PICK j \in Issuers : challenge' = Settled(j)
    BY <1>3 DEF Finish
  <2>2. challenge'[i] # challenge[i] =>
          /\ challenge[i].status \in Current
          /\ \E st \in {"active", "send_failed"} : challenge'[i] = [challenge[i] EXCEPT !.status = st]
    <3>1. challenge[i] \in Challenge
      BY DEF ChallengeTypes
    <3>2. [challenge[i] EXCEPT !.status = @] = challenge[i]
      BY <3>1 DEF Challenge
    <3> QED
      BY <2>1, <3>2 DEF Settled, ChallengeTypes, Current
  <2> QED
    BY <1>1, <2>2, AgesOther
<1>4. CASE \E j \in Issuers : ChallengeStatus(j)
  <2>1. challenge'[i] # challenge[i] => /\ challenge[i].status \in Current
                                       /\ challenge'[i] = [challenge[i] EXCEPT !.status = "expired"]
    BY <1>4 DEF ChallengeStatus, ChallengeTypes, Current
  <2> QED
    BY <1>1, <2>1, AgesOther
<1>5. CASE \E v \in Verifiers : Verify(v) /\ Judges(v, vreq[v])
  <2>1. PICK v \in Verifiers : Verify(v) /\ Judges(v, vreq[v])
    BY <1>5
  <2>2. challenge'[i] # challenge[i] =>
          /\ i = vreq[v].id /\ challenge'[i] = After(challenge[i], vreq[v].code)
          /\ challenge[i].status # "none"
    BY <2>1 DEF Verify, Judges, ChallengeTypes, VerifyTypes, VerifyRequest, VerifyAnswers
  <2>3. challenge[i] \in Challenge /\ (challenge[i].status \in Current => challenge[i].failures < challenge[i].max)
    BY DEF ChallengeTypes, UseInv
  <2> QED
    BY <1>1, <2>2, <2>3, AfterTyped DEF Ages, Current
<1> QED
  BY <1>1, <1>2, <1>3, <1>4, <1>5
  DEF Next, IssueSteps, IssueChecks, Send, Delivered, NotDelivered, Provider, Joined, VerifyLooks, Verify,
      putCaller, putTemplate, putPolicy, Reads, SetCallerFor, SetTemplateFor, SetVerificationPolicyFor,
      DeleteCallerFor, DeleteTemplateFor, Registers, Tick, vars, runtime

(* What a reservation does. *)
Reserves(i) ==
    /\ pc[i] = "reserve" /\ pc'[i] = "send" /\ order' = Append(order, i)
    /\ challenge'[i] = NewChallenge(i) /\ challenge'[i] \in Challenge
    /\ \A j \in Issuers \ {i} : SameTuple(i, j) => challenge'[j].status \notin Current

LEMMA Reservation ==
    ASSUME VerificationAssumption, TypeInv, NEW i \in Issuers, Reserve(i), order' # order
    PROVE  Reserves(i)
<1> USE DEF TypeInv
<1>1. /\ pc[i] = "reserve" /\ Moves(i, "send") /\ order' = Append(order, i)
      /\ challenge' = [Supersede(i) EXCEPT ![i] = NewChallenge(i)]
  BY DEF Reserve
<1>2. challenge'[i] = NewChallenge(i) /\ pc'[i] = "send"
  BY <1>1 DEF Supersede, Moves, IssueTypes
<1>3. NewChallenge(i) \in Challenge
  <2>1. policy[i].maxFailures \in 1..MaxFailures /\ req[i].scope \in Scopes /\ req[i].recipient \in Recipients
    BY DEF IssueTypes, IssueRequest, Entry
  <2>2. now + TTL \in Nat /\ 0 \in 0..MaxFailures
    BY DEF LimitTypes, VerificationAssumption
  <2> QED
    BY <2>1, <2>2 DEF NewChallenge, Challenge, Statuses
<1>4. ASSUME NEW j \in Issuers \ {i}, SameTuple(i, j) PROVE challenge'[j].status \notin Current
  <2>1. challenge'[j] = Supersede(i)[j]
    BY <1>1 DEF Supersede
  <2>2. challenge[j] \in Challenge
    BY DEF ChallengeTypes
  <2> QED
    BY <1>4, <2>1, <2>2, StatusTyped DEF Supersede, Current, Statuses
<1> QED
  BY <1>1, <1>2, <1>3, <1>4 DEF Reserves

LEMMA OrderGrows ==
    ASSUME [Next]_vars, order' # order
    PROVE  \E i \in Issuers : Reserve(i)
BY DEF Next, IssueSteps, IssueChecks, Send, Delivered, NotDelivered, Provider, Joined, Finish, VerifyLooks, Verify,
       Judges, VerifyAnswers, ChallengeStatus, Tick, vars, runtime, history,
       putCaller, putTemplate, putPolicy, Reads, SetCallerFor, SetTemplateFor, SetVerificationPolicyFor,
      DeleteCallerFor, DeleteTemplateFor, Registers

LEMMA StepChallengeTypes ==
    ASSUME VerificationAssumption, TypeInv, UseInv, [Next]_vars
    PROVE  ChallengeTypes'
<1>1. ASSUME NEW i \in Issuers PROVE challenge'[i] \in Challenge
  BY Aging, Reservation DEF Ages, Reserves
<1>2. \E f : challenge' = [i \in Issuers |-> f[i]]
  <2>1. challenge = [i \in Issuers |-> challenge[i]]
    BY DEF TypeInv, ChallengeTypes
  <2>2. CASE UNCHANGED challenge
    BY <2>1, <2>2
  <2>3. CASE \E i \in Issuers : Reserve(i) \/ Finish(i) \/ ChallengeStatus(i)
    BY <2>1, <2>3 DEF Reserve, Finish, ChallengeStatus, Supersede, Settled
  <2>4. CASE \E v \in Verifiers : Judges(v, vreq[v])
    BY <2>1, <2>4 DEF Judges
  <2> QED
    BY <2>2, <2>3, <2>4
    DEF Next, IssueSteps, IssueChecks, Send, Delivered, NotDelivered, Provider, Joined, VerifyLooks, Verify,
        Tick, vars, runtime, putCaller, putTemplate, putPolicy, Reads, SetCallerFor, SetTemplateFor,
        SetVerificationPolicyFor,
      DeleteCallerFor, DeleteTemplateFor, Registers
<1>3. order' \in Seq(Issuers)
  BY OrderGrows, Reservation DEF Reserves, TypeInv, ChallengeTypes
<1> QED
  BY <1>1, <1>2, <1>3 DEF ChallengeTypes

(* Only a right code that is current is accepted. *)
LEMMA Accepting ==
    ASSUME VerificationAssumption, TypeInv, [Next]_vars, NEW i \in Issuers, accepted'[i] # accepted[i]
    PROVE  challenge[i].status = "active" /\ challenge'[i].status = "consumed"
<1> USE DEF TypeInv
<1>1. PICK v \in Verifiers : Verify(v) /\ Judges(v, vreq[v])
  BY DEF Next, IssueSteps, IssueChecks, Reserve, Send, Delivered, NotDelivered, Provider, Joined, Finish, VerifyLooks,
         Verify, ChallengeStatus, Tick, vars, runtime, history,
         putCaller, putTemplate, putPolicy, Reads, SetCallerFor, SetTemplateFor, SetVerificationPolicyFor,
      DeleteCallerFor, DeleteTemplateFor, Registers
<1>2. vreq[v].id = i /\ Outcome(challenge[i], vreq[v].code) = "ok"
  BY <1>1 DEF Judges, VerifyTypes
<1>3. challenge[i] \in Challenge
  BY DEF ChallengeTypes
<1>4. challenge[i].status = "active" /\ ~(now >= challenge[i].expires)
  BY <1>2, <1>3 DEF Outcome, Challenge, Statuses
<1>5. challenge'[i] = [challenge[i] EXCEPT !.status = "consumed"]
  BY <1>1, <1>2, <1>3, <1>4 DEF Judges, After, ChallengeTypes
<1> QED
  BY <1>3, <1>4, <1>5, StatusTyped DEF Statuses

LEMMA Unborns ==
    ASSUME VerificationAssumption, TypeInv, [Next]_vars, NEW i \in Issuers, pc'[i] \in Unborn
    PROVE  pc[i] \in Unborn
<1>1. CASE UNCHANGED pc
  BY <1>1
<1>2. ASSUME NEW j \in Issuers, IssueSteps(j) \/ NotDelivered(j) PROVE pc[i] \in Unborn
  <2>1. PICK to \in Point : pc' = [pc EXCEPT ![j] = to] /\ (to \in Unborn => pc[j] \in Unborn)
    BY <1>2 DEF IssueSteps, IssueChecks, Reserve, Send, Delivered, NotDelivered, Provider, Joined, Finish, Moves, Answers,
       Point, Unborn, Sending
  <2> QED
    BY <2>1 DEF TypeInv, IssueTypes
<1> QED
  BY <1>1, <1>2
  DEF Next, VerifyLooks, Verify, Judges, VerifyAnswers, ChallengeStatus, Tick, vars, issuing,
      putCaller, putTemplate, putPolicy, Reads, SetCallerFor, SetTemplateFor, SetVerificationPolicyFor,
      DeleteCallerFor, DeleteTemplateFor, Registers

LEMMA StepUse == ASSUME VerificationAssumption, TypeInv, UseInv, [Next]_vars PROVE UseInv'
<1> SUFFICES ASSUME NEW i \in Issuers
             PROVE  /\ challenge'[i].status \in Current => challenge'[i].failures < challenge'[i].max
                    /\ accepted'[i] # {} => challenge'[i].status \in {"consumed", "expired"}
                    /\ pc'[i] \in Unborn => challenge'[i].status = "none"
  BY DEF UseInv
<1>1. CASE Reserve(i) /\ order' # order
  <2>1. Reserves(i)
    BY <1>1, Reservation
  <2>2. accepted'[i] = accepted[i] /\ accepted[i] = {}
    BY <1>1 DEF Reserve, UseInv, Unborn
  <2>3. policy[i].maxFailures \in 1..MaxFailures
    BY DEF TypeInv, IssueTypes, Entry
  <2> QED
    BY <2>1, <2>2, <2>3 DEF Reserves, NewChallenge, Unborn, VerificationAssumption
<1>2. CASE ~(Reserve(i) /\ order' # order)
  <2>1. Ages(challenge[i], challenge'[i])
    BY <1>2, Aging
  <2>2. accepted'[i] = accepted[i] \/ challenge'[i].status = "consumed"
    BY Accepting
  <2>3. pc'[i] \in Unborn => pc[i] \in Unborn
    BY Unborns
  <2> QED
    BY <2>1, <2>2, <2>3 DEF Ages, UseInv, Current
<1> QED
  BY <1>1, <1>2

LEMMA StepOrder == ASSUME VerificationAssumption, TypeInv, UseInv, OrderInv, [Next]_vars PROVE OrderInv'
<1> USE DEF TypeInv, ChallengeTypes
<1>1. CASE order' = order
  <2>1. \A i \in Issuers : Ages(challenge[i], challenge'[i])
    BY <1>1, Aging
  <2>2. \A k \in 1..Len(order) : order[k] \in Issuers
    OBVIOUS
  <2>3. \A k \in 1..Len(order) : challenge'[order[k]].status # "none"
    BY <2>1, <2>2 DEF OrderInv, Ages
  <2>4. \A i \in Issuers : challenge'[i].status # "none" => \E k \in 1..Len(order) : order[k] = i
    BY <2>1 DEF OrderInv, Ages
  <2>5. \A k, l \in 1..Len(order) :
          /\ challenge'[order[k]].status \in Current
          /\ challenge'[order[k]].scope = challenge'[order[l]].scope
          /\ challenge'[order[k]].recipient = challenge'[order[l]].recipient
          => l <= k
    BY <2>1, <2>2 DEF OrderInv, Ages, Current
  <2> QED
    BY <1>1, <2>3, <2>4, <2>5 DEF OrderInv
<1>2. CASE order' # order
  <2>1. PICK i \in Issuers : Reserve(i)
    BY <1>2, OrderGrows
  <2>2. Reserves(i)
    BY <1>2, <2>1, Reservation
  <2> DEFINE n == Len(order)
  <2>3. /\ Len(order') = n + 1 /\ order'[n + 1] = i /\ n \in Nat
        /\ \A k \in 1..n : order'[k] = order[k] /\ order[k] \in Issuers
    BY <2>2 DEF Reserves
  <2>4. \A j \in Issuers \ {i} : Ages(challenge[j], challenge'[j])
    <3>1. \A j \in Issuers \ {i} : ~Reserve(j)
      BY <2>2 DEF Reserve, Reserves
    <3> QED
      BY <3>1, Aging
  <2>5. challenge[i].status = "none" /\ \A k \in 1..n : order[k] # i
    BY <2>2 DEF Reserves, UseInv, Unborn, OrderInv
  <2>6. /\ challenge'[i].status = "pending_send"
        /\ challenge'[i].scope = req[i].scope /\ challenge'[i].recipient = req[i].recipient
    BY <2>2 DEF Reserves, NewChallenge
  <2> HIDE DEF n
  <2>7. \A k \in 1..(n + 1) : challenge'[order'[k]].status # "none"
    BY <2>3, <2>4, <2>5, <2>6 DEF OrderInv, Ages, n
  <2>8. ASSUME NEW j \in Issuers, challenge'[j].status # "none" PROVE \E k \in 1..(n + 1) : order'[k] = j
    <3>1. CASE j = i
      BY <2>3, <3>1
    <3>2. CASE j # i
      <4>1. PICK k \in 1..n : order[k] = j
        BY <2>4, <2>8, <3>2 DEF OrderInv, Ages, n
      <4> QED
        BY <2>3, <4>1
    <3> QED
      BY <3>1, <3>2
  <2>9. \A k, l \in 1..(n + 1) : order'[k] = order'[l] => k = l
    BY <2>3, <2>5 DEF OrderInv, n
  <2>10. ASSUME NEW k \in 1..(n + 1), NEW l \in 1..(n + 1), challenge'[order'[k]].status \in Current,
                challenge'[order'[k]].scope = challenge'[order'[l]].scope,
                challenge'[order'[k]].recipient = challenge'[order'[l]].recipient
         PROVE  l <= k
    <3>1. CASE k = n + 1
      BY <2>3, <3>1
    <3>2. CASE k # n + 1 /\ l = n + 1
      <4>1. k \in 1..n /\ order'[k] \in Issuers \ {i} /\ order'[l] = i
        BY <2>3, <2>5, <3>2
      <4>2. SameTuple(i, order'[k])
        BY <2>4, <2>6, <2>10, <4>1 DEF SameTuple, Ages
      <4> QED
        BY <2>2, <2>10, <4>1, <4>2 DEF Reserves
    <3>3. CASE k \in 1..n /\ l \in 1..n
      <4>1. order'[k] = order[k] /\ order'[l] = order[l] /\ order[k] \in Issuers \ {i} /\ order[l] \in Issuers \ {i}
        BY <2>3, <2>5, <3>3
      <4>2. challenge[order[k]].status \in Current
        BY <2>4, <2>10, <4>1 DEF Ages, Current
      <4>3. /\ challenge[order[k]].scope = challenge[order[l]].scope
            /\ challenge[order[k]].recipient = challenge[order[l]].recipient
        BY <2>4, <2>10, <4>1 DEF Ages
      <4> QED
        BY <3>3, <4>2, <4>3 DEF OrderInv, n
    <3> QED
      BY <2>3, <3>1, <3>2, <3>3
  <2> QED
    BY <2>3, <2>7, <2>8, <2>9, <2>10 DEF OrderInv
<1> QED
  BY <1>1, <1>2

-----------------------------------------------------------------------------
(* Keys. *)

LEMMA StepFlight == ASSUME VerificationAssumption, TypeInv, FlightInv, [Next]_vars PROVE FlightInv'
<1> USE DEF TypeInv
<1>0. /\ "send" \notin Unborn /\ \A i \in Issuers : req[i].key # NoKey => KeyOf(req[i]) \in Scopes \X Keys
      /\ \A i \in Issuers : i # NoOne
  BY DEF Unborn, IssueTypes, IssueRequest, KeyOf, VerificationAssumption
<1>1. CASE UNCHANGED <<idempotency, issueFlight, req, pc, answer>>
  BY <1>1 DEF FlightInv, KeyOf
<1>2. ASSUME NEW i \in Issuers, IssueChecks(i) \/ Send(i) \/ Delivered(i) \/ NotDelivered(i) PROVE FlightInv'
  <2>1. UNCHANGED <<idempotency, issueFlight, req>>
    BY <1>2 DEF IssueChecks, Send, Delivered, NotDelivered, Provider, runtime
  <2>2. PICK to \in Point : pc' = [pc EXCEPT ![i] = to] /\ (to \in Sending => pc[i] \in Sending)
    BY <1>2 DEF IssueChecks, Send, Delivered, NotDelivered, Provider, Moves, Answers, Point, Sending, Unborn
  <2>3. UNCHANGED answer \/ answer' = [answer EXCEPT ![i] = [kind |-> "refused", id |-> NoOne]]
    BY <1>2 DEF IssueChecks, Send, Delivered, NotDelivered, Provider, Moves, Answers
  <2> QED
    BY <2>1, <2>2, <2>3 DEF FlightInv, KeyOf, IssueTypes
<1>3. ASSUME NEW i \in Issuers, Joined(i) PROVE FlightInv'
  <2>1. UNCHANGED <<idempotency, issueFlight, req>> /\ pc' = [pc EXCEPT ![i] = "done"]
    BY <1>3 DEF Joined, runtime, Answers
  <2>2. /\ \A j \in Issuers \ {i} : answer'[j] = answer[j]
        /\ answer'[i].kind = idempotency[KeyOf(req[i])].kind /\ answer'[i].id = idempotency[KeyOf(req[i])].id
    BY <1>3 DEF Joined, Answers, IssueTypes
  <2> QED
    BY <2>1, <2>2 DEF FlightInv, KeyOf, IssueTypes, Sending
<1>4. ASSUME NEW i \in Issuers, Reserve(i) PROVE FlightInv'
  <2>1. UNCHANGED <<idempotency, req>> /\ pc[i] = "reserve"
    BY <1>4 DEF Reserve
  <2>2. CASE UNCHANGED issueFlight /\ \E kind \in {"conflict", "limited"} : Answers(i, kind, NoOne)
    BY <2>1, <2>2 DEF Answers, FlightInv, KeyOf, IssueTypes, Sending
  <2>3. CASE UNCHANGED issueFlight /\ Moves(i, "wait")
    BY <2>1, <2>3 DEF Moves, FlightInv, KeyOf, IssueTypes, Sending
  <2>4. CASE UNCHANGED issueFlight /\ Answers(i, idempotency[KeyOf(req[i])].kind, idempotency[KeyOf(req[i])].id)
    BY <2>1, <2>4 DEF Answers, FlightInv, KeyOf, IssueTypes, Sending
  <2>5. CASE Moves(i, "send") /\ req[i].key = NoKey /\ UNCHANGED issueFlight
    BY <2>1, <2>5 DEF Moves, FlightInv, KeyOf, IssueTypes
  <2>6. CASE /\ Moves(i, "send") /\ req[i].key # NoKey /\ idempotency[KeyOf(req[i])].kind = "none"
             /\ issueFlight[KeyOf(req[i])] = NoOne /\ issueFlight' = [issueFlight EXCEPT ![KeyOf(req[i])] = i]
    <3> DEFINE x == KeyOf(req[i])
    <3>1. x \in Scopes \X Keys
      BY <1>0, <2>6
    <3>2. \A j \in Issuers \ {i} : pc[j] \in Sending /\ req[j].key # NoKey => KeyOf(req[j]) # x
      BY <1>0, <2>6 DEF FlightInv
    <3>3. \A j \in Issuers : UNCHANGED KeyOf(req[j])
      BY <2>1 DEF KeyOf
    <3> HIDE DEF x
    <3>4. ASSUME NEW j \in Issuers, pc'[j] \in Sending, req[j].key # NoKey PROVE issueFlight'[KeyOf(req[j])] = j
      <4>1. CASE j = i
        BY <2>6, <3>1, <4>1 DEF KeyTypes, x
      <4>2. CASE j # i
        <5>1. pc[j] \in Sending /\ KeyOf(req[j]) # x /\ KeyOf(req[j]) \in Scopes \X Keys
          BY <1>0, <2>6, <3>2, <3>4, <4>2 DEF Moves, IssueTypes
        <5> QED
          BY <2>6, <3>4, <5>1 DEF KeyTypes, FlightInv, x
      <4> QED
        BY <4>1, <4>2
    <3>5. \A y \in Scopes \X Keys : idempotency[y].kind # "none" => issueFlight'[y] = NoOne
      BY <2>6, <3>1 DEF KeyTypes, FlightInv, x
    <3>6. UNCHANGED answer
      BY <2>6 DEF Moves
    <3> QED
      BY <2>1, <3>3, <3>4, <3>5, <3>6 DEF FlightInv
  <2> QED
    BY <1>4, <2>2, <2>3, <2>4, <2>5, <2>6 DEF Reserve
<1>5. ASSUME NEW i \in Issuers, Finish(i) PROVE FlightInv'
  <2> DEFINE x == KeyOf(req[i])
             kind == IF pc[i] = "sent" THEN "issued" ELSE "failed"
  <2>1. UNCHANGED req /\ pc[i] \in Sending /\ Answers(i, kind, i) /\ (\A j \in Issuers : UNCHANGED KeyOf(req[j]))
    BY <1>5 DEF Finish, Sending, KeyOf
  <2>2. /\ pc' = [pc EXCEPT ![i] = "done"] /\ answer' = [answer EXCEPT ![i] = [kind |-> kind, id |-> i]]
        /\ kind \in {"issued", "failed"} /\ "done" \notin Sending
    BY <2>1 DEF Answers, Sending
  <2>3. CASE req[i].key = NoKey
    <3>1. UNCHANGED <<idempotency, issueFlight>>
      BY <1>5, <2>3 DEF Finish
    <3> HIDE DEF kind
    <3> QED
      BY <2>1, <2>2, <2>3, <3>1 DEF FlightInv, IssueTypes
  <2>4. CASE req[i].key # NoKey
    <3>1. /\ idempotency' = [idempotency EXCEPT ![x] = [kind |-> kind, id |-> i, payload |-> req[i].recipient]]
          /\ issueFlight' = [issueFlight EXCEPT ![x] = NoOne]
      BY <1>5, <2>4 DEF Finish
    <3>2. x \in Scopes \X Keys /\ issueFlight[x] = i
      BY <1>0, <2>1, <2>4 DEF FlightInv
    <3>3. idempotency[x].kind = "none"
      BY <1>0, <3>2 DEF FlightInv
    <3> HIDE DEF x, kind
    <3>4. ASSUME NEW j \in Issuers, pc'[j] \in Sending, req[j].key # NoKey PROVE issueFlight'[KeyOf(req[j])] = j
      <4>1. j # i /\ pc[j] \in Sending /\ KeyOf(req[j]) \in Scopes \X Keys
        BY <1>0, <2>2, <3>4 DEF IssueTypes
      <4>2. issueFlight[KeyOf(req[j])] = j /\ KeyOf(req[j]) # x
        BY <3>2, <3>4, <4>1 DEF FlightInv
      <4> QED
        BY <3>1, <4>1, <4>2 DEF KeyTypes
    <3>5. \A y \in Scopes \X Keys : idempotency'[y].kind # "none" => issueFlight'[y] = NoOne
      BY <3>1, <3>2 DEF KeyTypes, FlightInv
    <3>6. ASSUME NEW j \in Issuers, answer'[j].kind \in {"issued", "failed"}, req[j].key # NoKey
          PROVE  /\ idempotency'[KeyOf(req[j])].kind = answer'[j].kind /\ idempotency'[KeyOf(req[j])].id = answer'[j].id
      <4>1. KeyOf(req[j]) \in Scopes \X Keys
        BY <1>0, <3>6
      <4>2. CASE j = i
        BY <2>2, <3>1, <3>2, <4>2 DEF KeyTypes, IssueTypes, x
      <4>3. CASE j # i
        <5>1. answer'[j] = answer[j]
          BY <2>2, <4>3 DEF IssueTypes
        <5>2. idempotency[KeyOf(req[j])].kind # "none"
          BY <3>6, <5>1 DEF FlightInv
        <5> QED
          BY <3>1, <3>3, <3>6, <4>1, <5>1, <5>2 DEF KeyTypes, FlightInv
      <4> QED
        BY <4>2, <4>3
    <3> QED
      BY <2>1, <3>4, <3>5, <3>6 DEF FlightInv
  <2> QED
    BY <2>3, <2>4
<1> QED
  BY <1>1, <1>2, <1>3, <1>4, <1>5
  DEF Next, IssueSteps, VerifyLooks, Verify, Judges, VerifyAnswers, ChallengeStatus, Tick, vars, runtime, issuing,
      putCaller, putTemplate, putPolicy, Reads, SetCallerFor, SetTemplateFor, SetVerificationPolicyFor,
      DeleteCallerFor, DeleteTemplateFor, Registers

LEMMA StepRetry == ASSUME VerificationAssumption, TypeInv, RetryInv, [Next]_vars PROVE RetryInv'
<1> USE DEF TypeInv
<1>1. CASE UNCHANGED <<verifyIdem, vreq, vanswer>>
  BY <1>1 DEF RetryInv
<1>2. ASSUME NEW v \in Verifiers, VerifyLooks(v) \/ Verify(v) PROVE RetryInv'
  <2> DEFINE slot(q) == <<q.scope, q.id, q.key>>
  <2>1. UNCHANGED vreq /\ \A w \in Verifiers : vreq[w].key # NoKey => slot(vreq[w]) \in Scopes \X Issuers \X Keys
    BY <1>2 DEF VerifyLooks, Verify, Judges, VerifyAnswers, VerifyTypes, VerifyRequest
  <2>2. CASE UNCHANGED <<verifyIdem, vanswer>>
    BY <2>1, <2>2, <1>1
  <2>3. CASE UNCHANGED verifyIdem /\ VerifyAnswers(v, "refused")
    BY <2>1, <2>3 DEF VerifyAnswers, VerifyTypes, RetryInv
  <2>4. CASE UNCHANGED verifyIdem /\ Known(vreq[v]) /\ VerifyAnswers(v, Replay(vreq[v]))
    <3>1. vanswer' = [vanswer EXCEPT ![v] = Replay(vreq[v])]
      BY <2>4 DEF VerifyAnswers
    <3>2. Replay(vreq[v]) # "conflict" => /\ verifyIdem[slot(vreq[v])].outcome = Replay(vreq[v])
                                          /\ verifyIdem[slot(vreq[v])].code = vreq[v].code
      BY DEF Replay
    <3> QED
      BY <2>1, <2>4, <3>1, <3>2 DEF VerifyTypes, RetryInv
  <2>5. CASE ~Known(vreq[v]) /\ Judges(v, vreq[v])
    <3> DEFINE o == Outcome(challenge[vreq[v].id], vreq[v].code)
               x == slot(vreq[v])
    <3>1. vanswer' = [vanswer EXCEPT ![v] = o]
      BY <2>5 DEF Judges, VerifyAnswers
    <3>2. CASE vreq[v].key = NoKey
      <4>1. UNCHANGED verifyIdem
        BY <2>5, <3>2 DEF Judges
      <4> HIDE DEF o
      <4> QED
        BY <2>1, <3>1, <3>2, <4>1 DEF VerifyTypes, RetryInv
    <3>3. CASE vreq[v].key # NoKey
      <4>1. verifyIdem' = [verifyIdem EXCEPT ![x] = [code |-> vreq[v].code, outcome |-> o]]
        BY <2>5, <3>3 DEF Judges
      <4>2. x \in Scopes \X Issuers \X Keys /\ verifyIdem[x].outcome = "none"
        BY <2>1, <2>5, <3>3 DEF Known
      <4> HIDE DEF o, x, slot
      <4>3. ASSUME NEW w \in Verifiers, vanswer'[w] \notin {"none", "conflict", "refused"}, vreq[w].key # NoKey
            PROVE  /\ verifyIdem'[slot(vreq[w])].outcome = vanswer'[w]
                   /\ verifyIdem'[slot(vreq[w])].code = vreq[w].code
        <5>1. CASE w = v
          BY <3>1, <4>1, <4>2, <5>1 DEF VerifyTypes, x
        <5>2. CASE w # v
          <6>1. vanswer'[w] = vanswer[w]
            BY <3>1, <5>2 DEF VerifyTypes
          <6>2. verifyIdem[slot(vreq[w])].outcome = vanswer[w] /\ verifyIdem[slot(vreq[w])].code = vreq[w].code
            BY <4>3, <6>1 DEF RetryInv, slot
          <6>3. slot(vreq[w]) # x
            BY <4>2, <4>3, <6>1, <6>2
          <6> QED
            BY <2>1, <4>1, <4>3, <6>1, <6>2, <6>3 DEF VerifyTypes
        <5> QED
          BY <5>1, <5>2
      <4> QED
        BY <2>1, <4>3 DEF RetryInv, slot
    <3> QED
      BY <3>2, <3>3
  <2> QED
    BY <1>2, <2>2, <2>3, <2>4, <2>5 DEF VerifyLooks, Verify, runtime
<1> QED
  BY <1>1, <1>2
  DEF Next, IssueSteps, IssueChecks, Reserve, Send, Delivered, NotDelivered, Provider, Joined, Finish,
  ChallengeStatus, Tick,
      vars, runtime, verifying, putCaller, putTemplate, putPolicy, Reads, SetCallerFor, SetTemplateFor,
      SetVerificationPolicyFor,
      DeleteCallerFor, DeleteTemplateFor, Registers

-----------------------------------------------------------------------------
(* The invariant. *)

LEMMA StepTypes == ASSUME VerificationAssumption, TypeInv, UseInv, [Next]_vars PROVE TypeInv'
<1> USE DEF TypeInv
<1>1. ChallengeTypes'
  BY StepChallengeTypes
<1>2. RegistryTypes'
  <2>1. CASE UNCHANGED <<registry, eread, edit, epc>>
    BY <2>1 DEF RegistryTypes
  <2> QED
    BY <2>1, StepRegistry
    DEF Next, IssueSteps, IssueChecks, Reserve, Send, Delivered, NotDelivered, Provider, Joined, Finish, VerifyLooks,
        Verify, ChallengeStatus, Tick, vars, runtime, editing
<1>3. IssueTypes'
  <2>1. CASE UNCHANGED issuing
    BY <2>1 DEF IssueTypes, issuing
  <2> QED
    BY <2>1, StepIssueTypes DEF Next, VerifyLooks, Verify, ChallengeStatus, Tick, vars, putCaller, putTemplate,
      putPolicy, Reads, SetCallerFor, SetTemplateFor, SetVerificationPolicyFor,
      DeleteCallerFor, DeleteTemplateFor, Registers
<1>4. KeyTypes'
  <2>1. CASE UNCHANGED <<idempotency, issueFlight>>
    BY <2>1 DEF KeyTypes
  <2> QED
    BY <2>1, StepKeyTypes
    DEF Next, IssueSteps, IssueChecks, Send, Delivered, NotDelivered, Provider, Joined, VerifyLooks,
        Verify, ChallengeStatus, Tick, vars, runtime, putCaller, putTemplate, putPolicy, Reads, SetCallerFor,
        SetTemplateFor, SetVerificationPolicyFor,
      DeleteCallerFor, DeleteTemplateFor, Registers
<1>5. LimitTypes'
  <2>1. CASE UNCHANGED <<issued, now, failed, sendIdemMu>>
    BY <2>1 DEF LimitTypes
  <2>2. CASE \E i \in Issuers : Send(i) \/ Delivered(i) \/ NotDelivered(i)
    BY <2>2 DEF Send, Delivered, NotDelivered, Provider, LimitTypes, VerificationAssumption, history
  <2>3. CASE Tick
    BY <2>3 DEF Tick, LimitTypes, VerificationAssumption, history
  <2> QED
    BY <2>1, <2>2, <2>3, StepLimits
    DEF Next, IssueSteps, IssueChecks, Joined, Finish, VerifyLooks, Verify, ChallengeStatus, vars, runtime, history,
        putCaller, putTemplate, putPolicy, Reads, SetCallerFor, SetTemplateFor, SetVerificationPolicyFor,
      DeleteCallerFor, DeleteTemplateFor, Registers
<1>6. VerifyTypes'
  <2>1. CASE UNCHANGED <<vreq, vpc, vanswer, verifyIdem, accepted>>
    BY <2>1 DEF VerifyTypes
  <2> QED
    BY <2>1, StepVerifyTypes
    DEF Next, IssueSteps, IssueChecks, Reserve, Send, Delivered, NotDelivered, Provider, Joined, Finish, ChallengeStatus,
        Tick, vars, runtime, verifying, history, putCaller, putTemplate, putPolicy, Reads, SetCallerFor,
        SetTemplateFor, SetVerificationPolicyFor,
      DeleteCallerFor, DeleteTemplateFor, Registers
<1> QED
  BY <1>1, <1>2, <1>3, <1>4, <1>5, <1>6

LEMMA InitHolds == ASSUME VerificationAssumption, Init PROVE CodesInv
<1>1. PICK issues \in [Issuers -> IssueRequest], verifies \in [Verifiers -> VerifyRequest],
           edits \in [Editors -> EditRequest], running \in SUBSET (Issuers \cup Verifiers \cup Editors) :
             Start(issues, verifies, edits, running)
  BY DEF Init
<1> USE <1>1 DEF Start
<1>2. NoEntry \in Entry
  BY DEF NoEntry, Entry, VerificationAssumption
<1>3. RegistryTypes
  <2>1. \A kind \in Kinds :
          [set |-> TRUE, live |-> TRUE, systemOwned |-> kind = "caller", maxFailures |-> MaxFailures] \in Entry
    BY DEF Entry, VerificationAssumption
  <2>2. Seeded \in [Kinds -> [Scopes -> Entry]]
    BY <1>2, <2>1 DEF Seeded
  <2>3. epc \in [Editors -> {"new", "set", "done"}]
    OBVIOUS
  <2> QED
    BY <1>2, <2>2, <2>3 DEF RegistryTypes
<1>4. IssueTypes
  BY <1>2 DEF IssueTypes, NoAnswer, Point, Unborn, Sending
<1>5. KeyTypes
  BY DEF KeyTypes
<1>6. LimitTypes
  BY FS_EmptySet DEF LimitTypes, VerificationAssumption
<1>7. ChallengeTypes
  <2>1. Issuers # {} => NoChallenge.recipient \in Recipients
    BY DEF NoChallenge, IssueRequest
  <2>2. Issuers # {} => NoChallenge \in Challenge
    BY <2>1 DEF NoChallenge, Challenge, Statuses, Scopes, VerificationAssumption
  <2> QED
    BY <2>2 DEF ChallengeTypes
<1>8. VerifyTypes
  BY DEF VerifyTypes, Outcomes
<1>9. UseInv
  BY DEF UseInv, NoChallenge, Current
<1>10. OrderInv
  BY DEF OrderInv, NoChallenge
<1>11. FlightInv
  BY DEF FlightInv, NoAnswer, IssueRequest, KeyOf, Sending
<1>12. RetryInv
  BY DEF RetryInv
<1> QED
  BY <1>3, <1>4, <1>5, <1>6, <1>7, <1>8, <1>9, <1>10, <1>11, <1>12 DEF CodesInv, TypeInv

LEMMA Inductive == ASSUME VerificationAssumption PROVE Spec => []CodesInv
<1>1. Init => CodesInv
  BY InitHolds
<1>2. CodesInv /\ [Next]_vars => CodesInv'
  BY StepTypes, StepUse, StepOrder, StepFlight, StepRetry DEF CodesInv
<1> QED
  BY <1>1, <1>2, PTL DEF Spec

LEMMA Newest == ASSUME CodesInv PROVE NewestOnly
<1> SUFFICES ASSUME NEW i \in Issuers, NEW j \in Issuers, challenge[i].status \in Current, challenge[j].status # "none",
                    challenge[i].scope = challenge[j].scope, challenge[i].recipient = challenge[j].recipient
             PROVE  Place(j) <= Place(i)
  BY DEF NewestOnly, Current
<1>1. challenge[i].status # "none"
  BY DEF Current
<1>2. Place(i) \in 1..Len(order) /\ order[Place(i)] = i
  BY <1>1 DEF Place, CodesInv, OrderInv
<1>3. Place(j) \in 1..Len(order) /\ order[Place(j)] = j
  BY DEF Place, CodesInv, OrderInv
<1> QED
  BY <1>2, <1>3 DEF CodesInv, OrderInv

LEMMA Agreement == ASSUME VerificationAssumption, CodesInv PROVE RetriesAgree
<1> USE DEF CodesInv, TypeInv
<1>1. ASSUME NEW i \in Issuers, NEW j \in Issuers, req[i].key # NoKey, KeyOf(req[i]) = KeyOf(req[j]),
             answer[i].kind \in {"issued", "failed"}, answer[j].kind \in {"issued", "failed"}
      PROVE  answer[i] = answer[j]
  <2>1. req[j].key # NoKey
    BY <1>1 DEF KeyOf
  <2>2. answer[i].kind = answer[j].kind /\ answer[i].id = answer[j].id
    BY <1>1, <2>1 DEF FlightInv
  <2> QED
    BY <2>2 DEF IssueTypes
<1>2. ASSUME NEW v \in Verifiers, NEW w \in Verifiers, vreq[v].key # NoKey, vreq[v] = vreq[w],
             {vanswer[v], vanswer[w]} \cap {"none", "conflict", "refused"} = {}
      PROVE  vanswer[v] = vanswer[w]
  <2>1. vanswer[v] \notin {"none", "conflict", "refused"} /\ vanswer[w] \notin {"none", "conflict", "refused"}
    BY <1>2
  <2> QED
    BY <1>2, <2>1 DEF RetryInv
<1> QED
  BY <1>1, <1>2 DEF RetriesAgree

(* Every variable of the verification codes keeps its type, and nobody gets more codes in an *)
(* hour than the policy allows, for any number of calls, recipients, keys and editors.        *)
THEOREM TypeCorrect == VerificationAssumption => (Spec => []TypeOK)
<1> SUFFICES ASSUME VerificationAssumption PROVE Spec => []TypeOK
  OBVIOUS
<1>1. CodesInv => TypeOK
  BY DEF CodesInv, TypeInv, TypeOK, RegistryTypes, IssueTypes, KeyTypes, LimitTypes, ChallengeTypes, VerifyTypes, Point,
         Sending, Unborn
<1> QED
  BY <1>1, Inductive, PTL

(* Of one caller, purpose and recipient only the code reserved last is or can become valid, *)
(* and retries with a key agree, for any number of concurrent calls and any slow send.       *)
THEOREM NewestAndAgreed == VerificationAssumption => (Spec => []CodesHold)
<1> SUFFICES ASSUME VerificationAssumption PROVE Spec => []CodesHold
  OBVIOUS
<1>1. CodesInv => CodesHold
  BY Newest, Agreement DEF CodesHold
<1> QED
  BY <1>1, Inductive, PTL

(* A code that was superseded, failed to be sent, was used up or guessed at too often never *)
(* becomes valid again, and none is accepted twice.                                          *)
THEOREM SpentStaysSpent == VerificationAssumption => (Spec => SpentForGood)
<1> SUFFICES ASSUME VerificationAssumption PROVE Spec => SpentForGood
  OBVIOUS
<1> DEFINE Step(i) ==
      /\ challenge[i].status \notin {"none", "pending_send", "active"} =>
           challenge'[i].status \in {challenge[i].status, "expired"}
      /\ accepted'[i] # accepted[i] =>
           accepted[i] = {} /\ challenge[i].status = "active" /\ challenge[i].failures < challenge[i].max
<1>1. ASSUME CodesInv, [Next]_vars, NEW i \in Issuers PROVE Step(i)
  <2>1. challenge[i].status \notin {"none", "pending_send", "active"} =>
          challenge'[i].status \in {challenge[i].status, "expired"}
    <3>1. CASE Reserve(i)
      <4>1. challenge[i].status = "none"
        BY <1>1, <3>1 DEF CodesInv, UseInv, Reserve, Unborn
      <4> QED
        BY <4>1
    <3>2. CASE ~Reserve(i)
      BY <1>1, <3>2, Aging DEF CodesInv, Ages, Current
    <3> QED
      BY <3>1, <3>2
  <2>2. accepted'[i] # accepted[i] =>
          accepted[i] = {} /\ challenge[i].status = "active" /\ challenge[i].failures < challenge[i].max
    BY <1>1, Accepting DEF CodesInv, UseInv, Current
  <2> QED
    BY <2>1, <2>2
<1>2. CodesInv /\ [Next]_vars => [\A i \in Issuers : Step(i)]_vars
  BY <1>1
<1> QED
  BY <1>2, Inductive, PTL DEF Spec, SpentForGood

-----------------------------------------------------------------------------
(* The menu tree. *)

MenuTables == [Menus -> M!Row]
Cycle(t) == {y \in Menus : y \in M!Ancestors(t, y)}

LEMMA ParentsAreMenus ==
    ASSUME NEW t \in MenuTables, NEW m \in Menus
    PROVE  M!Parent(t, m) \in Menus \cup {NoMenu}
BY DEF M!Parent, MenuTables, M!Row

LEMMA LeastClosed ==
    ASSUME NEW t, NEW m, NEW S \in SUBSET Menus, M!ClosedUp(t, m, S)
    PROVE  M!Ancestors(t, m) \subseteq S
BY DEF M!Ancestors

LEMMA AncestorsAreClosed ==
    ASSUME NEW t \in MenuTables, NEW m \in Menus
    PROVE  M!Ancestors(t, m) \in SUBSET Menus /\ M!ClosedUp(t, m, M!Ancestors(t, m))
<1>1. M!Ancestors(t, m) \in SUBSET Menus
  BY DEF M!Ancestors
<1>2. ASSUME NEW x \in M!Ancestors(t, m) \cup {m}, M!Parent(t, x) # NoMenu
      PROVE  M!Parent(t, x) \in M!Ancestors(t, m)
  <2>1. x \in Menus
    BY <1>1
  <2>2. M!Parent(t, x) \in Menus
    BY <1>2, <2>1, ParentsAreMenus
  <2>3. ASSUME NEW S \in SUBSET Menus, M!ClosedUp(t, m, S) PROVE M!Parent(t, x) \in S
    <3>1. x \in S \cup {m}
      BY <2>3, LeastClosed
    <3> QED
      BY <1>2, <2>3, <3>1 DEF M!ClosedUp
  <2> QED
    BY <2>2, <2>3 DEF M!Ancestors
<1> QED
  BY <1>1, <1>2 DEF M!ClosedUp

LEMMA NothingAbove ==
    ASSUME NEW t \in MenuTables, NEW m \in Menus, M!Parent(t, m) = NoMenu
    PROVE  M!Ancestors(t, m) = {}
<1>1. M!ClosedUp(t, m, {})
  BY DEF M!ClosedUp
<1> QED
  BY <1>1, LeastClosed

LEMMA OneMoreUp ==
    ASSUME NEW t \in MenuTables, NEW m \in Menus, M!Parent(t, m) \in Menus, NoMenu \notin Menus
    PROVE  M!Ancestors(t, m) = {M!Parent(t, m)} \cup M!Ancestors(t, M!Parent(t, m))
<1> DEFINE p == M!Parent(t, m)
<1>1. M!ClosedUp(t, m, M!Ancestors(t, m)) /\ M!ClosedUp(t, p, M!Ancestors(t, p))
  BY AncestorsAreClosed
<1>2. M!Ancestors(t, m) \in SUBSET Menus /\ M!Ancestors(t, p) \in SUBSET Menus
  BY AncestorsAreClosed
<1>3. M!ClosedUp(t, m, {p} \cup M!Ancestors(t, p))
  BY <1>1 DEF M!ClosedUp
<1>4. p \in M!Ancestors(t, m)
  BY <1>1 DEF M!ClosedUp
<1>5. M!ClosedUp(t, p, M!Ancestors(t, m))
  BY <1>1, <1>4 DEF M!ClosedUp
<1>6. M!Ancestors(t, m) \subseteq {p} \cup M!Ancestors(t, p)
  BY <1>2, <1>3, LeastClosed
<1>7. M!Ancestors(t, p) \subseteq M!Ancestors(t, m)
  BY <1>2, <1>5, LeastClosed
<1> QED
  BY <1>4, <1>6, <1>7

(* The parent of a menu of a cycle is one, too. *)
LEMMA CyclesAreClosed ==
    ASSUME NEW t \in MenuTables, NEW y \in Cycle(t), NoMenu \notin Menus
    PROVE  M!Parent(t, y) \in Cycle(t)
<1> DEFINE z == M!Parent(t, y)
<1>1. y \in Menus /\ y \in M!Ancestors(t, y)
  BY DEF Cycle
<1>2. z \in Menus
  BY <1>1, NothingAbove, ParentsAreMenus
<1>3. y \in {z} \cup M!Ancestors(t, z)
  BY <1>1, <1>2, OneMoreUp
<1>4. CASE y = z
  BY <1>4
<1>5. CASE y \in M!Ancestors(t, z)
  <2>1. M!ClosedUp(t, z, M!Ancestors(t, z))
    BY <1>2, AncestorsAreClosed
  <2>2. z \in M!Ancestors(t, z)
    BY <1>2, <1>5, <2>1 DEF M!ClosedUp
  <2> QED
    BY <1>2, <2>2 DEF Cycle
<1> QED
  BY <1>3, <1>4, <1>5

(* Where two tables have the same parents they have the same ancestors. *)
LEMMA SameAbove ==
    ASSUME NEW t \in MenuTables, NEW u \in MenuTables, NEW S \in SUBSET Menus, NEW y \in S,
           \A x \in S : M!Parent(t, x) = M!Parent(u, x) /\ M!Parent(u, x) \in S \cup {NoMenu}
    PROVE  M!Ancestors(u, y) \subseteq M!Ancestors(t, y)
<1> DEFINE R == M!Ancestors(t, y) \cap S
<1>1. M!Ancestors(t, y) \in SUBSET Menus /\ M!ClosedUp(t, y, M!Ancestors(t, y))
  BY AncestorsAreClosed
<1>2. M!ClosedUp(u, y, R)
  BY <1>1 DEF M!ClosedUp
<1>3. M!Ancestors(u, y) \subseteq R
  BY <1>1, <1>2, LeastClosed
<1> QED
  BY <1>3

LEMMA CycleFound ==
    ASSUME NEW t \in MenuTables, NEW u \in MenuTables, NoMenu \notin Menus, M!Cyclic(u),
           \A y \in Cycle(u) : M!Parent(t, y) = M!Parent(u, y)
    PROVE  M!Cyclic(t)
<1>1. PICK y \in Menus : y \in M!Ancestors(u, y)
  BY DEF M!Cyclic
<1>2. y \in Cycle(u) /\ Cycle(u) \in SUBSET Menus
  BY <1>1 DEF Cycle
<1>3. \A x \in Cycle(u) : M!Parent(t, x) = M!Parent(u, x) /\ M!Parent(u, x) \in Cycle(u) \cup {NoMenu}
  BY CyclesAreClosed
<1>4. M!Ancestors(u, y) \subseteq M!Ancestors(t, y)
  BY <1>2, <1>3, SameAbove
<1> QED
  BY <1>1, <1>4 DEF M!Cyclic

MenuChecked ==
    \A e \in MenuEditors : mpc[e] = "write" =>
        /\ M!Passes(M!View(checked[e], EditorScope[e]), medit[e])
        /\ medit[e].kind = "update" => mread[e] = M!View(checked[e], EditorScope[e])[medit[e].menu]
MenuInv == M!TypeOK /\ MenuChecked /\ M!ForestKept

LEMMA MenuRequests ==
    ASSUME NEW q \in M!Requests
    PROVE  /\ q.kind = "create" => q \in M!createMenuRequest
           /\ q.kind = "update" => q \in M!menuPatchRequest
           /\ q.kind = "delete" => q \in M!deleteMenuRequest
           /\ q.kind = "reorder" => q \in M!menuReorderRequest
BY DEF M!Requests, M!createMenuRequest, M!menuPatchRequest, M!deleteMenuRequest, M!menuReorderRequest

LEMMA EmptyRow == ASSUME NoMenu \notin Menus PROVE M!NoRow \in M!Row
BY DEF M!NoRow, M!Row, M!Org, M!Type

LEMMA ViewTyped ==
    ASSUME NEW t \in MenuTables, NEW s, NoMenu \notin Menus
    PROVE  M!View(t, s) \in MenuTables
BY EmptyRow DEF M!View, MenuTables

LEMMA PatchTyped ==
    ASSUME NEW row \in M!Row, NEW q \in M!menuPatchRequest
    PROVE  M!Patched(row, q) \in M!Row
<1> DEFINE new == M!Patched(row, q)
<1>1. new = [row EXCEPT !.parent = new.parent, !.type = new.type, !.shown = new.shown]
  BY DEF M!Patched, M!Row
<1>2. new.parent = IF q.parent = "keep" THEN row.parent ELSE q.parent
  BY DEF M!Patched, M!Row
<1>3. new.type = IF q.type = "keep" THEN row.type ELSE q.type
  BY DEF M!Patched, M!Row
<1>4. new.shown = IF q.shown = "keep" THEN row.shown ELSE q.shown = "yes"
  BY DEF M!Patched, M!Row
<1>5. new.parent \in Menus \cup {NoMenu} /\ new.type \in M!Type
  BY <1>2, <1>3 DEF M!Row, M!menuPatchRequest
<1>6. new.shown \in BOOLEAN
  <2>1. row.shown \in BOOLEAN /\ (q.shown = "yes") \in BOOLEAN
    BY DEF M!Row
  <2> QED
    BY <1>4, <2>1
<1> HIDE DEF new
<1>7. new \in M!Row
  BY <1>1, <1>5, <1>6 DEF M!Row
<1> QED
  BY <1>7 DEF new

LEMMA MovedTyped ==
    ASSUME NEW t \in MenuTables, NEW q \in M!menuReorderRequest
    PROVE  M!Moved(t, q) \in MenuTables
BY DEF M!Moved, MenuTables, M!Row, M!menuReorderRequest

(* A write of a menu's row, typed. *)
LEMMA MenuWritesTyped ==
    ASSUME M!MenusAssumption, M!TypeOK, NEW e \in MenuEditors,
           M!CreateMenu(e) \/ M!UpdateMenu(e) \/ M!DeleteMenu(e) \/ M!ReorderMenus(e)
    PROVE  menu' \in MenuTables
<1> DEFINE q == medit[e]
<1>1. menu \in MenuTables /\ mread[e] \in M!Row /\ q \in M!Requests
  BY DEF M!TypeOK, MenuTables
<1>2. EditorScope[e] \in M!Org
  BY DEF M!MenusAssumption, M!Org
<1> HIDE DEF q
<1>3. CASE M!CreateMenu(e)
  <2>1. q \in M!createMenuRequest
    BY <1>1, <1>3, MenuRequests DEF M!CreateMenu, M!Writes, q
  <2>2. [exists |-> TRUE, org |-> EditorScope[e], parent |-> q.parent,
         type |-> q.type, shown |-> TRUE, permission |-> "none"] \in M!Row
    BY <1>2, <2>1 DEF M!Row, M!createMenuRequest
  <2> QED
    BY <1>1, <1>3, <2>1, <2>2 DEF M!CreateMenu, MenuTables, q
<1>4. CASE M!UpdateMenu(e)
  <2>1. q \in M!menuPatchRequest
    BY <1>1, <1>4, MenuRequests DEF M!UpdateMenu, M!Writes, q
  <2>2. M!Patched(mread[e], q) \in M!Row
    BY <1>1, <2>1, PatchTyped
  <2>3. [M!Patched(mread[e], q) EXCEPT !.org = IF @ = NoOrg THEN EditorScope[e] ELSE @] \in M!Row
    BY <1>2, <2>2 DEF M!Row
  <2> QED
    BY <1>1, <1>4, <2>1, <2>3 DEF M!UpdateMenu, MenuTables, q
<1>5. CASE M!DeleteMenu(e)
  BY <1>1, <1>5, EmptyRow DEF M!DeleteMenu, M!Refused, M!MenusAssumption, MenuTables
<1>6. CASE M!ReorderMenus(e)
  <2>1. q \in M!menuReorderRequest
    BY <1>1, <1>6, MenuRequests DEF M!ReorderMenus, M!Writes, q
  <2>2. M!Moved(menu, q) \in MenuTables
    BY <1>1, <2>1, MovedTyped
  <2> QED
    BY <1>1, <1>6, <2>2 DEF M!ReorderMenus, M!Refused, q
<1> QED
  BY <1>3, <1>4, <1>5, <1>6

LEMMA MenuTypes == ASSUME M!MenusAssumption, M!TypeOK, [M!Next]_menuVars PROVE M!TypeOK'
<1> USE DEF M!TypeOK
<1>1. CASE UNCHANGED menuVars
  BY <1>1 DEF menuVars
<1>2. ASSUME NEW e \in MenuEditors, M!Check(e) PROVE M!TypeOK'
  <2> DEFINE t == M!View(menu, EditorScope[e])
  <2>1. t \in MenuTables /\ M!NoRow \in M!Row
    BY ViewTyped, EmptyRow DEF MenuTables, M!MenusAssumption
  <2>2. medit[e].kind = "update" => t[medit[e].menu] \in M!Row
    BY <2>1, MenuRequests DEF MenuTables, M!menuPatchRequest
  <2> HIDE DEF t
  <2>3. mread' \in [MenuEditors -> M!Row]
    BY <1>2, <2>1, <2>2 DEF M!Check, t
  <2> QED
    BY <1>2, <2>3 DEF M!Check
<1>3. ASSUME NEW e \in MenuEditors, M!CreateMenu(e) \/ M!UpdateMenu(e) \/ M!DeleteMenu(e) \/ M!ReorderMenus(e)
      PROVE  M!TypeOK'
  <2>1. menu' \in [Menus -> M!Row]
    BY <1>3, MenuWritesTyped DEF MenuTables
  <2>2. M!Written(e) \/ M!Refused(e)
    BY <1>3 DEF M!CreateMenu, M!UpdateMenu, M!DeleteMenu, M!ReorderMenus
  <2>3. excused' \in BOOLEAN
    <3>1. M!Written(e) => excused' \in BOOLEAN
      BY Zenon DEF M!Written
    <3> QED
      BY <2>2, <3>1 DEF M!Refused
  <2> QED
    BY <2>1, <2>2, <2>3 DEF M!Written, M!Refused
<1> QED
  BY <1>1, <1>2, <1>3 DEF M!Next

LEMMA CheckedStays ==
    ASSUME M!MenusAssumption, M!TypeOK, MenuChecked, [M!Next]_menuVars PROVE MenuChecked'
<1> USE DEF MenuChecked, M!TypeOK
<1>1. CASE UNCHANGED menuVars
  BY <1>1 DEF menuVars
<1>2. ASSUME NEW e \in MenuEditors, M!Check(e) PROVE MenuChecked'
  <2>1. ASSUME NEW x \in MenuEditors, mpc'[x] = "write"
        PROVE  /\ M!Passes(M!View(checked'[x], EditorScope[x]), medit[x])
               /\ medit[x].kind = "update" => mread'[x] = M!View(checked'[x], EditorScope[x])[medit[x].menu]
    <3>1. CASE x = e
      BY <1>2, <2>1, <3>1 DEF M!Check
    <3>2. CASE x # e
      BY <1>2, <2>1, <3>2 DEF M!Check
    <3> QED
      BY <3>1, <3>2
  <2>2. medit' = medit
    BY <1>2 DEF M!Check
  <2> QED
    BY <2>1, <2>2
<1>3. ASSUME NEW e \in MenuEditors, M!CreateMenu(e) \/ M!UpdateMenu(e) \/ M!DeleteMenu(e) \/ M!ReorderMenus(e)
      PROVE  MenuChecked'
  <2>1. M!Written(e) \/ M!Refused(e)
    BY <1>3 DEF M!CreateMenu, M!UpdateMenu, M!DeleteMenu, M!ReorderMenus
  <2> QED
    BY <2>1 DEF M!Written, M!Refused
<1> QED
  BY <1>1, <1>2, <1>3 DEF M!Next

(* A change that is not excused closes no cycle: one would be of menus that the *)
(* editor sees, with a parent each, and the check has walked it.                 *)
LEMMA NoCycleWritten ==
    ASSUME M!MenusAssumption, M!TypeOK, MenuChecked, NEW e \in MenuEditors,
           M!CreateMenu(e) \/ M!UpdateMenu(e) \/ M!DeleteMenu(e) \/ M!ReorderMenus(e),
           ~excused', M!Cyclic(menu')
    PROVE  M!Cyclic(menu)
<1> DEFINE q == medit[e]
           t == M!View(menu, EditorScope[e])
           C == Cycle(menu')
<1>1. NoMenu \notin Menus
  BY DEF M!MenusAssumption
<1>2. menu \in MenuTables /\ menu' \in MenuTables /\ t \in MenuTables /\ q \in M!Requests
  BY <1>1, MenuWritesTyped, ViewTyped DEF M!TypeOK, MenuTables
<1>3. CASE M!Refused(e)
  BY <1>3 DEF M!Refused
<1>4. CASE M!Written(e)
  <2>1. checked[e] = menu
    BY <1>4 DEF M!Written
  <2>2. ASSUME NEW y \in C PROVE menu[y].parent # NoMenu /\ t[y].exists
    <3>1. y \in Menus /\ y \in M!Ancestors(menu', y)
      BY DEF Cycle
    <3>2. ~\E m \in Menus : /\ m \in M!Ancestors(menu', m)
                            /\ menu[m].parent = NoMenu \/ ~M!View(menu, EditorScope[e])[m].exists
      BY <1>4 DEF M!Written
    <3> QED
      BY <3>1, <3>2
  <2>3. \A y \in C : y \in Menus /\ M!Parent(menu', y) \in C
    BY <1>1, <1>2, CyclesAreClosed DEF Cycle
  <2>4. \A y \in C : t[y] = menu[y] /\ menu[y].exists
    BY <1>1, <2>2, <2>3 DEF M!View, M!NoRow
  <2>5. \A y \in C : M!Parent(t, y) = M!Parent(menu, y)
    BY <2>3, <2>4 DEF M!Parent
  <2>6. M!Passes(t, q)
    BY <1>3, <1>4, <2>1 DEF MenuChecked, M!CreateMenu, M!UpdateMenu, M!DeleteMenu, M!ReorderMenus, M!Writes
  <2> HIDE DEF C, t, q
  <2>7. ASSUME \A y \in C : M!Parent(menu', y) = M!Parent(menu, y) PROVE M!Cyclic(menu)
    BY <1>1, <1>2, <2>7, CycleFound DEF C
  <2>8. CASE M!CreateMenu(e)
    <3>1. q \in M!createMenuRequest /\ q.kind = "create"
      BY <1>2, <2>8, MenuRequests DEF M!CreateMenu, M!Writes, q
    <3>2. q.menu \notin C
      BY <2>2, <2>6, <3>1 DEF M!Passes, M!CreateMenuChecks
    <3>3. \A y \in Menus : y # q.menu => menu'[y] = menu[y]
      BY <1>2, <2>8, <3>1 DEF M!CreateMenu, q, MenuTables
    <3> QED
      BY <2>3, <2>7, <3>2, <3>3 DEF M!Parent
  <2>9. CASE M!DeleteMenu(e)
    <3>1. q \in M!deleteMenuRequest
      BY <1>2, <2>9, MenuRequests DEF M!DeleteMenu, M!Writes, q
    <3>2. menu' = [menu EXCEPT ![q.menu] = M!NoRow]
      <4>1. mpc' # [mpc EXCEPT ![e] = "refused"]
        BY <1>4 DEF M!Written, M!TypeOK
      <4> QED
        BY <2>9, <4>1 DEF M!DeleteMenu, M!Refused, q
    <3>3. q.menu \notin C
      <4>1. q.menu \in Menus
        BY <3>1 DEF M!deleteMenuRequest
      <4>2. menu'[q.menu] = M!NoRow
        BY <1>2, <3>2, <4>1 DEF MenuTables
      <4>3. M!Parent(menu', q.menu) = NoMenu
        BY <4>2 DEF M!Parent, M!NoRow
      <4> QED
        BY <1>1, <2>3, <4>3
    <3>4. \A y \in Menus : y # q.menu => menu'[y] = menu[y]
      BY <1>2, <3>2 DEF MenuTables
    <3> QED
      BY <2>3, <2>7, <3>3, <3>4 DEF M!Parent
  <2>10. CASE M!UpdateMenu(e)
    <3> DEFINE m == q.menu
               p == M!Patched(menu[m], q).parent
    <3>1. q \in M!menuPatchRequest /\ q.kind = "update"
      BY <1>2, <2>10, MenuRequests DEF M!UpdateMenu, M!Writes, q
    <3>2. m \in Menus
      BY <3>1 DEF M!menuPatchRequest
    <3>3. \A y \in Menus : y # m => menu'[y] = menu[y]
      BY <1>2, <2>10 DEF M!UpdateMenu, q, MenuTables
    <3>4. CASE m \notin C
      BY <2>3, <2>7, <3>3, <3>4 DEF M!Parent
    <3>5. CASE m \in C
      <4>1. mread[e] = menu[m]
        <5>1. mread[e] = M!View(checked[e], EditorScope[e])[medit[e].menu]
          BY <2>10, <3>1 DEF MenuChecked, M!UpdateMenu, M!Writes, q
        <5> QED
          BY <2>1, <2>4, <3>5, <5>1 DEF q, t
      <4>2. M!Patched(menu[m], q) \in M!Row
        BY <1>2, <3>1, <3>2, PatchTyped DEF MenuTables
      <4>3. menu'[m].parent = p /\ menu'[m].exists = M!Patched(menu[m], q).exists
        BY <1>2, <2>10, <3>2, <4>1, <4>2 DEF M!UpdateMenu, q, MenuTables, M!Row
      <4>4. M!validateMenuParent(t, m, p)
        BY <2>4, <2>6, <3>1, <3>5 DEF M!Passes, M!UpdateMenuChecks
      <4>5. p \in C /\ p \in Menus /\ p # NoMenu
        <5>1. M!Parent(menu', m) \in C /\ M!Parent(menu', m) \in Menus
          BY <2>3, <3>5
        <5> QED
          BY <1>1, <4>3, <5>1 DEF M!Parent
      <4>6. p # m /\ \A x \in {p} \cup M!Ancestors(t, p) : t[x].exists /\ t[x].parent # NoMenu => x # m
        BY <4>4, <4>5 DEF M!validateMenuParent
      <4> HIDE DEF p, m
      <4> DEFINE S == ({p} \cup M!Ancestors(t, p)) \cap C
      <4>7. m \notin S
        BY <2>2, <2>4, <3>5, <4>6
      <4>8. M!ClosedUp(t, p, M!Ancestors(t, p)) /\ M!Ancestors(t, p) \in SUBSET Menus
        BY <1>2, <4>5, AncestorsAreClosed
      <4>9. ASSUME NEW x \in S PROVE M!Parent(menu', x) \in S
        <5>1. x \in C /\ x \in Menus /\ x # m
          BY <2>3, <4>7
        <5>2. M!Parent(menu', x) = M!Parent(t, x)
          BY <2>4, <3>3, <5>1 DEF M!Parent
        <5>3. M!Parent(menu', x) \in C /\ M!Parent(menu', x) # NoMenu
          BY <1>1, <2>3, <5>1
        <5>4. M!Parent(t, x) \in M!Ancestors(t, p) \cup {NoMenu}
          BY <4>8 DEF M!ClosedUp
        <5> QED
          BY <5>2, <5>3, <5>4
      <4>10. p \in S /\ S \in SUBSET Menus
        BY <2>3, <4>5
      <4>11. M!ClosedUp(menu', p, S)
        BY <4>9, <4>10 DEF M!ClosedUp
      <4>12. M!Ancestors(menu', p) \subseteq S
        BY <4>10, <4>11, LeastClosed
      <4>13. m \in {p} \cup M!Ancestors(menu', p)
        <5>1. m \in M!Ancestors(menu', m)
          BY <3>5 DEF C, Cycle
        <5>2. M!Parent(menu', m) = p
          BY <1>1, <2>3, <3>2, <3>5, <4>3 DEF M!Parent
        <5> QED
          BY <1>1, <1>2, <3>2, <4>5, <5>1, <5>2, OneMoreUp
      <4> QED
        BY <4>7, <4>10, <4>12, <4>13
    <3> QED
      BY <3>4, <3>5
  <2>11. CASE M!ReorderMenus(e)
    <3> DEFINE new == M!Moved(t, q)
    <3>1. q \in M!menuReorderRequest /\ q.kind = "reorder"
      BY <1>2, <2>11, MenuRequests DEF M!ReorderMenus, M!Writes, q
    <3>2. menu' = M!Moved(menu, q)
      <4>1. mpc' # [mpc EXCEPT ![e] = "refused"]
        BY <1>4 DEF M!Written, M!TypeOK
      <4> QED
        BY <2>11, <4>1 DEF M!ReorderMenus, M!Refused, q
    <3>3. ~M!Cyclic(new) /\ new \in MenuTables
      BY <1>2, <2>6, <3>1, MovedTyped DEF M!Passes, M!ReorderMenusChecks, M!BuildMenuRoutesFails
    <3>4. \A y \in C : new[y] = menu'[y]
      BY <2>3, <2>4, <3>2 DEF M!Moved
    <3> HIDE DEF new
    <3>5. \A y \in C : M!Parent(new, y) = M!Parent(menu', y)
      BY <3>4 DEF M!Parent
    <3> QED
      BY <1>1, <1>2, <3>3, <3>5, CycleFound DEF C
  <2> QED
    BY <2>8, <2>9, <2>10, <2>11
<1> QED
  <2>1. M!Written(e) \/ M!Refused(e)
    BY DEF M!CreateMenu, M!UpdateMenu, M!DeleteMenu, M!ReorderMenus
  <2> QED
    BY <1>3, <1>4, <2>1

LEMMA ForestStays ==
    ASSUME M!MenusAssumption, M!TypeOK, MenuChecked, M!ForestKept, [M!Next]_menuVars PROVE M!ForestKept'
<1>1. ASSUME menu' = menu, excused' = excused PROVE M!ForestKept'
  BY <1>1 DEF M!ForestKept
<1>2. ASSUME NEW e \in MenuEditors, M!CreateMenu(e) \/ M!UpdateMenu(e) \/ M!DeleteMenu(e) \/ M!ReorderMenus(e)
      PROVE  M!ForestKept'
  <2>1. excused => excused'
    BY <1>2 DEF M!CreateMenu, M!UpdateMenu, M!DeleteMenu, M!ReorderMenus, M!Written, M!Refused
  <2>2. M!Cyclic(menu') => M!Cyclic(menu) \/ excused'
    BY <1>2, NoCycleWritten
  <2> QED
    BY <2>1, <2>2 DEF M!ForestKept
<1> QED
  BY <1>1, <1>2 DEF M!Next, M!Check, menuVars

LEMMA MenuStep == ASSUME M!MenusAssumption, MenuInv, [M!Next]_menuVars PROVE MenuInv'
BY MenuTypes, CheckedStays, ForestStays DEF MenuInv

(* The routes are built of any table: those that are left have no cycle. *)
LEMMA RoutesAlways ==
    ASSUME M!MenusAssumption, menu \in MenuTables
    PROVE  M!RoutesServed
<1> DEFINE rows == M!filterMenusByAccessCodes(menu)
<1>1. NoMenu \notin Menus
  BY DEF M!MenusAssumption
<1>2. \A m \in Menus : rows[m] = IF M!permitted(menu, m) THEN menu[m] ELSE M!NoRow
  BY DEF M!filterMenusByAccessCodes
<1>3. rows \in MenuTables
  BY <1>1, EmptyRow DEF M!filterMenusByAccessCodes, MenuTables
<1> HIDE DEF rows
<1>4. \A m \in Menus : ~M!permitted(menu, m) => ~rows[m].exists
  BY <1>2 DEF M!NoRow
<1>5. ASSUME NEW m \in Menus, m \in M!Ancestors(rows, m) PROVE FALSE
  <2>1. M!Parent(rows, m) # NoMenu
    BY <1>3, <1>5, NothingAbove
  <2>2. M!permitted(menu, m)
    BY <1>4, <2>1 DEF M!Parent
  <2>3. M!Ancestors(menu, m) \in SUBSET Menus /\ M!ClosedUp(menu, m, M!Ancestors(menu, m))
    BY AncestorsAreClosed
  <2>4. \A x \in Menus : M!Parent(rows, x) \in {M!Parent(menu, x), NoMenu}
    BY <1>2, <1>4 DEF M!Parent
  <2>5. M!ClosedUp(rows, m, M!Ancestors(menu, m))
    BY <2>3, <2>4 DEF M!ClosedUp
  <2>6. m \in M!Ancestors(menu, m)
    BY <1>5, <2>3, <2>5, LeastClosed
  <2> QED
    BY <2>2, <2>6 DEF M!permitted, M!structurallyVisible
<1>6. ~M!Cyclic(rows)
  BY <1>5 DEF M!Cyclic
<1>7. ASSUME NEW m \in Menus
      PROVE  /\ menu[m].exists /\ M!Keeps(menu, m) /\ M!structurallyVisible(menu, m) => rows[m].exists
             /\ rows[m].exists => \A x \in {m} \cup M!Ancestors(menu, m) : menu[x].exists => menu[x].shown
  <2>1. menu[m].exists /\ M!Keeps(menu, m) /\ M!structurallyVisible(menu, m) => rows[m].exists
    BY <1>2 DEF M!permitted
  <2>2. ASSUME rows[m].exists, NEW x \in {m} \cup M!Ancestors(menu, m), menu[x].exists PROVE menu[x].shown
    BY <1>4, <2>2 DEF M!permitted, M!structurallyVisible
  <2> QED
    BY <2>1, <2>2
<1>8. M!ListMenuRoutesForSubject(menu) = [fails |-> M!Cyclic(rows), shows |-> {m \in Menus : rows[m].exists}]
  BY DEF M!ListMenuRoutesForSubject, M!BuildMenuRoutesFails, rows
<1> QED
  BY <1>6, <1>7, <1>8 DEF M!RoutesServed

LEMMA TreesAreForests ==
    ASSUME TreesAssumption, NEW t \in MenuTrees
    PROVE  t \in MenuTables /\ ~M!Cyclic(t)
<1> USE DEF TreesAssumption, M!MenusAssumption
<1>1. t \in MenuTables
  <2>1. ASSUME NEW org \in M!Org, NEW p \in Menus \cup {NoMenu}, NEW x \in {"none", "granted", "denied"}
        PROVE  Dir(org, p, x) \in M!Row /\ Leaf(org, p, x) \in M!Row
    BY DEF Dir, Leaf, M!Row, M!Type
  <2>2. NoOrg \in M!Org /\ oA \in M!Org /\ oB \in M!Org /\ M!NoRow \in M!Row
    BY EmptyRow DEF M!Org
  <2> QED
    BY <2>1, <2>2 DEF MenuTrees, Root, MenuTables
<1>2. M!Parent(t, m1) = NoMenu
  BY DEF MenuTrees, Root, Dir, M!Parent
<1>3. \/ \A m \in Menus : m # m1 => M!Parent(t, m) = IF m = m2 THEN m1 ELSE m2
      \/ \A m \in Menus : m # m1 => M!Parent(t, m) = IF m = m2 THEN m1 ELSE NoMenu
      \/ \A m \in Menus : m # m1 => M!Parent(t, m) = IF m = m2 THEN m3 ELSE m1
  BY DEF MenuTrees, Root, Dir, Leaf, M!NoRow, M!Parent
<1>4. ASSUME NEW m \in Menus, m \in M!Ancestors(t, m) PROVE FALSE
  <2>1. CASE m = m1
    BY <1>1, <1>2, <1>4, <2>1, NothingAbove
  <2>2. CASE m # m1 /\ m # m2
    <3>1. CASE M!ClosedUp(t, m, {m1, m2})
      BY <1>4, <2>2, <3>1, LeastClosed
    <3>2. CASE M!ClosedUp(t, m, {m1})
      BY <1>4, <2>2, <3>2, LeastClosed
    <3> QED
      BY <1>2, <1>3, <2>2, <3>1, <3>2 DEF M!ClosedUp
  <2>3. CASE m = m2
    <3>1. CASE M!ClosedUp(t, m, {m1, m3})
      BY <1>4, <2>3, <3>1, LeastClosed
    <3>2. CASE M!ClosedUp(t, m, {m1})
      BY <1>4, <2>3, <3>2, LeastClosed
    <3> QED
      BY <1>2, <1>3, <2>3, <3>1, <3>2 DEF M!ClosedUp
  <2> QED
    BY <2>1, <2>2, <2>3
<1> QED
  BY <1>1, <1>4 DEF M!Cyclic

LEMMA MenuStarts ==
    ASSUME M!MenusAssumption, NEW t \in MenuTables, ~M!Cyclic(t),
           NEW plan \in [MenuEditors -> M!Requests], M!Start(t, plan)
    PROVE  MenuInv
<1>1. M!NoRow \in M!Row
  BY EmptyRow DEF M!MenusAssumption
<1>2. M!TypeOK
  BY <1>1 DEF M!TypeOK, M!Start, MenuTables
<1>3. MenuChecked
  BY DEF MenuChecked, M!Start
<1>4. M!ForestKept
  BY DEF M!ForestKept, M!Start
<1> QED
  BY <1>2, <1>3, <1>4 DEF MenuInv

LEMMA MenuInit == ASSUME TreesAssumption, MenusInit \/ MenusRest PROVE MenuInv
<1>1. CASE MenusInit
  <2>1. PICK t \in MenuTrees, plan \in [MenuEditors -> MenuPlans] : M!Start(t, plan)
    BY <1>1 DEF MenusInit
  <2>2. MenuPlans \subseteq M!Requests
    BY DEF MenuPlans, MenuPatch, M!Requests, M!createMenuRequest, M!menuPatchRequest, M!deleteMenuRequest,
           M!menuReorderRequest, M!Type, TreesAssumption
  <2> QED
    BY <2>1, <2>2, TreesAreForests, MenuStarts DEF TreesAssumption
<1>2. CASE MenusRest
  <2> DEFINE t == [m \in Menus |-> M!NoRow]
             plan == [e \in MenuEditors |-> [kind |-> "delete", menu |-> m1]]
  <2>1. t \in MenuTables
    BY EmptyRow DEF MenuTables, TreesAssumption, M!MenusAssumption
  <2>2. plan \in [MenuEditors -> M!Requests]
    BY DEF M!Requests, M!deleteMenuRequest, TreesAssumption
  <2>3. ~M!Cyclic(t)
    <3>1. \A m \in Menus : M!Parent(t, m) = NoMenu
      BY DEF M!Parent, M!NoRow
    <3> QED
      BY <2>1, <3>1, NothingAbove DEF M!Cyclic
  <2>4. M!Start(t, plan)
    BY <1>2 DEF MenusRest
  <2> QED
    BY <2>1, <2>2, <2>3, <2>4, MenuStarts DEF TreesAssumption
<1> QED
  BY <1>1, <1>2

-----------------------------------------------------------------------------
(* Accounts, policies and decisions. *)

LEMMA AdminRequests ==
    ASSUME NEW o \in A!Requests
    PROVE  /\ o.kind = "CreateUser" => o \in A!createUserRequest
           /\ o.kind = "UpdateUser" => o \in A!updateUserRequest
           /\ o.kind = "DeleteUser" => o \in A!deleteUserRequest
           /\ o.kind = "BatchStatus" => o \in A!batchStatusRequest
           /\ o.kind = "ResetPassword" => o \in A!resetPasswordRequest
           /\ o.kind = "SaveRole" => o \in A!createRoleRequest
           /\ o.kind = "RoleUsers" => o \in A!roleUsersRequest
           /\ o.kind = "RolePermissions" => o \in A!rolePermissionsRequest
           /\ o.kind = "RoleScopes" => o \in A!roleDataScopesRequest
           /\ o.kind = "SavePermission" => o \in A!permissionRequest
           /\ o.kind = "SavePolicy" => o \in A!policyRequest
           /\ o.kind = "SaveScope" => o \in A!dataScopeRequest
BY DEF A!Requests, A!createUserRequest, A!updateUserRequest, A!deleteUserRequest, A!batchStatusRequest,
       A!resetPasswordRequest, A!createRoleRequest, A!roleUsersRequest, A!rolePermissionsRequest,
       A!roleDataScopesRequest, A!permissionRequest, A!policyRequest, A!dataScopeRequest

TableTypes ==
    /\ user \in [Users -> A!UserRow] /\ role \in [Roles -> A!RoleRow] /\ perm \in [Perms -> A!PermRow]
    /\ member \subseteq A!Member /\ grant \subseteq A!Policy /\ dscope \subseteq A!DScope
    /\ \A m, n \in member : m.user = n.user /\ m.role = n.role => m = n
AdminTypes ==
    /\ op \in [Admins -> A!Requests] /\ apc \in [Admins -> {"new", "read", "write", "invalidate", "done", "refused"}]
    /\ seen \in [Admins -> A!Read] /\ left \in [Admins -> SUBSET Users]
(* The members that a request is about to write: one of each user, of the role that it is about. *)
MembersRead ==
    \A a \in Admins : apc[a] = "write" /\ op[a].kind = "RoleUsers" =>
        \A m, n \in seen[a].members :
            m.role = op[a].role /\ m.user \in op[a].users /\ (m.user = n.user => m = n)
ClientTypes ==
    /\ version \in Nat /\ denied \subseteq (0..version) \X A!Digest
    /\ ask \in [Clients -> A!Question]
    /\ cpc \in [Clients -> {"new", "roles", "version", "lookup", "evaluate", "store", "allow", "deny", "error"}]
    /\ loc \in [Clients -> [org : A!Org, roles : SUBSET Roles, gen : 0..version]]
    /\ judge \in [Clients -> {"allow", "deny", "open"}] /\ unflushed \in BOOLEAN /\ faults \in 0..MaxFaults

LEMMA AccessParts == A!TypeOK <=> TableTypes /\ AdminTypes /\ ClientTypes
BY DEF A!TypeOK, TableTypes, AdminTypes, ClientTypes

LEMMA WriteEnds ==
    ASSUME NEW a \in Admins, A!Write(a)
    PROVE  apc[a] = "write" /\ (A!Refused(a) \/ A!Committed(a))
BY DEF A!Write, A!Writes, A!CreateUser, A!UpdateUser, A!UpdateUserPassword, A!SoftDeleteUser, A!UpdateUserStatuses,
       A!SaveRole, A!AssignRoleUsers, A!AssignRolePermissions, A!AssignRoleDataScopes, A!SavePermission,
       A!SavePolicy, A!SaveDataScope, A!SetStatus

(* A request that reads: nothing but what it holds itself changes. *)
ReadsOnly(a) ==
    /\ apc[a] \in {"new", "read"} /\ \E to \in {"read", "write", "refused"} : apc' = [apc EXCEPT ![a] = to]
    /\ \A b \in Admins \ {a} : seen'[b] = seen[b] /\ left'[b] = left[b]
    /\ UNCHANGED <<A!database, A!cache, op, A!clients, judge, unflushed, faults>>

LEMMA ReadsEnd ==
    ASSUME AdminTypes, NEW a \in Admins, A!Checks(a) \/ A!StoreReads(a) PROVE ReadsOnly(a)
<1>1. CASE A!Checks(a)
  BY <1>1 DEF A!Checks, ReadsOnly, AdminTypes, A!cache, A!clients, A!database
<1>2. CASE A!StoreReads(a)
  <2>1. apc[a] = "read" /\ (A!Refused(a) \/ \E found : A!Finds(a, found))
    BY <1>2 DEF A!StoreReads, A!ReadDeleteUser, A!ReadUserStatuses, A!ReadRoleUsers, A!ReadRolePermissions,
                A!ReadRoleDataScopes, A!Reads
  <2>2. CASE A!Refused(a)
    BY <2>1, <2>2 DEF A!Refused, ReadsOnly, AdminTypes, A!cache, A!clients, A!database
  <2>3. CASE \E found : A!Finds(a, found)
    BY <2>1, <2>3 DEF A!Finds, ReadsOnly, AdminTypes, A!cache, A!clients, A!database
  <2> QED
    BY <2>1, <2>2, <2>3
<1> QED
  BY <1>1, <1>2

LEMMA PatchedUser ==
    ASSUME NEW row \in A!UserRow, NEW o \in A!updateUserRequest
    PROVE  A!Patched(row, o).org \in A!Org /\ A!Patched(row, o).status \in A!Status
<1>1. A!Patched(row, o).org = IF o.org = "keep" THEN row.org ELSE o.org
  BY DEF A!Patched, A!UserRow
<1>2. A!Patched(row, o).status = IF o.status = "keep" THEN row.status ELSE o.status
  BY DEF A!Patched, A!UserRow
<1> QED
  BY <1>1, <1>2 DEF A!UserRow, A!updateUserRequest

LEMMA ScopesTyped == ASSUME A!AccessAssumption, NEW a \in Admins PROVE Scope[a] \in A!Org
BY DEF A!AccessAssumption, A!Org

LEMMA SummaryTyped ==
    ASSUME NEW scopes \in SUBSET A!DataScopes PROVE A!roleDataScopeSummary(scopes) \in A!DataScopes
<1>1. CASE scopes = {}
  BY <1>1 DEF A!roleDataScopeSummary, A!DataScopes
<1>2. CASE scopes # {}
  <2>1. (CHOOSE x \in scopes : TRUE) \in scopes
    BY <1>2
  <2> QED
    BY <1>2, <2>1 DEF A!roleDataScopeSummary, A!DataScopes
<1> QED
  BY <1>1, <1>2

LEMMA UserWrites ==
    ASSUME A!AccessAssumption, TableTypes, AdminTypes, NEW a \in Admins,
           A!CreateUser(a) \/ A!UpdateUser(a) \/ A!UpdateUserPassword(a) \/ A!SoftDeleteUser(a) \/ A!UpdateUserStatuses(a)
    PROVE  TableTypes'
<1> USE DEF TableTypes
<1> DEFINE o == op[a]
<1>1. o \in A!Requests /\ seen[a].row \in A!UserRow /\ Scope[a] \in A!Org
  BY ScopesTyped DEF AdminTypes, A!Read
<1>2. UNCHANGED <<role, perm, member, grant, dscope>>
  BY DEF A!CreateUser, A!UpdateUser, A!UpdateUserPassword, A!SoftDeleteUser, A!UpdateUserStatuses, A!SetStatus,
         A!Refused, A!database
<1> HIDE DEF o
<1>3. user' \in [Users -> A!UserRow]
  <2>1. CASE A!CreateUser(a)
    <3>1. o \in A!createUserRequest
      BY <1>1, <2>1, AdminRequests DEF A!CreateUser, A!Writes, o
    <3>2. [exists |-> TRUE, status |-> o.status, password |-> "new",
           org |-> IF Scope[a] = NoOrg THEN o.org ELSE Scope[a]] \in A!UserRow
      BY <1>1, <3>1 DEF A!UserRow, A!createUserRequest
    <3> QED
      BY <2>1, <3>2 DEF A!CreateUser, A!Refused, A!database, o
  <2>2. CASE A!UpdateUser(a)
    <3> DEFINE new == A!Patched(seen[a].row, o)
    <3>1. o \in A!updateUserRequest
      BY <1>1, <2>2, AdminRequests DEF A!UpdateUser, A!Writes, o
    <3>2. new.org \in A!Org /\ new.status \in A!Status
      BY <1>1, <3>1, PatchedUser
    <3>3. user' = [user EXCEPT ![o.user] = [user[o.user] EXCEPT !.org = new.org, !.status = new.status]]
      BY <2>2, <3>1 DEF A!UpdateUser, o, A!updateUserRequest
    <3> HIDE DEF new
    <3> QED
      BY <3>1, <3>2, <3>3 DEF A!UserRow, A!updateUserRequest
  <2>3. CASE A!UpdateUserPassword(a)
    BY <2>3 DEF A!UpdateUserPassword, A!Refused, A!database, A!UserRow
  <2>4. CASE A!SoftDeleteUser(a)
    BY <2>4 DEF A!SoftDeleteUser, A!SetStatus, A!Refused, A!database, A!UserRow, A!Status
  <2>5. CASE A!UpdateUserStatuses(a)
    <3>1. o \in A!batchStatusRequest
      BY <1>1, <2>5, AdminRequests DEF A!UpdateUserStatuses, A!Writes, o
    <3> QED
      BY <2>5, <3>1 DEF A!UpdateUserStatuses, A!SetStatus, A!Refused, A!database, A!UserRow, A!batchStatusRequest, o
  <2> QED
    BY <2>1, <2>2, <2>3, <2>4, <2>5
<1> QED
  BY <1>2, <1>3

LEMMA RoleWrites ==
    ASSUME A!AccessAssumption, TableTypes, AdminTypes, MembersRead, NEW a \in Admins,
           A!SaveRole(a) \/ A!AssignRoleUsers(a) \/ A!AssignRoleDataScopes(a)
    PROVE  TableTypes'
<1> USE DEF TableTypes
<1> DEFINE o == op[a]
<1>1. o \in A!Requests /\ Scope[a] \in A!Org
  BY ScopesTyped DEF AdminTypes
<1> HIDE DEF o
<1>2. CASE A!Refused(a)
  BY <1>2 DEF A!Refused, A!database
<1>3. CASE A!SaveRole(a)
  <2>1. o \in A!createRoleRequest
    BY <1>1, <1>3, AdminRequests DEF A!SaveRole, A!Writes, o
  <2>2. [exists |-> TRUE, status |-> o.status, org |-> NoOrg, scope |-> o.scope] \in A!RoleRow
    BY <2>1 DEF A!createRoleRequest, A!RoleRow, A!Org
  <2> QED
    BY <1>3, <2>2 DEF A!SaveRole, o
<1>4. CASE A!AssignRoleUsers(a) /\ ~A!Refused(a)
  <2> DEFINE kept == {m \in member : ~(m.role = o.role /\ A!MemberSlice(Scope[a], m))}
             new  == seen[a].members
  <2>1. apc[a] = "write" /\ o.kind = "RoleUsers"
    BY <1>4 DEF A!AssignRoleUsers, A!Writes, o
  <2>2. member' = kept \cup new /\ UNCHANGED <<user, role, perm, grant, dscope>>
    BY <1>4 DEF A!AssignRoleUsers, o
  <2>3. ~\E m \in kept : m.role = o.role /\ m.user \in o.users
    BY <1>4 DEF A!AssignRoleUsers, o
  <2>4. kept \subseteq member
    OBVIOUS
  <2>5. new \subseteq A!Member
    BY DEF AdminTypes, A!Read
  <2>6. ASSUME NEW m \in new, NEW n \in new, m.user = n.user PROVE m = n
    BY <2>1, <2>6 DEF MembersRead, o
  <2>7. \A m \in new : m.role = o.role /\ m.user \in o.users
    BY <2>1 DEF MembersRead, o
  <2> HIDE DEF kept, new
  <2>8. ASSUME NEW m \in member', NEW n \in member', m.user = n.user, m.role = n.role PROVE m = n
    <3>1. CASE m \in kept /\ n \in kept
      BY <2>4, <2>8, <3>1
    <3>2. CASE m \in new /\ n \in new
      BY <2>6, <2>8, <3>2
    <3>3. CASE (m \in kept /\ n \in new) \/ (m \in new /\ n \in kept)
      BY <2>3, <2>7, <2>8, <3>3
    <3> QED
      BY <2>2, <3>1, <3>2, <3>3
  <2> QED
    BY <2>2, <2>4, <2>5, <2>8
<1>5. CASE A!AssignRoleDataScopes(a) /\ ~A!Refused(a)
  <2> DEFINE new == {[user |-> Nobody, role |-> o.role, scope |-> x, org |-> Scope[a]] : x \in o.scopes}
  <2>1. o \in A!roleDataScopesRequest
    BY <1>1, <1>5, AdminRequests DEF A!AssignRoleDataScopes, A!Writes, o
  <2>2. /\ dscope' = (dscope \ A!Slice(Scope[a], dscope, o.role)) \cup new
        /\ role' = [role EXCEPT ![o.role].scope = A!roleDataScopeSummary(o.scopes)]
        /\ UNCHANGED <<user, perm, member, grant>>
    BY <1>5 DEF A!AssignRoleDataScopes, o
  <2>3. new \subseteq A!DScope
    BY <1>1, <2>1 DEF A!DScope, A!roleDataScopesRequest
  <2>4. A!roleDataScopeSummary(o.scopes) \in A!DataScopes
    BY <2>1, SummaryTyped DEF A!roleDataScopesRequest
  <2> HIDE DEF new
  <2>5. role' \in [Roles -> A!RoleRow]
    BY <2>1, <2>2, <2>4 DEF A!RoleRow, A!roleDataScopesRequest
  <2> QED
    BY <2>2, <2>3, <2>5
<1> QED
  BY <1>2, <1>3, <1>4, <1>5

LEMMA PolicyWrites ==
    ASSUME A!AccessAssumption, TableTypes, AdminTypes, NEW a \in Admins,
           A!AssignRolePermissions(a) \/ A!SavePermission(a) \/ A!SavePolicy(a) \/ A!SaveDataScope(a)
    PROVE  TableTypes'
<1> USE DEF TableTypes
<1> DEFINE o == op[a]
<1>1. o \in A!Requests /\ Scope[a] \in A!Org /\ NoOrg \in A!Org
  BY ScopesTyped DEF AdminTypes, A!Org
<1> HIDE DEF o
<1>2. CASE A!Refused(a)
  BY <1>2 DEF A!Refused, A!database
<1>3. CASE A!AssignRolePermissions(a) /\ ~A!Refused(a)
  <2> DEFINE new == {[user |-> Nobody, role |-> o.role, covers |-> x,
                      effect |-> "allow", org |-> Scope[a]] : x \in seen[a].covers}
  <2>1. o \in A!rolePermissionsRequest
    BY <1>1, <1>3, AdminRequests DEF A!AssignRolePermissions, A!Writes, o
  <2>2. grant' = (grant \ A!Slice(Scope[a], grant, o.role)) \cup new /\ UNCHANGED <<user, role, perm, member, dscope>>
    BY <1>3 DEF A!AssignRolePermissions, o
  <2>3. seen[a].covers \subseteq SUBSET Perms
    BY DEF AdminTypes, A!Read
  <2>4. new \subseteq A!Policy
    BY <1>1, <2>1, <2>3 DEF A!Policy, A!rolePermissionsRequest
  <2> HIDE DEF new
  <2> QED
    BY <2>2, <2>4
<1>4. CASE A!SavePermission(a)
  <2>1. o \in A!permissionRequest
    BY <1>1, <1>4, AdminRequests DEF A!SavePermission, A!Writes, o
  <2>2. [exists |-> TRUE, org |-> Scope[a], covers |-> o.covers] \in A!PermRow
    BY <1>1, <2>1 DEF A!permissionRequest, A!PermRow
  <2> QED
    BY <1>4, <2>2 DEF A!SavePermission, o
<1>5. CASE A!SavePolicy(a)
  <2>1. o \in A!policyRequest
    BY <1>1, <1>5, AdminRequests DEF A!SavePolicy, A!Writes, o
  <2>2. [user |-> o.user, role |-> o.role, covers |-> o.covers, effect |-> o.effect, org |-> Scope[a]] \in A!Policy
    BY <1>1, <2>1 DEF A!policyRequest, A!Policy
  <2> QED
    BY <1>5, <2>2 DEF A!SavePolicy, o
<1>6. CASE A!SaveDataScope(a)
  <2>1. o \in A!dataScopeRequest
    BY <1>1, <1>6, AdminRequests DEF A!SaveDataScope, A!Writes, o
  <2>2. [user |-> o.user, role |-> o.role, scope |-> o.scope, org |-> NoOrg] \in A!DScope
    BY <1>1, <2>1 DEF A!dataScopeRequest, A!DScope
  <2> QED
    BY <1>6, <2>2 DEF A!SaveDataScope, o
<1> QED
  BY <1>2, <1>3, <1>4, <1>5, <1>6

LEMMA TablesStep ==
    ASSUME A!AccessAssumption, TableTypes, AdminTypes, MembersRead, [A!Next]_accessVars PROVE TableTypes'
<1>1. ASSUME NEW a \in Admins, A!Write(a) PROVE TableTypes'
  BY <1>1, UserWrites, RoleWrites, PolicyWrites DEF A!Write
<1>2. ASSUME UNCHANGED A!database PROVE TableTypes'
  BY <1>2 DEF A!database, TableTypes
<1>3. ASSUME ~\E a \in Admins : A!Write(a) PROVE UNCHANGED A!database
  BY <1>3, ReadsEnd DEF ReadsOnly, A!Next, accessVars, A!database, A!Invalidate, A!InvalidateFails, A!authenticatedUser,
              A!ResolveSubject, A!CacheVersion, A!CacheGet, A!Authorize, A!CacheSet, A!DependencyFails, A!Expire, A!Decides
<1> QED
  BY <1>1, <1>2, <1>3

LEMMA AdminsStep ==
    ASSUME A!AccessAssumption, TableTypes, AdminTypes, [A!Next]_accessVars PROVE AdminTypes'
<1> USE DEF AdminTypes
<1>1. A!NoUser \in A!UserRow /\ A!Unread \in A!Read
  <2>1. A!NoUser \in A!UserRow
    BY DEF A!NoUser, A!UserRow, A!Status, A!Org
  <2> QED
    BY <2>1 DEF A!Unread, A!Read
<1>2. ASSUME NEW a \in Admins, A!Checks(a) PROVE AdminTypes'
  <2> DEFINE row == IF op[a].kind = "UpdateUser" THEN user[op[a].user] ELSE A!NoUser
             users == IF op[a].kind = "BatchStatus" THEN A!BatchUpdateUserStatusItems(Scope[a], op[a]) ELSE {}
             found == [A!Unread EXCEPT !.row = row, !.users = users]
  <2>1. op[a].kind = "UpdateUser" => op[a].user \in Users
    BY AdminRequests DEF A!updateUserRequest
  <2>2. op[a].kind = "BatchStatus" => op[a].users \in SUBSET Users
    BY AdminRequests DEF A!batchStatusRequest
  <2>3. row \in A!UserRow /\ users \in SUBSET Users
    BY <1>1, <2>1, <2>2 DEF TableTypes, A!BatchUpdateUserStatusItems
  <2>4. seen' = [seen EXCEPT ![a] = found]
    BY <1>2 DEF A!Checks
  <2> HIDE DEF row, users
  <2>5. found \in A!Read
    BY <1>1, <2>3 DEF A!Read
  <2> HIDE DEF found
  <2> QED
    BY <1>2, <2>4, <2>5 DEF A!Checks
<1>3. ASSUME NEW a \in Admins, NEW found \in A!Read, A!Finds(a, found) PROVE AdminTypes'
  BY <1>3 DEF A!Finds
<1>4. ASSUME NEW a \in Admins, A!Refused(a) PROVE AdminTypes'
  BY <1>1, <1>4 DEF A!Refused
<1>5. ASSUME NEW a \in Admins, A!StoreReads(a) PROVE AdminTypes'
  <2> DEFINE o == op[a]
  <2>1. o \in A!Requests /\ seen[a] \in A!Read
    OBVIOUS
  <2> HIDE DEF o
  <2>2. CASE A!ReadDeleteUser(a)
    <3>1. [seen[a] EXCEPT !.change = {u \in A!Found(a, {op[a].user}) : user[u].status # "disabled"}] \in A!Read
      <4>1. op[a].user \in Users
        BY <2>1, <2>2, AdminRequests DEF A!ReadDeleteUser, A!Reads, A!deleteUserRequest, o
      <4> QED
        BY <2>1, <4>1 DEF A!Found, A!Read
    <3> QED
      BY <1>3, <1>4, <2>2, <3>1 DEF A!ReadDeleteUser
  <2>3. CASE A!ReadUserStatuses(a)
    <3>1. [seen[a] EXCEPT !.change = {u \in A!Found(a, seen[a].users) : user[u].status # op[a].status}] \in A!Read
      BY <2>1 DEF A!Found, A!Read
    <3> QED
      BY <1>3, <1>4, <2>3, <3>1 DEF A!ReadUserStatuses
  <2>4. CASE A!ReadRoleUsers(a)
    <3> DEFINE members == {[user |-> u, role |-> o.role, org |-> user[u].org] : u \in o.users}
    <3>1. o \in A!roleUsersRequest
      BY <2>1, <2>4, AdminRequests DEF A!ReadRoleUsers, A!Reads, o
    <3>2. members \subseteq A!Member
      BY <3>1 DEF TableTypes, A!Member, A!roleUsersRequest, A!UserRow
    <3>3. A!Refused(a) \/ A!Finds(a, [seen[a] EXCEPT !.members = members])
      BY <2>4 DEF A!ReadRoleUsers, o
    <3> HIDE DEF members
    <3>4. [seen[a] EXCEPT !.members = members] \in A!Read
      BY <2>1, <3>2 DEF A!Read
    <3> QED
      BY <1>3, <1>4, <3>3, <3>4
  <2>5. CASE A!ReadRolePermissions(a)
    <3> DEFINE covers == {perm[p].covers : p \in o.perms}
    <3>1. o \in A!rolePermissionsRequest
      BY <2>1, <2>5, AdminRequests DEF A!ReadRolePermissions, A!Reads, o
    <3>2. covers \in SUBSET SUBSET Perms
      BY <3>1 DEF TableTypes, A!PermRow, A!rolePermissionsRequest
    <3>3. A!Refused(a) \/ A!Finds(a, [seen[a] EXCEPT !.covers = covers])
      BY <2>5 DEF A!ReadRolePermissions, o
    <3> HIDE DEF covers
    <3>4. [seen[a] EXCEPT !.covers = covers] \in A!Read
      BY <2>1, <3>2 DEF A!Read
    <3> QED
      BY <1>3, <1>4, <3>3, <3>4
  <2>6. CASE A!ReadRoleDataScopes(a)
    BY <1>3, <1>4, <2>1, <2>6 DEF A!ReadRoleDataScopes
  <2> QED
    BY <1>5, <2>2, <2>3, <2>4, <2>5, <2>6 DEF A!StoreReads
<1>6. ASSUME NEW a \in Admins, A!Write(a) PROVE AdminTypes'
  <2>1. ASSUME A!Committed(a) PROVE AdminTypes'
    BY <1>1, <2>1 DEF A!Committed
  <2> QED
    BY <1>4, <1>6, <2>1, WriteEnds
<1>7. ASSUME NEW a \in Admins, A!Invalidate(a) \/ A!InvalidateFails(a) PROVE AdminTypes'
  BY <1>7 DEF A!Invalidate, A!InvalidateFails
<1>8. ASSUME UNCHANGED A!admins PROVE AdminTypes'
  BY <1>8 DEF A!admins
<1>9. ASSUME UNCHANGED accessVars \/ A!Expire \/ \E c \in Clients : A!authenticatedUser(c) \/ A!ResolveSubject(c) \/ A!CacheVersion(c)
                \/ A!CacheGet(c) \/ A!Authorize(c) \/ A!CacheSet(c) \/ A!DependencyFails(c)
      PROVE  UNCHANGED A!admins
  BY <1>9 DEF accessVars, A!authenticatedUser, A!ResolveSubject, A!CacheVersion, A!CacheGet, A!Authorize, A!CacheSet,
              A!DependencyFails, A!Expire, A!Decides, A!admins
<1> QED
  BY <1>2, <1>5, <1>6, <1>7, <1>8, <1>9 DEF A!Next

LEMMA ClientsStep ==
    ASSUME A!AccessAssumption, TableTypes, AdminTypes, ClientTypes, [A!Next]_accessVars PROVE ClientTypes'
<1> USE DEF ClientTypes
<1>1. ASSUME NEW a \in Admins, A!Checks(a) \/ A!StoreReads(a) PROVE ClientTypes'
  BY <1>1, ReadsEnd DEF ReadsOnly, A!cache, A!clients
<1>2. ASSUME NEW a \in Admins, A!Write(a) PROVE ClientTypes'
  <2>1. CASE A!Refused(a)
    BY <2>1 DEF A!Refused, A!cache, A!clients
  <2>2. CASE A!Committed(a)
    <3>1. judge' \in [Clients -> {"allow", "deny", "open"}]
      BY <2>2 DEF A!Committed
    <3> QED
      BY <2>2, <3>1 DEF A!Committed, A!cache, A!clients
  <2> QED
    BY <1>2, <2>1, <2>2, WriteEnds
<1>3. ASSUME NEW a \in Admins, A!Invalidate(a) PROVE ClientTypes'
  <2>1. version' = version + 1 /\ UNCHANGED <<denied, ask, cpc, loc, judge, faults>> /\ unflushed' = FALSE
    BY <1>3 DEF A!Invalidate, A!clients
  <2>2. 0..version \subseteq 0..version'
    BY <2>1
  <2>3. denied \subseteq (0..version') \X A!Digest
    BY <2>2
  <2>4. loc \in [Clients -> [org : A!Org, roles : SUBSET Roles, gen : 0..version']]
    BY <2>2
  <2>5. version' \in Nat
    BY <2>1
  <2>6. loc' \in [Clients -> [org : A!Org, roles : SUBSET Roles, gen : 0..version']]
    BY <2>1, <2>4
  <2> QED
    BY <2>1, <2>3, <2>5, <2>6
<1>4. ASSUME NEW a \in Admins, A!InvalidateFails(a) PROVE ClientTypes'
  BY <1>4 DEF A!InvalidateFails, A!cache, A!clients, A!AccessAssumption
<1>5. ASSUME NEW c \in Clients, A!authenticatedUser(c) PROVE ClientTypes'
  <2> DEFINE org == A!BindPrincipal(ask[c].org, user[ask[c].user].org)
  <2>1. org \in A!Org
    BY DEF A!BindPrincipal, A!Question, TableTypes, A!UserRow
  <2>2. loc' = [loc EXCEPT ![c].org = org] \/ loc' = loc
    BY <1>5 DEF A!authenticatedUser
  <2> HIDE DEF org
  <2>3. loc' \in [Clients -> [org : A!Org, roles : SUBSET Roles, gen : 0..version]]
    BY <2>1, <2>2
  <2>4. judge' \in [Clients -> {"allow", "deny", "open"}]
    BY <1>5 DEF A!authenticatedUser
  <2>5. cpc' = [cpc EXCEPT ![c] = "roles"] \/ cpc' = [cpc EXCEPT ![c] = "deny"]
    BY <1>5 DEF A!authenticatedUser, A!Answer
  <2> QED
    BY <1>5, <2>3, <2>4, <2>5 DEF A!authenticatedUser, A!cache
<1>6. ASSUME NEW c \in Clients, A!ResolveSubject(c) PROVE ClientTypes'
  <2>1. A!activeRoleIDs(ask[c].user, loc[c].org) \in SUBSET Roles
    BY DEF A!activeRoleIDs
  <2> QED
    BY <1>6, <2>1 DEF A!ResolveSubject, A!Answer, A!Decides
<1>7. ASSUME NEW c \in Clients, A!CacheVersion(c) PROVE ClientTypes'
  BY <1>7, SMTT(30) DEF A!CacheVersion, A!Answer, A!Decides
<1>8. ASSUME NEW c \in Clients, A!CacheGet(c) \/ A!Authorize(c) PROVE ClientTypes'
  BY <1>8 DEF A!CacheGet, A!Authorize, A!Answer, A!Decides
<1>9. ASSUME NEW c \in Clients, A!CacheSet(c) PROVE ClientTypes'
  <2>1. A!decisionDigest(c) \in A!Digest
    BY DEF A!decisionDigest, A!Digest, A!Question
  <2> QED
    BY <1>9, <2>1 DEF A!CacheSet, A!Answer, A!Decides
<1>10. ASSUME NEW c \in Clients, A!DependencyFails(c) PROVE ClientTypes'
  BY <1>10 DEF A!DependencyFails, A!Answer, A!cache, A!AccessAssumption
<1>11. CASE A!Expire
  BY <1>11 DEF A!Expire, A!clients
<1>12. CASE UNCHANGED accessVars
  BY <1>12 DEF accessVars
<1> QED
  BY <1>1, <1>2, <1>3, <1>4, <1>5, <1>6, <1>7, <1>8, <1>9, <1>10, <1>11, <1>12 DEF A!Next

(* While no change waits for its new generation, what the cache and the requests hold under *)
(* the generation of now is denied by the policies.                                           *)
Refuses(d) == ~A!EvaluatePolicies(A!ListPolicies(d.org), d.user, d.roles, d.perm)
CacheInv ==
    A!Settled =>
        /\ \A d \in denied : d[1] = version => Refuses(d[2])
        /\ \A c \in Clients : cpc[c] = "store" /\ loc[c].gen = version => Refuses(A!decisionDigest(c))

(* A request during which no change was committed has read what the tables say. *)
Reading == {"roles", "version", "lookup", "evaluate", "store"}
Judged(c) ==
    judge[c] # "open" =>
        LET q == ask[c]
            row == user[q.user]
        IN
        /\ judge[c] = "allow" => A!Granted(q) /\ A!Settled
        /\ judge[c] = "deny" => ~A!Granted(q)
        /\ cpc[c] # "new"
        /\ cpc[c] \in Reading =>
             /\ row.exists /\ row.status = "active" /\ A!MayBind(q.org, row.org)
             /\ loc[c].org = A!BindPrincipal(q.org, row.org)
        /\ cpc[c] \in Reading \ {"roles"} => loc[c].roles = A!activeRoleIDs(q.user, loc[c].org)
        /\ judge[c] = "allow" /\ cpc[c] \in Reading \ {"roles", "version"} => loc[c].gen = version
        /\ cpc[c] \in {"allow", "deny"} => cpc[c] = judge[c]
JudgeInv == \A c \in Clients : Judged(c)

LEMMA CacheSteps ==
    ASSUME A!AccessAssumption, TableTypes, AdminTypes, ClientTypes, CacheInv, [A!Next]_accessVars PROVE CacheInv'
<1> DEFINE Same == grant' = grant /\ version' = version /\ denied' \subseteq denied /\ ask' = ask
<1>1. ASSUME Same, loc' = loc, cpc' = cpc, A!Settled' => A!Settled PROVE CacheInv'
  <2>1. \A c \in Clients : A!decisionDigest(c)' = A!decisionDigest(c)
    BY <1>1 DEF A!decisionDigest
  <2>2. \A c \in Clients : Refuses(A!decisionDigest(c))' = Refuses(A!decisionDigest(c))
    BY <1>1, <2>1 DEF Refuses, A!EvaluatePolicies, A!ListPolicies, A!policyMatches, A!organizationReadScope
  <2>3. \A d \in denied' : Refuses(d[2])' = Refuses(d[2])
    BY <1>1 DEF Refuses, A!EvaluatePolicies, A!ListPolicies, A!policyMatches, A!organizationReadScope
  <2> QED
    BY <1>1, <2>2, <2>3 DEF CacheInv
<1>2. CASE UNCHANGED accessVars
  <2>1. A!Settled' => A!Settled
    BY <1>2 DEF accessVars, A!Settled
  <2> QED
    BY <1>1, <1>2, <2>1 DEF accessVars
<1>3. ASSUME NEW a \in Admins, A!Checks(a) \/ A!StoreReads(a) PROVE CacheInv'
  <2>1. ReadsOnly(a)
    BY <1>3, ReadsEnd
  <2>2. A!Settled' => A!Settled
    BY <2>1 DEF ReadsOnly, A!Settled, AdminTypes
  <2> QED
    BY <1>1, <2>1, <2>2 DEF ReadsOnly, A!database, A!cache, A!clients
<1>4. ASSUME NEW a \in Admins, A!Write(a) PROVE CacheInv'
  <2>1. apc[a] = "write"
    BY <1>4, WriteEnds
  <2>2. CASE A!Refused(a)
    <3>1. A!Settled' => A!Settled
      BY <2>1, <2>2 DEF A!Refused, A!Settled, AdminTypes
    <3> QED
      BY <1>1, <2>2, <3>1 DEF A!Refused, A!database, A!cache, A!clients
  <2>3. CASE A!Committed(a) /\ op[a].kind # "ResetPassword"
    <3>1. apc'[a] = "invalidate"
      BY <2>3 DEF A!Committed, AdminTypes
    <3> QED
      BY <3>1 DEF CacheInv, A!Settled
  <2>4. CASE A!Committed(a) /\ op[a].kind = "ResetPassword"
    <3>1. grant' = grant
      BY <1>4, <2>4 DEF A!Write, A!Writes, A!CreateUser, A!UpdateUser, A!UpdateUserPassword, A!SoftDeleteUser,
         A!UpdateUserStatuses, A!SaveRole, A!AssignRoleUsers, A!AssignRolePermissions, A!AssignRoleDataScopes,
         A!SavePermission, A!SavePolicy, A!SaveDataScope, A!SetStatus, A!Refused, A!database
    <3>2. A!Settled' => A!Settled
      BY <2>1, <2>4 DEF A!Committed, A!Settled, AdminTypes
    <3> QED
      BY <1>1, <2>4, <3>1, <3>2 DEF A!Committed, A!cache, A!clients
  <2> QED
    BY <1>4, <2>2, <2>3, <2>4, WriteEnds
<1>5. ASSUME NEW a \in Admins, A!Invalidate(a) PROVE CacheInv'
  <2>1. version' = version + 1 /\ denied' = denied /\ loc' = loc
    BY <1>5 DEF A!Invalidate, A!clients
  <2>2. \A d \in denied' : d[1] # version'
    BY <2>1 DEF ClientTypes
  <2>3. \A c \in Clients : loc'[c].gen # version'
    BY <2>1 DEF ClientTypes
  <2> QED
    BY <2>2, <2>3 DEF CacheInv
<1>6. ASSUME NEW a \in Admins, A!InvalidateFails(a) PROVE CacheInv'
  BY <1>6 DEF A!InvalidateFails, CacheInv, A!Settled
<1>7. ASSUME NEW c \in Clients, A!admins' = A!admins, unflushed' = unflushed, Same,
             \A x \in Clients \ {c} : cpc'[x] = cpc[x] /\ loc'[x] = loc[x],
             cpc'[c] = "store" /\ A!Settled /\ loc'[c].gen = version => Refuses(A!decisionDigest(c))'
      PROVE  CacheInv'
  <2>1. A!Settled' => A!Settled
    BY <1>7 DEF A!admins, A!Settled
  <2>2. \A d \in denied' : Refuses(d[2])' = Refuses(d[2])
    BY <1>7 DEF Refuses, A!EvaluatePolicies, A!ListPolicies, A!policyMatches, A!organizationReadScope
  <2>3. ASSUME NEW x \in Clients \ {c} PROVE Refuses(A!decisionDigest(x))' = Refuses(A!decisionDigest(x))
    <3>1. A!decisionDigest(x)' = A!decisionDigest(x)
      BY <1>7 DEF A!decisionDigest
    <3> QED
      BY <1>7, <3>1 DEF Refuses, A!EvaluatePolicies, A!ListPolicies, A!policyMatches, A!organizationReadScope
  <2> QED
    BY <1>7, <2>1, <2>2, <2>3 DEF CacheInv
<1>8. ASSUME NEW c \in Clients, A!authenticatedUser(c) PROVE CacheInv'
  BY <1>7, <1>8 DEF A!authenticatedUser, A!Answer, A!database, A!cache, ClientTypes
<1>9. ASSUME NEW c \in Clients, A!ResolveSubject(c) PROVE CacheInv'
  BY <1>7, <1>9 DEF A!ResolveSubject, A!Answer, A!Decides, A!database, ClientTypes
<1>10. ASSUME NEW c \in Clients, A!CacheVersion(c) PROVE CacheInv'
  BY <1>7, <1>10 DEF A!CacheVersion, A!Answer, A!Decides, A!database, ClientTypes
<1>11. ASSUME NEW c \in Clients, A!CacheGet(c) PROVE CacheInv'
  BY <1>7, <1>11 DEF A!CacheGet, A!Answer, A!Decides, A!database, ClientTypes
<1>12. ASSUME NEW c \in Clients, A!Authorize(c) PROVE CacheInv'
  <2>1. cpc'[c] = "store" => Refuses(A!decisionDigest(c))
    BY <1>12 DEF A!Authorize, A!Answer, Refuses, A!decisionDigest, ClientTypes
  <2>2. A!decisionDigest(c)' = A!decisionDigest(c)
    BY <1>12 DEF A!Authorize, A!Decides, A!decisionDigest
  <2>3. Refuses(A!decisionDigest(c))' = Refuses(A!decisionDigest(c))
    BY <1>12, <2>2 DEF A!Authorize, A!Decides, A!database, Refuses, A!EvaluatePolicies, A!ListPolicies, A!policyMatches,
                       A!organizationReadScope
  <2> QED
    BY <1>7, <1>12, <2>1, <2>3 DEF A!Authorize, A!Answer, A!Decides, A!database, ClientTypes
<1>13. ASSUME NEW c \in Clients, A!CacheSet(c) PROVE CacheInv'
  <2> DEFINE e == <<loc[c].gen, A!decisionDigest(c)>>
  <2>1. A!Settled' => A!Settled
    BY <1>13 DEF A!CacheSet, A!Decides, A!admins, A!Settled
  <2>2. grant' = grant /\ version' = version /\ ask' = ask /\ loc' = loc /\ denied' = denied \cup {e}
    BY <1>13 DEF A!CacheSet, A!Decides, A!database
  <2>3. A!Settled /\ loc[c].gen = version => Refuses(A!decisionDigest(c))
    BY <1>13 DEF A!CacheSet, CacheInv
  <2>4. e[1] = loc[c].gen /\ e[2] = A!decisionDigest(c)
    OBVIOUS
  <2> HIDE DEF e
  <2>5. A!Settled => \A d \in denied' : d[1] = version => Refuses(d[2])
    BY <2>2, <2>3, <2>4 DEF CacheInv
  <2>6. \A d \in denied' : Refuses(d[2])' = Refuses(d[2])
    BY <2>2 DEF Refuses, A!EvaluatePolicies, A!ListPolicies, A!policyMatches, A!organizationReadScope
  <2>7. \A x \in Clients : Refuses(A!decisionDigest(x))' = Refuses(A!decisionDigest(x))
    <3>1. \A x \in Clients : A!decisionDigest(x)' = A!decisionDigest(x)
      BY <2>2 DEF A!decisionDigest
    <3> QED
      BY <2>2, <3>1 DEF Refuses, A!EvaluatePolicies, A!ListPolicies, A!policyMatches, A!organizationReadScope
  <2>8. \A x \in Clients : cpc'[x] = "store" => cpc[x] = "store"
    BY <1>13 DEF A!CacheSet, A!Answer, ClientTypes
  <2> QED
    BY <2>1, <2>2, <2>5, <2>6, <2>7, <2>8 DEF CacheInv
<1>14. ASSUME NEW c \in Clients, A!DependencyFails(c) PROVE CacheInv'
  BY <1>7, <1>14 DEF A!DependencyFails, A!Answer, A!database, A!cache, ClientTypes
<1>15. CASE A!Expire
  <2>1. A!Settled' => A!Settled
    BY <1>15 DEF A!Expire, A!admins, A!Settled
  <2> QED
    BY <1>1, <1>15, <2>1 DEF A!Expire, A!database, A!clients
<1> QED
  BY <1>2, <1>3, <1>4, <1>5, <1>6, <1>8, <1>9, <1>10, <1>11, <1>12, <1>13, <1>14, <1>15 DEF A!Next

LEMMA SameTables ==
    ASSUME UNCHANGED A!database, ask' = ask, NEW c \in Clients
    PROVE  /\ A!Granted(ask[c])' <=> A!Granted(ask[c])
           /\ user'[ask'[c].user] = user[ask[c].user]
<1>1. UNCHANGED <<user, role, member, grant>>
  BY DEF A!database
<1>2. \A u, s : A!activeRoleIDs(u, s)' = A!activeRoleIDs(u, s)
  BY <1>1 DEF A!activeRoleIDs, A!organizationReadScope
<1>3. \A s : A!ListPolicies(s)' = A!ListPolicies(s)
  BY <1>1 DEF A!ListPolicies, A!organizationReadScope
<1> QED
  BY <1>1, <1>2, <1>3 DEF A!Granted, A!BindPrincipal, A!MayBind, A!EvaluatePolicies, A!policyMatches

(* The decision that a request gets is the one that the tables say. *)
LEMMA RightDecision ==
    ASSUME NEW c \in Clients, user[ask[c].user].exists, user[ask[c].user].status = "active",
           A!MayBind(ask[c].org, user[ask[c].user].org),
           loc[c].org = A!BindPrincipal(ask[c].org, user[ask[c].user].org),
           loc[c].roles = A!activeRoleIDs(ask[c].user, loc[c].org)
    PROVE  Refuses(A!decisionDigest(c)) <=> ~A!Granted(ask[c])
BY DEF A!Granted, Refuses, A!decisionDigest

LEMMA JudgeSteps ==
    ASSUME A!AccessAssumption, TableTypes, AdminTypes, ClientTypes, CacheInv, JudgeInv, [A!Next]_accessVars
    PROVE  JudgeInv'
<1>1. ASSUME UNCHANGED A!database, ask' = ask, version' = version, A!Settled => A!Settled',
             NEW c \in Clients, cpc'[c] = cpc[c] \/ cpc'[c] = "error", loc'[c] = loc[c], judge'[c] = judge[c]
      PROVE  Judged(c)'
  <2>1. Judged(c)
    BY DEF JudgeInv
  <2>2. (A!Granted(ask[c])' <=> A!Granted(ask[c])) /\ user'[ask'[c].user] = user[ask[c].user]
    BY <1>1, SameTables
  <2>3. A!activeRoleIDs(ask[c].user, loc[c].org)' = A!activeRoleIDs(ask[c].user, loc[c].org)
    BY <1>1 DEF A!activeRoleIDs, A!database, A!organizationReadScope
  <2>4. cpc'[c] \in Reading \cup {"allow", "deny", "new"} => cpc'[c] = cpc[c]
    BY <1>1 DEF Reading
  <2> QED
    BY <1>1, <2>1, <2>2, <2>3, <2>4 DEF Judged, Reading, A!MayBind, A!BindPrincipal
<1>2. CASE UNCHANGED accessVars
  <2>1. A!Settled => A!Settled'
    BY <1>2 DEF accessVars, A!Settled
  <2>2. UNCHANGED <<A!database, ask, version, cpc, loc, judge>>
    BY <1>2 DEF accessVars, A!database
  <2> QED
    BY <1>1, <2>1, <2>2 DEF JudgeInv
<1>3. ASSUME NEW a \in Admins, A!Checks(a) \/ A!StoreReads(a) PROVE JudgeInv'
  <2>1. ReadsOnly(a)
    BY <1>3, ReadsEnd
  <2>2. A!Settled => A!Settled'
    BY <2>1 DEF ReadsOnly, A!Settled, AdminTypes
  <2> QED
    BY <1>1, <2>1, <2>2 DEF ReadsOnly, A!cache, A!clients, JudgeInv
<1>4. ASSUME NEW a \in Admins, A!Write(a) PROVE JudgeInv'
  <2>1. CASE A!Refused(a)
    <3>1. A!Settled => A!Settled'
      BY <2>1 DEF A!Refused, A!Settled, AdminTypes
    <3> QED
      BY <1>1, <2>1, <3>1 DEF A!Refused, A!cache, A!clients, JudgeInv
  <2>2. CASE A!Committed(a)
    BY <2>2 DEF A!Committed, JudgeInv, Judged
  <2> QED
    BY <1>4, <2>1, <2>2, WriteEnds
(* A change that is not invalidated yet: nobody is to be allowed for sure. *)
<1>5. ASSUME NEW a \in Admins, A!Invalidate(a) \/ A!InvalidateFails(a) PROVE JudgeInv'
  <2>1. ~A!Settled
    BY <1>5 DEF A!Invalidate, A!InvalidateFails, A!Settled
  <2>2. UNCHANGED <<A!database, ask, cpc, loc, judge>>
    BY <1>5 DEF A!Invalidate, A!InvalidateFails, A!clients, A!database
  <2>3. ASSUME NEW c \in Clients PROVE Judged(c)'
    <3>1. Judged(c) /\ judge[c] # "allow"
      BY <2>1 DEF JudgeInv, Judged
    <3>2. (A!Granted(ask[c])' <=> A!Granted(ask[c])) /\ user'[ask'[c].user] = user[ask[c].user]
      BY <2>2, SameTables
    <3>3. A!activeRoleIDs(ask[c].user, loc[c].org)' = A!activeRoleIDs(ask[c].user, loc[c].org)
      BY <2>2 DEF A!activeRoleIDs, A!database, A!organizationReadScope
    <3> QED
      BY <2>2, <3>1, <3>2, <3>3 DEF Judged, A!MayBind, A!BindPrincipal
  <2> QED
    BY <2>3 DEF JudgeInv
<1>6. ASSUME NEW c \in Clients, UNCHANGED <<A!database, ask, version, A!admins, unflushed>>,
             \A x \in Clients \ {c} : cpc'[x] = cpc[x] /\ loc'[x] = loc[x] /\ judge'[x] = judge[x],
             Judged(c)'
      PROVE  JudgeInv'
  <2>1. A!Settled => A!Settled'
    BY <1>6 DEF A!admins, A!Settled
  <2>2. UNCHANGED A!database
    BY <1>6
  <2> QED
    BY <1>1, <1>6, <2>1, <2>2 DEF JudgeInv
<1>7. ASSUME NEW c \in Clients, A!authenticatedUser(c) PROVE JudgeInv'
  <2> DEFINE q == ask[c]
             row == user[q.user]
  <2>1. UNCHANGED <<A!database, ask, version, A!admins, unflushed>>
    BY <1>7 DEF A!authenticatedUser, A!cache, A!database
  <2>2. (A!Granted(ask[c])' <=> A!Granted(ask[c])) /\ user'[ask'[c].user] = user[ask[c].user]
    BY <2>1, SameTables
  <2>3. A!Settled' <=> A!Settled
    BY <2>1 DEF A!admins, A!Settled
  <2>4. judge'[c] = IF A!Granted(q) THEN IF A!Settled THEN "allow" ELSE "open" ELSE "deny"
    BY <1>7 DEF A!authenticatedUser, ClientTypes
  <2>5. CASE row.exists /\ row.status = "active" /\ A!MayBind(q.org, row.org)
    <3>1. cpc'[c] = "roles" /\ loc'[c].org = A!BindPrincipal(q.org, row.org)
      BY <1>7, <2>5 DEF A!authenticatedUser, A!Answer, ClientTypes
    <3>2. Judged(c)'
      BY <2>1, <2>2, <2>3, <2>4, <2>5, <3>1 DEF Judged, Reading, A!MayBind, A!BindPrincipal
    <3> QED
      BY <1>6, <1>7, <2>1, <3>2 DEF A!authenticatedUser, A!Answer, ClientTypes
  <2>6. CASE ~(row.exists /\ row.status = "active" /\ A!MayBind(q.org, row.org))
    <3>1. cpc'[c] = "deny" /\ loc' = loc
      BY <1>7, <2>6 DEF A!authenticatedUser, A!Answer, ClientTypes
    <3>2. ~A!Granted(q)
      BY <2>6 DEF A!Granted
    <3>3. Judged(c)'
      BY <2>1, <2>2, <2>4, <3>1, <3>2 DEF Judged, Reading
    <3> QED
      BY <1>6, <1>7, <2>1, <3>1, <3>3 DEF A!authenticatedUser, A!Answer, ClientTypes
  <2> QED
    BY <2>5, <2>6
(* The other steps of a request leave the tables and the judgement alone. *)
<1>8. ASSUME NEW c \in Clients, A!Decides(c)
      PROVE  /\ UNCHANGED <<A!database, ask, version, A!admins, unflushed, judge>>
             /\ A!Granted(ask[c])' <=> A!Granted(ask[c])
             /\ user'[ask'[c].user] = user[ask[c].user]
             /\ A!Settled' <=> A!Settled
             /\ \A u, s : A!activeRoleIDs(u, s)' = A!activeRoleIDs(u, s)
             /\ Judged(c)
  <2>1. UNCHANGED <<A!database, ask, version, A!admins, unflushed, judge>>
    BY <1>8 DEF A!Decides, A!database
  <2>2. (A!Granted(ask[c])' <=> A!Granted(ask[c])) /\ user'[ask'[c].user] = user[ask[c].user]
    BY <2>1, SameTables
  <2>3. A!Settled' <=> A!Settled
    BY <2>1 DEF A!admins, A!Settled
  <2>4. \A u, s : A!activeRoleIDs(u, s)' = A!activeRoleIDs(u, s)
    BY <2>1 DEF A!activeRoleIDs, A!database, A!organizationReadScope
  <2>5. Judged(c)
    BY DEF JudgeInv
  <2> QED
    BY <2>1, <2>2, <2>3, <2>4, <2>5
<1>9. ASSUME NEW c \in Clients, A!ResolveSubject(c) PROVE JudgeInv'
  <2>1. A!Decides(c) /\ cpc[c] = "roles" /\ cpc'[c] = "version"
    BY <1>9 DEF A!ResolveSubject, A!Answer, ClientTypes
  <2>2. loc'[c].org = loc[c].org /\ loc'[c].roles = A!activeRoleIDs(ask[c].user, loc[c].org)
    BY <1>9 DEF A!ResolveSubject, ClientTypes
  <2>3. Judged(c)'
    BY <1>8, <2>1, <2>2 DEF Judged, Reading, A!MayBind, A!BindPrincipal
  <2> QED
    BY <1>6, <1>8, <1>9, <2>1, <2>3 DEF A!ResolveSubject, A!Answer, ClientTypes
<1>10. ASSUME NEW c \in Clients, A!CacheVersion(c) PROVE JudgeInv'
  <2>1. A!Decides(c) /\ cpc[c] = "version" /\ cpc'[c] = "lookup"
    BY <1>10 DEF A!CacheVersion, A!Answer, ClientTypes
  <2>2. loc'[c].org = loc[c].org /\ loc'[c].roles = loc[c].roles /\ loc'[c].gen = version
    BY <1>10 DEF A!CacheVersion, ClientTypes
  <2>3. Judged(c)'
    BY <1>8, <2>1, <2>2 DEF Judged, Reading, A!MayBind, A!BindPrincipal
  <2> QED
    BY <1>6, <1>8, <1>10, <2>1, <2>3 DEF A!CacheVersion, A!Answer, ClientTypes
<1>11. ASSUME NEW c \in Clients, A!CacheGet(c) PROVE JudgeInv'
  <2>1. A!Decides(c) /\ cpc[c] = "lookup" /\ loc' = loc
    BY <1>11 DEF A!CacheGet
  <2>2. cpc'[c] = IF <<loc[c].gen, A!decisionDigest(c)>> \in denied THEN "deny" ELSE "evaluate"
    BY <1>11 DEF A!CacheGet, A!Answer, ClientTypes
  <2>3. ASSUME judge[c] = "allow" PROVE <<loc[c].gen, A!decisionDigest(c)>> \notin denied
    <3>1. loc[c].gen = version /\ A!Settled /\ ~Refuses(A!decisionDigest(c))
      BY <1>8, <2>1, <2>3, RightDecision DEF Judged, Reading
    <3>2. \A d \in denied : d[1] = version => Refuses(d[2])
      BY <3>1 DEF CacheInv
    <3> QED
      BY <3>1, <3>2
  <2>4. judge[c] \in {"allow", "deny", "open"}
    BY DEF ClientTypes
  <2>5. Judged(c)'
    BY <1>8, <2>1, <2>2, <2>3, <2>4 DEF Judged, Reading, A!MayBind, A!BindPrincipal
  <2> QED
    BY <1>6, <1>8, <1>11, <2>1, <2>5 DEF A!CacheGet, A!Answer, ClientTypes
<1>12. ASSUME NEW c \in Clients, A!Authorize(c) PROVE JudgeInv'
  <2>1. A!Decides(c) /\ cpc[c] = "evaluate" /\ loc' = loc
    BY <1>12 DEF A!Authorize
  <2>2. cpc'[c] = IF Refuses(A!decisionDigest(c)) THEN "store" ELSE "allow"
    BY <1>12 DEF A!Authorize, A!Answer, Refuses, A!decisionDigest, ClientTypes
  <2>3. judge[c] # "open" => (Refuses(A!decisionDigest(c)) <=> ~A!Granted(ask[c]))
    BY <1>8, <2>1, RightDecision DEF Judged, Reading
  <2>4. judge[c] \in {"allow", "deny", "open"}
    BY DEF ClientTypes
  <2>5. Judged(c)'
    BY <1>8, <2>1, <2>2, <2>3, <2>4 DEF Judged, Reading, A!MayBind, A!BindPrincipal
  <2> QED
    BY <1>6, <1>8, <1>12, <2>1, <2>5 DEF A!Authorize, A!Answer, ClientTypes
<1>13. ASSUME NEW c \in Clients, A!CacheSet(c) PROVE JudgeInv'
  <2>1. A!Decides(c) /\ cpc[c] = "store" /\ cpc'[c] = "deny" /\ loc' = loc
    BY <1>13 DEF A!CacheSet, A!Answer, ClientTypes
  <2>2. ASSUME judge[c] = "allow" PROVE FALSE
    <3>1. loc[c].gen = version /\ A!Settled /\ ~Refuses(A!decisionDigest(c))
      BY <1>8, <2>1, <2>2, RightDecision DEF Judged, Reading
    <3> QED
      BY <2>1, <3>1 DEF CacheInv
  <2>3. judge[c] \in {"allow", "deny", "open"}
    BY DEF ClientTypes
  <2>4. Judged(c)'
    BY <1>8, <2>1, <2>2, <2>3 DEF Judged, Reading
  <2> QED
    BY <1>6, <1>8, <1>13, <2>1, <2>4 DEF A!CacheSet, A!Answer, ClientTypes
<1>14. ASSUME NEW c \in Clients, A!DependencyFails(c) PROVE JudgeInv'
  <2>1. A!Settled => A!Settled'
    BY <1>14 DEF A!DependencyFails, A!admins, A!Settled
  <2> QED
    BY <1>1, <1>14, <2>1 DEF A!DependencyFails, A!Answer, A!cache, A!database, ClientTypes, JudgeInv
<1>15. CASE A!Expire
  <2>1. A!Settled => A!Settled'
    BY <1>15 DEF A!Expire, A!admins, A!Settled
  <2> QED
    BY <1>1, <1>15, <2>1 DEF A!Expire, A!clients, A!database, JudgeInv
<1> QED
  BY <1>2, <1>3, <1>4, <1>5, <1>7, <1>9, <1>10, <1>11, <1>12, <1>13, <1>14, <1>15 DEF A!Next

(* What a bound administrator is about to write is of its organization, or was when it *)
(* was read and has been moved away by another since.                                  *)
Mine(a, u) == user[u].org = Scope[a] \/ u \in left[a]
AboutToWrite(a) ==
    apc[a] = "write" /\ Scope[a] # NoOrg =>
        /\ op[a].kind = "UpdateUser" => A!Patched(seen[a].row, op[a]).org = Scope[a] /\ Mine(a, op[a].user)
        /\ op[a].kind \in {"DeleteUser", "BatchStatus"} => \A u \in seen[a].change : Mine(a, u)
        /\ op[a].kind = "RoleUsers" => \A m \in seen[a].members : m.org = Scope[a] /\ Mine(a, m.user)
SliceInv == \A a \in Admins : AboutToWrite(a)
AccessInv == TableTypes /\ AdminTypes /\ MembersRead /\ ClientTypes /\ CacheInv /\ JudgeInv /\ SliceInv

(* The others' requests keep what one is about to write. *)
LEMMA SliceStays ==
    ASSUME AdminTypes, SliceInv, NEW a \in Admins, op' = op, apc'[a] = apc[a], seen'[a] = seen[a],
           \A u \in Users : apc[a] = "write" /\ Mine(a, u) => Mine(a, u)'
    PROVE  AboutToWrite(a)'
<1> SUFFICES ASSUME apc[a] = "write", Scope[a] # NoOrg
    PROVE  /\ op[a].kind = "UpdateUser" => A!Patched(seen[a].row, op[a]).org = Scope[a] /\ Mine(a, op[a].user)'
           /\ op[a].kind \in {"DeleteUser", "BatchStatus"} => \A u \in seen[a].change : Mine(a, u)'
           /\ op[a].kind = "RoleUsers" => \A m \in seen[a].members : m.org = Scope[a] /\ Mine(a, m.user)'
  BY DEF AboutToWrite, Mine
<1>1. op[a].kind = "UpdateUser" => op[a].user \in Users
  BY AdminRequests DEF AdminTypes, A!updateUserRequest
<1>2. seen[a].change \subseteq Users /\ \A m \in seen[a].members : m.user \in Users
  BY DEF AdminTypes, A!Read, A!Member
<1> QED
  BY <1>1, <1>2 DEF SliceInv, AboutToWrite

(* A request that is about to write has read it so. *)
LEMMA ReadAsOwn ==
    ASSUME TableTypes, AdminTypes, NEW a \in Admins, A!Checks(a) \/ A!StoreReads(a)
    PROVE  /\ AboutToWrite(a)'
           /\ apc'[a] = "write" /\ op'[a].kind = "RoleUsers" =>
                \A m, n \in seen'[a].members :
                    m.role = op'[a].role /\ m.user \in op'[a].users /\ (m.user = n.user => m = n)
<1> DEFINE o == op[a]
<1>1. op' = op /\ user' = user /\ a \in DOMAIN seen /\ a \in DOMAIN apc
  BY ReadsEnd DEF AdminTypes, ReadsOnly, A!database
<1>2. CASE A!Checks(a)
  <2>1. apc'[a] = "write" => A!Passes(Scope[a], o) /\ o.kind \notin A!ReadsAgain
    BY <1>1, <1>2 DEF A!Checks
  <2>2. seen'[a].row = IF o.kind = "UpdateUser" THEN user[o.user] ELSE A!NoUser
    BY <1>1, <1>2 DEF A!Checks, A!Unread
  <2>3. ASSUME apc'[a] = "write", Scope[a] # NoOrg, o.kind = "UpdateUser"
        PROVE  A!Patched(seen'[a].row, o).org = Scope[a] /\ user[o.user].org = Scope[a]
    BY <2>1, <2>2, <2>3 DEF A!Passes, A!UpdateUserChecks, A!checkUserScope
  <2> QED
    BY <1>1, <2>1, <2>3 DEF AboutToWrite, Mine, A!ReadsAgain
<1>3. ASSUME NEW found, A!Finds(a, found), NEW kind \in A!ReadsAgain, o.kind = kind,
             kind \in {"DeleteUser", "BatchStatus"} => \A u \in found.change : A!checkUserScope(Scope[a], user[u]),
             kind = "RoleUsers" =>
                \A m \in found.members : m.org = user[m.user].org /\ A!checkUserScope(Scope[a], user[m.user])
      PROVE  AboutToWrite(a)'
  <2>1. seen'[a] = found
    BY <1>1, <1>3 DEF A!Finds
  <2> QED
    BY <1>1, <1>3, <2>1 DEF AboutToWrite, Mine, A!ReadsAgain, A!checkUserScope
<1>4. ASSUME A!Refused(a) PROVE apc'[a] # "write"
  BY <1>1, <1>4 DEF A!Refused
<1>5. CASE A!ReadDeleteUser(a) \/ A!ReadUserStatuses(a)
  <2>1. o.kind \in {"DeleteUser", "BatchStatus"}
    BY <1>5 DEF A!ReadDeleteUser, A!ReadUserStatuses, A!Reads
  <2>2. A!Refused(a) \/ \E users, status :
            A!Finds(a, [seen[a] EXCEPT !.change = {u \in A!Found(a, users) : user[u].status # status}])
    BY <1>5 DEF A!ReadDeleteUser, A!ReadUserStatuses
  <2>3. ASSUME NEW users, NEW status,
               A!Finds(a, [seen[a] EXCEPT !.change = {u \in A!Found(a, users) : user[u].status # status}])
        PROVE  AboutToWrite(a)'
    <3> DEFINE change == {u \in A!Found(a, users) : user[u].status # status}
               found == [seen[a] EXCEPT !.change = change]
    <3>1. \A u \in change : A!checkUserScope(Scope[a], user[u])
      BY DEF A!Found
    <3>2. found.change = change
      BY DEF AdminTypes, A!Read
    <3>3. A!Finds(a, found)
      BY <2>3
    <3>4. o.kind \in A!ReadsAgain /\ o.kind # "RoleUsers"
      BY <2>1 DEF A!ReadsAgain
    <3> HIDE DEF change, found, o
    <3> QED
      BY <1>3, <3>1, <3>2, <3>3, <3>4
  <2> QED
    BY <1>1, <1>4, <2>1, <2>2, <2>3 DEF AboutToWrite
<1>6. CASE A!ReadRoleUsers(a)
  <2> DEFINE members == {[user |-> u, role |-> o.role, org |-> user[u].org] : u \in o.users}
             found == [seen[a] EXCEPT !.members = members]
  <2>1. o.kind = "RoleUsers" /\ (A!Refused(a) \/ (A!Finds(a, found) /\ A!ReplaceRoleUsersChecks(Scope[a], o)))
    BY <1>6 DEF A!ReadRoleUsers, A!Reads
  <2>2. found.members = members
    BY DEF AdminTypes, A!Read
  <2>3. \A m \in members : m.role = o.role /\ m.user \in o.users /\ m.org = user[m.user].org
    OBVIOUS
  <2>4. \A m, n \in members : m.user = n.user => m = n
    OBVIOUS
  <2>5. A!ReplaceRoleUsersChecks(Scope[a], o) => \A m \in members : A!checkUserScope(Scope[a], user[m.user])
    BY <2>3 DEF A!ReplaceRoleUsersChecks
  <2> HIDE DEF members, found
  <2>6. A!Finds(a, found) => seen'[a] = found
    BY <1>1 DEF A!Finds
  <2>7. o.kind \in A!ReadsAgain
    BY <2>1 DEF A!ReadsAgain
  <2> HIDE DEF o
  <2>8. A!Finds(a, found) /\ A!ReplaceRoleUsersChecks(Scope[a], o) => AboutToWrite(a)'
    BY <1>3, <2>1, <2>2, <2>3, <2>5, <2>7
  <2> QED
    BY <1>1, <1>4, <2>1, <2>2, <2>3, <2>4, <2>6, <2>8 DEF AboutToWrite, o
<1>7. CASE A!ReadRolePermissions(a) \/ A!ReadRoleDataScopes(a)
  <2>1. o.kind \in {"RolePermissions", "RoleScopes"}
    BY <1>7 DEF A!ReadRolePermissions, A!ReadRoleDataScopes, A!Reads
  <2> QED
    BY <1>1, <2>1 DEF AboutToWrite
<1> QED
  BY <1>2, <1>5, <1>6, <1>7 DEF A!StoreReads

LEMMA SliceSteps ==
    ASSUME TableTypes, AdminTypes, SliceInv, [A!Next]_accessVars PROVE SliceInv'
<1>1. ASSUME NEW a \in Admins, A!Checks(a) \/ A!StoreReads(a) PROVE SliceInv'
  <2>1. ReadsOnly(a) /\ AboutToWrite(a)'
    BY <1>1, ReadsEnd, ReadAsOwn
  <2>2. ASSUME NEW b \in Admins \ {a} PROVE AboutToWrite(b)'
    <3>1. op' = op /\ apc'[b] = apc[b] /\ seen'[b] = seen[b] /\ left'[b] = left[b] /\ user' = user
      BY <2>1 DEF ReadsOnly, AdminTypes, A!database
    <3> QED
      BY <3>1, SliceStays DEF Mine
  <2> QED
    BY <2>1, <2>2 DEF SliceInv
<1>2. ASSUME NEW a \in Admins, A!Write(a) PROVE SliceInv'
  <2>1. op' = op /\ apc'[a] # "write" /\ \A b \in Admins \ {a} : apc'[b] = apc[b] /\ seen'[b] = seen[b]
    BY <1>2, WriteEnds DEF A!Refused, A!Committed, AdminTypes
  <2>2. ASSUME NEW b \in Admins \ {a}, NEW u \in Users, apc[b] = "write", Mine(b, u) PROVE Mine(b, u)'
    <3>1. CASE A!Refused(a)
      BY <2>2, <3>1 DEF A!Refused, A!database, Mine, AdminTypes
    <3>2. CASE A!Committed(a)
      <4>1. left'[b] = left[b] \cup {x \in Users : user[x].org = Scope[b] /\ user'[x].org # Scope[b]}
        BY <2>2, <3>2 DEF A!Committed
      <4> QED
        BY <2>2, <4>1 DEF Mine
    <3> QED
      BY <1>2, <3>1, <3>2, WriteEnds
  <2>3. ASSUME NEW b \in Admins \ {a} PROVE AboutToWrite(b)'
    BY <2>1, <2>2, SliceStays
  <2> QED
    BY <2>1, <2>3 DEF SliceInv, AboutToWrite
<1>3. ASSUME UNCHANGED <<op, seen, left, user>>, \A a \in Admins : apc'[a] = apc[a] \/ apc'[a] # "write" PROVE SliceInv'
  BY <1>3 DEF SliceInv, AboutToWrite, Mine
<1>4. ASSUME NEW a \in Admins, A!Invalidate(a) \/ A!InvalidateFails(a) PROVE SliceInv'
  BY <1>3, <1>4 DEF A!Invalidate, A!InvalidateFails, AdminTypes, A!database
<1>5. ASSUME UNCHANGED A!admins, UNCHANGED user PROVE SliceInv'
  BY <1>3, <1>5 DEF A!admins
<1>6. ASSUME UNCHANGED accessVars \/ A!Expire \/ \E c \in Clients : A!authenticatedUser(c) \/ A!ResolveSubject(c) \/ A!CacheVersion(c)
                \/ A!CacheGet(c) \/ A!Authorize(c) \/ A!CacheSet(c) \/ A!DependencyFails(c)
      PROVE  UNCHANGED A!admins /\ UNCHANGED user
  BY <1>6 DEF accessVars, A!authenticatedUser, A!ResolveSubject, A!CacheVersion, A!CacheGet, A!Authorize, A!CacheSet,
              A!DependencyFails, A!Expire, A!Decides, A!admins, A!database
<1> QED
  BY <1>1, <1>2, <1>4, <1>5, <1>6 DEF A!Next

LEMMA MembersSteps ==
    ASSUME TableTypes, AdminTypes, MembersRead, [A!Next]_accessVars PROVE MembersRead'
<1>1. ASSUME NEW a \in Admins, A!Checks(a) \/ A!StoreReads(a) PROVE MembersRead'
  <2>1. /\ ReadsOnly(a)
        /\ apc'[a] = "write" /\ op'[a].kind = "RoleUsers" =>
             \A m, n \in seen'[a].members :
                 m.role = op'[a].role /\ m.user \in op'[a].users /\ (m.user = n.user => m = n)
    BY <1>1, ReadsEnd, ReadAsOwn
  <2>2. op' = op /\ \A b \in Admins \ {a} : apc'[b] = apc[b] /\ seen'[b] = seen[b]
    BY <2>1 DEF ReadsOnly, AdminTypes
  <2> QED
    BY <2>1, <2>2 DEF MembersRead
<1>2. ASSUME UNCHANGED op, \A b \in Admins : apc'[b] # "write" \/ (apc'[b] = apc[b] /\ seen'[b] = seen[b]) PROVE MembersRead'
  BY <1>2 DEF MembersRead
<1>3. ASSUME NEW a \in Admins, A!Write(a) \/ A!Invalidate(a) \/ A!InvalidateFails(a) PROVE MembersRead'
  BY <1>2, <1>3, WriteEnds DEF A!Refused, A!Committed, A!Invalidate, A!InvalidateFails, AdminTypes
<1>4. ASSUME UNCHANGED A!admins PROVE MembersRead'
  BY <1>2, <1>4 DEF A!admins
<1>5. ASSUME UNCHANGED accessVars \/ A!Expire \/ \E c \in Clients : A!authenticatedUser(c) \/ A!ResolveSubject(c) \/ A!CacheVersion(c)
                \/ A!CacheGet(c) \/ A!Authorize(c) \/ A!CacheSet(c) \/ A!DependencyFails(c)
      PROVE  UNCHANGED A!admins
  BY <1>5 DEF accessVars, A!authenticatedUser, A!ResolveSubject, A!CacheVersion, A!CacheGet, A!Authorize, A!CacheSet,
              A!DependencyFails, A!Expire, A!Decides, A!admins
<1> QED
  BY <1>1, <1>3, <1>4, <1>5 DEF A!Next

LEMMA AccessStep == ASSUME A!AccessAssumption, AccessInv, [A!Next]_accessVars PROVE AccessInv'
BY TablesStep, AdminsStep, MembersSteps, ClientsStep, CacheSteps, JudgeSteps, SliceSteps DEF AccessInv

LEMMA Decided == ASSUME AccessInv PROVE A!DecidedOnRecord
<1>1. ASSUME NEW c \in Clients, cpc[c] \in {"allow", "deny"}, judge[c] # "open" PROVE cpc[c] = judge[c]
  BY <1>1 DEF AccessInv, JudgeInv, Judged
<1> QED
  BY <1>1 DEF A!DecidedOnRecord

(* What a write of a bound administrator changes. *)
OwnUsers(a) ==
    \A u \in Users : user'[u] # user[u] =>
        \/ user[u].org = Scope[a]
        \/ u \in left[a] /\ op[a].kind # "ResetPassword"
        \/ ~user[u].exists /\ user'[u].org = Scope[a]
OwnWrite(a) ==
    /\ \A x \in A!Differ(member, member') \cup A!Differ(grant, grant') : x.org = Scope[a]
    /\ \A x \in member' \ member : user[x.user].org = Scope[a] \/ x.user \in left[a]
    /\ op[a].kind # "SaveScope" => \A x \in A!Differ(dscope, dscope') : x.org = Scope[a]
    /\ OwnUsers(a)

LEMMA OwnSlice ==
    ASSUME A!AccessAssumption, AccessInv, [A!Next]_accessVars, NEW a \in Admins,
           apc[a] = "write", apc'[a] # "write", Scope[a] # NoOrg
    PROVE  OwnWrite(a)
<1> DEFINE o == op[a]
           s == Scope[a]
<1>1. TableTypes /\ AdminTypes /\ o \in A!Requests
  BY DEF AccessInv, AdminTypes
<1>2. A!Write(a)
  <2>1. ASSUME NEW b \in Admins, A!Checks(b) \/ A!StoreReads(b) \/ A!Invalidate(b) \/ A!InvalidateFails(b)
        PROVE  apc'[a] = apc[a]
    BY <1>1, <2>1, ReadsEnd DEF ReadsOnly, A!Invalidate, A!InvalidateFails, AdminTypes
  <2>2. ASSUME NEW b \in Admins, A!Write(b), b # a PROVE apc'[a] = apc[a]
    BY <1>1, <2>2, WriteEnds DEF A!Refused, A!Committed, AdminTypes
  <2>3. ASSUME UNCHANGED A!admins PROVE apc'[a] = apc[a]
    BY <2>3 DEF A!admins
  <2>4. ASSUME UNCHANGED accessVars \/ A!Expire \/ \E c \in Clients : A!authenticatedUser(c) \/ A!ResolveSubject(c)
                  \/ A!CacheVersion(c) \/ A!CacheGet(c) \/ A!Authorize(c) \/ A!CacheSet(c) \/ A!DependencyFails(c)
        PROVE  UNCHANGED A!admins
    BY <2>4 DEF accessVars, A!authenticatedUser, A!ResolveSubject, A!CacheVersion, A!CacheGet, A!Authorize, A!CacheSet,
                A!DependencyFails, A!Expire, A!Decides, A!admins
  <2> QED
    BY <2>1, <2>2, <2>3, <2>4 DEF A!Next
<1> HIDE DEF o, s
<1>3. ASSUME UNCHANGED <<member, grant, dscope>>, OwnUsers(a) PROVE OwnWrite(a)
  BY <1>3 DEF OwnWrite, A!Differ
<1>4. CASE A!Refused(a)
  BY <1>3, <1>4 DEF A!Refused, A!database, OwnUsers
<1>5. CASE A!CreateUser(a) /\ ~A!Refused(a)
  <2>1. o \in A!createUserRequest
    BY <1>1, <1>5, AdminRequests DEF A!CreateUser, A!Writes, o
  <2>2. /\ ~user[o.user].exists /\ UNCHANGED <<member, grant, dscope>>
        /\ user' = [user EXCEPT ![o.user] = [exists |-> TRUE, status |-> o.status, password |-> "new",
                                             org |-> IF s = NoOrg THEN o.org ELSE s]]
    BY <1>5 DEF A!CreateUser, o, s
  <2> QED
    BY <1>1, <1>3, <2>1, <2>2 DEF OwnUsers, TableTypes, A!createUserRequest, s
<1>6. CASE A!UpdateUser(a)
  <2> DEFINE new == A!Patched(seen[a].row, o)
  <2>1. o \in A!updateUserRequest /\ o.kind = "UpdateUser"
    BY <1>1, <1>6, AdminRequests DEF A!UpdateUser, A!Writes, o
  <2>2. Mine(a, o.user) /\ apc[a] = "write"
    BY <2>1 DEF AccessInv, SliceInv, AboutToWrite, o
  <2>3. /\ user' = [user EXCEPT ![o.user].org = new.org, ![o.user].status = new.status]
        /\ UNCHANGED <<member, grant, dscope>>
    BY <1>6 DEF A!UpdateUser, o
  <2> HIDE DEF new
  <2>4. o.user \in Users
    BY <2>1 DEF A!updateUserRequest
  <2>5. \A u \in Users : u # o.user => user'[u] = user[u]
    BY <1>1, <2>3, <2>4 DEF TableTypes
  <2>6. ~user[o.user].exists => user'[o.user].org = s
    <3>1. new.org = s
      BY <2>1 DEF AccessInv, SliceInv, AboutToWrite, o, s, new
    <3> QED
      BY <1>1, <2>3, <2>4, <3>1 DEF TableTypes, A!UserRow
  <2> QED
    BY <1>3, <2>1, <2>2, <2>3, <2>5, <2>6 DEF OwnUsers, Mine, o, s
<1>7. CASE A!UpdateUserPassword(a) /\ ~A!Refused(a)
  <2>1. o.user \in Users
    BY <1>1, <1>7, AdminRequests DEF A!UpdateUserPassword, A!Writes, o, A!resetPasswordRequest
  <2>2. user[o.user].org = s /\ UNCHANGED <<member, grant, dscope>>
    BY <1>7 DEF A!UpdateUserPassword, A!checkUserScope, o, s
  <2>3. user' = [user EXCEPT ![o.user].password = "new"]
    BY <1>7 DEF A!UpdateUserPassword, o
  <2>4. user[o.user] \in A!UserRow
    BY <1>1, <2>1 DEF TableTypes
  <2>5. user'[o.user].org = s /\ \A u \in Users : u # o.user => user'[u] = user[u]
    BY <1>1, <2>1, <2>2, <2>3, <2>4 DEF TableTypes, A!UserRow
  <2> QED
    BY <1>3, <2>2, <2>5 DEF OwnUsers, s
<1>8. CASE (A!SoftDeleteUser(a) \/ A!UpdateUserStatuses(a)) /\ ~A!Refused(a)
  <2> DEFINE change == seen[a].change
  <2>1. PICK status :
        /\ user' = [u \in Users |-> IF u \in change THEN [user[u] EXCEPT !.status = status] ELSE user[u]]
        /\ UNCHANGED <<member, grant, dscope>>
    BY <1>8 DEF A!SoftDeleteUser, A!UpdateUserStatuses, A!SetStatus
  <2>2. o.kind \in {"DeleteUser", "BatchStatus"} /\ apc[a] = "write"
    BY <1>8 DEF A!SoftDeleteUser, A!UpdateUserStatuses, A!Writes, o
  <2>3. \A u \in change : Mine(a, u)
    BY <2>2 DEF AccessInv, SliceInv, AboutToWrite, o
  <2>4. \A u \in Users : user[u] \in A!UserRow
    BY <1>1 DEF TableTypes
  <2> HIDE DEF change
  <2>5. \A u \in Users : user'[u].org = user[u].org /\ (u \notin change => user'[u] = user[u])
    BY <2>1, <2>4 DEF A!UserRow
  <2>6. \A u \in Users : user'[u] # user[u] => u \in change
    BY <2>5
  <2>7. OwnUsers(a)
    <3>1. \A u \in Users : user'[u] # user[u] => user[u].org = Scope[a] \/ u \in left[a]
      BY <2>3, <2>6 DEF Mine
    <3>2. op[a].kind # "ResetPassword"
      BY <2>2 DEF o
    <3> QED
      BY <3>1, <3>2 DEF OwnUsers
  <2> QED
    BY <1>3, <2>1, <2>7
<1>9. CASE A!SaveRole(a) \/ A!SavePermission(a)
  BY <1>3, <1>9 DEF A!SaveRole, A!SavePermission, OwnUsers
<1>10. CASE A!AssignRoleUsers(a) /\ ~A!Refused(a)
  <2> DEFINE kept == {m \in member : ~(m.role = o.role /\ A!MemberSlice(s, m))}
             new  == seen[a].members
  <2>1. member' = kept \cup new /\ UNCHANGED <<user, role, perm, grant, dscope>> /\ apc[a] = "write" /\ o.kind = "RoleUsers"
    BY <1>10 DEF A!AssignRoleUsers, A!Writes, o, s
  <2>2. \A x \in new : x.org = s /\ Mine(a, x.user)
    BY <2>1 DEF AccessInv, SliceInv, AboutToWrite, o, s
  <2>3. \A x \in member \ kept : x.org = s
    BY DEF A!MemberSlice, s
  <2>4. kept \subseteq member
    OBVIOUS
  <2> HIDE DEF kept, new
  <2>5. \A x \in A!Differ(member, member') : x.org = s
    BY <2>1, <2>2, <2>3, <2>4 DEF A!Differ
  <2>6. \A x \in member' \ member : user[x.user].org = s \/ x.user \in left[a]
    BY <2>1, <2>2, <2>4 DEF Mine, s
  <2> QED
    BY <2>1, <2>5, <2>6 DEF OwnWrite, OwnUsers, A!Differ, s
<1>11. CASE A!AssignRolePermissions(a) /\ ~A!Refused(a)
  <2> DEFINE new == {[user |-> Nobody, role |-> o.role, covers |-> x,
                      effect |-> "allow", org |-> s] : x \in seen[a].covers}
  <2>1. grant' = (grant \ A!Slice(s, grant, o.role)) \cup new /\ UNCHANGED <<user, role, perm, member, dscope>>
    BY <1>11 DEF A!AssignRolePermissions, o, s
  <2>2. \A x \in new : x.org = s
    OBVIOUS
  <2> HIDE DEF new
  <2>3. \A x \in A!Differ(grant, grant') : x.org = s
    BY <2>1, <2>2 DEF A!Differ, A!Slice
  <2> QED
    BY <2>1, <2>3 DEF OwnWrite, OwnUsers, A!Differ, s
<1>12. CASE A!AssignRoleDataScopes(a) /\ ~A!Refused(a)
  <2> DEFINE new == {[user |-> Nobody, role |-> o.role, scope |-> x, org |-> s] : x \in o.scopes}
  <2>1. dscope' = (dscope \ A!Slice(s, dscope, o.role)) \cup new /\ UNCHANGED <<user, perm, member, grant>>
    BY <1>12 DEF A!AssignRoleDataScopes, o, s
  <2>2. \A x \in new : x.org = s
    OBVIOUS
  <2> HIDE DEF new
  <2>3. \A x \in A!Differ(dscope, dscope') : x.org = s
    BY <2>1, <2>2 DEF A!Differ, A!Slice
  <2> QED
    BY <2>1, <2>3 DEF OwnWrite, OwnUsers, A!Differ, s
<1>13. CASE A!SavePolicy(a)
  <2>1. grant' = grant \cup {[user |-> o.user, role |-> o.role, covers |-> o.covers, effect |-> o.effect, org |-> s]}
    BY <1>13 DEF A!SavePolicy, o, s
  <2>2. \A x \in A!Differ(grant, grant') : x.org = s
    BY <2>1 DEF A!Differ
  <2> QED
    BY <1>13, <2>2 DEF A!SavePolicy, OwnWrite, OwnUsers, A!Differ, s
<1>14. CASE A!SaveDataScope(a)
  <2>1. o.kind = "SaveScope"
    BY <1>14 DEF A!SaveDataScope, A!Writes, o
  <2> QED
    BY <1>14, <2>1 DEF A!SaveDataScope, OwnWrite, OwnUsers, A!Differ, o
<1> QED
  BY <1>2, <1>4, <1>5, <1>6, <1>7, <1>8, <1>9, <1>10, <1>11, <1>12, <1>13, <1>14 DEF A!Write

LEMMA AccessStarts ==
    ASSUME A!AccessAssumption, NEW t, NEW ops \in [Admins -> A!Requests], NEW asks \in [Clients -> A!Question], NEW running,
           t.user \in [Users -> A!UserRow], t.role \in [Roles -> A!RoleRow], t.perm \in [Perms -> A!PermRow],
           t.member \subseteq A!Member, t.policy \subseteq A!Policy,
           \A m, n \in t.member : m.user = n.user /\ m.role = n.role => m = n,
           A!Start(t, ops, asks, running)
    PROVE  AccessInv
<1>1. TableTypes
  BY DEF TableTypes, A!Start
<1>2. AdminTypes
  <2>1. A!Unread \in A!Read
    BY DEF A!Unread, A!Read, A!NoUser, A!UserRow, A!Status, A!Org
  <2> QED
    BY <2>1 DEF AdminTypes, A!Start
<1>3. ClientTypes
  <2>1. A!Nothing \in [org : A!Org, roles : SUBSET Roles, gen : 0..0]
    BY DEF A!Nothing, A!Org
  <2>2. /\ version = 0 /\ denied = {} /\ ask = asks /\ loc = [c \in Clients |-> A!Nothing]
        /\ unflushed = FALSE /\ faults = 0 /\ judge = [c \in Clients |-> "open"]
        /\ cpc = [c \in Clients |-> IF c \in running THEN "new" ELSE "error"]
    BY DEF A!Start
  <2>3. loc \in [Clients -> [org : A!Org, roles : SUBSET Roles, gen : 0..version]]
    BY <2>1, <2>2
  <2>4. faults \in 0..MaxFaults
    BY <2>2 DEF A!AccessAssumption
  <2> QED
    BY <2>2, <2>3, <2>4 DEF ClientTypes
<1>4. CacheInv /\ JudgeInv /\ SliceInv /\ MembersRead
  BY DEF CacheInv, JudgeInv, Judged, SliceInv, AboutToWrite, MembersRead, A!Start
<1> QED
  BY <1>1, <1>2, <1>3, <1>4 DEF AccessInv

-----------------------------------------------------------------------------
(* Any tables, requests and forest to start from. *)

AccessSpec ==
    /\ \E t \in [user : [Users -> A!UserRow], role : [Roles -> A!RoleRow], perm : [Perms -> A!PermRow],
                 member : SUBSET A!Member, policy : SUBSET A!Policy],
          ops \in [Admins -> A!Requests], asks \in [Clients -> A!Question], running \in SUBSET (Admins \cup Clients) :
             /\ \A m, n \in t.member : m.user = n.user /\ m.role = n.role => m = n
             /\ A!Start(t, ops, asks, running)
    /\ [][A!Next]_accessVars
MenusSpec ==
    /\ \E t \in MenuTables, plan \in [MenuEditors -> M!Requests] : ~M!Cyclic(t) /\ M!Start(t, plan)
    /\ [][M!Next]_menuVars

(* Whatever the tables hold at first: a request during which no change is committed is   *)
(* decided as the tables say, by the cache as by the policies, for any number of         *)
(* administrators, requests and failures.                                                *)
THEOREM DecisionsAreOfTheTables == A!AccessAssumption => (AccessSpec => [](A!TypeOK /\ A!DecidedOnRecord))
<1> SUFFICES ASSUME A!AccessAssumption PROVE AccessSpec => [](A!TypeOK /\ A!DecidedOnRecord)
  OBVIOUS
<1> DEFINE Begin ==
      \E t \in [user : [Users -> A!UserRow], role : [Roles -> A!RoleRow], perm : [Perms -> A!PermRow],
               member : SUBSET A!Member, policy : SUBSET A!Policy],
         ops \in [Admins -> A!Requests], asks \in [Clients -> A!Question], running \in SUBSET (Admins \cup Clients) :
           /\ \A m, n \in t.member : m.user = n.user /\ m.role = n.role => m = n
           /\ A!Start(t, ops, asks, running)
<1>1. Begin => AccessInv
  BY AccessStarts
<1>2. AccessInv /\ [A!Next]_accessVars => AccessInv'
  BY AccessStep
<1>3. AccessInv => A!TypeOK /\ A!DecidedOnRecord
  BY AccessParts, Decided DEF AccessInv
<1> QED
  BY <1>1, <1>2, <1>3, PTL DEF AccessSpec

(* Whatever forest there is at first: it stays one but for the cycles that the walk of the *)
(* parents does not see, and the routes are built all the same.                            *)
THEOREM MenusStayForest == M!MenusAssumption => (MenusSpec => [](M!TypeOK /\ M!ForestKept /\ M!RoutesServed))
<1> SUFFICES ASSUME M!MenusAssumption PROVE MenusSpec => [](M!TypeOK /\ M!ForestKept /\ M!RoutesServed)
  OBVIOUS
<1>1. (\E t \in MenuTables, plan \in [MenuEditors -> M!Requests] : ~M!Cyclic(t) /\ M!Start(t, plan)) => MenuInv
  BY MenuStarts
<1>2. MenuInv /\ [M!Next]_menuVars => MenuInv'
  BY MenuStep
<1>3. MenuInv => M!TypeOK /\ M!ForestKept /\ M!RoutesServed
  BY RoutesAlways DEF MenuInv, M!TypeOK, MenuTables
<1> QED
  BY <1>1, <1>2, <1>3, PTL DEF MenusSpec

-----------------------------------------------------------------------------
(* The same of the composed specification that the run checks. *)

LEMMA AccountsInit == ASSUME MCInit PROVE AccessInv /\ MenuInv
<1>1. A!AccessAssumption /\ TreesAssumption /\ {u1, u2} \subseteq Users /\ r1 \in Roles /\ p1 \in Perms
  BY MCAssumption
<1>2. {oA, oB} \subseteq Orgs
  BY <1>1 DEF TreesAssumption
<1>3. AdminOps \subseteq A!Requests
  BY <1>1, <1>2 DEF AdminOps, A!Requests, A!createUserRequest, A!updateUserRequest, A!deleteUserRequest, A!batchStatusRequest,
     A!resetPasswordRequest, A!createRoleRequest, A!roleUsersRequest, A!rolePermissionsRequest, A!roleDataScopesRequest,
     A!permissionRequest, A!policyRequest, A!dataScopeRequest, A!Org, A!Status, A!DataScopes
<1>4. Questions \in [Clients -> A!Question]
  BY <1>1 DEF Questions, A!Question, A!Org
<1>5. ASSUME NEW ops \in [Admins -> A!Requests], NEW running, A!Start(Tables, ops, Questions, running) PROVE AccessInv
  <2>1. Tables.user \in [Users -> A!UserRow]
    BY <1>2 DEF Tables, Account, A!UserRow, A!Org, A!Status
  <2>2. Tables.role \in [Roles -> A!RoleRow] /\ Tables.perm \in [Perms -> A!PermRow]
    BY DEF Tables, A!RoleRow, A!PermRow, A!Org, A!Status, A!DataScopes
  <2>3. Tables.member \subseteq A!Member /\ Tables.policy \subseteq A!Policy
    BY <1>1, <1>2 DEF Tables, A!Member, A!Policy, A!Org
  <2>4. \A m, n \in Tables.member : m.user = n.user /\ m.role = n.role => m = n
    BY DEF Tables
  <2> QED
    BY <1>1, <1>4, <1>5, <2>1, <2>2, <2>3, <2>4, AccessStarts
<1>6. AccessInit => AccessInv
  BY <1>3, <1>5 DEF AccessInit
<1>7. AccessRest => AccessInv
  <2>1. [x \in Admins |-> [kind |-> "ResetPassword", user |-> u1]] \in [Admins -> A!Requests]
    BY <1>1 DEF A!Requests, A!resetPasswordRequest
  <2> QED
    BY <1>5, <2>1 DEF AccessRest
<1>8. MenusInit \/ MenusRest => MenuInv
  BY <1>1, MenuInit
<1> QED
  BY <1>6, <1>7, <1>8 DEF MCInit

LEMMA AccountsHold == MCSpec => [](AccessInv /\ MenuInv)
<1> DEFINE Both == AccessInv /\ MenuInv
           all == <<part, accessVars, menuVars, codeVars>>
<1>1. A!AccessAssumption /\ M!MenusAssumption
  BY MCAssumption DEF TreesAssumption
<1>2. MCInit => Both
  BY AccountsInit
<1>3. [MCNext]_all => [A!Next]_accessVars /\ [M!Next]_menuVars
  BY DEF MCNext
<1>4. Both /\ [MCNext]_all => Both'
  BY <1>1, <1>3, AccessStep, MenuStep
<1> QED
  BY <1>2, <1>4, PTL DEF MCSpec

(* A request during which no change is committed gets the decision of the tables. *)
THEOREM DecidedIsRecorded == MCSpec => []DecidedOnRecord
<1>1. AccessInv /\ MenuInv => DecidedOnRecord
  BY AccessParts, Decided DEF AccessInv, DecidedOnRecord
<1> QED
  BY <1>1, AccountsHold, PTL

(* The table stays a forest, but for the changes that the walk of the parents lets *)
(* through, and a user's routes are built whatever it holds.                       *)
THEOREM RoutesAreServed == MCSpec => []RoutesServed
<1>1. M!MenusAssumption
  BY MCAssumption DEF TreesAssumption
<1>2. AccessInv /\ MenuInv => RoutesServed
  BY <1>1, RoutesAlways DEF MenuInv, RoutesServed, M!TypeOK, MenuTables
<1> QED
  BY <1>2, AccountsHold, PTL

(* What an administrator bound to an organization writes or deletes is of it, but for an *)
(* account that another moved away after the request had read it.                        *)
THEOREM SlicesAreKept == MCSpec => OwnSliceOnly
<1> DEFINE all == <<part, accessVars, menuVars, codeVars>>
           Own == \A a \in Admins : apc[a] = "write" /\ apc'[a] # "write" /\ Scope[a] # NoOrg => OwnWrite(a)
<1>1. A!AccessAssumption
  BY MCAssumption
<1>2. AccessInv /\ MenuInv /\ [MCNext]_all => [Own]_(A!vars)
  <2>1. [MCNext]_all => [A!Next]_accessVars
    BY DEF MCNext
  <2> QED
    BY <1>1, <2>1, OwnSlice
<1>3. [][Own]_(A!vars) => OwnSliceOnly
  BY DEF OwnSliceOnly, A!OwnSliceOnly, OwnWrite, OwnUsers
<1> QED
  BY <1>2, <1>3, AccountsHold, PTL DEF MCSpec
=============================================================================
