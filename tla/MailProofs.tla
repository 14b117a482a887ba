---------------------------- MODULE MailProofs ----------------------------
(***************************************************************************)
(* What Send keeps for any number of calls, editors, servers, accounts and *)
(* keys, whatever fails, crashes or is edited meanwhile: its types, one    *)
(* message for each key, one delivery that is not taken for a failure, and *)
(* true records; and that a deleted account never comes back.              *)
(*                                                                         *)
(* The first rest on what is known of a call at each of its steps: nothing *)
(* was delivered before its message is stored, between two attempts every  *)
(* delivery was taken for a failure, and only after the provider's answer  *)
(* there may be one more.  The last rests on identifiers: only the editor  *)
(* that creates an account writes where none is.                           *)
(***************************************************************************)
EXTENDS Mail, FiniteSetTheorems, TLAPS

Early  == {"new", "lookup", "list", "create"}
Between == {"next", "mark", "provider", "fail"}
Tried  == {"log", "settle"}
Point  == Early \cup {"reread", "done"} \cup Between \cup Tried
(* Here a call has an account in hand. *)
InHand == {"mark", "provider", "log", "settle"}
Kinds  == {"none", "replayed", "conflict", "error", "sent", "failed", "crash"}
Answer == [kind : Kinds, id : Calls \cup {NoCall}]

StoreTypes  == account \in [Accounts -> Account] /\ message \in [Calls -> Message]
MemoryTypes ==
    /\ routes \in [Servers -> [Scopes -> Route]] /\ cooling \in [Servers -> SUBSET Accounts]
    /\ idempotencyMu \in [Servers -> Calls \cup {NoCall}]
CallTypes ==
    /\ req \in [Calls -> Request] /\ pc \in [Calls -> Point] /\ left \in [Calls -> Seq(Accounts)]
    /\ attempts \in [Calls -> 0..MaxAttempts]
    /\ answer \in [Calls -> Answer]
    /\ \A i \in Calls : pc[i] \in InHand => left[i] # <<>>
LastTypes == last \in [Calls -> BOOLEAN]
EditTypes ==
    /\ edit \in [Editors -> EditRequest] /\ eread \in [Editors -> Account]
    /\ epc \in [Editors -> {"new", "read", "check", "write", "done"}]
HistoryTypes == delivered \in [Calls -> Nat] /\ unclear \in [Calls -> Nat] /\ faults \in 0..MaxFaults
TypeInv == StoreTypes /\ MemoryTypes /\ CallTypes /\ LastTypes /\ EditTypes /\ HistoryTypes

(* What is known of a call. *)
Counted(i) ==
    /\ pc[i] \in Early \cup {"reread"} => delivered[i] = 0 /\ unclear[i] = 0
    /\ pc[i] \in Between => delivered[i] = unclear[i]
    /\ pc[i] \in Tried /\ last[i] => delivered[i] = unclear[i] + 1
    /\ pc[i] \in Tried /\ ~last[i] => delivered[i] = unclear[i]
    /\ delivered[i] <= unclear[i] + 1
Recorded(i) ==
    /\ pc[i] \in Early => message[i].status = "none"
    /\ pc[i] \in Between \cup Tried => message[i].status \in {"pending", "sending"}
    /\ delivered[i] > 0 => message[i].status # "none"
    /\ message[i].status # "none" => message[i].key = req[i].key
    /\ message[i].status = "sent" => pc[i] = "done" /\ delivered[i] >= 1
    /\ message[i].status = "failed" => pc[i] = "done" /\ delivered[i] = unclear[i]
CallInv == \A i \in Calls : Counted(i) /\ Recorded(i)

Unique ==
    \A i, j \in Calls : /\ message[i].status # "none" /\ message[j].status # "none"
                        /\ message[i].key = message[j].key /\ message[i].key # NoKey
                        => i = j
Answered ==
    \A i \in Calls : answer[i].id \in Calls /\ req[i].key # NoKey
                     => message[answer[i].id].status # "none" /\ message[answer[i].id].key = req[i].key
KeyInv == Unique /\ Answered

(* An account that is about to be created is not there, and is nobody else's. *)
FreshInv ==
    \A e \in Editors : edit[e].op = "create" =>
        /\ epc[e] \in {"new", "write"} => account[edit[e].account].state = "none"
        /\ \A f \in Editors : f # e /\ edit[f].op = "create" => edit[f].account # edit[e].account

MailInv == TypeInv /\ CallInv /\ KeyInv /\ FreshInv

-----------------------------------------------------------------------------
(* What is tried is a sequence of accounts. *)

LEMMA ListIsSequence ==
    ASSUME NEW S, IsFiniteSet(S)
    PROVE  SetToSeq(S) \in [1..Cardinality(S) -> S] /\ Cardinality(S) \in Nat
<1>1. Cardinality(S) \in Nat /\ ExistsBijection(1..Cardinality(S), S)
  BY FS_CardinalityType
<1>2. PICK f \in [1..Cardinality(S) -> S] : IsInjective(f)
  BY <1>1 DEF ExistsBijection, Bijection, Injection
<1> QED
  BY <1>1, <1>2 DEF SetToSeq

LEMMA OrderTypes ==
    ASSUME MailAssumption, NEW s, NEW order \in orderAccountsFor(s)
    PROVE  order \in Seq(Accounts)
<1>1. Usable(s) \subseteq Accounts
  BY DEF Usable
<1>2. IsFiniteSet(Usable(s))
  BY <1>1, FS_Subset DEF MailAssumption
<1> DEFINE O == SetToSeq(Usable(s))
           n == Cardinality(Usable(s))
<1>3. O \in [1..n -> Usable(s)] /\ n \in Nat
  BY <1>2, ListIsSequence
<1>4. O \in Seq(Accounts) /\ Len(O) = n
  BY <1>1, <1>3
<1>5. CASE order = <<>>
  BY <1>5
<1>6. CASE \E j \in 1..Len(O) : order = [k \in 1..Len(O) |-> O[((k + j) % Len(O)) + 1]]
  <2>1. PICK j \in 1..n : order = [k \in 1..n |-> O[((k + j) % n) + 1]]
    BY <1>4, <1>6
  <2>2. ASSUME NEW k \in 1..n PROVE ((k + j) % n) + 1 \in 1..n
    BY <1>3
  <2> HIDE DEF O, n
  <2>3. order \in [1..n -> Accounts]
    BY <1>1, <1>3, <2>1, <2>2
  <2> QED
    BY <1>3, <2>3
<1> QED
  BY <1>5, <1>6 DEF orderAccountsFor

LEMMA EmptyRecords == ASSUME MailAssumption PROVE NoMessage \in Message /\ NoRoute \in Route /\ NoAnswer \in Answer
<1>1. NoMessage \in Message
  BY DEF MailAssumption, NoMessage, Message
<1>2. NoRoute \in Route
  BY DEF NoRoute, Route
<1>3. NoAnswer \in Answer
  BY DEF NoAnswer, Answer, Kinds
<1> QED
  BY <1>1, <1>2, <1>3

LEMMA StatusTyped ==
    ASSUME NEW m \in Message, NEW s \in {"pending", "sending", "sent", "failed"}
    PROVE  [m EXCEPT !.status = s] \in Message
BY DEF Message

LEMMA ContentTyped ==
    ASSUME NEW m \in Message, NEW q \in Request, NEW s \in {"pending", "sending", "sent", "failed"}
    PROVE  /\ [m EXCEPT !.status = s, !.key = q.key, !.text = q.text] \in Message
           /\ [m EXCEPT !.key = q.key, !.text = q.text, !.status = s] \in Message
BY DEF Message, Request

LEMMA AttemptTyped ==
    ASSUME NEW m \in Message, NEW a \in Accounts, NEW n \in 0..MaxAttempts
    PROVE  [m EXCEPT !.status = "sending", !.account = a, !.attempts = n] \in Message
BY DEF Message

LEMMA DeletedTyped == ASSUME NEW row \in Account PROVE [row EXCEPT !.state = "deleted"] \in Account
BY DEF Account

LEMMA InitTypes == ASSUME MailAssumption, Init PROVE TypeInv
<1>1. PICK accounts \in [Accounts -> Account], sends \in [Calls -> Request], edits \in [Editors -> EditRequest],
           running \in SUBSET (Calls \cup Editors) : Start(accounts, sends, edits, running)
  BY DEF Init
<1> USE <1>1, EmptyRecords DEF Start
<1>2. StoreTypes
  BY DEF StoreTypes
<1>3. MemoryTypes
  BY DEF MemoryTypes
<1>4. CallTypes
  <2>1. "new" \in Point \ InHand /\ "done" \in Point \ InHand
    BY DEF Early, Between, Tried, Point, InHand
  <2>2. 0 \in 0..MaxAttempts
    BY DEF MailAssumption
  <2> QED
    BY <2>1, <2>2 DEF CallTypes
<1>5. LastTypes
  BY DEF LastTypes
<1>6. EditTypes
  BY DEF EditTypes, Account
<1>7. HistoryTypes
  BY DEF HistoryTypes, MailAssumption
<1> QED
  BY <1>2, <1>3, <1>4, <1>5, <1>6, <1>7 DEF TypeInv

LEMMA GoesTypes ==
    ASSUME TypeInv, NEW i \in Calls, NEW to \in Point, Goes(i, to), UNCHANGED left, to \in InHand => left[i] # <<>>
    PROVE  pc' \in [Calls -> Point] /\ \A j \in Calls : pc'[j] \in InHand => left'[j] # <<>>
BY DEF TypeInv, CallTypes, Goes

LEMMA AnswerTypes ==
    ASSUME TypeInv, NEW i \in Calls, NEW kind \in Kinds, NEW id \in Calls \cup {NoCall}, Answers(i, kind, id),
           UNCHANGED left
    PROVE  /\ pc' \in [Calls -> Point] /\ \A j \in Calls : pc'[j] \in InHand => left'[j] # <<>>
           /\ answer' \in [Calls -> Answer] /\ idempotencyMu' \in [Servers -> Calls \cup {NoCall}]
<1>1. "done" \in Point /\ "done" \notin InHand
  BY DEF Point, InHand
<1>2. pc' \in [Calls -> Point] /\ \A j \in Calls : pc'[j] \in InHand => left'[j] # <<>>
  BY <1>1, GoesTypes DEF Answers
<1>3. [kind |-> kind, id |-> id] \in Answer
  BY DEF Answer
<1>4. answer' \in [Calls -> Answer]
  BY <1>3 DEF Answers, TypeInv, CallTypes
<1>5. idempotencyMu' \in [Servers -> Calls \cup {NoCall}]
  BY DEF Answers, Releases, TypeInv, MemoryTypes
<1> QED
  BY <1>2, <1>4, <1>5

LEMMA RowTypes ==
    ASSUME TypeInv, NEW i \in Calls, NEW row \in Message, message' = [message EXCEPT ![i] = row]
    PROVE  message' \in [Calls -> Message]
BY DEF TypeInv, StoreTypes

LEMMA Reanswer ==
    ASSUME MailAssumption, TypeInv, NEW i \in Calls, NEW j \in Calls, Replays(i, j), UNCHANGED left
    PROVE  /\ pc' \in [Calls -> Point] /\ \A k \in Calls : pc'[k] \in InHand => left'[k] # <<>>
           /\ answer' \in [Calls -> Answer] /\ idempotencyMu' \in [Servers -> Calls \cup {NoCall}]
<1>1. "replayed" \in Kinds /\ "conflict" \in Kinds
  BY DEF Kinds
<1> QED
  BY <1>1, AnswerTypes DEF Replays

LEMMA StepTypes == ASSUME MailAssumption, TypeInv, [Next]_vars PROVE TypeInv'
<1> USE DEF TypeInv, StoreTypes, MemoryTypes, CallTypes, LastTypes, EditTypes, HistoryTypes
<1>1. CASE \E i \in Calls : SendSteps(i) \/ WaitCancelled(i) \/ TimesOut(i) \/ AppendFails(i) \/ WriteFails(i)
  <2>1. PICK i \in Calls : SendSteps(i) \/ WaitCancelled(i) \/ TimesOut(i) \/ AppendFails(i) \/ WriteFails(i)
    BY <1>1
  <2>2. CASE Send(i)
    <3> USE <2>2 DEF Send
    <3>1. pc' \in [Calls -> Point] /\ \A j \in Calls : pc'[j] \in InHand => left'[j] # <<>>
      <4>1. {"list", "lookup"} \subseteq Point \ InHand
        BY DEF Early, Between, Tried, Point, InHand
      <4> QED
        BY <4>1, GoesTypes
    <3>2. idempotencyMu' \in [Servers -> Calls \cup {NoCall}]
      OBVIOUS
    <3> QED
      BY <3>1, <3>2 DEF stored, memory, sending, editing, history
  <2>3. CASE lookupIdempotent(i)
    <3> USE <2>3 DEF lookupIdempotent
    <3>1. CASE Goes(i, "list") /\ UNCHANGED <<idempotencyMu, answer>>
      <4>1. "list" \in Point \ InHand
        BY DEF Early, Between, Tried, Point, InHand
      <4>2. pc' \in [Calls -> Point] /\ \A j \in Calls : pc'[j] \in InHand => left'[j] # <<>>
        BY <3>1, <4>1, GoesTypes
      <4> QED
        BY <3>1, <4>2 DEF stored, memory, sending, editing, history, MailAssumption
    <3>2. CASE (\E j \in KeyRow(req[i].key) : Replays(i, j)) \/ Answers(i, "error", NoCall)
      <4>1. "error" \in Kinds
        BY DEF Kinds
      <4>2. /\ pc' \in [Calls -> Point] /\ \A j \in Calls : pc'[j] \in InHand => left'[j] # <<>>
            /\ answer' \in [Calls -> Answer] /\ idempotencyMu' \in [Servers -> Calls \cup {NoCall}]
        BY <3>2, <4>1, AnswerTypes, Reanswer DEF KeyRow
      <4> QED
        BY <4>2 DEF stored, memory, sending, editing, history, MailAssumption
    <3> QED
      BY <3>1, <3>2
  <2>4. CASE ListAccounts(i)
    BY <2>4, SMTT(30), OrderTypes DEF MailAssumption, ListAccounts, Goes, stored, memory, sending, editing, history,
          Account, Message, NoMessage, Route, NoRoute, NoAnswer, Answer, Request, EditRequest, Early, Between, Tried,
          Point, InHand
  <2>5. CASE CreateMessage(i)
    <3> USE <2>5 DEF CreateMessage
    <3>1. message' \in [Calls -> Message]
      <4>1. req[i] \in Request /\ NoMessage \in Message
        BY EmptyRecords
      <4>2. [NoMessage EXCEPT !.status = "pending", !.key = req[i].key, !.text = req[i].text] \in Message
        BY <4>1, ContentTyped
      <4> QED
        BY <4>2
    <3>2. pc' \in [Calls -> Point] /\ \A j \in Calls : pc'[j] \in InHand => left'[j] # <<>>
      <4>1. {"reread", "next"} \subseteq Point \ InHand
        BY DEF Early, Between, Tried, Point, InHand
      <4> QED
        BY <4>1, GoesTypes
    <3> QED
      BY <3>1, <3>2 DEF stored, memory, sending, editing, history
  <2>6. CASE NextAccount(i)
    <3> USE <2>6 DEF NextAccount
    <3>1. CASE UNCHANGED left
      <4>1. {"mark", "fail"} \subseteq Point /\ "fail" \notin InHand
        BY DEF Early, Between, Tried, Point, InHand
      <4>2. pc' \in [Calls -> Point] /\ \A j \in Calls : pc'[j] \in InHand => left'[j] # <<>>
        <5>1. CASE UNCHANGED pc
          BY <3>1, <5>1
        <5>2. CASE Goes(i, "mark") /\ left[i] # <<>>
          BY <3>1, <4>1, <5>2, GoesTypes
        <5>3. CASE Goes(i, "fail")
          BY <3>1, <4>1, <5>3, GoesTypes
        <5> QED
          BY <5>1, <5>2, <5>3
      <4>3. attempts' \in [Calls -> 0..MaxAttempts]
        <5>1. CASE UNCHANGED attempts
          BY <5>1
        <5>2. CASE attempts[i] < MaxAttempts /\ attempts' = [attempts EXCEPT ![i] = @ + 1]
          <6>1. attempts[i] + 1 \in 0..MaxAttempts
            BY <5>2 DEF MailAssumption
          <6> QED
            BY <5>2, <6>1
        <5> QED
          BY <5>1, <5>2
      <4> QED
        BY <3>1, <4>2, <4>3 DEF stored, memory, sending, editing, history
    <3>2. CASE left[i] # <<>> /\ left' = [left EXCEPT ![i] = Tail(@)] /\ UNCHANGED <<pc, attempts>>
      <4>1. "next" \notin InHand
        BY DEF InHand
      <4>2. left' \in [Calls -> Seq(Accounts)]
        BY <3>2
      <4>3. \A j \in Calls : pc'[j] \in InHand => left'[j] # <<>>
        BY <3>2, <4>1
      <4> QED
        BY <3>2, <4>2, <4>3 DEF stored, memory, sending, editing, history
    <3> QED
      BY <3>1, <3>2
  <2>7. CASE WaitCancelled(i)
    BY <2>7, SMTT(30) DEF MailAssumption, WaitCancelled, Goes, stored, memory, sending, editing, history,
          Account, Message, NoMessage, Route, NoRoute, NoAnswer, Answer, Request, EditRequest, Early, Between, Tried,
          Point, InHand
  <2>8. CASE MarkSending(i)
    <3> USE <2>8 DEF MarkSending
    <3>1. left[i] \in Seq(Accounts) /\ left[i] # <<>>
      BY DEF InHand
    <3>2. Head(left[i]) \in Accounts
      BY <3>1
    <3>3. [message[i] EXCEPT !.status = "sending", !.account = Head(left[i]), !.attempts = attempts[i]] \in Message
      BY <3>2, AttemptTyped
    <3>4. message' \in [Calls -> Message]
      BY <3>3, RowTypes
    <3>5. "provider" \in Point
      BY DEF Early, Between, Tried, Point, InHand
    <3>6. pc' \in [Calls -> Point] /\ \A j \in Calls : pc'[j] \in InHand => left'[j] # <<>>
      BY <3>1, <3>5, GoesTypes DEF stored, memory, sending, editing, history
    <3> QED
      BY <3>4, <3>6 DEF stored, memory, sending, editing, history
  <2>9. CASE Deliver(i)
    BY <2>9, SMTT(30) DEF MailAssumption, Deliver, Provider, Goes, stored, memory, sending, editing, history,
          Account, Message, NoMessage, Route, NoRoute, NoAnswer, Answer, Request, EditRequest, Early, Between, Tried,
          Point, InHand
  <2>10. CASE Refuse(i)
    BY <2>10, SMTT(30) DEF MailAssumption, Refuse, Provider, Goes, stored, memory, sending, editing, history,
          Account, Message, NoMessage, Route, NoRoute, NoAnswer, Answer, Request, EditRequest, Early, Between, Tried,
          Point, InHand
  <2>11. CASE TimesOut(i)
    BY <2>11, SMTT(30) DEF MailAssumption, TimesOut, Provider, Goes, stored, memory, sending, editing, history,
          Account, Message, NoMessage, Route, NoRoute, NoAnswer, Answer, Request, EditRequest, Early, Between, Tried,
          Point, InHand
  <2>12. CASE AppendAttempt(i)
    BY <2>12, SMTT(30) DEF MailAssumption, AppendAttempt, Goes, stored, memory, sending, editing, history,
          Account, Message, NoMessage, Route, NoRoute, NoAnswer, Answer, Request, EditRequest, Early, Between, Tried,
          Point, InHand
  <2>13. CASE AppendFails(i)
    BY <2>13, SMTT(30) DEF MailAssumption, AppendFails, Goes, stored, memory, sending, editing, history,
          Account, Message, NoMessage, Route, NoRoute, NoAnswer, Answer, Request, EditRequest, Early, Between, Tried,
          Point, InHand
  <2>14. CASE StoreSent(i)
    <3> USE <2>14 DEF StoreSent
    <3>1. [message[i] EXCEPT !.status = "sent"] \in Message
      BY StatusTyped
    <3>2. message' \in [Calls -> Message]
      BY <3>1, RowTypes
    <3>3. "sent" \in Kinds
      BY DEF Kinds
    <3>4. /\ pc' \in [Calls -> Point] /\ \A j \in Calls : pc'[j] \in InHand => left'[j] # <<>>
          /\ answer' \in [Calls -> Answer] /\ idempotencyMu' \in [Servers -> Calls \cup {NoCall}]
      BY <3>3, AnswerTypes
    <3> QED
      BY <3>2, <3>4 DEF stored, memory, sending, editing, history
  <2>15. CASE markCooling(i)
    BY <2>15, SMTT(30) DEF MailAssumption, markCooling, Goes, stored, memory, sending, editing, history,
          Account, Message, NoMessage, Route, NoRoute, NoAnswer, Answer, Request, EditRequest, Early, Between, Tried,
          Point, InHand
  <2>16. CASE StoreFailed(i)
    <3> USE <2>16 DEF StoreFailed
    <3>1. [message[i] EXCEPT !.status = "failed"] \in Message
      BY StatusTyped
    <3>2. message' \in [Calls -> Message]
      BY <3>1, RowTypes
    <3>3. "failed" \in Kinds
      BY DEF Kinds
    <3>4. /\ pc' \in [Calls -> Point] /\ \A j \in Calls : pc'[j] \in InHand => left'[j] # <<>>
          /\ answer' \in [Calls -> Answer] /\ idempotencyMu' \in [Servers -> Calls \cup {NoCall}]
      BY <3>3, AnswerTypes
    <3> QED
      BY <3>2, <3>4 DEF stored, memory, sending, editing, history
  <2>17. CASE WriteFails(i)
    <3> USE <2>17 DEF WriteFails
    <3>1. message' \in [Calls -> Message]
      <4>1. PICK st \in {"pending", "sending", "sent", "failed"} :
              \/ message' = message
              \/ message' = [message EXCEPT ![i].key = req[i].key, ![i].text = req[i].text, ![i].status = st]
        BY DEF KeyRow
      <4>2. [message[i] EXCEPT !.key = req[i].key, !.text = req[i].text, !.status = st] \in Message
        BY ContentTyped
      <4>3. CASE UNCHANGED message
        BY <4>3
      <4>4. CASE message' = [message EXCEPT ![i] = [message[i] EXCEPT !.key = req[i].key, !.text = req[i].text,
                                                                      !.status = st]]
        BY <4>2, <4>4
      <4> QED
        BY <4>1, <4>3, <4>4
    <3>2. CASE Goes(i, "reread") /\ UNCHANGED <<answer, idempotencyMu>>
      <4>1. "reread" \in Point \ InHand
        BY DEF Early, Between, Tried, Point, InHand
      <4>2. pc' \in [Calls -> Point] /\ \A j \in Calls : pc'[j] \in InHand => left'[j] # <<>>
        BY <3>2, <4>1, GoesTypes
      <4> QED
        BY <3>1, <3>2, <4>2 DEF stored, memory, sending, editing, history, MailAssumption
    <3>3. CASE Answers(i, "error", NoCall)
      <4>1. "error" \in Kinds
        BY DEF Kinds
      <4>2. /\ pc' \in [Calls -> Point] /\ \A j \in Calls : pc'[j] \in InHand => left'[j] # <<>>
            /\ answer' \in [Calls -> Answer] /\ idempotencyMu' \in [Servers -> Calls \cup {NoCall}]
        BY <3>3, <4>1, AnswerTypes
      <4>3. UNCHANGED <<account, routes, cooling, req, left, attempts, last, edit, epc, eread, delivered, unclear>>
        BY DEF editing, history
      <4>4. faults' \in 0..MaxFaults
        BY DEF MailAssumption
      <4> QED
        BY <3>1, <4>2, <4>3, <4>4 DEF stored, memory, sending, editing, history, MailAssumption
    <3> QED
      BY <3>2, <3>3
  <2> QED
    BY <2>1, <2>2, <2>3, <2>4, <2>5, <2>6, <2>7, <2>8, <2>9, <2>10, <2>11, <2>12, <2>13, <2>14, <2>15, <2>16,
      <2>17 DEF SendSteps
<1>2. ASSUME NEW e \in Editors,
             \/ CreateCheck(e) \/ CreateAccount(e) \/ GetAccount(e) \/ normalizeAccountInputForUpdate(e)
             \/ UpdateChecks(e) \/ UpdateAccount(e) \/ DeleteAccount(e)
             \/ SetCallerRouteFor(e) \/ DeleteCallerRouteFor(e)
      PROVE  TypeInv'
  <2>1. CASE CreateCheck(e)
    BY <2>1, SMTT(30) DEF MailAssumption, CreateCheck, Edits, Elsewhere, stored, memory, sending, editing, history,
          Account, Message, NoMessage, Route, NoRoute, NoAnswer, Answer, Request, EditRequest, Early, Between, Tried,
          Point, InHand, Scopes
  <2>2. CASE CreateAccount(e)
    BY <2>2, SMTT(30) DEF MailAssumption, CreateAccount, Edits, Elsewhere, stored, memory, sending, editing, history,
          Account, Message, NoMessage, Route, NoRoute, NoAnswer, Answer, Request, EditRequest, Early, Between, Tried,
          Point, InHand, Scopes
  <2>3. CASE GetAccount(e)
    <3> USE <2>3 DEF GetAccount
    <3>1. accountInput(account[edit[e].account], edit[e].op) \in Account
      <4>1. account[edit[e].account] \in Account /\ edit[e].op \in Changes
        BY DEF EditRequest, Edits
      <4> QED
        BY <4>1 DEF accountInput, Changes, Account
    <3>2. eread' \in [Editors -> Account]
      BY <3>1
    <3> QED
      BY <3>2 DEF Edits, Elsewhere, stored, memory, sending, editing, history
  <2>4. CASE normalizeAccountInputForUpdate(e)
    <3> USE <2>4 DEF normalizeAccountInputForUpdate
    <3>1. account[edit[e].account] \in Account
      BY DEF EditRequest
    <3>2. [eread[e] EXCEPT !.password = IF edit[e].op = "password" THEN "new" ELSE account[edit[e].account].password]
            \in Account
      BY <3>1 DEF Account
    <3>3. eread' \in [Editors -> Account]
      BY <3>2
    <3> QED
      BY <3>3 DEF Edits, Elsewhere, stored, memory, sending, editing, history
  <2>5. CASE UpdateChecks(e)
    BY <2>5, SMTT(30) DEF MailAssumption, UpdateChecks, Changes, Edits, Elsewhere, stored, memory, sending, editing,
      history,
          Account, Message, NoMessage, Route, NoRoute, NoAnswer, Answer, Request, EditRequest, Early, Between, Tried,
          Point, InHand, Scopes
  <2>6. CASE UpdateAccount(e)
    BY <2>6, SMTT(30) DEF MailAssumption, UpdateAccount, Changes, Edits, Elsewhere, stored, memory, sending, editing,
      history,
          Account, Message, NoMessage, Route, NoRoute, NoAnswer, Answer, Request, EditRequest, Early, Between, Tried,
          Point, InHand, Scopes
  <2>7. CASE DeleteAccount(e)
    <3> USE <2>7 DEF DeleteAccount
    <3>1. edit[e].account \in Accounts
      BY DEF EditRequest
    <3>2. [account[edit[e].account] EXCEPT !.state = "deleted"] \in Account
      BY <3>1, DeletedTyped
    <3>3. account' \in [Accounts -> Account]
      BY <3>2
    <3> QED
      BY <3>3 DEF Edits, Elsewhere, stored, memory, sending, editing, history
  <2>8. CASE SetCallerRouteFor(e)
    BY <2>8, SMTT(30) DEF MailAssumption, SetCallerRouteFor, Edits, Elsewhere, stored, memory, sending, editing,
      history,
          Account, Message, NoMessage, Route, NoRoute, NoAnswer, Answer, Request, EditRequest, Early, Between, Tried,
          Point, InHand, Scopes
  <2>9. CASE DeleteCallerRouteFor(e)
    BY <2>9, SMTT(30) DEF MailAssumption, DeleteCallerRouteFor, Edits, Elsewhere, stored, memory, sending, editing,
      history,
          Account, Message, NoMessage, Route, NoRoute, NoAnswer, Answer, Request, EditRequest, Early, Between, Tried,
          Point, InHand, Scopes
  <2> QED
    BY <1>2, <2>1, <2>2, <2>3, <2>4, <2>5, <2>6, <2>7, <2>8, <2>9
<1>3. CASE CoolDown
  BY <1>3, SMTT(30) DEF CoolDown, stored, memory, sending, editing, history, Account, Message, NoMessage, Route,
    NoRoute, NoAnswer, Answer, Request, EditRequest, Early, Between, Tried, Point, InHand
<1>4. CASE Crash
  <2> USE <1>4 DEF Crash
  <2>1. StoreTypes' /\ LastTypes' /\ HistoryTypes'
    BY DEF MailAssumption, stored, history
  <2>2. MemoryTypes'
    BY EmptyRecords
  <2>3. CallTypes'
    <3>1. "done" \in Point \ InHand
      BY DEF Early, Between, Tried, Point, InHand
    <3>2. [kind |-> "crash", id |-> NoCall] \in Answer
      BY DEF Answer, Kinds
    <3> QED
      BY <3>1, <3>2
  <2>4. EditTypes'
    OBVIOUS
  <2> QED
    BY <2>1, <2>2, <2>3, <2>4
<1>5. CASE UNCHANGED vars
  BY <1>5 DEF vars, stored, memory, sending, editing, history
<1> QED
  BY <1>1, <1>2, <1>3, <1>4, <1>5 DEF Next

-----------------------------------------------------------------------------
(* What is known of each call. *)

LEMMA InitCalls == ASSUME Init PROVE CallInv
BY DEF Init, Start, CallInv, Counted, Recorded, NoMessage, Early, Between, Tried

LEMMA StepCalls == ASSUME MailAssumption, TypeInv, CallInv, [Next]_vars PROVE CallInv'
<1> USE DEF TypeInv, StoreTypes, CallTypes, LastTypes, HistoryTypes, CallInv, Counted, Recorded, Early, Between, Tried
<1>1. CASE \E i \in Calls : SendSteps(i) \/ WaitCancelled(i) \/ TimesOut(i) \/ AppendFails(i) \/ WriteFails(i)
  <2>1. PICK i \in Calls : SendSteps(i) \/ WaitCancelled(i) \/ TimesOut(i) \/ AppendFails(i) \/ WriteFails(i)
    BY <1>1
  <2>2. CASE Send(i)
    BY <2>2 DEF Send, Goes, stored, history, NoMessage, Message
  <2>3. CASE lookupIdempotent(i)
    <3>1. PICK to \in {"list", "done"} : pc' = [pc EXCEPT ![i] = to] /\ (to = "list" => pc[i] = "lookup")
      BY <2>3, Zenon DEF lookupIdempotent, Goes, Answers, Replays
    <3>2. UNCHANGED <<message, req, last, delivered, unclear>> /\ pc[i] \in {"lookup", "reread"}
      BY <2>3 DEF lookupIdempotent, stored, history
    <3> QED
      BY <3>1, <3>2
  <2>4. CASE ListAccounts(i)
    BY <2>4 DEF ListAccounts, Goes, stored, history, NoMessage, Message
  <2>5. CASE CreateMessage(i)
    <3>1. CASE Goes(i, "reread") /\ UNCHANGED message
      BY <2>5, <3>1 DEF CreateMessage, Goes, history
    <3>2. CASE Goes(i, "next") /\ message' = [message EXCEPT ![i] = [NoMessage EXCEPT
                                                        !.status = "pending", !.key = req[i].key, !.text = req[i].text]]
      BY <2>5, <3>2 DEF CreateMessage, Goes, history, NoMessage
    <3> QED
      BY <2>5, <3>1, <3>2 DEF CreateMessage
  <2>6. CASE NextAccount(i)
    BY <2>6 DEF NextAccount, Goes, stored, history, NoMessage, Message
  <2>7. CASE WaitCancelled(i)
    BY <2>7 DEF WaitCancelled, Goes, stored, history, NoMessage, Message
  <2>8. CASE MarkSending(i)
    BY <2>8 DEF MarkSending, Goes, stored, history, NoMessage, Message
  <2>9. CASE Deliver(i)
    BY <2>9 DEF Deliver, Provider, Goes, stored, history, NoMessage, Message
  <2>10. CASE Refuse(i)
    BY <2>10 DEF Refuse, Provider, Goes, stored, history, NoMessage, Message
  <2>11. CASE TimesOut(i)
    BY <2>11 DEF TimesOut, Provider, Goes, stored, history, NoMessage, Message
  <2>12. CASE AppendAttempt(i)
    BY <2>12 DEF AppendAttempt, Goes, stored, history, NoMessage, Message
  <2>13. CASE AppendFails(i)
    BY <2>13 DEF AppendFails, Goes, stored, history, NoMessage, Message
  <2>14. CASE StoreSent(i)
    BY <2>14 DEF StoreSent, Answers, Goes, Releases, stored, history, NoMessage, Message
  <2>15. CASE markCooling(i)
    BY <2>15 DEF markCooling, Goes, stored, history, NoMessage, Message
  <2>16. CASE StoreFailed(i)
    BY <2>16 DEF StoreFailed, Answers, Goes, Releases, stored, history, NoMessage, Message
  <2>17. CASE WriteFails(i)
    BY <2>17 DEF WriteFails, Answers, Goes, Releases, stored, history, NoMessage, Message
  <2> QED
    BY <2>1, <2>2, <2>3, <2>4, <2>5, <2>6, <2>7, <2>8, <2>9, <2>10, <2>11, <2>12, <2>13, <2>14, <2>15, <2>16,
      <2>17 DEF SendSteps
<1>2. CASE \E e \in Editors :
             \/ CreateCheck(e) \/ CreateAccount(e) \/ GetAccount(e) \/ normalizeAccountInputForUpdate(e)
             \/ UpdateChecks(e) \/ UpdateAccount(e) \/ DeleteAccount(e)
             \/ SetCallerRouteFor(e) \/ DeleteCallerRouteFor(e)
  BY <1>2 DEF CreateCheck, CreateAccount, GetAccount, normalizeAccountInputForUpdate, UpdateChecks, UpdateAccount,
      DeleteAccount, SetCallerRouteFor, DeleteCallerRouteFor, Elsewhere, sending, history
<1>3. CASE CoolDown
  BY <1>3 DEF CoolDown, stored, sending, history
<1>4. CASE Crash
  BY <1>4 DEF Crash, stored, history
<1>5. CASE UNCHANGED vars
  BY <1>5 DEF vars, stored, sending, history
<1> QED
  BY <1>1, <1>2, <1>3, <1>4, <1>5 DEF Next

-----------------------------------------------------------------------------
(* Keys. *)

(* A step that stores a message stores it under its own key, and only if nobody else has it. *)
Stores(i) ==
    /\ \A j \in Calls \ {i} : message'[j] = message[j]
    /\ message[i].status # "none" => message'[i].status # "none"
    /\ message'[i].status # "none" => message'[i].key = req[i].key
    /\ message[i].status = "none" /\ message'[i].status # "none" /\ req[i].key # NoKey => KeyRow(req[i].key) = {}

(* The answer of a call, if it names a message, names one of its key. *)
Answering(i) ==
    /\ \A j \in Calls \ {i} : answer'[j] = answer[j]
    /\ answer'[i].id \in Calls /\ req[i].key # NoKey =>
          \/ answer'[i] = answer[i]
          \/ message'[answer'[i].id].status # "none" /\ message'[answer'[i].id].key = req[i].key

LEMMA StoringKeeps ==
    ASSUME TypeInv, CallInv, KeyInv, NEW i \in Calls, Stores(i), Answering(i), UNCHANGED req
    PROVE  KeyInv'
<1> USE DEF TypeInv, StoreTypes, CallTypes
<1>1. \A j \in Calls : message[j].status # "none" => message'[j].status # "none" /\ message'[j].key = message[j].key
  BY DEF Stores, CallInv, Recorded
<1>2. Unique'
  <2>1. SUFFICES ASSUME NEW j \in Calls, NEW k \in Calls, j # k,
                        message'[j].status # "none", message'[k].status # "none",
                        message'[j].key = message'[k].key, message'[j].key # NoKey
                 PROVE  FALSE
    BY DEF Unique
  <2>2. CASE message[j].status # "none" /\ message[k].status # "none"
    BY <1>1, <2>1, <2>2 DEF KeyInv, Unique
  <2>3. CASE message[j].status = "none"
    <3>1. j = i /\ message'[k] = message[k] /\ message[k].key = req[i].key
      BY <2>1, <2>3 DEF Stores
    <3>2. k \in KeyRow(req[i].key)
      BY <2>1, <3>1 DEF KeyRow
    <3> QED
      BY <2>1, <2>3, <3>1, <3>2 DEF Stores
  <2>4. CASE message[k].status = "none"
    <3>1. k = i /\ message'[j] = message[j] /\ message[j].key = req[i].key
      BY <2>1, <2>4 DEF Stores
    <3>2. j \in KeyRow(req[i].key)
      BY <2>1, <3>1 DEF KeyRow
    <3> QED
      BY <2>1, <2>4, <3>1, <3>2 DEF Stores
  <2> QED
    BY <2>2, <2>3, <2>4
<1>3. Answered'
  <2>1. SUFFICES ASSUME NEW j \in Calls, answer'[j].id \in Calls, req[j].key # NoKey
                 PROVE  message'[answer'[j].id].status # "none" /\ message'[answer'[j].id].key = req[j].key
    BY DEF Answered
  <2>2. CASE answer'[j] = answer[j]
    BY <1>1, <2>1, <2>2 DEF KeyInv, Answered
  <2>3. CASE answer'[j] # answer[j]
    BY <2>1, <2>3 DEF Answering
  <2> QED
    BY <2>2, <2>3
<1> QED
  BY <1>2, <1>3 DEF KeyInv

LEMMA InitKeys == ASSUME MailAssumption, Init PROVE KeyInv
BY DEF MailAssumption, Init, Start, KeyInv, Unique, Answered, NoMessage, NoAnswer

LEMMA StepKeys == ASSUME MailAssumption, TypeInv, CallInv, KeyInv, [Next]_vars PROVE KeyInv'
<1> USE DEF TypeInv, StoreTypes, CallTypes
<1>1. ASSUME NEW i \in Calls, SendSteps(i) \/ WaitCancelled(i) \/ TimesOut(i) \/ AppendFails(i) \/ WriteFails(i)
      PROVE  KeyInv'
  <2>0. UNCHANGED req
    BY <1>1, Zenon DEF SendSteps, Send, lookupIdempotent, ListAccounts, CreateMessage, NextAccount, WaitCancelled,
       MarkSending, Deliver, Refuse, TimesOut, AppendAttempt, AppendFails, StoreSent, markCooling, StoreFailed,
       WriteFails, Provider
  <2>1. Recorded(i) /\ message[i] \in Message
    BY DEF CallInv
  <2>2. CASE UNCHANGED <<message, answer>>
    BY <2>0, <2>1, <2>2, StoringKeeps DEF Stores, Answering, Recorded
  <2>3. CASE lookupIdempotent(i)
    <3>1. UNCHANGED message
      BY <2>3 DEF lookupIdempotent, stored
    <3>2. Answering(i)
      BY <2>3, <3>1 DEF lookupIdempotent, Replays, Answers, Answering, KeyRow, MailAssumption
    <3> QED
      BY <2>0, <2>1, <3>1, <3>2, StoringKeeps DEF Stores, Recorded
  <2>4. CASE CreateMessage(i)
    <3>1. message[i].status = "none" /\ UNCHANGED answer
      BY <2>1, <2>4 DEF CreateMessage, Recorded, Early
    <3>2. Stores(i)
      <4>1. CASE UNCHANGED message
        BY <2>1, <4>1 DEF Stores, Recorded
      <4>2. CASE /\ req[i].key = NoKey \/ KeyRow(req[i].key) = {}
                 /\ message' = [message EXCEPT ![i] = [NoMessage EXCEPT !.status = "pending", !.key = req[i].key,
                                                                      !.text = req[i].text]]
        BY <3>1, <4>2 DEF Stores, NoMessage
      <4> QED
        BY <2>4, <4>1, <4>2 DEF CreateMessage
    <3> QED
      BY <2>0, <3>1, <3>2, StoringKeeps DEF Answering
  <2>5. CASE MarkSending(i)
    BY <2>0, <2>1, <2>5, StoringKeeps DEF MarkSending, Stores, Answering, Recorded, Message, Between
  <2>6. CASE StoreSent(i)
    <3>1. message[i].status # "none" /\ message'[i].status = "sent" /\ message'[i].key = message[i].key
      BY <2>1, <2>6 DEF StoreSent, Recorded, Between, Tried, Message
    <3>2. Stores(i)
      BY <2>1, <2>6, <3>1 DEF StoreSent, Stores, Recorded
    <3>3. Answering(i)
      BY <2>1, <2>6, <3>1 DEF StoreSent, Answers, Answering, Recorded
    <3> QED
      BY <2>0, <3>2, <3>3, StoringKeeps
  <2>7. CASE StoreFailed(i)
    <3>1. message[i].status # "none" /\ message'[i].status = "failed" /\ message'[i].key = message[i].key
      BY <2>1, <2>7 DEF StoreFailed, Recorded, Between, Tried, Message
    <3>2. Stores(i)
      BY <2>1, <2>7, <3>1 DEF StoreFailed, Stores, Recorded
    <3>3. Answering(i)
      BY <2>1, <2>7, <3>1 DEF StoreFailed, Answers, Answering, Recorded
    <3> QED
      BY <2>0, <3>2, <3>3, StoringKeeps
  <2>8. CASE WriteFails(i)
    <3>1. Answering(i)
      BY <2>8 DEF WriteFails, Answers, Answering, MailAssumption
    <3>2. Stores(i)
      <4>1. CASE UNCHANGED message
        BY <2>1, <4>1 DEF Stores, Recorded
      <4>2. CASE message # message'
        <5>1. PICK st \in {"pending", "sending", "sent", "failed"} :
                message' = [message EXCEPT ![i].key = req[i].key, ![i].text = req[i].text, ![i].status = st]
          BY <2>8, <4>2 DEF WriteFails
        <5>2. message'[i].key = req[i].key /\ message'[i].status = st
          BY <2>1, <5>1 DEF Message
        <5>3. message[i].status = "none" => pc[i] = "create"
          BY <2>1, <2>8, <4>2 DEF WriteFails, Recorded, Between, Tried
        <5>4. pc[i] = "create" /\ req[i].key # NoKey => KeyRow(req[i].key) = {}
          BY <2>8, <4>2 DEF WriteFails
        <5> QED
          BY <5>1, <5>2, <5>3, <5>4 DEF Stores
      <4> QED
        BY <4>1, <4>2
    <3> QED
      BY <2>0, <3>1, <3>2, StoringKeeps
  <2> QED
    BY <1>1, <2>2, <2>3, <2>4, <2>5, <2>6, <2>7, <2>8 DEF SendSteps, Send, ListAccounts, NextAccount, WaitCancelled,
      Deliver, Refuse, TimesOut, AppendAttempt, AppendFails, markCooling,
       Provider, stored, sending
<1>2. CASE \E e \in Editors :
             \/ CreateCheck(e) \/ CreateAccount(e) \/ GetAccount(e) \/ normalizeAccountInputForUpdate(e)
             \/ UpdateChecks(e) \/ UpdateAccount(e) \/ DeleteAccount(e)
             \/ SetCallerRouteFor(e) \/ DeleteCallerRouteFor(e)
  BY <1>2 DEF KeyInv, Unique, Answered, CreateCheck, CreateAccount, GetAccount, normalizeAccountInputForUpdate,
    UpdateChecks, UpdateAccount,
      DeleteAccount, SetCallerRouteFor, DeleteCallerRouteFor, Elsewhere, sending, history
<1>3. CASE CoolDown
  BY <1>3 DEF KeyInv, Unique, Answered, CoolDown, stored, sending
<1>4. CASE Crash
  BY <1>4 DEF KeyInv, Unique, Answered, Crash, stored, MailAssumption
<1>5. CASE UNCHANGED vars
  BY <1>5 DEF KeyInv, Unique, Answered, vars, stored, sending
<1> QED
  BY <1>1, <1>2, <1>3, <1>4, <1>5 DEF Next

-----------------------------------------------------------------------------
(* Accounts. *)

LEMMA InitFresh == ASSUME Init PROVE FreshInv
BY DEF Init, Start, NewIdentifiers, FreshInv

LEMMA SendLeavesAccounts ==
    ASSUME NEW i \in Calls, SendSteps(i) \/ WaitCancelled(i) \/ TimesOut(i) \/ AppendFails(i) \/ WriteFails(i)
    PROVE  UNCHANGED <<account, editing>>
BY DEF SendSteps, Send, lookupIdempotent, ListAccounts, CreateMessage, NextAccount, WaitCancelled,
       MarkSending, Deliver, Refuse, TimesOut, AppendAttempt, AppendFails, StoreSent, markCooling, StoreFailed,
       WriteFails, Provider, stored

LEMMA StepFresh == ASSUME TypeInv, FreshInv, [Next]_vars PROVE FreshInv'
<1> USE DEF TypeInv, StoreTypes, EditTypes, FreshInv
<1>1. CASE \E i \in Calls : SendSteps(i) \/ WaitCancelled(i) \/ TimesOut(i) \/ AppendFails(i) \/ WriteFails(i)
  BY <1>1, SendLeavesAccounts DEF editing
<1>2. ASSUME NEW e \in Editors,
             \/ CreateCheck(e) \/ CreateAccount(e) \/ GetAccount(e) \/ normalizeAccountInputForUpdate(e)
             \/ UpdateChecks(e) \/ UpdateAccount(e) \/ DeleteAccount(e)
             \/ SetCallerRouteFor(e) \/ DeleteCallerRouteFor(e)
      PROVE  FreshInv'
  <2>1. CASE CreateCheck(e)
    BY <2>1 DEF CreateCheck, Edits
  <2>2. CASE CreateAccount(e)
    BY <2>2 DEF CreateAccount, Edits, Account, EditRequest
  <2>3. CASE GetAccount(e)
    BY <2>3 DEF GetAccount, Edits, Changes
  <2>4. CASE normalizeAccountInputForUpdate(e)
    BY <2>4 DEF normalizeAccountInputForUpdate, Edits, Changes
  <2>5. CASE UpdateChecks(e)
    BY <2>5 DEF UpdateChecks, Edits, Changes
  <2>6. CASE UpdateAccount(e)
    BY <2>6 DEF UpdateAccount, Edits, Changes, Account, EditRequest
  <2>7. CASE DeleteAccount(e)
    BY <2>7 DEF DeleteAccount, Edits, Account, EditRequest
  <2>8. CASE SetCallerRouteFor(e)
    BY <2>8 DEF SetCallerRouteFor, Edits
  <2>9. CASE DeleteCallerRouteFor(e)
    BY <2>9 DEF DeleteCallerRouteFor, Edits
  <2> QED
    BY <1>2, <2>1, <2>2, <2>3, <2>4, <2>5, <2>6, <2>7, <2>8, <2>9
<1>3. CASE CoolDown
  BY <1>3 DEF CoolDown, stored, editing
<1>4. CASE Crash
  BY <1>4 DEF Crash, stored
<1>5. CASE UNCHANGED vars
  BY <1>5 DEF vars, stored, editing
<1> QED
  BY <1>1, <1>2, <1>3, <1>4, <1>5 DEF Next

LEMMA DeletedStays ==
    ASSUME TypeInv, FreshInv, [Next]_vars, NEW a \in Accounts, account[a].state = "deleted"
    PROVE  account'[a] = account[a]
<1> USE DEF TypeInv, StoreTypes, EditTypes
<1>1. CASE \E i \in Calls : SendSteps(i) \/ WaitCancelled(i) \/ TimesOut(i) \/ AppendFails(i) \/ WriteFails(i)
  BY <1>1, SendLeavesAccounts
<1>2. CASE \E e \in Editors : CreateAccount(e)
  BY <1>2 DEF CreateAccount, Edits, FreshInv
<1>3. CASE \E e \in Editors : UpdateAccount(e) \/ DeleteAccount(e)
  BY <1>3 DEF UpdateAccount, DeleteAccount
<1>4. CASE UNCHANGED account
  BY <1>4
<1> QED
  BY <1>1, <1>2, <1>3, <1>4 DEF Next, CreateCheck, GetAccount, normalizeAccountInputForUpdate, UpdateChecks,
     SetCallerRouteFor, DeleteCallerRouteFor, CoolDown, Crash, vars, stored

-----------------------------------------------------------------------------
(* The theorems. *)

LEMMA Inductive == MailAssumption => (Spec => []MailInv)
<1> SUFFICES ASSUME MailAssumption PROVE Spec => []MailInv
  OBVIOUS
<1>1. Init => MailInv
  BY InitTypes, InitCalls, InitKeys, InitFresh DEF MailInv
<1>2. MailInv /\ [Next]_vars => MailInv'
  BY StepTypes, StepCalls, StepKeys, StepFresh DEF MailInv
<1> QED
  BY <1>1, <1>2, PTL DEF Spec

LEMMA OneInTheIndex == ASSUME KeyInv, NEW k \in Keys, MailAssumption PROVE Cardinality(KeyRow(k)) <= 1
<1>1. CASE KeyRow(k) = {}
  BY <1>1, FS_EmptySet
<1>2. CASE \E j \in Calls : j \in KeyRow(k)
  <2>1. PICK j \in Calls : j \in KeyRow(k)
    BY <1>2
  <2>2. KeyRow(k) = {j}
    BY <2>1 DEF KeyRow, KeyInv, Unique, MailAssumption
  <2>3. Cardinality({j}) = 1
    BY FS_Singleton
  <2>4. Cardinality(KeyRow(k)) = 1
    BY <2>2, <2>3
  <2> QED
    BY <2>4
<1> QED
  BY <1>1, <1>2 DEF KeyRow

LEMMA Implied == ASSUME MailAssumption, MailInv PROVE MailHolds
<1> USE DEF MailInv, TypeInv, StoreTypes, MemoryTypes, CallTypes, LastTypes, EditTypes, HistoryTypes
<1>1. TypeOK
  BY DEF TypeOK, Early, Between, Tried, Point
<1>2. OneMessagePerKey
  <2>1. ASSUME NEW i \in Calls, NEW j \in Calls, req[i].key = req[j].key, req[i].key # NoKey,
               NoCall \notin {answer[i].id, answer[j].id}
        PROVE  answer[i].id = answer[j].id
    <3>1. answer[i].id \in Calls /\ answer[j].id \in Calls
      BY <2>1 DEF Answer
    <3>2. /\ message[answer[i].id].status # "none" /\ message[answer[i].id].key = req[i].key
          /\ message[answer[j].id].status # "none" /\ message[answer[j].id].key = req[j].key
      BY <2>1, <3>1 DEF KeyInv, Answered
    <3> QED
      BY <2>1, <3>1, <3>2 DEF KeyInv, Unique
  <2> QED
    BY <2>1, OneInTheIndex DEF OneMessagePerKey
<1>3. DeliveredOnce
  <2>1. \A i \in Calls : delivered[i] <= 1 + unclear[i]
    BY DEF CallInv, Counted
  <2>2. ASSUME NEW i \in Calls, NEW j \in Calls, i # j, req[i].key = req[j].key, req[i].key # NoKey,
               delivered[i] # 0, delivered[j] # 0
        PROVE  FALSE
    <3>1. delivered[i] > 0 /\ delivered[j] > 0
      BY <2>2
    <3>2. /\ message[i].status # "none" /\ message[i].key = req[i].key
          /\ message[j].status # "none" /\ message[j].key = req[j].key
      BY <3>1 DEF CallInv, Recorded
    <3> QED
      BY <2>2, <3>2 DEF KeyInv, Unique
  <2> QED
    BY <2>1, <2>2 DEF DeliveredOnce
<1>4. RecordTrue
  BY DEF RecordTrue, CallInv, Recorded
<1> QED
  BY <1>1, <1>2, <1>3, <1>4 DEF MailHolds

(* Every variable of the mail keeps its type, for any number of calls, editors, servers, *)
(* accounts and keys.                                                                     *)
THEOREM TypeCorrect == MailAssumption => (Spec => []TypeOK)
<1> SUFFICES ASSUME MailAssumption PROVE Spec => []TypeOK
  OBVIOUS
<1>1. MailInv => TypeOK
  BY Implied DEF MailHolds
<1> QED
  BY <1>1, Inductive, PTL

(* There is one message for each key, all calls with it are answered with that message,  *)
(* no delivery is repeated that was not taken for a failure, and what a message records  *)
(* is true: for any number of calls on any number of servers, with every fault and crash. *)
THEOREM SentOnce == MailAssumption => (Spec => []MailHolds)
<1> SUFFICES ASSUME MailAssumption PROVE Spec => []MailHolds
  OBVIOUS
<1>1. MailInv => MailHolds
  BY Implied
<1> QED
  BY <1>1, Inductive, PTL

(* A deleted account stays deleted, for any number of administrators that create, change *)
(* and delete accounts meanwhile.                                                         *)
THEOREM DeletedAccountStays == MailAssumption => (Spec => DeletedForGood)
<1> SUFFICES ASSUME MailAssumption PROVE Spec => DeletedForGood
  OBVIOUS
<1>1. MailInv /\ [Next]_vars => [\A a \in Accounts : account[a].state = "deleted" => account'[a] = account[a]]_vars
  BY DeletedStays DEF MailInv
<1> QED
  BY <1>1, Inductive, PTL DEF Spec, DeletedForGood
=============================================================================
