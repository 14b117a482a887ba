------------------------------- MODULE Logins -------------------------------
(***************************************************************************)
(* What stands between a request and a session or an account: the rate     *)
(* limit, the captcha, the lockout, registration and the reset of a        *)
(* password (transport/http/auth, application/auth, platform/authplatform).*)
(*                                                                         *)
(* One step is one Redis command or script, one statement of the database, *)
(* or one critical section of the reset provider, whose tokens are memory  *)
(* of the server.  Counters live for a window from their first increment,  *)
(* the lock marker for as long from when it is set; time itself is left    *)
(* out.  The session that a login ends in is the subject of Sessions.      *)
(***************************************************************************)
EXTENDS Naturals, FiniteSets

CONSTANTS
    Clients,            \* requests in flight
    Usernames, Emails,  \* identifiers, told apart by the @
    Passwords,
    Tried,              \* identifiers that clients try to log in with
    NoEmail,
    Ann,                \* the row that is there at the start
    LockoutThreshold, RiskThreshold, RateLimit,
    MaxChallenges, MaxTokens, MaxFaults     \* bounds

Identifiers == Usernames \cup Emails

LoginsAssumption ==
    /\ Usernames \cap Emails = {} /\ NoEmail \notin Identifiers
    /\ Tried \subseteq Identifiers
    /\ Ann \in [username : Usernames, email : Emails \cup {NoEmail}, password : Passwords]
    /\ LockoutThreshold \in Nat \ {0} /\ RiskThreshold \in Nat \ {0} /\ RateLimit \in Nat \ {0}
    /\ MaxChallenges \in Nat /\ MaxTokens \in Nat /\ MaxFaults \in Nat

VARIABLES
    failures,   \* auth-fail, 0 when absent
    lock,       \* auth-lock
    younger,    \* the counter was begun after the lock was set
    risk,       \* failures that call for a captcha
    rate,       \* attempts in the window of the limiter
    open,       \* challenges that can be answered
    users,      \* rows of gvba_iam_users
    tokens,     \* reset tokens of the server
    pc, loc,
    issued,     \* challenges and tokens handed out
    wrong,      \* wrong passwords counted since the window or a success began
    bare,       \* those without a captcha that did not lock the account, likewise
    uses,       \* requests that each challenge and token let through
    faults

redis   == <<failures, lock, younger, risk, rate, open>>
history == <<wrong, bare, uses>>
vars    == <<redis, users, tokens, pc, loc, issued, history, faults>>

Point == {"idle", "risk", "captcha", "locked", "compare", "relocked", "count", "mark", "note",
          "unfail", "unlock", "unrisk", "deliver", "password"}
NoRequest == [id |-> NoEmail, guess |-> CHOOSE p \in Passwords : TRUE, ch |-> 0, right |-> FALSE,
          token |-> 0, asked |-> FALSE]

Init ==
    /\ failures = [i \in Tried |-> 0] /\ risk = [i \in Tried |-> 0] /\ rate = [i \in Tried |-> 0]
    /\ lock = [i \in Tried |-> FALSE] /\ younger = [i \in Tried |-> FALSE]
    /\ open = {} /\ tokens = {}
    /\ users = {Ann}
    /\ pc = [c \in Clients |-> "idle"] /\ loc = [c \in Clients |-> NoRequest]
    /\ issued = [challenge |-> 0, token |-> 0]
    /\ wrong = [i \in Tried |-> 0] /\ bare = [i \in Tried |-> 0]
    /\ uses = [challenge |-> [n \in 1..MaxChallenges |-> 0], token |-> [n \in 1..MaxTokens |-> 0]]
    /\ faults = 0

Id(c)     == loc[c].id
Goto(c, l) == pc' = [pc EXCEPT ![c] = l] /\ UNCHANGED loc
Done(c)   == pc' = [pc EXCEPT ![c] = "idle"] /\ loc' = [loc EXCEPT ![c] = NoRequest]
AddTo(f, i)  == [f EXCEPT ![i] = @ + 1]
Clear(f, i)  == [f EXCEPT ![i] = 0]

(* The tenant's row with the identifier as its name or as its address. *)
FindByIdentifier(i) == {u \in users : i \in {u.username, u.email}}

-----------------------------------------------------------------------------
(* A challenge is issued, and an attempt to log in begins. *)

IssueCaptcha(c) ==
    /\ pc[c] = "idle" /\ issued.challenge < MaxChallenges
    /\ issued' = [issued EXCEPT !.challenge = @ + 1]
    /\ open' = open \cup {issued.challenge + 1}
    /\ UNCHANGED <<failures, lock, younger, risk, rate, users, tokens, pc, loc, history, faults>>

(* The attempt is counted before anything else of it is looked at. *)
CheckRateLimit(c, i, guess, ch, right) ==
    /\ pc[c] = "idle"
    /\ ch = 0 => ~right
    /\ rate[i] < RateLimit
    /\ rate' = AddTo(rate, i)
    /\ pc' = [pc EXCEPT ![c] = "risk"]
    /\ loc' = [loc EXCEPT ![c] = [NoRequest EXCEPT !.id = i, !.guess = guess, !.ch = ch, !.right = right]]
    /\ UNCHANGED <<failures, lock, younger, risk, open, users, tokens, issued, history, faults>>

(* Mutant of Risky: one failure more than the threshold. *)
RiskyLate(i) == risk[i] > RiskThreshold

Risky(i) == risk[i] >= RiskThreshold

(* A client that sends a challenge has it verified in any case. *)
CaptchaRequired(c) == Risky(Id(c)) \/ loc[c].ch # 0

AskRisk(c) ==
    /\ pc[c] = "risk"
    /\ \/ ~CaptchaRequired(c) /\ Goto(c, "locked")
       \/ CaptchaRequired(c) /\ loc[c].ch = 0 /\ Done(c)
       \/ /\ CaptchaRequired(c) /\ loc[c].ch # 0
          /\ pc' = [pc EXCEPT ![c] = "captcha"] /\ loc' = [loc EXCEPT ![c].asked = TRUE]
    /\ UNCHANGED <<redis, users, tokens, issued, history, faults>>

Verified(c) == loc[c].ch \in open /\ loc[c].right

(* The password comes next; the challenge and its answer are done with. *)
Admit(c) ==
    /\ uses' = [uses EXCEPT !.challenge = AddTo(@, loc[c].ch)]
    /\ pc' = [pc EXCEPT ![c] = "locked"]
    /\ loc' = [loc EXCEPT ![c].ch = 0, ![c].right = FALSE]

(* TakeJSON: the challenge is gone, whatever the answer. *)
VerifyCaptcha(c) ==
    /\ pc[c] = "captcha"
    /\ open' = open \ {loc[c].ch}
    /\ IF Verified(c) THEN Admit(c) ELSE Done(c) /\ UNCHANGED uses
    /\ UNCHANGED <<failures, lock, younger, risk, rate, users, tokens, issued, wrong, bare, faults>>

IsLocked(c) ==
    /\ pc[c] = "locked"
    /\ IF lock[Id(c)] THEN Done(c) ELSE Goto(c, "compare")
    /\ UNCHANGED <<redis, users, tokens, issued, history, faults>>

Compare(c) ==
    /\ pc[c] = "compare"
    /\ IF \E u \in FindByIdentifier(Id(c)) : u.password = loc[c].guess
       THEN Goto(c, "unfail")
       ELSE Goto(c, "relocked")
    /\ UNCHANGED <<redis, users, tokens, issued, history, faults>>

-----------------------------------------------------------------------------
(* RecordFailure.  An answer "locked" is not counted as a risk. *)

StillUnlocked(c) ==
    /\ pc[c] = "relocked"
    /\ IF lock[Id(c)] THEN Done(c) ELSE Goto(c, "count")
    /\ UNCHANGED <<redis, users, tokens, issued, history, faults>>

Increment(c) ==
    LET i == Id(c) IN
    /\ pc[c] = "count"
    /\ failures' = AddTo(failures, i) /\ wrong' = AddTo(wrong, i)
    /\ younger' = IF failures[i] = 0 THEN [younger EXCEPT ![i] = lock[i]] ELSE younger
    /\ IF failures[i] + 1 < LockoutThreshold
       THEN Goto(c, "note") /\ bare' = IF loc[c].asked THEN bare ELSE AddTo(bare, i)
       ELSE Goto(c, "mark") /\ UNCHANGED bare
    /\ UNCHANGED <<lock, risk, rate, open, users, tokens, issued, uses, faults>>

MarkLocked(c) ==
    LET i == Id(c) IN
    /\ pc[c] = "mark"
    /\ lock' = [lock EXCEPT ![i] = TRUE] /\ younger' = [younger EXCEPT ![i] = FALSE]
    /\ Done(c)
    /\ UNCHANGED <<failures, risk, rate, open, users, tokens, issued, history, faults>>

RecordRisk(c) ==
    /\ pc[c] = "note"
    /\ risk' = AddTo(risk, Id(c))
    /\ Done(c)
    /\ UNCHANGED <<failures, lock, younger, rate, open, users, tokens, issued, history, faults>>

(* Reset: the right password clears the counter, then the marker, whoever  *)
(* set it meanwhile; once the session is there, the risk goes too.         *)
ResetFailures(c) ==
    LET i == Id(c) IN
    /\ pc[c] = "unfail"
    /\ failures' = Clear(failures, i) /\ wrong' = Clear(wrong, i)
    /\ Goto(c, "unlock")
    /\ UNCHANGED <<lock, younger, risk, rate, open, users, tokens, issued, bare, uses, faults>>

ResetLock(c) ==
    LET i == Id(c) IN
    /\ pc[c] = "unlock"
    /\ lock' = [lock EXCEPT ![i] = FALSE] /\ wrong' = Clear(wrong, i)
    /\ Goto(c, "unrisk")
    /\ UNCHANGED <<failures, younger, risk, rate, open, users, tokens, issued, bare, uses, faults>>

ResetRisk(c) ==
    LET i == Id(c) IN
    /\ pc[c] = "unrisk"
    /\ risk' = Clear(risk, i) /\ bare' = Clear(bare, i)
    /\ Done(c)
    /\ UNCHANGED <<failures, lock, younger, rate, open, users, tokens, issued, wrong, uses, faults>>

(* Windows end.  A counter begun before the lock was set ends before it. *)
ExpireFailures(i) ==
    /\ failures[i] > 0
    /\ failures' = Clear(failures, i) /\ wrong' = Clear(wrong, i)
    /\ UNCHANGED <<lock, younger, risk, rate, open, users, tokens, pc, loc, issued, bare, uses, faults>>

ExpireLock(i) ==
    /\ lock[i] /\ (failures[i] = 0 \/ younger[i])
    /\ lock' = [lock EXCEPT ![i] = FALSE]
    /\ UNCHANGED <<failures, younger, risk, rate, open, users, tokens, pc, loc, issued, history, faults>>

ExpireRisk(i) ==
    /\ risk[i] > 0
    /\ risk' = Clear(risk, i) /\ bare' = Clear(bare, i)
    /\ UNCHANGED <<failures, lock, younger, rate, open, users, tokens, pc, loc, issued, wrong, uses, faults>>

ExpireRate(i) ==
    /\ rate[i] > 0
    /\ rate' = Clear(rate, i)
    /\ UNCHANGED <<failures, lock, younger, risk, open, users, tokens, pc, loc, issued, history, faults>>

-----------------------------------------------------------------------------
(* Registration.  The name is taken for the key of the row and must be a   *)
(* user name: an address is put there too, and refused.                    *)

RowOf(i, password) ==
    [username |-> i, email |-> IF i \in Emails THEN i ELSE NoEmail, password |-> password]
Storable(row) == row.username \in Usernames
Taken(row)    ==
    \E u \in users : u.username = row.username \/ (row.email # NoEmail /\ u.email = row.email)

Register(c, i, password) ==
    LET row == RowOf(i, password) IN
    /\ pc[c] = "idle"
    /\ users' = IF Storable(row) /\ ~Taken(row) THEN users \cup {row} ELSE users
    /\ UNCHANGED <<redis, tokens, pc, loc, issued, wrong, bare, uses, faults>>

(* A request without an account, or without an address to write to, does   *)
(* nothing; another one ends the tokens issued for the same identifier.    *)
RequestReset(c, i) ==
    /\ pc[c] = "idle" /\ issued.token < MaxTokens
    /\ \E u \in FindByIdentifier(i) : u.email # NoEmail
    /\ issued' = [issued EXCEPT !.token = @ + 1]
    /\ tokens' = {t \in tokens : t.for # i} \cup {[id |-> issued.token + 1, for |-> i]}
    /\ pc' = [pc EXCEPT ![c] = "deliver"]
    /\ loc' = [loc EXCEPT ![c] = [NoRequest EXCEPT !.id = i, !.token = issued.token + 1]]
    /\ UNCHANGED <<redis, users, history, faults>>

(* The letter goes out; if it cannot, its token is removed. *)
Deliver(c) ==
    /\ pc[c] = "deliver"
    /\ \/ UNCHANGED <<tokens, faults>>
       \/ /\ faults < MaxFaults /\ faults' = faults + 1
          /\ tokens' = {t \in tokens : t.id # loc[c].token}
    /\ Done(c)
    /\ UNCHANGED <<redis, users, issued, history>>

Consume(c, t, password) ==
    /\ pc[c] = "idle" /\ t \in tokens
    /\ tokens' = tokens \ {t}
    /\ uses' = [uses EXCEPT !.token = AddTo(@, t.id)]
    /\ pc' = [pc EXCEPT ![c] = "password"]
    /\ loc' = [loc EXCEPT ![c] = [NoRequest EXCEPT !.id = t.for, !.guess = password]]
    /\ UNCHANGED <<redis, users, issued, wrong, bare, faults>>

(* The columns that count failures are cleared; the lockout is in Redis. *)
UpdatePassword(c) ==
    /\ pc[c] = "password"
    /\ users' = {IF u \in FindByIdentifier(Id(c)) THEN [u EXCEPT !.password = loc[c].guess] ELSE u
                 : u \in users}
    /\ Done(c)
    /\ UNCHANGED <<redis, tokens, issued, history, faults>>

-----------------------------------------------------------------------------
(* A command fails and the request with it, or the server starts again,    *)
(* without its tokens.                                                     *)
Fault(c) ==
    /\ pc[c] \notin {"idle", "deliver"} /\ faults < MaxFaults /\ faults' = faults + 1
    /\ Done(c)
    /\ UNCHANGED <<redis, users, tokens, issued, history>>

Restart ==
    /\ faults < MaxFaults /\ faults' = faults + 1
    /\ tokens' = {}
    /\ pc' = [c \in Clients |-> "idle"] /\ loc' = [c \in Clients |-> NoRequest]
    /\ UNCHANGED <<redis, users, issued, history>>

Next ==
    \/ \E c \in Clients :
        \/ IssueCaptcha(c)
        \/ \E i \in Tried, p \in Passwords, ch \in 0..issued.challenge, right \in BOOLEAN :
              CheckRateLimit(c, i, p, ch, right)
        \/ AskRisk(c) \/ VerifyCaptcha(c) \/ IsLocked(c) \/ Compare(c)
        \/ StillUnlocked(c) \/ Increment(c) \/ MarkLocked(c) \/ RecordRisk(c)
        \/ ResetFailures(c) \/ ResetLock(c) \/ ResetRisk(c)
        \/ \E i \in Identifiers, p \in Passwords : Register(c, i, p)
        \/ \E i \in Identifiers : RequestReset(c, i)
        \/ \E t \in tokens, p \in Passwords : Consume(c, t, p)
        \/ Deliver(c) \/ UpdatePassword(c) \/ Fault(c)
    \/ \E i \in Tried : ExpireFailures(i) \/ ExpireLock(i) \/ ExpireRisk(i) \/ ExpireRate(i)
    \/ Restart

Spec == Init /\ [][Next]_vars

-----------------------------------------------------------------------------
(* Properties. *)

(* Every variable has its type. *)
TypeOK ==
    /\ failures \in [Tried -> Nat] /\ risk \in [Tried -> Nat] /\ rate \in [Tried -> 0..RateLimit]
    /\ lock \in [Tried -> BOOLEAN] /\ younger \in [Tried -> BOOLEAN]
    /\ open \subseteq 1..MaxChallenges
    /\ users \subseteq [username : Usernames, email : Emails \cup {NoEmail}, password : Passwords]
    /\ tokens \subseteq [id : 1..MaxTokens, for : Identifiers]
    /\ pc \in [Clients -> Point]
    /\ wrong \in [Tried -> Nat] /\ bare \in [Tried -> Nat]
    /\ faults \in 0..MaxFaults

(* However logins interleave, fail half-way and undo each other's lock, an *)
(* account counts no more wrong passwords in a window than the threshold   *)
(* allows and those that were in flight or cut off before they counted;    *)
(* likewise those that come without a captcha.                             *)
Slack == Cardinality(Clients) - 1 + Cardinality(Clients) * faults
GuessesBounded ==
    \A i \in Tried : wrong[i] <= LockoutThreshold + Slack /\ bare[i] <= RiskThreshold + Slack

(* A captcha and a reset token let one request through at most. *)
SpentOnce ==
    /\ \A n \in DOMAIN uses.challenge : uses.challenge[n] <= 1
    /\ \A n \in DOMAIN uses.token : uses.token[n] <= 1
=============================================================================
