---------------------------- MODULE SessionsProofs ----------------------------
(***************************************************************************)
(* What Sessions keeps for any number of calls, sessions and tokens,       *)
(* whatever crashes, fails or outlives its lock: no refresh token buys two *)
(* pairs, and no ended session yields one.  The locks of Redis are not     *)
(* needed for either: the compare in the journal's transaction decides.    *)
(* Only that nobody is locked out of a session needs them, and that        *)
(* nothing fails.  At the end: the runs of tasks keep what is proved of    *)
(* them when MCCalls puts them beside the sessions.                        *)
(***************************************************************************)
EXTENDS MCCalls, TLAPS

-----------------------------------------------------------------------------
(* Types. *)

LEMMA IdleLocal == Idle \in Local
BY DEF Idle, Local, Op, NoEntry, Session, Token

LEMMA InitTypes == Init => TypeOK
<1> SUFFICES ASSUME Init PROVE TypeOK
  OBVIOUS
<1>1. NoEntry \in Session
  BY DEF NoEntry, Session, Token
<1> QED
  BY <1>1, IdleLocal DEF Init, TypeOK, Point, Sid

(* A call goes on, or returns, with locals of their type. *)
LEMMA GoTypes ==
    ASSUME TypeOK, NEW c \in Clients, NEW l \in Point, Go(c, l),
           NEW m \in Local, loc' = [loc EXCEPT ![c] = m],
           l # "idle" => m.sid \in SessionIds
    PROVE  /\ pc' \in [Clients -> Point] /\ loc' \in [Clients -> Local]
           /\ \A d \in Clients : pc'[d] # "idle" => Sid(d)' \in SessionIds
BY DEF TypeOK, Go, Sid

LEMMA ReturnTypes ==
    ASSUME TypeOK, NEW c \in Clients, Return(c)
    PROVE  /\ pc' \in [Clients -> Point] /\ loc' \in [Clients -> Local]
           /\ \A d \in Clients : pc'[d] # "idle" => Sid(d)' \in SessionIds
BY IdleLocal, GoTypes DEF Return, Point

(* A step within a call changes where it is, and what it remembers. *)
LEMMA StepTypes ==
    ASSUME TypeOK, NEW c \in Clients, pc[c] # "idle", NEW l \in Point,
           Step(c, l) \/ Read(c, l) \/ Fail(c, l)
    PROVE  /\ pc' \in [Clients -> Point] /\ loc' \in [Clients -> Local]
           /\ \A d \in Clients : pc'[d] # "idle" => Sid(d)' \in SessionIds
<1>1. Sid(c) \in SessionIds /\ cache[Sid(c)] \in Session /\ loc[c] \in Local
  BY DEF TypeOK
<1>2. CASE Step(c, l)
  BY <1>2 DEF TypeOK, Step, Go, Sid
<1>3. CASE Read(c, l)
  <2>1. [loc[c] EXCEPT !.copy = cache[Sid(c)]] \in Local
    BY <1>1 DEF Local
  <2> QED
    BY <1>1, <1>3, <2>1 DEF TypeOK, Read, Go, Sid, Local
<1>4. CASE Fail(c, l)
  <2>1. [loc[c] EXCEPT !.ok = FALSE] \in Local
    BY <1>1 DEF Local
  <2> QED
    BY <1>1, <1>4, <2>1 DEF TypeOK, Fail, Go, Sid, Local
<1> QED
  BY <1>2, <1>3, <1>4

(* Refresh: everything between the call and the journal. *)
LEMMA RotationKeepsTypes ==
    ASSUME TypeOK, NEW c \in Clients,
           RefreshCheck(c) \/ RotateLock(c) \/ RotateRead(c) \/ RotateWrite(c) \/ RotateUnlock(c)
    PROVE  TypeOK'
<1>1. CASE RefreshCheck(c)
  <2>1. CASE Return(c) /\ UNCHANGED nextToken
    BY <1>1, <2>1, ReturnTypes DEF RefreshCheck, TypeOK, stores, locks, Failure
  <2>2. CASE nextToken' = nextToken + 1 /\ loc' = [loc EXCEPT ![c].next = nextToken] /\ Go(c, "rlock")
    <3>1. [loc[c] EXCEPT !.next = nextToken] \in Local /\ Sid(c) \in SessionIds
      BY <1>1 DEF RefreshCheck, TypeOK, Local, Token
    <3>2. "rlock" \in Point
      BY DEF Point
    <3>3. loc' = [loc EXCEPT ![c] = [loc[c] EXCEPT !.next = nextToken]]
      BY <2>2 DEF TypeOK
    <3>4. [loc[c] EXCEPT !.next = nextToken].sid = Sid(c)
      BY DEF TypeOK, Local, Sid
    <3>5. /\ pc' \in [Clients -> Point] /\ loc' \in [Clients -> Local]
          /\ \A d \in Clients : pc'[d] # "idle" => Sid(d)' \in SessionIds
      BY <2>2, <3>1, <3>2, <3>3, <3>4, GoTypes
    <3> QED
      BY <1>1, <2>2, <3>5 DEF RefreshCheck, TypeOK, stores, locks, Failure
  <2> QED
    BY <1>1, <2>1, <2>2 DEF RefreshCheck
<1>2. CASE RotateLock(c)
  BY <1>2, ReturnTypes, StepTypes DEF RotateLock, TypeOK, stores, locks, log, Point
<1>3. CASE RotateRead(c)
  BY <1>3, StepTypes DEF RotateRead, TypeOK, stores, locks, log, Point
<1>4. CASE RotateWrite(c)
  <2>1. [loc[c].copy EXCEPT !.jti = loc[c].next] \in Session
    BY DEF TypeOK, Local, Session
  <2> QED
    BY <1>4, <2>1, StepTypes DEF RotateWrite, TypeOK, locks, log, Point
<1>5. CASE RotateUnlock(c)
  BY <1>5, ReturnTypes, StepTypes DEF RotateUnlock, AfterRotate, TypeOK, stores, locks, log, Point
<1> QED
  BY <1>1, <1>2, <1>3, <1>4, <1>5

LEMMA JournalKeepsTypes ==
    ASSUME TypeOK, NEW c \in Clients,
           CacheCreate(c) \/ JournalCreate(c) \/ JournalRotate(c) \/ JournalRevoke(c)
    PROVE  TypeOK'
<1>1. loc[c] \in Local /\ loc[c].next \in Token
  BY DEF TypeOK, Local
<1>2. \A s \in SessionIds : journal[s] \in Session
  BY DEF TypeOK
<1>3. CASE CacheCreate(c)
  <2>1. [status |-> "active", jti |-> loc[c].next] \in Session
    BY <1>1 DEF Session
  <2> QED
    BY <1>3, <2>1, StepTypes DEF CacheCreate, TypeOK, locks, log, Point
<1>4. CASE JournalCreate(c)
  <2>1. [status |-> "active", jti |-> loc[c].next] \in Session
    BY <1>1 DEF Session
  <2> QED
    BY <1>4, <2>1, StepTypes DEF JournalCreate, TypeOK, locks, log, Point
<1>5. CASE JournalRotate(c)
  <2>1. Sid(c) \in SessionIds => [journal[Sid(c)] EXCEPT !.jti = loc[c].next] \in Session
    BY <1>1, <1>2 DEF Session
  <2>2. journal' \in [SessionIds -> Session]
    BY <1>5, <2>1 DEF JournalRotate, TypeOK
  <2>3. /\ pc' \in [Clients -> Point] /\ loc' \in [Clients -> Local]
        /\ \A d \in Clients : pc'[d] # "idle" => Sid(d)' \in SessionIds
    BY <1>5, StepTypes DEF JournalRotate, Point
  <2> QED
    BY <1>5, <2>2, <2>3 DEF JournalRotate, TypeOK, locks, log
<1>6. CASE JournalRevoke(c)
  <2>1. Sid(c) \in SessionIds => [journal[Sid(c)] EXCEPT !.status = "revoked"] \in Session
    BY <1>2 DEF Session
  <2>2. journal' \in [SessionIds -> Session]
    BY <1>6, <2>1 DEF JournalRevoke, TypeOK
  <2>3. /\ pc' \in [Clients -> Point] /\ loc' \in [Clients -> Local]
        /\ \A d \in Clients : pc'[d] # "idle" => Sid(d)' \in SessionIds
    BY <1>6, StepTypes, ReturnTypes DEF JournalRevoke, Point
  <2> QED
    BY <1>6, <2>2, <2>3 DEF JournalRevoke, TypeOK, locks, log
<1> QED
  BY <1>3, <1>4, <1>5, <1>6

LEMMA RevokeKeepsTypes ==
    ASSUME TypeOK, NEW c \in Clients,
           RevokeCheck(c) \/ RevokeLock(c) \/ RevokeRead(c) \/ RevokeWrite(c) \/ RevokeUnlock(c)
    PROVE  TypeOK'
<1>1. CASE RevokeCheck(c)
  BY <1>1, ReturnTypes, StepTypes DEF RevokeCheck, TypeOK, stores, locks, log, Point
<1>2. CASE RevokeLock(c)
  BY <1>2, ReturnTypes, StepTypes DEF RevokeLock, TypeOK, stores, locks, log, Point
<1>3. CASE RevokeRead(c)
  <2>1. CASE Read(c, "vset")
    BY <1>3, <2>1, StepTypes DEF RevokeRead, TypeOK, stores, locks, log, Point
  <2>2. CASE Go(c, "vunlock") /\ loc' = [loc EXCEPT ![c].ok = loc[c].op = "revoke"]
    <3> DEFINE m == [loc[c] EXCEPT !.ok = (loc[c].op = "revoke")]
    <3>1. m \in Local /\ m.sid = Sid(c) /\ Sid(c) \in SessionIds
      BY <1>3 DEF RevokeRead, TypeOK, Local, Sid
    <3>2. loc' = [loc EXCEPT ![c] = m] /\ Go(c, "vunlock")
      BY <2>2 DEF TypeOK
    <3>3. "vunlock" \in Point
      BY DEF Point
    <3>4. /\ pc' \in [Clients -> Point] /\ loc' \in [Clients -> Local]
          /\ \A d \in Clients : pc'[d] # "idle" => Sid(d)' \in SessionIds
      <4> HIDE DEF m
      <4> QED
        BY <3>1, <3>2, <3>3, GoTypes
    <3> QED
      BY <1>3, <3>4 DEF RevokeRead, TypeOK, stores, locks, log
  <2> QED
    BY <1>3, <2>1, <2>2 DEF RevokeRead
<1>4. CASE RevokeWrite(c)
  <2>1. [loc[c].copy EXCEPT !.status = "revoked"] \in Session
    BY DEF TypeOK, Local, Session
  <2> QED
    BY <1>4, <2>1, StepTypes DEF RevokeWrite, TypeOK, locks, log, Point
<1>5. CASE RevokeUnlock(c)
  BY <1>5, ReturnTypes, StepTypes DEF RevokeUnlock, AfterRevoke, TypeOK, stores, locks, log, Point
<1> QED
  BY <1>1, <1>2, <1>3, <1>4, <1>5

(* The calls themselves. *)
LEMMA CallsKeepTypes ==
    ASSUME TypeOK, NEW c \in Clients,
           \/ \E s \in SessionIds : LoginCall(c, s) \/ LogoutCall(c, s) \/ RevokeCall(c, s)
           \/ \E p \in pairs : RefreshCall(c, p)
    PROVE  TypeOK'
<1>1. ASSUME NEW s \in SessionIds, LoginCall(c, s) PROVE TypeOK'
  <2> DEFINE m == [Idle EXCEPT !.op = "login", !.sid = s, !.next = nextToken]
  <2>1. m \in Local /\ m.sid = s
    BY DEF TypeOK, Idle, Local, Op, Token, NoEntry, Session
  <2>2. loc' = [loc EXCEPT ![c] = m] /\ Go(c, "create")
    BY <1>1 DEF LoginCall
  <2>3. "create" \in Point
    BY DEF Point
  <2>4. /\ pc' \in [Clients -> Point] /\ loc' \in [Clients -> Local]
        /\ \A d \in Clients : pc'[d] # "idle" => Sid(d)' \in SessionIds
    <3> HIDE DEF m
    <3> QED
      BY <2>1, <2>2, <2>3, GoTypes
  <2>5. /\ UNCHANGED <<stores, locks, pairs, asked, failures>>
        /\ opened' = opened \cup {s} /\ nextToken' = nextToken + 1
    BY <1>1 DEF LoginCall
  <2> QED
    BY <2>4, <2>5 DEF TypeOK, stores, locks
<1>2. ASSUME NEW s \in SessionIds, LogoutCall(c, s) PROVE TypeOK'
  <2> DEFINE m == [Idle EXCEPT !.op = "logout", !.sid = s]
  <2>1. m \in Local /\ m.sid = s
    BY DEF TypeOK, Idle, Local, Op, Token, NoEntry, Session
  <2>2. loc' = [loc EXCEPT ![c] = m] /\ Go(c, "vlock")
    BY <1>2 DEF LogoutCall
  <2>3. "vlock" \in Point
    BY DEF Point
  <2>4. /\ pc' \in [Clients -> Point] /\ loc' \in [Clients -> Local]
        /\ \A d \in Clients : pc'[d] # "idle" => Sid(d)' \in SessionIds
    <3> HIDE DEF m
    <3> QED
      BY <2>1, <2>2, <2>3, GoTypes
  <2>5. /\ UNCHANGED <<stores, locks, opened, nextToken, pairs, failures>>
        /\ asked' = asked \cup {s}
    BY <1>2 DEF LogoutCall
  <2> QED
    BY <2>4, <2>5 DEF TypeOK, stores, locks
<1>3. ASSUME NEW s \in SessionIds, RevokeCall(c, s) PROVE TypeOK'
  <2> DEFINE m == [Idle EXCEPT !.op = "revoke", !.sid = s]
  <2>1. m \in Local /\ m.sid = s
    BY DEF TypeOK, Idle, Local, Op, Token, NoEntry, Session
  <2>2. loc' = [loc EXCEPT ![c] = m] /\ Go(c, "list")
    BY <1>3 DEF RevokeCall
  <2>3. "list" \in Point
    BY DEF Point
  <2>4. /\ pc' \in [Clients -> Point] /\ loc' \in [Clients -> Local]
        /\ \A d \in Clients : pc'[d] # "idle" => Sid(d)' \in SessionIds
    <3> HIDE DEF m
    <3> QED
      BY <2>1, <2>2, <2>3, GoTypes
  <2>5. /\ UNCHANGED <<stores, locks, opened, nextToken, pairs, failures>>
        /\ asked' = asked \cup {s}
    BY <1>3 DEF RevokeCall
  <2> QED
    BY <2>4, <2>5 DEF TypeOK, stores, locks
<1>4. ASSUME NEW p \in pairs, RefreshCall(c, p) PROVE TypeOK'
  <2> DEFINE m == [Idle EXCEPT !.op = "refresh", !.sid = p.sid, !.used = p.jti,
                               !.late = journal[p.sid].status = "revoked"]
  <2>1. p.sid \in SessionIds /\ p.jti \in Token
    BY DEF TypeOK, Pair
  <2>2. m \in Local /\ m.sid = p.sid
    BY <2>1 DEF Idle, Local, Op, Token, NoEntry, Session
  <2>3. loc' = [loc EXCEPT ![c] = m] /\ Go(c, "get")
    BY <1>4 DEF RefreshCall
  <2>4. "get" \in Point
    BY DEF Point
  <2>5. /\ pc' \in [Clients -> Point] /\ loc' \in [Clients -> Local]
        /\ \A d \in Clients : pc'[d] # "idle" => Sid(d)' \in SessionIds
    <3> HIDE DEF m
    <3> QED
      BY <2>1, <2>2, <2>3, <2>4, GoTypes
  <2> QED
    BY <1>4, <2>5 DEF RefreshCall, TypeOK, stores, locks, log
<1> QED
  BY <1>1, <1>2, <1>3, <1>4

LEMMA EndsKeepTypes ==
    ASSUME TypeOK, NEW c \in Clients, Audit(c) \/ Fault(c) \/ Crash(c)
    PROVE  TypeOK'
<1>1. CASE Audit(c)
  <2>1. loc[c] \in Local /\ Sid(c) \in SessionIds
    BY <1>1 DEF Audit, TypeOK
  <2>2. [sid |-> Sid(c), used |-> loc[c].used, jti |-> loc[c].next] \in Pair
    BY <2>1 DEF Pair, Local
  <2>3. pairs' \subseteq Pair
    BY <1>1, <2>2 DEF Audit, TypeOK
  <2> QED
    BY <1>1, <2>3, ReturnTypes DEF Audit, TypeOK, stores, locks
<1>2. CASE Fault(c)
  <2>1. Return(c) \/ \E l \in Point \ {"idle"} : Fail(c, l) \/ Step(c, l)
    BY <1>2 DEF Fault, AfterRotate, AfterRevoke, Point
  <2>2. /\ pc' \in [Clients -> Point] /\ loc' \in [Clients -> Local]
        /\ \A d \in Clients : pc'[d] # "idle" => Sid(d)' \in SessionIds
    <3>1. pc[c] # "idle"
      BY <1>2 DEF Fault
    <3> QED
      BY <2>1, <3>1, ReturnTypes, StepTypes
  <2> QED
    BY <1>2, <2>2 DEF Fault, Failure, TypeOK, stores, locks, log
<1>3. CASE Crash(c)
  BY <1>3, ReturnTypes DEF Crash, Failure, TypeOK, stores, locks, log
<1> QED
  BY <1>1, <1>2, <1>3

LEMMA ExpiryKeepsTypes ==
    ASSUME TypeOK, NEW s \in SessionIds, ExpireRotateLock(s) \/ ExpireRevokeLock(s)
    PROVE  TypeOK'
BY DEF TypeOK, ExpireRotateLock, ExpireRevokeLock, TimesOut, Failure, stores, log, Sid

LEMMA NextKeepsTypes == ASSUME TypeOK, [Next]_vars PROVE TypeOK'
<1>1. CASE UNCHANGED vars
  BY <1>1 DEF TypeOK, vars, stores, locks, log, Sid
<1>2. ASSUME NEW c \in Clients, Call(c) PROVE TypeOK'
  BY <1>2, RotationKeepsTypes, JournalKeepsTypes, RevokeKeepsTypes, CallsKeepTypes, EndsKeepTypes DEF Call
<1> QED
  BY <1>1, <1>2, ExpiryKeepsTypes DEF Next

(* Every variable of the calls, the locks and the two stores keeps its     *)
(* type, whatever fails, crashes or stalls.                                *)
THEOREM TypeCorrect == Spec => []TypeOK
BY InitTypes, NextKeepsTypes, PTL DEF Spec

-----------------------------------------------------------------------------
(* The invariant behind SingleUse and NoPairAfterEnd.  The tokens of a     *)
(* session are presented and issued in increasing order, and what has      *)
(* bought a pair is below what the journal expects.                        *)

(* The call signs pairs in, and has the journal's consent at "audit". *)
Buys(c)    == loc[c].op \in {"login", "refresh"}
Granted(c) == pc[c] = "audit" /\ Buys(c)

Opening  == {"create", "jcreate"}
Rotation == {"rlock", "rget", "rset", "runlock", "jrotate"}

(* Where a call is tells what kind of call it is, and the order of tokens. *)
Shaped(c) ==
    /\ pc[c] = "idle" => loc[c].op = "none"
    /\ pc[c] \in Opening => loc[c].op = "login" /\ loc[c].used < loc[c].next
    /\ pc[c] = "get" => loc[c].op = "refresh"
    /\ pc[c] \in Rotation => loc[c].op = "refresh" /\ loc[c].used < loc[c].next
    /\ pc[c] = "jrevoke" => loc[c].op \in {"logout", "revoke"}
    /\ pc[c] = "audit" => Buys(c) \/ loc[c].op = "logout"
    /\ loc[c].used < nextToken /\ loc[c].next < nextToken

(* A token that bought a pair is behind the journal. *)
Spent(c) ==
    /\ Granted(c) => loc[c].used < journal[Sid(c)].jti
    /\ Buys(c) => Sid(c) \in opened

(* A Refresh that began after the end finds the journal revoked. *)
Ended(c) ==
    /\ loc[c].op = "refresh" /\ loc[c].late => journal[Sid(c)].status = "revoked"
    /\ Granted(c) /\ loc[c].op = "refresh" => ~loc[c].late

(* While Login opens a session nobody else can have a token of it. *)
Opens(c) ==
    pc[c] \in Opening =>
        /\ \A p \in pairs : p.sid # Sid(c)
        /\ \A d \in Clients \ {c} : Buys(d) => Sid(d) # Sid(c)

PairsInv ==
    /\ \A p \in pairs : /\ p.used < journal[p.sid].jti
                        /\ p.jti < nextToken
                        /\ p.sid \in opened
    /\ SingleUse
    /\ \A c \in Clients, p \in pairs : Granted(c) /\ Sid(c) = p.sid => loc[c].used # p.used
    /\ \A c, d \in Clients :
          Granted(c) /\ Granted(d) /\ Sid(c) = Sid(d) /\ loc[c].used = loc[d].used => c = d

TokensInv == PairsInv /\ \A c \in Clients : Shaped(c) /\ Spent(c) /\ Ended(c) /\ Opens(c)

(* Most steps go on within a call or end it, and touch no pair, no row of  *)
(* the journal and no other call.                                          *)
Inner(c) ==
    /\ UNCHANGED <<journal, pairs, opened>> /\ nextToken' \in Nat /\ nextToken <= nextToken'
    /\ \A d \in Clients \ {c} : pc'[d] = pc[d] /\ loc'[d] = loc[d]
    /\ Shaped(c)'
    /\ \/ loc'[c].op \notin {"login", "refresh"}
       \/ /\ loc'[c].op = loc[c].op /\ loc'[c].sid = loc[c].sid
          /\ loc'[c].used = loc[c].used /\ loc'[c].late = loc[c].late
          /\ pc'[c] = "audit" => pc[c] = "audit"
          /\ pc'[c] \in Opening => pc[c] \in Opening

LEMMA InnerKeeps == ASSUME TypeOK, TokensInv, NEW c \in Clients, Inner(c) PROVE TokensInv'
<1>1. \A d \in Clients : Granted(d)' => /\ Granted(d) /\ Sid(d)' = Sid(d)
                                        /\ loc'[d].used = loc[d].used /\ loc'[d].op = loc[d].op
  BY DEF Inner, Granted, Buys, Sid
<1>2. \A d \in Clients : Buys(d)' => Buys(d) /\ Sid(d)' = Sid(d)
  BY DEF Inner, Buys, Sid
<1>3. PairsInv'
  BY <1>1 DEF TypeOK, TokensInv, PairsInv, Inner, SingleUse, Pair, Token
<1>4. ASSUME NEW d \in Clients PROVE Shaped(d)'
  <2>1. CASE d = c
    BY <2>1 DEF Inner
  <2>2. CASE d # c
    BY <2>2 DEF TypeOK, TokensInv, Shaped, Buys, Inner, Local, Token
  <2> QED
    BY <2>1, <2>2
<1>5. ASSUME NEW d \in Clients PROVE Spent(d)' /\ Ended(d)'
  <2>1. Spent(d)'
    BY <1>1, <1>2 DEF TokensInv, Spent, Inner
  <2>2. loc'[d].op = "refresh" => loc[d].op = "refresh" /\ Sid(d)' = Sid(d) /\ loc'[d].late = loc[d].late
    BY DEF Inner, Sid
  <2>3. Ended(d)'
    BY <1>1, <2>2 DEF TokensInv, Ended, Inner
  <2> QED
    BY <2>1, <2>3
<1>6. ASSUME NEW d \in Clients PROVE Opens(d)'
  <2>1. pc'[d] \in Opening => pc[d] \in Opening /\ Sid(d)' = Sid(d)
    BY <1>4 DEF Inner, Shaped, Buys, Sid
  <2> QED
    BY <1>2, <2>1 DEF TokensInv, Opens, Inner
<1> QED
  BY <1>3, <1>4, <1>5, <1>6 DEF TokensInv

LEMMA ReturnInner ==
    ASSUME TypeOK, NEW c \in Clients, Return(c), UNCHANGED <<journal, log>>
    PROVE  Inner(c)
BY DEF TypeOK, Return, Go, log, Inner, Shaped, Buys, Idle, Opening, Rotation, Local, Token

(* Within a call: to a point that asks no more of the locals. *)
LEMMA StepInner ==
    ASSUME TypeOK, TokensInv, NEW c \in Clients, UNCHANGED <<journal, log>>,
           NEW l \in Point \ {"idle", "create", "get"}, Step(c, l) \/ Read(c, l) \/ Fail(c, l),
           l = "jcreate" => pc[c] = "create",
           l \in Rotation => pc[c] \in Rotation,
           l = "jrevoke" => loc[c].op \in {"logout", "revoke"},
           l = "audit" => loc[c].op = "logout"
    PROVE  Inner(c)
<1>1. /\ pc' = [pc EXCEPT ![c] = l]
      /\ \A d \in Clients \ {c} : loc'[d] = loc[d]
      /\ loc'[c].op = loc[c].op /\ loc'[c].sid = loc[c].sid /\ loc'[c].late = loc[c].late
      /\ loc'[c].used = loc[c].used /\ loc'[c].next = loc[c].next
  BY DEF TypeOK, Step, Read, Fail, Go, Local
<1>2. Shaped(c)'
  BY <1>1 DEF TypeOK, TokensInv, Shaped, Buys, log, Opening, Rotation
<1> QED
  BY <1>1, <1>2 DEF TypeOK, TokensInv, Inner, log, Opening, Rotation

LEMMA RotationKeepsTokens ==
    ASSUME TypeOK, TokensInv, NEW c \in Clients,
           RefreshCheck(c) \/ RotateLock(c) \/ RotateRead(c) \/ RotateWrite(c) \/ RotateUnlock(c)
    PROVE  TokensInv'
<1>1. CASE RefreshCheck(c)
  <2>1. CASE Return(c) /\ UNCHANGED nextToken
    BY <1>1, <2>1, ReturnInner, InnerKeeps DEF RefreshCheck, stores, log
  <2>2. CASE nextToken' = nextToken + 1 /\ loc' = [loc EXCEPT ![c].next = nextToken] /\ Go(c, "rlock")
    <3>1. pc[c] = "get" /\ UNCHANGED <<journal, pairs, opened>>
      BY <1>1 DEF RefreshCheck, stores
    <3>2. /\ \A d \in Clients \ {c} : pc'[d] = pc[d] /\ loc'[d] = loc[d]
          /\ pc'[c] = "rlock" /\ loc'[c].next = nextToken
          /\ loc'[c].op = loc[c].op /\ loc'[c].sid = loc[c].sid
          /\ loc'[c].used = loc[c].used /\ loc'[c].late = loc[c].late
      BY <2>2 DEF TypeOK, Local, Go
    <3>3. Shaped(c)'
      BY <2>2, <3>1, <3>2 DEF TypeOK, TokensInv, Shaped, Buys, Local, Token, Opening, Rotation
    <3>4. Inner(c)
      BY <2>2, <3>1, <3>2, <3>3 DEF TypeOK, Inner, Opening
    <3> QED
      BY <3>4, InnerKeeps
  <2> QED
    BY <1>1, <2>1, <2>2 DEF RefreshCheck
<1>2. CASE RotateLock(c)
  BY <1>2, ReturnInner, StepInner, InnerKeeps DEF RotateLock, stores, Point, Rotation
<1>3. CASE RotateRead(c)
  BY <1>3, StepInner, InnerKeeps DEF RotateRead, stores, Point, Rotation
<1>4. CASE RotateWrite(c)
  BY <1>4, StepInner, InnerKeeps DEF RotateWrite, Point, Rotation
<1>5. CASE RotateUnlock(c)
  BY <1>5, ReturnInner, StepInner, InnerKeeps DEF RotateUnlock, AfterRotate, stores, Point, Rotation
<1> QED
  BY <1>1, <1>2, <1>3, <1>4, <1>5

LEMMA RevokeKeepsTokens ==
    ASSUME TypeOK, TokensInv, NEW c \in Clients,
           RevokeCheck(c) \/ RevokeLock(c) \/ RevokeRead(c) \/ RevokeWrite(c) \/ RevokeUnlock(c)
    PROVE  TokensInv'
<1>1. CASE RevokeCheck(c)
  BY <1>1, ReturnInner, StepInner, InnerKeeps DEF RevokeCheck, stores, Point, Rotation
<1>2. CASE RevokeLock(c)
  BY <1>2, ReturnInner, StepInner, InnerKeeps DEF RevokeLock, stores, Point, Rotation
<1>3. CASE RevokeRead(c)
  <2>1. CASE Read(c, "vset")
    BY <1>3, <2>1, StepInner, InnerKeeps DEF RevokeRead, stores, Point, Rotation
  <2>2. CASE Go(c, "vunlock") /\ loc' = [loc EXCEPT ![c].ok = loc[c].op = "revoke"]
    <3>1. /\ \A d \in Clients \ {c} : pc'[d] = pc[d] /\ loc'[d] = loc[d]
          /\ pc'[c] = "vunlock"
          /\ loc'[c].op = loc[c].op /\ loc'[c].sid = loc[c].sid /\ loc'[c].late = loc[c].late
          /\ loc'[c].used = loc[c].used /\ loc'[c].next = loc[c].next
      BY <2>2 DEF TypeOK, Local, Go
    <3>2. UNCHANGED <<journal, log>>
      BY <1>3 DEF RevokeRead, stores
    <3>3. Shaped(c)'
      BY <3>1, <3>2 DEF TypeOK, TokensInv, Shaped, Buys, log, Opening, Rotation
    <3>4. Inner(c)
      BY <3>1, <3>2, <3>3 DEF TypeOK, Inner, log, Opening
    <3> QED
      BY <3>4, InnerKeeps
  <2> QED
    BY <1>3, <2>1, <2>2 DEF RevokeRead
<1>4. CASE RevokeWrite(c)
  BY <1>4, StepInner, InnerKeeps DEF RevokeWrite, Point, Rotation
<1>5. CASE RevokeUnlock(c)
  BY <1>5, ReturnInner, StepInner, InnerKeeps DEF RevokeUnlock, AfterRevoke, stores, Point, Rotation
<1> QED
  BY <1>1, <1>2, <1>3, <1>4, <1>5

(* A step of c that leaves the other calls alone. *)
OthersStay(c) == \A d \in Clients \ {c} : pc'[d] = pc[d] /\ loc'[d] = loc[d]

LEMMA LoginKeepsTokens ==
    ASSUME TypeOK, TokensInv, NEW c \in Clients, NEW s \in SessionIds, LoginCall(c, s)
    PROVE  TokensInv'
<1>1. /\ OthersStay(c) /\ pc'[c] = "create"
      /\ loc'[c].op = "login" /\ loc'[c].sid = s
      /\ loc'[c].used = 0 /\ loc'[c].next = nextToken /\ loc'[c].late = FALSE
      /\ s \notin opened /\ opened' = opened \cup {s} /\ nextToken' = nextToken + 1
      /\ UNCHANGED <<journal, pairs>>
  BY DEF TypeOK, LoginCall, Go, Idle, OthersStay, stores
<1>2. ~Granted(c)' /\ Buys(c)' /\ Sid(c)' = s
  BY <1>1 DEF Granted, Buys, Sid
<1>3. \A d \in Clients \ {c} : /\ Granted(d)' = Granted(d) /\ Buys(d)' = Buys(d)
                               /\ Sid(d)' = Sid(d) /\ loc'[d] = loc[d] /\ pc'[d] = pc[d]
  BY <1>1 DEF OthersStay, Granted, Buys, Sid
<1>4. PairsInv'
  BY <1>1, <1>2, <1>3 DEF TypeOK, TokensInv, PairsInv, SingleUse, Pair, Token
<1>5. ASSUME NEW d \in Clients PROVE Shaped(d)' /\ Spent(d)' /\ Ended(d)'
  <2>1. CASE d = c
    BY <1>1, <1>2, <2>1 DEF TypeOK, Shaped, Spent, Ended, Opening, Rotation, Buys
  <2>2. CASE d # c
    BY <1>1, <1>3, <2>2 DEF TypeOK, TokensInv, Shaped, Spent, Ended, Local, Token, Buys
  <2> QED
    BY <2>1, <2>2
<1>6. ASSUME NEW d \in Clients PROVE Opens(d)'
  <2>1. \A e \in Clients : Buys(e) => Sid(e) # s
    BY <1>1 DEF TokensInv, Spent
  <2>2. CASE d = c
    BY <1>1, <1>2, <1>3, <2>1, <2>2 DEF TokensInv, PairsInv, Opens
  <2>3. CASE d # c
    <3>1. pc[d] \in Opening => Buys(d)
      BY DEF TokensInv, Shaped, Buys
    <3> QED
      BY <1>1, <1>2, <1>3, <2>1, <2>3, <3>1 DEF TokensInv, Opens
  <2> QED
    BY <2>2, <2>3
<1> QED
  BY <1>4, <1>5, <1>6 DEF TokensInv

LEMMA RefreshKeepsTokens ==
    ASSUME TypeOK, TokensInv, NEW c \in Clients, NEW p \in pairs, RefreshCall(c, p)
    PROVE  TokensInv'
<1>1. /\ OthersStay(c) /\ pc'[c] = "get"
      /\ loc'[c].op = "refresh" /\ loc'[c].sid = p.sid
      /\ loc'[c].used = p.jti /\ loc'[c].next = 0
      /\ loc'[c].late = (journal[p.sid].status = "revoked")
      /\ UNCHANGED <<journal, pairs, opened, nextToken>>
  BY DEF TypeOK, RefreshCall, Go, Idle, OthersStay, stores, log
<1>2. ~Granted(c)' /\ Buys(c)' /\ Sid(c)' = p.sid
  BY <1>1 DEF Granted, Buys, Sid
<1>3. \A d \in Clients \ {c} : /\ Granted(d)' = Granted(d) /\ Buys(d)' = Buys(d)
                               /\ Sid(d)' = Sid(d) /\ loc'[d] = loc[d] /\ pc'[d] = pc[d]
  BY <1>1 DEF OthersStay, Granted, Buys, Sid
<1>4. PairsInv'
  BY <1>1, <1>2, <1>3 DEF TokensInv, PairsInv, SingleUse
<1>5. ASSUME NEW d \in Clients PROVE Shaped(d)' /\ Spent(d)' /\ Ended(d)'
  <2>1. CASE d = c
    <3>1. p.jti < nextToken /\ 0 < nextToken /\ p.sid \in opened
      BY DEF TypeOK, TokensInv, PairsInv
    <3>2. Shaped(c)'
      BY <1>1, <3>1 DEF Shaped, Opening, Rotation, Buys
    <3>3. Spent(c)' /\ Ended(c)'
      BY <1>1, <1>2, <3>1 DEF Spent, Ended
    <3> QED
      BY <2>1, <3>2, <3>3
  <2>2. CASE d # c
    BY <1>1, <1>3, <2>2 DEF TokensInv, Shaped, Spent, Ended, Buys
  <2> QED
    BY <2>1, <2>2
<1>6. ASSUME NEW d \in Clients PROVE Opens(d)'
  <2>1. CASE d = c
    BY <1>1, <2>1 DEF Opens, Opening
  <2>2. CASE d # c
    BY <1>1, <1>2, <1>3, <2>2 DEF TokensInv, Opens
  <2> QED
    BY <2>1, <2>2
<1> QED
  BY <1>4, <1>5, <1>6 DEF TokensInv

LEMMA EndCallsKeepTokens ==
    ASSUME TypeOK, TokensInv, NEW c \in Clients, NEW s \in SessionIds,
           LogoutCall(c, s) \/ RevokeCall(c, s)
    PROVE  TokensInv'
<1>1. /\ OthersStay(c) /\ pc'[c] \in {"vlock", "list"}
      /\ loc'[c].op \in {"logout", "revoke"} /\ loc'[c].used = 0 /\ loc'[c].next = 0
      /\ UNCHANGED <<journal, pairs, opened, nextToken>>
  <2>1. CASE LogoutCall(c, s)
    BY <2>1 DEF TypeOK, LogoutCall, Go, Idle, OthersStay, stores
  <2>2. CASE RevokeCall(c, s)
    BY <2>2 DEF TypeOK, RevokeCall, Go, Idle, OthersStay, stores
  <2> QED
    BY <2>1, <2>2
<1>2. nextToken \in Nat /\ 0 < nextToken
  BY DEF TypeOK
<1>3. Shaped(c)'
  BY <1>1, <1>2 DEF Shaped, Opening, Rotation, Buys
<1>4. Inner(c)
  BY <1>1, <1>2, <1>3 DEF Inner, OthersStay
<1> QED
  BY <1>4, InnerKeeps

(* The first write of the journal: nobody else has a token of the session. *)
LEMMA JournalCreateKeepsTokens ==
    ASSUME TypeOK, TokensInv, NEW c \in Clients, JournalCreate(c)
    PROVE  TokensInv'
<1> DEFINE s == Sid(c)
<1>1. /\ OthersStay(c) /\ pc[c] = "jcreate" /\ pc'[c] = "audit" /\ loc' = loc
      /\ journal' = [journal EXCEPT ![s] = [status |-> "active", jti |-> loc[c].next]]
      /\ UNCHANGED <<pairs, opened, nextToken>>
  BY DEF TypeOK, JournalCreate, Step, Go, OthersStay, log
<1>2. /\ s \in SessionIds /\ loc[c].op = "login" /\ loc[c].used < loc[c].next
      /\ \A p \in pairs : p.sid # s
      /\ \A d \in Clients \ {c} : Buys(d) => Sid(d) # s
  BY <1>1 DEF TypeOK, TokensInv, Shaped, Opens, Opening
<1>3. \A d \in Clients : Buys(d)' = Buys(d) /\ Sid(d)' = Sid(d)
  BY <1>1 DEF Buys, Sid
<1>4. \A d \in Clients \ {c} : pc'[d] = pc[d] /\ Granted(d)' = Granted(d)
  BY <1>1, <1>3 DEF OthersStay, Granted
<1>5. \A r \in SessionIds \ {s} : journal'[r] = journal[r]
  BY <1>1
<1>6. journal'[s].jti = loc[c].next
  BY <1>1, <1>2 DEF TypeOK
<1>7. PairsInv'
  <2>1. \A p \in pairs : p.sid \in SessionIds \ {s}
    BY <1>2 DEF TypeOK, Pair
  <2>2. \A p \in pairs : journal'[p.sid] = journal[p.sid]
    BY <1>5, <2>1
  <2>3. \A d, e \in Clients : Granted(d)' /\ Granted(e)' /\ Sid(d) = Sid(e) => d = e \/ (Granted(d) /\ Granted(e))
    BY <1>2, <1>3, <1>4 DEF Granted
  <2>4. \A d \in Clients, p \in pairs : Granted(d)' /\ Sid(d) = p.sid => Granted(d)
    BY <1>2, <1>4
  <2> QED
    BY <1>1, <1>3, <2>2, <2>3, <2>4 DEF TokensInv, PairsInv, SingleUse
<1>8. ASSUME NEW d \in Clients PROVE Shaped(d)' /\ Spent(d)' /\ Ended(d)'
  <2>1. Shaped(d)'
    BY <1>1, <1>2, <1>3, <1>4 DEF TokensInv, Shaped, Opening, Rotation, Buys
  <2>2. CASE d = c
    BY <1>1, <1>2, <1>3, <1>6, <2>1, <2>2 DEF TokensInv, Spent, Ended, Granted
  <2>3. CASE d # c /\ Buys(d)
    <3>1. Sid(d) \in SessionIds \ {s}
      BY <1>2, <2>3 DEF TypeOK, TokensInv, Shaped, Buys
    <3>2. journal'[Sid(d)] = journal[Sid(d)]
      BY <1>5, <3>1
    <3> QED
      BY <1>1, <1>3, <1>4, <2>1, <2>3, <3>2 DEF TokensInv, Spent, Ended, Granted
  <2>4. CASE d # c /\ ~Buys(d)
    BY <1>1, <1>3, <1>4, <2>1, <2>4 DEF Spent, Ended, Granted, Buys
  <2> QED
    BY <2>1, <2>2, <2>3, <2>4
<1>9. ASSUME NEW d \in Clients PROVE Opens(d)'
  BY <1>1, <1>3, <1>4 DEF TokensInv, Opens, Opening
<1> QED
  BY <1>7, <1>8, <1>9 DEF TokensInv

(* The compare in the journal: what was granted before is below the token  *)
(* that is accepted now, and the session has not ended.                    *)
LEMMA JournalRotateKeepsTokens ==
    ASSUME TypeOK, TokensInv, NEW c \in Clients, JournalRotate(c)
    PROVE  TokensInv'
<1> DEFINE s == Sid(c)
<1>1. CASE ~Accepts(journal[s], loc[c].used)
  BY <1>1, StepInner, InnerKeeps DEF JournalRotate, Point, Rotation
<1>2. CASE Accepts(journal[s], loc[c].used)
  <2>1. /\ OthersStay(c) /\ pc[c] = "jrotate" /\ pc'[c] = "audit" /\ loc' = loc
        /\ journal' = [journal EXCEPT ![s].jti = loc[c].next]
        /\ UNCHANGED <<pairs, opened, nextToken>>
    BY <1>2 DEF TypeOK, JournalRotate, Step, Go, OthersStay, log
  <2>2. /\ s \in SessionIds /\ loc[c].op = "refresh" /\ loc[c].used < loc[c].next
        /\ loc[c].used = journal[s].jti /\ journal[s].status = "active"
        /\ loc[c].used \in Nat /\ loc[c].next \in Nat
    BY <1>2, <2>1 DEF TypeOK, TokensInv, Shaped, Rotation, Accepts, Local, Token
  <2>3. \A d \in Clients : Buys(d)' = Buys(d) /\ Sid(d)' = Sid(d)
    BY <2>1 DEF Buys, Sid
  <2>4. \A d \in Clients \ {c} : pc'[d] = pc[d] /\ Granted(d)' = Granted(d)
    BY <2>1, <2>3 DEF OthersStay, Granted
  <2>5. /\ \A r \in SessionIds : journal'[r].status = journal[r].status
        /\ \A r \in SessionIds \ {s} : journal'[r] = journal[r]
        /\ journal'[s].jti = loc[c].next
    BY <2>1, <2>2 DEF TypeOK, Session
  <2>6. /\ \A r \in SessionIds : journal[r].jti \in Nat
        /\ \A p \in pairs : p.sid \in SessionIds /\ p.used \in Nat
        /\ \A d \in Clients : loc[d].used \in Nat /\ (Buys(d) => Sid(d) \in SessionIds)
    BY DEF TypeOK, TokensInv, Shaped, Session, Pair, Local, Token, Buys
  <2>7. \A r \in SessionIds : journal[r].jti <= journal'[r].jti
    BY <2>2, <2>5, <2>6
  <2>8. \A p \in pairs : p.sid = s => p.used < loc[c].used
    BY <2>2 DEF TokensInv, PairsInv
  <2>9. \A d \in Clients : Granted(d) /\ Sid(d) = s => loc[d].used < loc[c].used
    BY <2>2 DEF TokensInv, Spent
  <2>10. PairsInv'
    <3>1. \A p \in pairs : p.used < journal'[p.sid].jti
      <4> SUFFICES ASSUME NEW p \in pairs PROVE p.used < journal'[p.sid].jti
        OBVIOUS
      <4>1. p.used < journal[p.sid].jti /\ p.sid \in SessionIds
        BY <2>6 DEF TokensInv, PairsInv
      <4> QED
        BY <2>2, <2>5, <2>6, <4>1
    <3>2. ASSUME NEW d \in Clients, NEW p \in pairs, Granted(d)', Sid(d)' = p.sid
          PROVE  loc'[d].used # p.used
      BY <2>1, <2>2, <2>3, <2>4, <2>6, <2>8, <3>2 DEF TokensInv, PairsInv
    <3>3. ASSUME NEW d \in Clients, NEW e \in Clients, Granted(d)', Granted(e)',
                 Sid(d)' = Sid(e)', loc'[d].used = loc'[e].used
          PROVE  d = e
      BY <2>1, <2>2, <2>3, <2>4, <2>6, <2>9, <3>3 DEF TokensInv, PairsInv
    <3> QED
      BY <2>1, <3>1, <3>2, <3>3 DEF TokensInv, PairsInv, SingleUse
  <2>11. ASSUME NEW d \in Clients PROVE Shaped(d)' /\ Spent(d)' /\ Ended(d)'
    <3>1. Shaped(d)'
      BY <2>1, <2>2, <2>3, <2>4 DEF TokensInv, Shaped, Opening, Rotation, Buys
    <3>2. Spent(d)'
      <4>1. CASE d = c
        BY <2>1, <2>2, <2>3, <2>5, <4>1 DEF TokensInv, Spent
      <4>2. CASE d # c /\ Granted(d)
        <5>1. loc[d].used < journal[Sid(d)].jti /\ Sid(d) \in opened /\ Sid(d) \in SessionIds
          BY <2>6, <4>2 DEF TokensInv, Spent, Granted
        <5> QED
          BY <2>1, <2>2, <2>3, <2>5, <2>6, <5>1 DEF Spent
      <4>3. CASE d # c /\ ~Granted(d)
        BY <2>1, <2>3, <2>4, <4>3 DEF TokensInv, Spent
      <4> QED
        BY <4>1, <4>2, <4>3
    <3>3. Ended(d)'
      <4>1. loc[d].op = "refresh" => Sid(d) \in SessionIds
        BY <2>6 DEF Buys
      <4>2. CASE d = c
        BY <2>1, <2>2, <2>3, <2>5, <4>2 DEF TokensInv, Ended
      <4>3. CASE d # c
        BY <2>1, <2>3, <2>4, <2>5, <4>1, <4>3 DEF TokensInv, Ended
      <4> QED
        BY <4>2, <4>3
    <3> QED
      BY <3>1, <3>2, <3>3
  <2>12. ASSUME NEW d \in Clients PROVE Opens(d)'
    BY <2>1, <2>3, <2>4 DEF TokensInv, Opens, Opening
  <2> QED
    BY <2>10, <2>11, <2>12 DEF TokensInv
<1> QED
  BY <1>1, <1>2

LEMMA JournalRevokeKeepsTokens ==
    ASSUME TypeOK, TokensInv, NEW c \in Clients, JournalRevoke(c)
    PROVE  TokensInv'
<1> DEFINE s == Sid(c)
<1>1. CASE journal' = journal
  <2>1. CASE Return(c)
    BY <1>1, <2>1, ReturnInner, InnerKeeps DEF JournalRevoke
  <2>2. CASE Step(c, "audit") /\ loc[c].op = "logout"
    BY <1>1, <2>2, StepInner, InnerKeeps DEF JournalRevoke, Point, Rotation
  <2> QED
    BY <2>1, <2>2 DEF JournalRevoke
<1>2. CASE journal' = [journal EXCEPT ![s].status = "revoked"]
  <2>1. /\ OthersStay(c) /\ UNCHANGED <<pairs, opened, nextToken>>
        /\ \/ Return(c)
           \/ pc'[c] = "audit" /\ loc'[c] = loc[c] /\ loc[c].op = "logout"
    BY DEF TypeOK, JournalRevoke, Return, Step, Go, OthersStay, log
  <2>2. s \in SessionIds /\ ~Buys(c) /\ ~Buys(c)'
    <3>1. pc[c] = "jrevoke"
      BY DEF JournalRevoke
    <3>2. loc[c].op \in {"logout", "revoke"} /\ s \in SessionIds
      BY <3>1 DEF TypeOK, TokensInv, Shaped
    <3>3. loc'[c].op \in {"none", "logout"}
      BY <2>1 DEF TypeOK, Return, Idle
    <3> QED
      BY <3>2, <3>3 DEF Buys
  <2>3. \A d \in Clients : /\ Buys(d)' = Buys(d) /\ Granted(d)' = Granted(d)
                           /\ Buys(d) => loc'[d] = loc[d] /\ Sid(d)' = Sid(d) /\ pc'[d] = pc[d]
    BY <2>1, <2>2 DEF OthersStay, Buys, Granted, Sid
  <2>4. \A r \in SessionIds : /\ journal'[r].jti = journal[r].jti
                              /\ journal[r].status = "revoked" => journal'[r].status = "revoked"
    BY <1>2, <2>2 DEF TypeOK, Session
  <2>5. /\ \A p \in pairs : p.sid \in SessionIds
        /\ \A d \in Clients : Buys(d) => Sid(d) \in SessionIds
    BY DEF TypeOK, TokensInv, Shaped, Pair, Buys
  <2>6. PairsInv'
    BY <2>1, <2>3, <2>4, <2>5 DEF TokensInv, PairsInv, SingleUse, Granted
  <2>7. Shaped(c)'
    BY <2>1 DEF TypeOK, TokensInv, Shaped, Return, Go, Idle, Opening, Rotation, Buys
  <2>8. ASSUME NEW d \in Clients PROVE Shaped(d)'
    BY <2>1, <2>7 DEF TokensInv, Shaped, OthersStay, Buys
  <2>9. ASSUME NEW d \in Clients PROVE Spent(d)' /\ Ended(d)'
    BY <2>1, <2>3, <2>4, <2>5 DEF TokensInv, Spent, Ended, Granted, Buys
  <2>10. ASSUME NEW d \in Clients PROVE Opens(d)'
    <3>1. pc'[d] \in Opening => d # c /\ pc[d] \in Opening /\ Sid(d)' = Sid(d)
      BY <2>1 DEF TypeOK, OthersStay, Return, Go, Opening, Sid
    <3> QED
      BY <2>1, <2>3, <3>1 DEF TokensInv, Opens
  <2> QED
    BY <2>6, <2>8, <2>9, <2>10 DEF TokensInv
<1> QED
  BY <1>1, <1>2 DEF JournalRevoke

(* The pair is returned: what was granted to the call is now granted for   *)
(* good.                                                                   *)
LEMMA AuditKeepsTokens ==
    ASSUME TypeOK, TokensInv, NEW c \in Clients, Audit(c)
    PROVE  TokensInv'
<1> DEFINE n == [sid |-> Sid(c), used |-> loc[c].used, jti |-> loc[c].next]
<1>1. pc[c] = "audit" /\ (Buys(c) \/ loc[c].op = "logout")
  BY DEF Audit, TokensInv, Shaped
<1>2. CASE loc[c].op = "logout"
  BY <1>2, ReturnInner, InnerKeeps DEF Audit, stores, log
<1>3. CASE Buys(c)
  <2>1. /\ pairs' = pairs \cup {n} /\ UNCHANGED <<journal, opened, nextToken>>
        /\ OthersStay(c) /\ pc'[c] = "idle" /\ loc'[c] = Idle
    BY <1>3 DEF TypeOK, Audit, Buys, Return, Go, OthersStay, stores
  <2>2. Granted(c) /\ n.sid = Sid(c) /\ n.used = loc[c].used /\ n.jti = loc[c].next
    BY <1>1, <1>3 DEF Granted
  <2>3. n.used < journal[n.sid].jti /\ n.jti < nextToken /\ n.sid \in opened
    BY <1>3, <2>2 DEF TokensInv, Spent, Shaped
  <2>4. \A p \in pairs : p.sid = n.sid => p.used # n.used
    BY <2>2 DEF TokensInv, PairsInv
  <2>5. \A d \in Clients \ {c} : /\ Granted(d)' = Granted(d) /\ Buys(d)' = Buys(d)
                                 /\ Sid(d)' = Sid(d) /\ loc'[d] = loc[d] /\ pc'[d] = pc[d]
    BY <2>1 DEF OthersStay, Granted, Buys, Sid
  <2>6. \A d \in Clients \ {c} : Granted(d) /\ Sid(d) = n.sid => loc[d].used # n.used
    BY <2>2 DEF TokensInv, PairsInv
  <2>7. ~Granted(c)' /\ ~Buys(c)'
    BY <2>1 DEF Granted, Buys, Idle
  <2>8. PairsInv'
    <3> HIDE DEF n
    <3>1. \A p \in pairs' : p.used < journal'[p.sid].jti /\ p.jti < nextToken' /\ p.sid \in opened'
      BY <2>1, <2>3 DEF TokensInv, PairsInv
    <3>2. SingleUse'
      BY <2>1, <2>4 DEF TokensInv, PairsInv, SingleUse
    <3>3. \A d \in Clients, p \in pairs' : Granted(d)' /\ Sid(d)' = p.sid => loc'[d].used # p.used
      BY <2>1, <2>5, <2>6, <2>7 DEF TokensInv, PairsInv
    <3>4. \A d, e \in Clients :
             Granted(d)' /\ Granted(e)' /\ Sid(d)' = Sid(e)' /\ loc'[d].used = loc'[e].used => d = e
      BY <2>5, <2>7 DEF TokensInv, PairsInv
    <3> QED
      BY <3>1, <3>2, <3>3, <3>4 DEF PairsInv
  <2>9. ASSUME NEW d \in Clients PROVE Shaped(d)' /\ Spent(d)' /\ Ended(d)'
    <3>1. CASE d = c
      BY <2>1, <2>7, <3>1 DEF TypeOK, Shaped, Spent, Ended, Opening, Rotation, Buys, Idle
    <3>2. CASE d # c
      BY <2>1, <2>5, <3>2 DEF TokensInv, Shaped, Spent, Ended, Buys
    <3> QED
      BY <3>1, <3>2
  <2>10. ASSUME NEW d \in Clients PROVE Opens(d)'
    <3>1. CASE d = c
      BY <2>1, <3>1 DEF Opens, Opening
    <3>2. CASE d # c
      <4>1. pc[d] \in Opening => Sid(d) # n.sid
        BY <1>3, <2>2, <3>2 DEF TokensInv, Opens
      <4> HIDE DEF n
      <4> QED
        BY <2>1, <2>5, <2>7, <3>2, <4>1 DEF TokensInv, Opens
    <3> QED
      BY <3>1, <3>2
  <2> QED
    BY <2>8, <2>9, <2>10 DEF TokensInv
<1> QED
  BY <1>1, <1>2, <1>3

LEMMA FaultKeepsTokens ==
    ASSUME TypeOK, TokensInv, NEW c \in Clients, Fault(c) \/ Crash(c) \/ CacheCreate(c)
    PROVE  TokensInv'
<1>1. CASE Fault(c)
  <2>1. UNCHANGED <<journal, log>>
    BY <1>1 DEF Fault, stores
  <2>2. CASE Return(c)
    BY <2>1, <2>2, ReturnInner, InnerKeeps
  <2>3. CASE Fail(c, "runlock") /\ pc[c] \in Rotation
    BY <2>1, <2>3, StepInner, InnerKeeps DEF Point, Rotation
  <2>4. CASE Step(c, "jrotate") /\ pc[c] \in Rotation
    BY <2>1, <2>4, StepInner, InnerKeeps DEF Point, Rotation
  <2>5. CASE Fail(c, "vunlock") \/ Step(c, "vlock")
    BY <2>1, <2>5, StepInner, InnerKeeps DEF Point, Rotation
  <2>6. CASE Step(c, "jrevoke") /\ loc[c].op \in {"logout", "revoke"}
    BY <2>1, <2>6, StepInner, InnerKeeps DEF Point, Rotation
  <2> QED
    BY <1>1, <2>2, <2>3, <2>4, <2>5, <2>6 DEF Fault, AfterRotate, AfterRevoke, Rotation
<1>2. CASE Crash(c)
  BY <1>2, ReturnInner, InnerKeeps DEF Crash, stores
<1>3. CASE CacheCreate(c)
  BY <1>3, StepInner, InnerKeeps DEF CacheCreate, Point, Rotation
<1> QED
  BY <1>1, <1>2, <1>3

LEMMA NextKeepsTokens == ASSUME TypeOK, TokensInv, [Next]_vars PROVE TokensInv'
<1>1. ASSUME UNCHANGED <<journal, pc, loc, log>> PROVE TokensInv'
  BY <1>1 DEF TokensInv, PairsInv, SingleUse, Shaped, Spent, Ended, Opens, Granted, Buys, Sid, log
<1>2. ASSUME NEW c \in Clients, Call(c) PROVE TokensInv'
  BY <1>2, RotationKeepsTokens, RevokeKeepsTokens, LoginKeepsTokens, RefreshKeepsTokens,
     EndCallsKeepTokens, JournalCreateKeepsTokens, JournalRotateKeepsTokens,
     JournalRevokeKeepsTokens, AuditKeepsTokens, FaultKeepsTokens DEF Call
<1>3. CASE UNCHANGED vars
  BY <1>1, <1>3 DEF vars, stores
<1>4. ASSUME NEW s \in SessionIds, ExpireRotateLock(s) \/ ExpireRevokeLock(s) PROVE TokensInv'
  BY <1>1, <1>4 DEF ExpireRotateLock, ExpireRevokeLock, stores
<1> QED
  BY <1>2, <1>3, <1>4 DEF Next

LEMMA InitTokens == Init => TokensInv
BY DEF Init, TokensInv, PairsInv, SingleUse, Shaped, Spent, Ended, Opens, Granted, Buys,
       Idle, Opening, Rotation

(* A refresh token buys at most one pair, with any number of calls, even   *)
(* if locks expire under them.                                             *)
THEOREM TokensSingleUse == Spec => []SingleUse
<1>1. TokensInv => SingleUse
  BY DEF TokensInv, PairsInv
<1> QED
  BY <1>1, InitTypes, InitTokens, NextKeepsTypes, NextKeepsTokens, PTL DEF Spec

(* A Refresh that begins after the journal ended the session gets no pair. *)
THEOREM EndedForGood == Spec => []NoPairAfterEnd
<1>1. TokensInv => NoPairAfterEnd
  BY DEF TokensInv, Ended, NoPairAfterEnd, Granted, Buys
<1> QED
  BY <1>1, InitTypes, InitTokens, NextKeepsTypes, NextKeepsTokens, PTL DEF Spec

-----------------------------------------------------------------------------
(* The invariant behind NeverLockedOut.                                    *)

(* What a call knows: no session when it is of no kind, a token of a pair  *)
(* when it refreshes, and a token to issue that nobody else has.           *)
Knows(c) ==
    /\ loc[c].op = "none" => Sid(c) = NoSession
    /\ loc[c].op # "none" => Sid(c) \in opened
    /\ loc[c].op = "refresh" => \E p \in pairs : p.sid = Sid(c) /\ p.jti = loc[c].used
    /\ loc[c].op = "login" =>
         /\ \A p \in pairs : p.sid # Sid(c)
         /\ \A d \in Clients : loc[d].op = "login" /\ Sid(d) = Sid(c) => d = c
    /\ loc[c].next # 0 =>
         /\ \A p \in pairs : p.jti # loc[c].next
         /\ \A d \in Clients : loc[d].next = loc[c].next => d = c

KnownInv == \A c \in Clients : Knows(c)

(* A step within a call: it ends, or goes on with what it knows. *)
Inside(c) ==
    /\ UNCHANGED <<pairs, opened, nextToken>>
    /\ \A d \in Clients \ {c} : pc'[d] = pc[d] /\ loc'[d] = loc[d]
    /\ \/ loc'[c] = Idle /\ pc'[c] = "idle"
       \/ /\ loc'[c].op = loc[c].op /\ loc'[c].sid = loc[c].sid
          /\ loc'[c].used = loc[c].used /\ loc'[c].next = loc[c].next

(* Steps that begin a call, sign a pair in or return one. *)
Notable(c) ==
    \/ \E s \in SessionIds : LoginCall(c, s) \/ LogoutCall(c, s) \/ RevokeCall(c, s)
    \/ \E p \in pairs : RefreshCall(c, p)
    \/ RefreshCheck(c) \/ Audit(c)

LEMMA MovesInside ==
    ASSUME TypeOK, NEW c \in Clients, NEW l, Step(c, l) \/ Read(c, l) \/ Fail(c, l) \/ Return(c),
           UNCHANGED <<pairs, opened, nextToken>>
    PROVE  Inside(c)
BY DEF TypeOK, Step, Read, Fail, Return, Go, Local, Inside

LEMMA CallInside ==
    ASSUME TypeOK, NEW c \in Clients, Call(c), ~Notable(c)
    PROVE  Inside(c) /\ UNCHANGED asked
<1>0. UNCHANGED <<pairs, opened, nextToken, asked>>
  BY DEF Call, Notable, CacheCreate, JournalCreate, RotateLock, RotateRead, RotateWrite, RotateUnlock,
       JournalRotate, RevokeCheck, RevokeLock, RevokeRead, RevokeWrite, RevokeUnlock, JournalRevoke,
       Fault, Crash, log
<1>1. CASE RevokeRead(c)
  <2>1. CASE Read(c, "vset")
    BY <1>0, <2>1, MovesInside
  <2>2. CASE Go(c, "vunlock") /\ loc' = [loc EXCEPT ![c].ok = loc[c].op = "revoke"]
    BY <1>0, <2>2 DEF TypeOK, Local, Inside, Go
  <2> QED
    BY <1>0, <1>1, <2>1, <2>2 DEF RevokeRead
<1>2. CASE \E l : Step(c, l) \/ Read(c, l) \/ Fail(c, l) \/ Return(c)
  BY <1>0, <1>2, MovesInside
<1>3. RevokeRead(c) \/ \E l : Step(c, l) \/ Read(c, l) \/ Fail(c, l) \/ Return(c)
  BY DEF Call, Notable, CacheCreate, JournalCreate, RotateLock, RotateRead, RotateWrite, RotateUnlock,
       JournalRotate, RevokeCheck, RevokeLock, RevokeWrite, RevokeUnlock, JournalRevoke,
       Fault, Crash, AfterRotate, AfterRevoke
<1> QED
  BY <1>0, <1>1, <1>2, <1>3

LEMMA InsideKeepsKnown ==
    ASSUME TypeOK, KnownInv, NEW c \in Clients, Inside(c)
    PROVE  KnownInv'
<1>1. \A d \in Clients : \/ loc'[d] = Idle
                         \/ /\ loc'[d].op = loc[d].op /\ Sid(d)' = Sid(d)
                            /\ loc'[d].used = loc[d].used /\ loc'[d].next = loc[d].next
  BY DEF Inside, Sid
<1>2. /\ Idle.op = "none" /\ Idle.sid = NoSession /\ Idle.next = 0
      /\ UNCHANGED <<pairs, opened>>
  BY DEF Idle, Inside
<1> SUFFICES ASSUME NEW d \in Clients PROVE Knows(d)'
  BY DEF KnownInv
<1>3. CASE loc'[d] = Idle
  BY <1>2, <1>3 DEF Knows, Sid
<1>4. CASE /\ loc'[d].op = loc[d].op /\ Sid(d)' = Sid(d)
           /\ loc'[d].used = loc[d].used /\ loc'[d].next = loc[d].next
  <2>1. Knows(d)
    BY DEF KnownInv
  <2>2. \A e \in Clients : /\ loc'[e].op = "login" => loc[e].op = "login" /\ Sid(e)' = Sid(e)
                           /\ loc'[e].next # 0 => loc'[e].next = loc[e].next
    BY <1>1, <1>2
  <2> QED
    BY <1>2, <1>4, <2>1, <2>2 DEF Knows
<1> QED
  BY <1>1, <1>3, <1>4

LEMMA NotableKeepsKnown ==
    ASSUME TypeOK, TokensInv, KnownInv, NEW c \in Clients, Notable(c)
    PROVE  KnownInv'
<1>0. /\ \A d \in Clients : Knows(d) /\ loc[d].next < nextToken /\ loc[d] \in Local
      /\ \A p \in pairs : p.jti < nextToken /\ p.sid \in opened
      /\ nextToken \in Nat \ {0} /\ pairs \subseteq Pair
  BY DEF TypeOK, KnownInv, TokensInv, PairsInv, Shaped
<1>1. ASSUME NEW s \in SessionIds, LoginCall(c, s) PROVE KnownInv'
  <2>1. /\ \A d \in Clients \ {c} : loc'[d] = loc[d]
        /\ loc'[c].op = "login" /\ loc'[c].sid = s /\ loc'[c].next = nextToken
        /\ s \notin opened /\ opened' = opened \cup {s} /\ UNCHANGED pairs
    BY <1>1 DEF TypeOK, LoginCall, Go, Idle
  <2>2. Knows(c)'
    BY <1>0, <2>1 DEF Knows, Sid, Local, Token, Pair
  <2>3. ASSUME NEW d \in Clients \ {c} PROVE Knows(d)'
    BY <1>0, <2>1 DEF Knows, Sid, Local, Token
  <2> QED
    BY <2>2, <2>3 DEF KnownInv
<1>2. ASSUME NEW p \in pairs, RefreshCall(c, p) PROVE KnownInv'
  <2>1. /\ \A d \in Clients \ {c} : loc'[d] = loc[d]
        /\ loc'[c].op = "refresh" /\ loc'[c].sid = p.sid /\ loc'[c].used = p.jti /\ loc'[c].next = 0
        /\ UNCHANGED <<pairs, opened>>
    BY <1>2 DEF TypeOK, RefreshCall, Go, Idle, log
  <2>2. Knows(c)'
    BY <1>0, <2>1 DEF Knows, Sid
  <2>3. ASSUME NEW d \in Clients \ {c} PROVE Knows(d)'
    BY <1>0, <2>1 DEF Knows, Sid
  <2> QED
    BY <2>2, <2>3 DEF KnownInv
<1>3. ASSUME NEW s \in SessionIds, LogoutCall(c, s) \/ RevokeCall(c, s) PROVE KnownInv'
  <2>1. /\ \A d \in Clients \ {c} : loc'[d] = loc[d]
        /\ loc'[c].op \in {"logout", "revoke"} /\ loc'[c].sid = s /\ loc'[c].next = 0
        /\ UNCHANGED <<pairs, opened>>
    <3>1. CASE LogoutCall(c, s)
      BY <3>1 DEF TypeOK, LogoutCall, Idle
    <3>2. CASE RevokeCall(c, s)
      BY <3>2 DEF TypeOK, RevokeCall, Idle
    <3> QED
      BY <1>3, <3>1, <3>2
  <2>2. s \in opened
    BY <1>0, <1>3 DEF LogoutCall, RevokeCall
  <2>3. Knows(c)'
    BY <2>1, <2>2 DEF Knows, Sid
  <2>4. ASSUME NEW d \in Clients \ {c} PROVE Knows(d)'
    BY <1>0, <2>1 DEF Knows, Sid
  <2> QED
    BY <2>3, <2>4 DEF KnownInv
<1>4. CASE RefreshCheck(c)
  <2>1. CASE Return(c) /\ UNCHANGED nextToken
    BY <1>4, <2>1, MovesInside, InsideKeepsKnown DEF RefreshCheck
  <2>2. CASE loc' = [loc EXCEPT ![c].next = nextToken]
    <3>1. /\ \A d \in Clients \ {c} : loc'[d] = loc[d]
          /\ loc'[c].op = loc[c].op /\ loc'[c].sid = loc[c].sid /\ loc'[c].used = loc[c].used
          /\ loc'[c].next = nextToken
          /\ UNCHANGED <<pairs, opened>>
      BY <1>4, <2>2 DEF TypeOK, RefreshCheck, Local
    <3>2. Knows(c)'
      BY <1>0, <3>1 DEF Knows, Sid, Local, Token, Pair
    <3>3. ASSUME NEW d \in Clients \ {c} PROVE Knows(d)'
      BY <1>0, <3>1 DEF Knows, Sid, Local, Token
    <3> QED
      BY <3>2, <3>3 DEF KnownInv
  <2> QED
    BY <1>4, <2>1, <2>2 DEF RefreshCheck
<1>5. CASE Audit(c)
  <2>1. /\ \A d \in Clients \ {c} : loc'[d] = loc[d]
        /\ loc'[c] = Idle /\ UNCHANGED opened
    BY <1>5 DEF TypeOK, Audit, Return, Go
  <2>2. CASE loc[c].op = "logout"
    BY <1>5, <2>2, MovesInside, InsideKeepsKnown DEF Audit
  <2>3. CASE loc[c].op # "logout"
    <3>1. pairs' = pairs \cup {[sid |-> Sid(c), used |-> loc[c].used, jti |-> loc[c].next]}
      BY <1>5, <2>3 DEF Audit
    <3>2. Buys(c)
      BY <1>5, <2>3 DEF Audit, TokensInv, Shaped
    <3>3. Knows(c)'
      BY <2>1 DEF Knows, Sid, Idle
    <3>4. ASSUME NEW d \in Clients \ {c} PROVE Knows(d)'
      <4>1. loc[d].op = "login" => Sid(c) # Sid(d)
        <5>1. loc[c].op = "login" \/ \E p \in pairs : p.sid = Sid(c)
          BY <1>0, <3>2 DEF Buys, Knows
        <5> QED
          BY <1>0, <5>1 DEF Knows
      <4>2. loc[d].next # 0 => loc[c].next # loc[d].next
        BY <1>0 DEF Knows
      <4>3. \A e \in Clients : /\ loc'[e].op = "login" => loc[e].op = "login" /\ Sid(e)' = Sid(e)
                               /\ loc'[e].next # 0 => loc'[e].next = loc[e].next
        BY <2>1 DEF Sid, Idle
      <4> QED
        BY <1>0, <2>1, <3>1, <4>1, <4>2, <4>3 DEF Knows, Sid
    <3> QED
      BY <3>3, <3>4 DEF KnownInv
  <2> QED
    BY <2>2, <2>3
<1> QED
  BY <1>1, <1>2, <1>3, <1>4, <1>5 DEF Notable

LEMMA NextKeepsKnown ==
    ASSUME TypeOK, TokensInv, KnownInv, [Next]_vars
    PROVE  KnownInv'
<1>1. ASSUME NEW c \in Clients, Call(c) PROVE KnownInv'
  BY <1>1, NotableKeepsKnown, CallInside, InsideKeepsKnown
<1>2. CASE UNCHANGED <<pairs, opened, loc>>
  BY <1>2 DEF KnownInv, Knows, Sid
<1> QED
  BY <1>1, <1>2 DEF Next, ExpireRotateLock, ExpireRevokeLock, vars, log

(* A call has rotated the session in Redis and has not returned the pair:  *)
(* until then nobody else knows the token that Redis expects.              *)
Rotated(c) ==
    /\ loc[c].op = "refresh"
    /\ (pc[c] = "runlock" /\ loc[c].ok) \/ pc[c] \in {"jrotate", "audit"}

Owns(c) == loc[c].op = "login" \/ Rotated(c)

Opened(j) == [status |-> "active", jti |-> j]

Ending == {"list", "vlock", "vget", "vset", "vunlock", "jrevoke"}

(* What holds of a call as long as nothing has failed. *)
Smooth(c) ==
    /\ pc[c] \in {"rget", "rset", "runlock"} => rotLock[Sid(c)] = c
    /\ pc[c] \in {"get", "rlock", "rget", "rset"} => loc[c].ok
    /\ pc[c] \in Ending \/ loc[c].op \in {"logout", "revoke"} => Sid(c) \in asked
    /\ Sid(c) \notin asked =>
         /\ pc[c] = "rset" => loc[c].copy = cache[Sid(c)] /\ Accepts(cache[Sid(c)], loc[c].used)
         /\ pc[c] = "jcreate" => cache[Sid(c)] = Opened(loc[c].next)
         /\ Granted(c) => cache[Sid(c)] = Opened(loc[c].next) /\ journal[Sid(c)] = Opened(loc[c].next)
         /\ Rotated(c) => /\ cache[Sid(c)] = Opened(loc[c].next)
                          /\ pc[c] # "audit" => Accepts(journal[Sid(c)], loc[c].used)
         /\ Rotated(c) => \A d \in Clients : Rotated(d) /\ Sid(d) = Sid(c) => d = c

(* Nobody owns the session: the stores agree on a token that was returned. *)
Settled(s) ==
    (\A c \in Clients : Owns(c) => Sid(c) # s) =>
        \E p \in pairs : p.sid = s /\ Accepts(cache[s], p.jti) /\ Accepts(journal[s], p.jti)

SmoothInv == (\A c \in Clients : Smooth(c)) /\ \A s \in opened \ asked : Settled(s)

AccessInv == TypeOK /\ TokensInv /\ KnownInv /\ (failures = 0 => SmoothInv)

(* A session that is being opened is nobody else's. *)
LEMMA LoginAlone ==
    ASSUME TypeOK, KnownInv, SmoothInv, NEW c \in Clients, NEW d \in Clients, d # c,
           loc[c].op = "login", Sid(c) \notin asked
    PROVE  Sid(d) # Sid(c)
<1>1. Sid(c) \in SessionIds /\ loc[d].op \in Op
  BY DEF TypeOK, KnownInv, Knows, Local
<1>2. CASE loc[d].op = "none"
  BY <1>1, <1>2, SessionsAssumption DEF KnownInv, Knows
<1>3. CASE loc[d].op \in {"login", "refresh"}
  BY <1>3 DEF KnownInv, Knows
<1>4. CASE loc[d].op \in {"logout", "revoke"}
  BY <1>4 DEF SmoothInv, Smooth
<1> QED
  BY <1>1, <1>2, <1>3, <1>4 DEF Op

(* Nobody owns a session that a call is about to rotate in Redis. *)
LEMMA NoRival ==
    ASSUME TypeOK, TokensInv, KnownInv, SmoothInv, NEW c \in Clients, NEW d \in Clients,
           pc[c] = "rset", Sid(c) \notin asked, Owns(d), Sid(d) = Sid(c)
    PROVE  FALSE
<1>1. /\ loc[c].op = "refresh" /\ Accepts(cache[Sid(c)], loc[c].used)
      /\ \E p \in pairs : p.sid = Sid(c) /\ p.jti = loc[c].used
  BY DEF TokensInv, Shaped, Rotation, SmoothInv, Smooth, KnownInv, Knows
<1>2. CASE loc[d].op = "login"
  BY <1>1, <1>2 DEF KnownInv, Knows
<1>3. CASE Rotated(d)
  <2>1. cache[Sid(c)].jti = loc[d].next
    <3>1. Sid(d) \notin asked /\ Smooth(d)
      BY DEF SmoothInv
    <3>2. cache[Sid(d)] = Opened(loc[d].next)
      BY <1>3, <3>1 DEF Smooth
    <3> QED
      BY <3>2 DEF Opened
  <2>2. loc[d].next # 0
    <3>1. loc[d].used \in Nat /\ loc[d].next \in Nat
      BY DEF TypeOK, Local, Token
    <3>2. CASE pc[d] \in Rotation
      <4>1. loc[d].used < loc[d].next
        BY <3>2 DEF TokensInv, Shaped
      <4> QED
        BY <3>1, <4>1
    <3>3. CASE pc[d] = "audit"
      <4>1. Granted(d)
        BY <1>3, <3>3 DEF Rotated, Granted, Buys
      <4>2. loc[d].used < journal[Sid(d)].jti /\ journal[Sid(d)] = Opened(loc[d].next)
        BY <4>1 DEF TokensInv, Spent, SmoothInv, Smooth
      <4> QED
        BY <3>1, <4>2 DEF Opened
    <3> QED
      BY <1>3, <3>2, <3>3 DEF Rotated, Rotation
  <2>3. loc[c].used = loc[d].next
    BY <1>1, <2>1 DEF Accepts
  <2> QED
    BY <1>1, <2>2, <2>3 DEF KnownInv, Knows
<1> QED
  BY <1>2, <1>3 DEF Owns

(* A step that touches no store of a session still in use, and no owner. *)
LEMMA StillSmooth ==
    ASSUME TypeOK, SmoothInv, NEW c \in Clients,
           \A s \in SessionIds \ asked : cache'[s] = cache[s] /\ journal'[s] = journal[s],
           pairs \subseteq pairs', opened' = opened, asked \subseteq asked',
           \A d \in Clients \ {c} : pc'[d] = pc[d] /\ loc'[d] = loc[d],
           \A d \in Clients \ {c} : rotLock[Sid(d)] = d => rotLock'[Sid(d)] = d,
           Smooth(c)',
           Owns(c) /\ Sid(c) \notin asked => Owns(c)' /\ Sid(c)' = Sid(c),
           Rotated(c)' /\ Sid(c)' \notin asked => Rotated(c) /\ Sid(c)' = Sid(c)
    PROVE  SmoothInv'
<1>1. \A d \in Clients \ {c} : /\ Sid(d)' = Sid(d) /\ Granted(d)' = Granted(d)
                               /\ Rotated(d)' = Rotated(d) /\ Owns(d)' = Owns(d)
  BY DEF Sid, Granted, Buys, Rotated, Owns
<1>2. ASSUME NEW d \in Clients \ {c} PROVE Smooth(d)'
  <2>1. Smooth(d)
    BY DEF SmoothInv
  <2>2. ASSUME Rotated(d), Sid(d) \notin asked, Rotated(c)', Sid(c)' = Sid(d) PROVE FALSE
    BY <2>1, <2>2 DEF Smooth
  <2>3. CASE pc[d] = "idle"
    BY <1>1, <2>1, <2>3 DEF Smooth, Rotated, Granted, Ending
  <2>4. CASE pc[d] # "idle"
    <3>1. Sid(d) \in SessionIds
      BY <2>4 DEF TypeOK
    <3>2. Sid(d) \notin asked => cache'[Sid(d)] = cache[Sid(d)] /\ journal'[Sid(d)] = journal[Sid(d)]
      BY <3>1
    <3> QED
      BY <1>1, <2>1, <2>2, <3>2 DEF Smooth
  <2> QED
    BY <2>3, <2>4
<1>3. ASSUME NEW s \in opened \ asked PROVE Settled(s)'
  <2>1. Settled(s) /\ cache'[s] = cache[s] /\ journal'[s] = journal[s]
    BY DEF SmoothInv, TypeOK
  <2>2. ASSUME \A d \in Clients : Owns(d)' => Sid(d)' # s PROVE \A d \in Clients : Owns(d) => Sid(d) # s
    BY <1>1, <2>2
  <2> QED
    BY <2>1, <2>2 DEF Settled
<1> QED
  BY <1>2, <1>3 DEF SmoothInv

(* A call that returns without being the owner of a session in use. *)
LEMMA ReturnsSmooth ==
    ASSUME TypeOK, SmoothInv, NEW c \in Clients, Return(c), ~Owns(c) \/ Sid(c) \in asked,
           \A s \in SessionIds \ asked : cache'[s] = cache[s] /\ journal'[s] = journal[s],
           pairs \subseteq pairs', opened' = opened, asked \subseteq asked',
           \A d \in Clients \ {c} : rotLock[Sid(d)] = d => rotLock'[Sid(d)] = d
    PROVE  SmoothInv'
<1>1. pc'[c] = "idle" /\ loc'[c] = Idle /\ \A d \in Clients \ {c} : pc'[d] = pc[d] /\ loc'[d] = loc[d]
  BY DEF TypeOK, Return, Go
<1>2. Smooth(c)' /\ ~Rotated(c)' /\ ~Owns(c)'
  BY <1>1 DEF Smooth, Rotated, Owns, Granted, Buys, Idle, Ending
<1> QED
  BY <1>1, <1>2, StillSmooth

(* The owner of a session in use has it to itself. *)
LEMMA OwnsAlone ==
    ASSUME TypeOK, TokensInv, KnownInv, SmoothInv, NEW c \in Clients, NEW d \in Clients, d # c,
           Owns(c), Sid(c) \notin asked, Sid(d) = Sid(c)
    PROVE  ~Owns(d) /\ pc[d] # "rset"
<1>1. loc[c].op # "login" /\ loc[d].op # "login"
  BY LoginAlone
<1>2. Rotated(c) /\ Smooth(c)
  BY <1>1 DEF Owns, SmoothInv
<1>3. ~Rotated(d)
  BY <1>2 DEF Smooth
<1> QED
  BY <1>1, <1>3, NoRival DEF Owns

(* A step of the owner of a session, which changes what the stores say of  *)
(* it.                                                                     *)
LEMMA OwnerSmooth ==
    ASSUME TypeOK, TokensInv, SmoothInv, NEW c \in Clients,
           \A s \in SessionIds \ {Sid(c)} : cache'[s] = cache[s] /\ journal'[s] = journal[s],
           UNCHANGED <<pairs, opened, asked, rotLock>>,
           \A d \in Clients \ {c} : pc'[d] = pc[d] /\ loc'[d] = loc[d],
           \A d \in Clients \ {c} : Sid(d) = Sid(c) => ~Owns(d) /\ pc[d] # "rset",
           Smooth(c)', Owns(c)', Sid(c)' = Sid(c)
    PROVE  SmoothInv'
<1>1. \A d \in Clients \ {c} : /\ Sid(d)' = Sid(d) /\ Granted(d)' = Granted(d)
                               /\ Rotated(d)' = Rotated(d) /\ Owns(d)' = Owns(d)
  BY DEF Sid, Granted, Buys, Rotated, Owns
<1>2. ASSUME NEW d \in Clients \ {c} PROVE Smooth(d)'
  <2>1. Smooth(d)
    BY DEF SmoothInv
  <2>2. CASE Sid(d) # Sid(c)
    <3>1. pc[d] # "idle" => cache'[Sid(d)] = cache[Sid(d)] /\ journal'[Sid(d)] = journal[Sid(d)]
      BY <2>2 DEF TypeOK
    <3>2. pc[d] = "idle" => ~Granted(d) /\ ~Rotated(d)
      BY DEF Granted, Rotated
    <3> QED
      BY <1>1, <2>1, <2>2, <3>1, <3>2 DEF Smooth, Ending
  <2>3. CASE Sid(d) = Sid(c)
    <3>1. ~Granted(d) /\ ~Rotated(d) /\ pc[d] \notin {"rset", "jcreate"}
      BY <2>3 DEF Owns, Granted, Buys, Rotated, TokensInv, Shaped, Opening
    <3> QED
      BY <1>1, <2>1, <3>1 DEF Smooth
  <2> QED
    BY <2>2, <2>3
<1>3. ASSUME NEW s \in opened \ asked PROVE Settled(s)'
  <2>1. Settled(s) /\ (s # Sid(c) => cache'[s] = cache[s] /\ journal'[s] = journal[s])
    BY DEF SmoothInv, TypeOK
  <2>2. CASE s = Sid(c)
    BY <2>2 DEF Settled
  <2>3. CASE s # Sid(c)
    <3>1. ASSUME \A d \in Clients : Owns(d)' => Sid(d)' # s PROVE \A d \in Clients : Owns(d) => Sid(d) # s
      BY <1>1, <2>3, <3>1
    <3> QED
      BY <2>1, <2>3, <3>1 DEF Settled
  <2> QED
    BY <2>2, <2>3
<1> QED
  BY <1>2, <1>3 DEF SmoothInv

LEMMA CallsSmooth ==
    ASSUME TypeOK, TokensInv, KnownInv, SmoothInv, NEW c \in Clients,
           \/ \E s \in SessionIds : LoginCall(c, s) \/ LogoutCall(c, s) \/ RevokeCall(c, s)
           \/ \E p \in pairs : RefreshCall(c, p)
           \/ RefreshCheck(c)
    PROVE  SmoothInv'
<1>0. pc[c] = "idle" => ~Owns(c)
  BY DEF TokensInv, Shaped, Owns, Rotated
<1>1. ASSUME NEW s \in SessionIds, LoginCall(c, s) PROVE SmoothInv'
  <2>1. /\ \A d \in Clients \ {c} : pc'[d] = pc[d] /\ loc'[d] = loc[d]
        /\ pc'[c] = "create" /\ loc'[c].op = "login" /\ loc'[c].sid = s
        /\ opened' = opened \cup {s} /\ s \notin opened
        /\ UNCHANGED <<cache, journal, pairs, asked, rotLock>> /\ pc[c] = "idle"
    BY <1>1 DEF TypeOK, LoginCall, Go, Idle, stores, locks
  <2>2. \A d \in Clients \ {c} : /\ Sid(d)' = Sid(d) /\ Granted(d)' = Granted(d)
                                 /\ Rotated(d)' = Rotated(d) /\ Owns(d)' = Owns(d)
    BY <2>1 DEF Sid, Granted, Buys, Rotated, Owns
  <2>3. ~Rotated(c)' /\ ~Granted(c)' /\ Owns(c)' /\ Sid(c)' = s
    BY <2>1 DEF Rotated, Granted, Owns, Sid
  <2>4. Smooth(c)'
    BY <2>1, <2>3 DEF Smooth, Ending
  <2>5. ASSUME NEW d \in Clients \ {c} PROVE Smooth(d)'
    <3>1. Smooth(d)
      BY DEF SmoothInv
    <3> QED
      BY <2>1, <2>2, <2>3, <3>1 DEF Smooth
  <2>6. ASSUME NEW t \in (opened \ asked)' PROVE Settled(t)'
    <3>1. CASE t = s
      BY <2>3, <3>1 DEF Settled
    <3>2. CASE t # s
      <4>1. Settled(t)
        BY <2>1, <3>2 DEF SmoothInv
      <4> QED
        BY <1>0, <2>1, <2>2, <4>1 DEF Settled
    <3> QED
      BY <3>1, <3>2
  <2> QED
    BY <2>4, <2>5, <2>6 DEF SmoothInv
<1>2. ASSUME NEW s \in SessionIds, LogoutCall(c, s) \/ RevokeCall(c, s) PROVE SmoothInv'
  <2>1. /\ \A d \in Clients \ {c} : pc'[d] = pc[d] /\ loc'[d] = loc[d]
        /\ pc'[c] \in {"vlock", "list"} /\ loc'[c].op \in {"logout", "revoke"} /\ loc'[c].sid = s
        /\ asked' = asked \cup {s}
        /\ UNCHANGED <<cache, journal, pairs, opened, rotLock>> /\ pc[c] = "idle"
    <3>1. CASE LogoutCall(c, s)
      BY <3>1 DEF TypeOK, LogoutCall, Go, Idle, stores, locks
    <3>2. CASE RevokeCall(c, s)
      BY <3>2 DEF TypeOK, RevokeCall, Go, Idle, stores, locks
    <3> QED
      BY <1>2, <3>1, <3>2
  <2>2. Smooth(c)' /\ ~Rotated(c)'
    BY <2>1 DEF Smooth, Rotated, Granted, Buys, Sid
  <2> QED
    BY <1>0, <2>1, <2>2, StillSmooth
<1>3. ASSUME NEW p \in pairs, RefreshCall(c, p) PROVE SmoothInv'
  <2>1. /\ \A d \in Clients \ {c} : pc'[d] = pc[d] /\ loc'[d] = loc[d]
        /\ pc'[c] = "get" /\ loc'[c].op = "refresh" /\ loc'[c].ok
        /\ UNCHANGED <<cache, journal, pairs, opened, asked, rotLock>> /\ pc[c] = "idle"
    BY <1>3 DEF TypeOK, RefreshCall, Go, Idle, stores, locks, log
  <2>2. Smooth(c)' /\ ~Rotated(c)'
    BY <2>1 DEF Smooth, Rotated, Granted, Ending
  <2> QED
    BY <1>0, <2>1, <2>2, StillSmooth
<1>4. CASE RefreshCheck(c)
  <2>1. /\ pc[c] = "get" /\ UNCHANGED <<cache, journal, pairs, opened, asked, rotLock>>
        /\ loc[c].op = "refresh" /\ ~Owns(c) /\ loc[c].ok
    BY <1>4 DEF SmoothInv, Smooth, RefreshCheck, stores, locks, TokensInv, Shaped, Owns, Rotated
  <2>2. CASE Return(c)
    BY <2>1, <2>2, ReturnsSmooth
  <2>3. CASE loc' = [loc EXCEPT ![c].next = nextToken] /\ Go(c, "rlock")
    <3>1. /\ \A d \in Clients \ {c} : pc'[d] = pc[d] /\ loc'[d] = loc[d]
          /\ pc'[c] = "rlock" /\ loc'[c].op = "refresh" /\ loc'[c].ok
      BY <2>1, <2>3 DEF TypeOK, Go, Local
    <3>2. Smooth(c)' /\ ~Rotated(c)'
      BY <3>1 DEF Smooth, Rotated, Granted, Ending
    <3> QED
      BY <2>1, <3>1, <3>2, StillSmooth
  <2> QED
    BY <1>4, <2>2, <2>3 DEF RefreshCheck
<1> QED
  BY <1>1, <1>2, <1>3, <1>4

(* A step on a session that somebody has asked to end. *)
LEMMA AskedSmooth ==
    ASSUME TypeOK, SmoothInv, NEW c \in Clients, Sid(c) \in asked, Sid(c)' = Sid(c),
           \A s \in SessionIds \ {Sid(c)} : cache'[s] = cache[s] /\ journal'[s] = journal[s],
           UNCHANGED <<pairs, opened, asked>>,
           \A d \in Clients \ {c} : pc'[d] = pc[d] /\ loc'[d] = loc[d],
           \A d \in Clients \ {c} : rotLock[Sid(d)] = d => rotLock'[Sid(d)] = d,
           pc'[c] \in {"rget", "rset", "runlock"} => rotLock'[Sid(c)] = c,
           pc'[c] \in {"get", "rlock", "rget", "rset"} => loc'[c].ok
    PROVE  SmoothInv'
<1>1. Smooth(c)'
  BY DEF Smooth
<1> QED
  BY <1>1, StillSmooth

LEMMA RotationSmooth ==
    ASSUME TypeOK, TokensInv, KnownInv, SmoothInv, NEW c \in Clients,
           RotateLock(c) \/ RotateRead(c) \/ RotateUnlock(c)
    PROVE  SmoothInv'
<1>0. /\ pc[c] \in Rotation /\ loc[c].op = "refresh" /\ Sid(c) \in SessionIds /\ Smooth(c)
      /\ UNCHANGED <<cache, journal, pairs, opened, asked>>
  BY DEF RotateLock, RotateRead, RotateUnlock, Rotation, TokensInv, Shaped, TypeOK, SmoothInv, stores, log
<1>1. CASE RotateLock(c)
  <2>1. pc[c] = "rlock" /\ ~Owns(c) /\ loc[c].ok
    BY <1>0, <1>1 DEF RotateLock, Owns, Rotated, Smooth
  <2>2. CASE Return(c) /\ UNCHANGED rotLock
    BY <1>0, <2>1, <2>2, ReturnsSmooth
  <2>3. CASE /\ rotLock[Sid(c)] = NoClient /\ rotLock' = [rotLock EXCEPT ![Sid(c)] = c]
             /\ Step(c, "rget")
    <3>1. /\ \A d \in Clients \ {c} : pc'[d] = pc[d] /\ loc'[d] = loc[d]
          /\ pc'[c] = "rget" /\ loc' = loc
      BY <2>3 DEF TypeOK, Step, Go
    <3>2. /\ rotLock'[Sid(c)] = c
          /\ \A d \in Clients \ {c} : rotLock[Sid(d)] = d => rotLock'[Sid(d)] = d
      BY <1>0, <2>3, SessionsAssumption DEF TypeOK
    <3>3. Smooth(c)' /\ ~Rotated(c)'
      BY <1>0, <2>1, <3>1, <3>2 DEF Smooth, Rotated, Granted, Ending, Sid
    <3> QED
      BY <1>0, <2>1, <3>1, <3>2, <3>3, StillSmooth
  <2> QED
    BY <1>1, <2>2, <2>3 DEF RotateLock
<1>2. CASE RotateRead(c)
  <2>1. pc[c] = "rget" /\ ~Owns(c) /\ loc[c].ok /\ rotLock[Sid(c)] = c /\ rotLock' = rotLock
    BY <1>0, <1>2 DEF RotateRead, Owns, Rotated, Smooth, locks
  <2>2. \A d \in Clients \ {c} : pc'[d] = pc[d] /\ loc'[d] = loc[d]
    BY <1>2 DEF TypeOK, RotateRead, Fail, Read, Go
  <2>3. CASE Fail(c, "runlock")
    <3>1. pc'[c] = "runlock" /\ loc'[c].ok = FALSE /\ loc'[c].op = "refresh" /\ Sid(c)' = Sid(c)
      BY <1>0, <2>3 DEF TypeOK, Fail, Go, Local, Sid
    <3>2. Smooth(c)' /\ ~Rotated(c)'
      BY <1>0, <2>1, <3>1 DEF Smooth, Rotated, Granted, Ending
    <3> QED
      BY <1>0, <2>1, <2>2, <3>2, StillSmooth
  <2>4. CASE Accepts(cache[Sid(c)], loc[c].used) /\ Read(c, "rset")
    <3>1. /\ pc'[c] = "rset" /\ loc'[c].ok /\ loc'[c].op = "refresh" /\ Sid(c)' = Sid(c)
          /\ loc'[c].copy = cache[Sid(c)] /\ loc'[c].used = loc[c].used
      BY <1>0, <2>1, <2>4 DEF TypeOK, Read, Go, Local, Sid
    <3>2. Smooth(c)' /\ ~Rotated(c)'
      BY <1>0, <2>1, <2>4, <3>1 DEF Smooth, Rotated, Granted, Ending
    <3> QED
      BY <1>0, <2>1, <2>2, <3>2, StillSmooth
  <2> QED
    BY <1>2, <2>3, <2>4 DEF RotateRead
<1>3. CASE RotateUnlock(c)
  <2>1. pc[c] = "runlock" /\ rotLock[Sid(c)] = c
    BY <1>0, <1>3 DEF RotateUnlock, Smooth
  <2>2. \A d \in Clients \ {c} : rotLock[Sid(d)] = d => rotLock'[Sid(d)] = d
    BY <1>0, <1>3, <2>1 DEF RotateUnlock, TypeOK
  <2>3. CASE loc[c].ok /\ Step(c, "jrotate")
    <3>1. /\ \A d \in Clients \ {c} : pc'[d] = pc[d] /\ loc'[d] = loc[d]
          /\ pc'[c] = "jrotate" /\ loc' = loc
      BY <2>3 DEF TypeOK, Step, Go
    <3>2. Rotated(c) /\ Rotated(c)' /\ Sid(c)' = Sid(c) /\ Owns(c)'
      BY <1>0, <2>1, <2>3, <3>1 DEF Rotated, Owns, Sid
    <3>3. \A d \in Clients : Rotated(d)' => Rotated(d) /\ Sid(d)' = Sid(d)
      BY <3>1, <3>2 DEF Rotated, Sid
    <3>4. Smooth(c)'
      BY <1>0, <2>1, <3>1, <3>2, <3>3 DEF Smooth, Granted, Ending
    <3> QED
      BY <1>0, <2>2, <3>1, <3>2, <3>4, StillSmooth
  <2>4. CASE ~loc[c].ok /\ Return(c)
    <3>1. ~Owns(c)
      BY <1>0, <2>1, <2>4 DEF Owns, Rotated
    <3> QED
      BY <1>0, <2>2, <2>4, <3>1, ReturnsSmooth
  <2> QED
    BY <1>3, <2>3, <2>4 DEF RotateUnlock, AfterRotate
<1> QED
  BY <1>1, <1>2, <1>3

LEMMA RotateWriteSmooth ==
    ASSUME TypeOK, TokensInv, KnownInv, SmoothInv, NEW c \in Clients, RotateWrite(c)
    PROVE  SmoothInv'
<1>1. /\ pc[c] = "rset" /\ loc[c].op = "refresh" /\ loc[c].ok /\ rotLock[Sid(c)] = c
      /\ Sid(c) \in SessionIds /\ Sid(c) \in opened /\ loc[c].copy \in Session
      /\ UNCHANGED <<journal, pairs, opened, asked, rotLock>> /\ loc' = loc
      /\ cache' = [cache EXCEPT ![Sid(c)] = [loc[c].copy EXCEPT !.jti = loc[c].next]]
  BY DEF RotateWrite, Step, locks, log, TypeOK, Local, KnownInv, Knows, SmoothInv, Smooth, TokensInv,
       Shaped, Rotation
<1>2. pc'[c] = "runlock" /\ \A d \in Clients \ {c} : pc'[d] = pc[d]
  BY DEF RotateWrite, Step, Go, TypeOK
<1>3. Sid(c)' = Sid(c) /\ \A s \in SessionIds \ {Sid(c)} : cache'[s] = cache[s]
  BY <1>1 DEF Sid, TypeOK
<1>4. CASE Sid(c) \in asked
  BY <1>1, <1>2, <1>3, <1>4, AskedSmooth
<1>5. CASE Sid(c) \notin asked
  <2>1. loc[c].copy = cache[Sid(c)] /\ Accepts(cache[Sid(c)], loc[c].used)
    BY <1>1, <1>5 DEF SmoothInv, Smooth
  <2>2. cache'[Sid(c)] = Opened(loc[c].next)
    BY <1>1, <2>1 DEF TypeOK, Accepts, Session, Opened
  <2>3. \A d \in Clients : Owns(d) => Sid(d) # Sid(c)
    BY <1>1, <1>5, NoRival
  <2>4. Accepts(journal[Sid(c)], loc[c].used)
    <3>1. \E p \in pairs : Accepts(cache[Sid(c)], p.jti) /\ Accepts(journal[Sid(c)], p.jti)
      BY <1>1, <1>5, <2>3 DEF SmoothInv, Settled
    <3> QED
      BY <2>1, <3>1 DEF Accepts
  <2>5. \A d \in Clients \ {c} : Sid(d) = Sid(c) => pc[d] # "rset"
    BY <1>1 DEF SmoothInv, Smooth
  <2>6. \A d \in Clients : Rotated(d)' /\ Sid(d)' = Sid(c) => d = c
    BY <1>1, <1>2, <2>3 DEF Rotated, Owns, Sid
  <2>7. Rotated(c)' /\ Owns(c)'
    BY <1>1, <1>2 DEF Rotated, Owns
  <2>8. Smooth(c)'
    BY <1>1, <1>2, <1>3, <2>2, <2>4, <2>6 DEF Smooth, Granted, Ending
  <2> QED
    BY <1>1, <1>2, <1>3, <2>3, <2>5, <2>7, <2>8, OwnerSmooth
<1> QED
  BY <1>4, <1>5

LEMMA JournalRotateSmooth ==
    ASSUME TypeOK, TokensInv, KnownInv, SmoothInv, NEW c \in Clients, JournalRotate(c)
    PROVE  SmoothInv'
<1>1. /\ pc[c] = "jrotate" /\ loc[c].op = "refresh" /\ Rotated(c) /\ Owns(c)
      /\ Sid(c) \in SessionIds /\ journal[Sid(c)] \in Session
      /\ UNCHANGED <<cache, pairs, opened, asked, rotLock>> /\ loc' = loc
      /\ pc'[c] \in {"audit", "vlock"} /\ \A d \in Clients \ {c} : pc'[d] = pc[d]
  BY DEF JournalRotate, Step, Go, locks, log, TypeOK, TokensInv, Shaped, Rotation, Rotated, Owns
<1>2. Sid(c)' = Sid(c) /\ \A s \in SessionIds \ {Sid(c)} : journal'[s] = journal[s]
  BY <1>1 DEF JournalRotate, Sid, TypeOK
<1>3. CASE Sid(c) \in asked
  BY <1>1, <1>2, <1>3, AskedSmooth
<1>4. CASE Sid(c) \notin asked
  <2>1. cache[Sid(c)] = Opened(loc[c].next) /\ Accepts(journal[Sid(c)], loc[c].used)
    BY <1>1, <1>4 DEF SmoothInv, Smooth
  <2>2. journal'[Sid(c)] = Opened(loc[c].next) /\ pc'[c] = "audit"
    BY <1>1, <2>1 DEF JournalRotate, Accepts, Opened, Session, TypeOK, Step, Go
  <2>3. \A d \in Clients \ {c} : Sid(d) = Sid(c) => ~Owns(d) /\ pc[d] # "rset"
    BY <1>1, <1>4, OwnsAlone
  <2>4. Rotated(c)' /\ Owns(c)' /\ \A d \in Clients : Rotated(d)' /\ Sid(d)' = Sid(c) => d = c
    BY <1>1, <2>2, <2>3 DEF Rotated, Owns, Sid
  <2>5. Smooth(c)'
    BY <1>1, <1>2, <2>1, <2>2, <2>4 DEF Smooth, Granted, Ending
  <2> QED
    BY <1>1, <1>2, <2>3, <2>4, <2>5, OwnerSmooth
<1> QED
  BY <1>3, <1>4

LEMMA CreationSmooth ==
    ASSUME TypeOK, TokensInv, KnownInv, SmoothInv, NEW c \in Clients, CacheCreate(c) \/ JournalCreate(c)
    PROVE  SmoothInv'
<1>1. /\ pc[c] \in Opening /\ loc[c].op = "login" /\ Sid(c) \in SessionIds
      /\ UNCHANGED <<pairs, opened, asked, rotLock>> /\ loc' = loc
      /\ pc'[c] \in {"jcreate", "audit"} /\ \A d \in Clients \ {c} : pc'[d] = pc[d]
  BY DEF CacheCreate, JournalCreate, Step, Go, locks, log, TypeOK, TokensInv, Shaped, Opening
<1>2. /\ Sid(c)' = Sid(c)
      /\ \A s \in SessionIds \ {Sid(c)} : cache'[s] = cache[s] /\ journal'[s] = journal[s]
  BY <1>1 DEF CacheCreate, JournalCreate, Sid, TypeOK
<1>3. CASE Sid(c) \in asked
  BY <1>1, <1>2, <1>3, AskedSmooth
<1>4. CASE Sid(c) \notin asked
  <2>1. \A d \in Clients \ {c} : Sid(d) # Sid(c)
    BY <1>1, <1>4, LoginAlone
  <2>2. pc'[c] = "jcreate" => cache'[Sid(c)] = Opened(loc[c].next)
    BY <1>1 DEF CacheCreate, JournalCreate, Step, Go, TypeOK, Opened
  <2>3. pc'[c] = "audit" => cache'[Sid(c)] = Opened(loc[c].next) /\ journal'[Sid(c)] = Opened(loc[c].next)
    BY <1>1, <1>4 DEF CacheCreate, JournalCreate, Step, Go, TypeOK, Opened, SmoothInv, Smooth
  <2>4. Smooth(c)' /\ Owns(c)'
    BY <1>1, <1>2, <2>2, <2>3 DEF Smooth, Owns, Rotated, Granted, Ending
  <2> QED
    BY <1>1, <1>2, <2>1, <2>4, OwnerSmooth
<1> QED
  BY <1>3, <1>4

LEMMA RevocationSmooth ==
    ASSUME TypeOK, TokensInv, KnownInv, SmoothInv, NEW c \in Clients,
           \/ RevokeCheck(c) \/ RevokeLock(c) \/ RevokeRead(c) \/ RevokeWrite(c) \/ RevokeUnlock(c)
           \/ JournalRevoke(c)
    PROVE  SmoothInv'
<1>1. /\ pc[c] \in Ending /\ Sid(c) \in asked /\ Sid(c) \in SessionIds
      /\ UNCHANGED <<pairs, opened, asked, rotLock>>
  BY DEF RevokeCheck, RevokeLock, RevokeRead, RevokeWrite, RevokeUnlock, JournalRevoke, Ending, SmoothInv,
       Smooth, TypeOK, locks, log
<1>2. \A s \in SessionIds \ {Sid(c)} : cache'[s] = cache[s] /\ journal'[s] = journal[s]
  BY <1>1 DEF RevokeCheck, RevokeLock, RevokeRead, RevokeWrite, RevokeUnlock, JournalRevoke, TypeOK, stores
<1>3. CASE Return(c)
  BY <1>1, <1>2, <1>3, ReturnsSmooth
<1>4. CASE \E l \in Ending \cup {"audit"} : Step(c, l) \/ Read(c, l)
  <2>1. /\ \A d \in Clients \ {c} : pc'[d] = pc[d] /\ loc'[d] = loc[d]
        /\ pc'[c] \in Ending \cup {"audit"} /\ Sid(c)' = Sid(c)
    BY <1>4 DEF Step, Read, Go, TypeOK, Local, Sid
  <2> QED
    BY <1>1, <1>2, <2>1, AskedSmooth DEF Ending
<1>5. CASE Go(c, "vunlock") /\ loc' = [loc EXCEPT ![c].ok = loc[c].op = "revoke"]
  <2>1. /\ \A d \in Clients \ {c} : pc'[d] = pc[d] /\ loc'[d] = loc[d]
        /\ pc'[c] = "vunlock" /\ Sid(c)' = Sid(c)
    BY <1>5 DEF Go, TypeOK, Local, Sid
  <2> QED
    BY <1>1, <1>2, <2>1, AskedSmooth
<1> QED
  BY <1>3, <1>4, <1>5 DEF RevokeCheck, RevokeLock, RevokeRead, RevokeWrite, RevokeUnlock, JournalRevoke,
       AfterRevoke, Ending

LEMMA AuditSmooth ==
    ASSUME TypeOK, TokensInv, KnownInv, SmoothInv, NEW c \in Clients, Audit(c)
    PROVE  SmoothInv'
<1>1. /\ pc[c] = "audit" /\ Sid(c) \in SessionIds /\ Return(c) /\ pairs \subseteq pairs'
      /\ UNCHANGED <<cache, journal, rotLock, opened, asked>>
  BY DEF Audit, stores, locks, TypeOK
<1>2. CASE Sid(c) \in asked
  BY <1>1, <1>2, ReturnsSmooth
<1>3. CASE Sid(c) \notin asked
  <2>1. Granted(c) /\ loc[c].op # "logout"
    BY <1>1, <1>3 DEF SmoothInv, Smooth, TokensInv, Shaped, Granted
  <2>2. cache[Sid(c)] = Opened(loc[c].next) /\ journal[Sid(c)] = Opened(loc[c].next)
    BY <1>3, <2>1 DEF SmoothInv, Smooth
  <2>3. [sid |-> Sid(c), used |-> loc[c].used, jti |-> loc[c].next] \in pairs'
    BY <2>1 DEF Audit
  <2>4. pc'[c] = "idle" /\ loc'[c] = Idle /\ \A d \in Clients \ {c} : pc'[d] = pc[d] /\ loc'[d] = loc[d]
    BY <1>1 DEF TypeOK, Return, Go
  <2>5. Smooth(c)' /\ ~Rotated(c)' /\ ~Owns(c)'
    BY <2>4 DEF Smooth, Rotated, Owns, Granted, Buys, Idle, Ending
  <2>6. \A d \in Clients \ {c} : /\ Sid(d)' = Sid(d) /\ Granted(d)' = Granted(d)
                                 /\ Rotated(d)' = Rotated(d) /\ Owns(d)' = Owns(d)
    BY <2>4 DEF Sid, Granted, Buys, Rotated, Owns
  <2>7. ASSUME NEW d \in Clients \ {c} PROVE Smooth(d)'
    <3>1. Smooth(d)
      BY DEF SmoothInv
    <3> QED
      BY <1>1, <2>4, <2>5, <2>6, <3>1 DEF Smooth
  <2>8. ASSUME NEW s \in opened \ asked PROVE Settled(s)'
    <3>1. CASE s = Sid(c)
      <4> DEFINE p == [sid |-> Sid(c), used |-> loc[c].used, jti |-> loc[c].next]
      <4>1. p.sid = s /\ Accepts(cache'[s], p.jti) /\ Accepts(journal'[s], p.jti)
        BY <1>1, <2>2, <3>1 DEF Accepts, Opened
      <4> QED
        BY <2>3, <4>1 DEF Settled
    <3>2. CASE s # Sid(c)
      <4>1. ASSUME \A d \in Clients : Owns(d)' => Sid(d)' # s PROVE \A d \in Clients : Owns(d) => Sid(d) # s
        BY <2>6, <3>2, <4>1
      <4>2. Settled(s)
        BY DEF SmoothInv
      <4> QED
        BY <1>1, <4>1, <4>2 DEF Settled
    <3> QED
      BY <3>1, <3>2
  <2> QED
    BY <1>1, <2>5, <2>7, <2>8 DEF SmoothInv
<1> QED
  BY <1>2, <1>3

(* As long as calls do not stall, only a lock that nobody uses expires. *)
LEMMA ExpirySmooth ==
    ASSUME TypeOK, SmoothInv, failures' = 0, failures = 0, NEW s \in SessionIds,
           ExpireRotateLock(s) \/ ExpireRevokeLock(s)
    PROVE  SmoothInv'
<1>1. UNCHANGED <<cache, journal, pc, loc, pairs, opened, asked>>
  BY DEF ExpireRotateLock, ExpireRevokeLock, stores, log
<1>2. ASSUME NEW d \in Clients PROVE Smooth(d)'
  <2>1. Smooth(d)
    BY DEF SmoothInv
  <2>2. pc[d] \in {"rget", "rset", "runlock"} => rotLock'[Sid(d)] = d
    <3>1. CASE ExpireRotateLock(s)
      <4>1. ~Rotating(rotLock[s], s)
        BY <3>1 DEF ExpireRotateLock, TimesOut, Failure
      <4> QED
        BY <2>1, <3>1, <4>1 DEF TypeOK, Smooth, Rotating, ExpireRotateLock
    <3>2. CASE ExpireRevokeLock(s)
      BY <2>1, <3>2 DEF Smooth, ExpireRevokeLock
    <3> QED
      BY <3>1, <3>2
  <2> QED
    BY <1>1, <2>1, <2>2 DEF Smooth, Granted, Buys, Rotated, Sid
<1>3. ASSUME NEW t \in opened \ asked PROVE Settled(t)'
  BY <1>1 DEF SmoothInv, Settled, Owns, Rotated, Sid
<1> QED
  BY <1>1, <1>2, <1>3 DEF SmoothInv

LEMMA NextKeepsSmooth ==
    ASSUME AccessInv, [Next]_vars
    PROVE  failures' = 0 => SmoothInv'
<1> SUFFICES ASSUME failures' = 0 PROVE SmoothInv'
  OBVIOUS
<1>1. ASSUME NEW c \in Clients, Fault(c) \/ Crash(c) PROVE FALSE
  BY <1>1 DEF AccessInv, TypeOK, Fault, Crash, Failure
<1>2. ASSUME NEW c \in Clients, Call(c) PROVE SmoothInv'
  <2>1. failures = 0
    BY <1>1, <1>2 DEF Call, LoginCall, LogoutCall, RevokeCall, RefreshCall, CacheCreate, JournalCreate,
         RefreshCheck, RotateLock, RotateRead, RotateWrite, RotateUnlock, JournalRotate, RevokeCheck,
         RevokeLock, RevokeRead, RevokeWrite, RevokeUnlock, JournalRevoke, Audit
  <2> QED
    BY <1>1, <1>2, <2>1, CallsSmooth, RotationSmooth, RotateWriteSmooth, JournalRotateSmooth, CreationSmooth,
       RevocationSmooth, AuditSmooth DEF AccessInv, Call
<1>3. ASSUME NEW s \in SessionIds, ExpireRotateLock(s) \/ ExpireRevokeLock(s) PROVE SmoothInv'
  <2>1. failures = 0
    BY <1>3 DEF AccessInv, TypeOK, ExpireRotateLock, ExpireRevokeLock, TimesOut, Failure
  <2> QED
    BY <1>3, <2>1, ExpirySmooth DEF AccessInv
<1>4. CASE UNCHANGED vars
  BY <1>4 DEF AccessInv, SmoothInv, Smooth, Settled, Owns, Rotated, Granted, Buys, Sid, vars, stores, locks, log
<1> QED
  BY <1>2, <1>3, <1>4 DEF Next

LEMMA InitAccess == Init => AccessInv
<1> SUFFICES ASSUME Init PROVE AccessInv
  OBVIOUS
<1>1. \A c \in Clients : pc[c] = "idle" /\ loc[c].op = "none" /\ loc[c].sid = NoSession /\ loc[c].next = 0
  BY DEF Init, Idle
<1>2. KnownInv
  BY <1>1 DEF KnownInv, Knows, Sid
<1>3. SmoothInv
  BY <1>1 DEF Init, SmoothInv, Smooth, Granted, Rotated, Ending
<1> QED
  BY <1>2, <1>3, InitTypes, InitTokens DEF AccessInv

LEMMA AccessKept == ASSUME AccessInv, [Next]_vars PROVE AccessInv'
BY NextKeepsTypes, NextKeepsTokens, NextKeepsKnown, NextKeepsSmooth DEF AccessInv

LEMMA AccessShows == AccessInv => NeverLockedOut
<1> SUFFICES ASSUME AccessInv, NEW s \in SessionIds, failures = 0, Quiet(s), s \notin asked, s \in opened
    PROVE \E p \in pairs : p.sid = s /\ Accepts(cache[s], p.jti) /\ Accepts(journal[s], p.jti)
  BY DEF NeverLockedOut
<1> QED
  BY DEF AccessInv, SmoothInv, Settled, Quiet

(* As long as nothing fails and no call outlives its lock, a user who did  *)
(* not end a session is never locked out of it, for any number of calls    *)
(* and sessions: whenever no call is at work on it, both stores expect one *)
(* and the same token, and it was returned to somebody.                    *)
THEOREM NobodyLockedOut == Spec => []NeverLockedOut
BY InitAccess, AccessKept, AccessShows, PTL DEF Spec

-----------------------------------------------------------------------------
(* The calls of MCCalls: triggers of a definition, and triggers, cancels   *)
(* and retries of its runs.  Whichever of the three moves, the others keep *)
(* what they have.                                                         *)

callVars == <<part, vars, runVars>>

(* What is remembered of a run that was over: it is over, as it was.       *)
SettledInv == \A r \in Runs : settled[r] = "no" \/ (R!Over(r) /\ settled[r] = run[r].status)

CallsInv ==
    /\ part = "admission" => A!AllPoliciesInv /\ A!LinkedInv
    /\ part = "retry" => R!TypeInv
    /\ part # "retry" => \A r \in Runs : settled[r] = "no"
    /\ part = "retry" => SettledInv

LEMMA OneRunServer == A!Triggered /\ A!SafeFaults
BY DEF A!Triggered, A!SafeFaults

LEMMA CallsStart == MCInit => CallsInv
<1> SUFFICES ASSUME MCInit PROVE CallsInv
  OBVIOUS
<1>1. part = "admission" => A!AllPoliciesInv /\ A!LinkedInv
  BY MCAssumption, A!InitPolicy, A!InitReplace, A!InitLinked DEF MCInit, A!AllPoliciesInv
<1>2. part = "retry" => R!TypeInv
  BY MCAssumption, R!InitTypes DEF MCInit
<1> QED
  BY <1>1, <1>2 DEF MCInit, CallsInv, SettledInv

LEMMA SettledKept ==
    ASSUME R!TypeInv, SettledInv, RetryNext
    PROVE  SettledInv'
<1>1. R!TypeInv' /\ [R!Next]_(R!vars)
  BY MCAssumption, R!NextKeepsTypes DEF RetryNext
<1>2. ASSUME NEW r \in Runs PROVE settled'[r] = "no" \/ (R!Over(r)' /\ settled'[r] = run'[r].status)
  <2>1. settled'[r] = IF settled[r] = "no" /\ Settles(r)' THEN run'[r].status ELSE settled[r]
    BY DEF RetryNext
  <2>2. CASE settled[r] = "no" /\ ~Settles(r)'
    BY <2>1, <2>2
  <2>3. CASE settled[r] = "no" /\ Settles(r)'
    <3>1. run'[r].status \in {"succeeded", "cancelled"} /\ R!Quiet(r)'
      BY <2>3 DEF Settles
    <3>2. R!Over(r)'
      BY <3>1 DEF R!Over, R!Quiet, R!Writing, R!Handling
    <3> QED
      BY <2>1, <2>3, <3>2
  <2>4. CASE settled[r] # "no"
    <3>1. R!Over(r) /\ settled[r] = run[r].status
      BY <2>4 DEF SettledInv
    <3>2. R!Over(r)' /\ run'[r] = run[r]
      BY <1>1, <3>1, R!OverStays
    <3> QED
      BY <2>1, <2>4, <3>1, <3>2
  <2> QED
    BY <2>2, <2>3, <2>4
<1> QED
  BY <1>2 DEF SettledInv

LEMMA CallsKept == CallsInv /\ [MCNext]_callVars => CallsInv'
<1> SUFFICES ASSUME CallsInv, [MCNext]_callVars PROVE CallsInv'
  OBVIOUS
<1>1. CASE part = "admission" /\ A!Next /\ UNCHANGED <<part, settled, vars>>
  <2>1. A!AllPoliciesInv' /\ A!LinkedInv'
    BY <1>1, MCAssumption, OneRunServer, A!NextKeepsAll, A!NextKeepsLinked DEF CallsInv
  <2> QED
    BY <1>1, <2>1 DEF CallsInv
<1>2. CASE part = "retry" /\ RetryNext /\ UNCHANGED <<part, vars>>
  <2>1. R!TypeInv' /\ SettledInv'
    BY <1>2, MCAssumption, R!NextKeepsTypes, SettledKept DEF CallsInv, RetryNext
  <2> QED
    BY <1>2, <2>1 DEF CallsInv
<1>3. CASE part = "sessions" /\ UNCHANGED <<part, runVars>>
  BY <1>3 DEF CallsInv, runVars
<1>4. CASE UNCHANGED callVars
  <2>1. UNCHANGED <<part, settled>> /\ UNCHANGED A!vars /\ UNCHANGED R!vars
    BY <1>4 DEF callVars, runVars, A!vars, R!vars
  <2>2. part = "admission" => A!AllPoliciesInv' /\ A!LinkedInv'
    BY <2>1, MCAssumption, OneRunServer, A!NextKeepsAll, A!NextKeepsLinked DEF CallsInv
  <2>3. part = "retry" => R!TypeInv'
    BY <2>1, MCAssumption, R!NextKeepsTypes DEF CallsInv
  <2>4. SettledInv => SettledInv'
    BY <2>1 DEF SettledInv, R!Over, R!vars
  <2> QED
    BY <2>1, <2>2, <2>3, <2>4 DEF CallsInv
<1> QED
  BY <1>1, <1>2, <1>3, <1>4 DEF MCNext

LEMMA CallsAlways == MCSpec => []CallsInv
<1>1. MCSpec => MCInit /\ [][MCNext]_callVars
  BY DEF MCSpec, callVars
<1> QED
  BY <1>1, CallsStart, CallsKept, PTL

(* A definition that one server triggers keeps its policy and leaves no    *)
(* active run without a task, under "forbid", "allow" and "replace"; and   *)
(* with cancels, retries and every fault the runs keep their types: for    *)
(* any number of callers, workers, runs, tasks and attempts.               *)
THEOREM RunsAreKept == MCSpec => []RunsHold
<1>1. ASSUME CallsInv, part = "admission" PROVE A!TypeOK /\ A!PolicyHolds /\ A!NoOrphan
  <2>1. A!AllPoliciesInv /\ A!LinkedInv
    BY <1>1 DEF CallsInv
  <2>2. A!TypeOK
    BY <2>1 DEF A!LinkedInv, A!PolicyInv, A!TypeInv
  <2> QED
    BY <2>1, <2>2, MCAssumption, A!LiveHolds, A!LinkedNoOrphan
<1>2. CallsInv /\ part = "retry" => R!TypeOK
  BY DEF CallsInv, R!TypeInv
<1>3. CallsInv => RunsHold
  BY <1>1, <1>2 DEF RunsHold
<1> QED
  BY <1>3, CallsAlways, PTL

(* A finished run of such a definition is not written again. *)
THEOREM FinishedAreKept == MCSpec => FinishedStays
<1>1. CallsInv /\ [MCNext]_callVars => [part = "admission" => A!FinalStays]_runVars
  <2> SUFFICES ASSUME CallsInv, [MCNext]_callVars, part = "admission" PROVE A!FinalStays \/ UNCHANGED runVars
    OBVIOUS
  <2>1. [A!Next]_(A!vars) /\ UNCHANGED settled
    BY DEF MCNext, callVars, runVars, A!vars
  <2>2. [A!FinalStays]_(A!vars)
    BY <2>1, MCAssumption, OneRunServer, A!FinalKept DEF CallsInv, A!AllPoliciesInv
  <2>3. UNCHANGED A!vars => UNCHANGED runVars
    BY <2>1 DEF A!vars, runVars
  <2> QED
    BY <2>2, <2>3
<1>2. MCSpec => [][MCNext]_callVars
  BY DEF MCSpec, callVars
<1> QED
  BY <1>1, <1>2, CallsAlways, PTL DEF FinishedStays

(* A run that succeeded or was cancelled, and that nobody was working on,  *)
(* stays so whoever triggers, cancels and retries and whatever fails: no   *)
(* call and no worker holds a copy of it that it could still write.        *)
THEOREM SettledStays == MCSpec => []SettledForGood
<1>1. CallsInv => SettledForGood
  BY DEF CallsInv, SettledInv, SettledForGood
<1> QED
  BY <1>1, CallsAlways, PTL
=============================================================================
