------------------------------ MODULE Sessions ------------------------------
(***************************************************************************)
(* Login sessions: Login, Refresh, Logout and RevokeSession of             *)
(* application/auth over the two stores they keep a session in.  Redis     *)
(* holds the session a refresh token is looked up in                       *)
(* (authplatform/session_redis.go), the database its journal               *)
(* (authplatform/session_gorm.go).                                         *)
(*                                                                         *)
(* Every Redis command is a step, a journal operation is one transaction   *)
(* that locks the row.  Rotate and Revoke of the Redis store are           *)
(* read-modify-write under locks of different names, so they exclude       *)
(* themselves but not each other.                                          *)
(*                                                                         *)
(* A refresh token is its identifier (JTI), a number that is never handed  *)
(* out twice; 0 is no token.  Left out: passwords and the lockout, access  *)
(* tokens (they are never looked up), tenants, and the end of a session's  *)
(* lifetime.                                                               *)
(***************************************************************************)
EXTENDS Naturals

CONSTANTS
    Clients,        \* calls in progress, one each
    SessionIds,     \* session identifiers
    NoClient, NoSession,
    FaultPoints,    \* program points at which a command may fail
    MayStall,       \* a call may be slower than the 3 s of its lock
    MaxFailures,    \* bound on crashes, failed commands and stalls together
    MaxTokens       \* bound on refresh tokens issued

ASSUME SessionsAssumption ==
    /\ NoClient \notin Clients /\ NoSession \notin SessionIds
    /\ MayStall \in BOOLEAN
    /\ MaxFailures \in Nat /\ MaxTokens \in Nat

VARIABLES
    cache,          \* auth-session:<id> in Redis
    journal,        \* the row of gvba_auth_sessions
    rotLock,        \* lock:auth-rotate-<id>
    revLock,        \* lock:auth-revoke-<id>
    pc, loc,        \* the calls and their locals
    opened,         \* session identifiers handed out
    nextToken,      \* the next unused token
    pairs,          \* token pairs returned: session, token presented, token issued
    asked,          \* sessions somebody has asked to end
    failures

stores == <<cache, journal>>
locks  == <<rotLock, revLock>>
log    == <<opened, nextToken, pairs, asked>>
vars   == <<stores, locks, pc, loc, log, failures>>

Token   == Nat
Session == [status : {"absent", "active", "revoked"}, jti : Token]
NoEntry == [status |-> "absent", jti |-> 0]
Pair    == [sid : SessionIds, used : Token, jti : Token]

Op    == {"none", "login", "refresh", "logout", "revoke"}
Point == {"idle", "create", "jcreate", "get", "rlock", "rget", "rset", "runlock", "jrotate",
          "list", "vlock", "vget", "vset", "vunlock", "jrevoke", "audit"}
Local == [op : Op, sid : SessionIds \cup {NoSession}, used : Token, next : Token,
          copy : Session, ok : BOOLEAN, late : BOOLEAN]
Idle  == [op |-> "none", sid |-> NoSession, used |-> 0, next |-> 0, copy |-> NoEntry,
          ok |-> TRUE, late |-> FALSE]

Init ==
    /\ cache = [s \in SessionIds |-> NoEntry]
    /\ journal = [s \in SessionIds |-> NoEntry]
    /\ rotLock = [s \in SessionIds |-> NoClient]
    /\ revLock = [s \in SessionIds |-> NoClient]
    /\ pc = [c \in Clients |-> "idle"]
    /\ loc = [c \in Clients |-> Idle]
    /\ opened = {} /\ nextToken = 1 /\ pairs = {} /\ asked = {}
    /\ failures = 0

Failure ==
    /\ failures < MaxFailures
    /\ failures' = failures + 1

Go(c, l)    == pc' = [pc EXCEPT ![c] = l]
Step(c, l)  == Go(c, l) /\ UNCHANGED loc
Return(c)   == Go(c, "idle") /\ loc' = [loc EXCEPT ![c] = Idle]
Sid(c)      == loc[c].sid
Read(c, l)  == Go(c, l) /\ loc' = [loc EXCEPT ![c].copy = cache[Sid(c)]]
Fail(c, l)  == Go(c, l) /\ loc' = [loc EXCEPT ![c].ok = FALSE]

(* The session is still there, not revoked, and waits for token j. *)
Accepts(entry, j) == entry.status = "active" /\ entry.jti = j

-----------------------------------------------------------------------------
(* Login, after the credentials have been checked. *)

LoginCall(c, s) ==
    /\ pc[c] = "idle"
    /\ s \notin opened
    /\ nextToken <= MaxTokens
    /\ opened' = opened \cup {s}
    /\ nextToken' = nextToken + 1
    /\ loc' = [loc EXCEPT ![c] = [Idle EXCEPT !.op = "login", !.sid = s, !.next = nextToken]]
    /\ Go(c, "create")
    /\ UNCHANGED <<stores, locks, pairs, asked, failures>>

CacheCreate(c) ==
    /\ pc[c] = "create"
    /\ cache' = [cache EXCEPT ![Sid(c)] = [status |-> "active", jti |-> loc[c].next]]
    /\ Step(c, "jcreate")
    /\ UNCHANGED <<journal, locks, log, failures>>

JournalCreate(c) ==
    /\ pc[c] = "jcreate"
    /\ journal' = [journal EXCEPT ![Sid(c)] = [status |-> "active", jti |-> loc[c].next]]
    /\ Step(c, "audit")
    /\ UNCHANGED <<cache, locks, log, failures>>

-----------------------------------------------------------------------------
(* Refresh with a token that some call has returned. *)

RefreshCall(c, p) ==
    /\ pc[c] = "idle"
    /\ loc' = [loc EXCEPT ![c] = [Idle EXCEPT !.op = "refresh", !.sid = p.sid, !.used = p.jti,
                                              !.late = journal[p.sid].status = "revoked"]]
    /\ Go(c, "get")
    /\ UNCHANGED <<stores, locks, log, failures>>

(* The checks of the service, then the new pair is signed. *)
RefreshCheck(c) ==
    /\ pc[c] = "get"
    /\ \/ ~Accepts(cache[Sid(c)], loc[c].used) /\ Return(c) /\ UNCHANGED nextToken
       \/ /\ Accepts(cache[Sid(c)], loc[c].used)
          /\ nextToken <= MaxTokens
          /\ nextToken' = nextToken + 1
          /\ loc' = [loc EXCEPT ![c].next = nextToken]
          /\ Go(c, "rlock")
    /\ UNCHANGED <<stores, locks, opened, pairs, asked, failures>>

(* Mutant of RotateLock: nobody is kept out. *)
RotateUnlocked(c) ==
    /\ pc[c] = "rlock"
    /\ rotLock' = [rotLock EXCEPT ![Sid(c)] = c]
    /\ Step(c, "rget")
    /\ UNCHANGED <<stores, revLock, log, failures>>

RotateLock(c) ==
    /\ pc[c] = "rlock"
    /\ \/ rotLock[Sid(c)] # NoClient /\ Return(c) /\ UNCHANGED rotLock
       \/ /\ rotLock[Sid(c)] = NoClient
          /\ rotLock' = [rotLock EXCEPT ![Sid(c)] = c]
          /\ Step(c, "rget")
    /\ UNCHANGED <<stores, revLock, log, failures>>

RotateRead(c) ==
    /\ pc[c] = "rget"
    /\ \/ ~Accepts(cache[Sid(c)], loc[c].used) /\ Fail(c, "runlock")
       \/ Accepts(cache[Sid(c)], loc[c].used) /\ Read(c, "rset")
    /\ UNCHANGED <<stores, locks, log, failures>>

(* SetJSON of the copy with the new token, whatever is stored by now. *)
RotateWrite(c) ==
    /\ pc[c] = "rset"
    /\ cache' = [cache EXCEPT ![Sid(c)] = [loc[c].copy EXCEPT !.jti = loc[c].next]]
    /\ Step(c, "runlock")
    /\ UNCHANGED <<journal, locks, log, failures>>

AfterRotate(c) == IF loc[c].ok THEN Step(c, "jrotate") ELSE Return(c)

RotateUnlock(c) ==
    /\ pc[c] = "runlock"
    /\ rotLock' = IF rotLock[Sid(c)] = c THEN [rotLock EXCEPT ![Sid(c)] = NoClient] ELSE rotLock
    /\ AfterRotate(c)
    /\ UNCHANGED <<stores, revLock, log, failures>>

(* Mutants of JournalRotate: the journal takes any token, or any session. *)
JournalRotateAny(c) ==
    /\ pc[c] = "jrotate"
    /\ IF journal[Sid(c)].status = "active"
       THEN journal' = [journal EXCEPT ![Sid(c)].jti = loc[c].next] /\ Step(c, "audit")
       ELSE Step(c, "vlock") /\ UNCHANGED journal
    /\ UNCHANGED <<cache, locks, log, failures>>
JournalRotateRevoked(c) ==
    /\ pc[c] = "jrotate"
    /\ IF journal[Sid(c)].jti = loc[c].used
       THEN journal' = [journal EXCEPT ![Sid(c)].jti = loc[c].next] /\ Step(c, "audit")
       ELSE Step(c, "vlock") /\ UNCHANGED journal
    /\ UNCHANGED <<cache, locks, log, failures>>

(* The row decides: an unknown, revoked or already rotated session makes   *)
(* the call revoke it in Redis as well.                                    *)
JournalRotate(c) ==
    /\ pc[c] = "jrotate"
    /\ IF Accepts(journal[Sid(c)], loc[c].used)
       THEN journal' = [journal EXCEPT ![Sid(c)].jti = loc[c].next] /\ Step(c, "audit")
       ELSE Step(c, "vlock") /\ UNCHANGED journal
    /\ UNCHANGED <<cache, locks, log, failures>>

-----------------------------------------------------------------------------
(* Logout, and RevokeSession of another device of the user. *)

LogoutCall(c, s) ==
    /\ pc[c] = "idle"
    /\ \E p \in pairs : p.sid = s
    /\ loc' = [loc EXCEPT ![c] = [Idle EXCEPT !.op = "logout", !.sid = s]]
    /\ Go(c, "vlock")
    /\ asked' = asked \cup {s}
    /\ UNCHANGED <<stores, locks, opened, nextToken, pairs, failures>>

RevokeCall(c, s) ==
    /\ pc[c] = "idle"
    /\ s \in opened
    /\ loc' = [loc EXCEPT ![c] = [Idle EXCEPT !.op = "revoke", !.sid = s]]
    /\ Go(c, "list")
    /\ asked' = asked \cup {s}
    /\ UNCHANGED <<stores, locks, opened, nextToken, pairs, failures>>

(* The user's sessions are those of the journal. *)
RevokeCheck(c) ==
    /\ pc[c] = "list"
    /\ IF journal[Sid(c)].status = "absent" THEN Return(c) ELSE Step(c, "vlock")
    /\ UNCHANGED <<stores, locks, log, failures>>

RevokeLock(c) ==
    /\ pc[c] = "vlock"
    /\ \/ revLock[Sid(c)] # NoClient /\ Return(c) /\ UNCHANGED revLock
       \/ /\ revLock[Sid(c)] = NoClient
          /\ revLock' = [revLock EXCEPT ![Sid(c)] = c]
          /\ Step(c, "vget")
    /\ UNCHANGED <<stores, rotLock, log, failures>>

(* Only RevokeSession goes on without a session in Redis. *)
RevokeRead(c) ==
    /\ pc[c] = "vget"
    /\ \/ /\ cache[Sid(c)].status = "absent"
          /\ Go(c, "vunlock")
          /\ loc' = [loc EXCEPT ![c].ok = loc[c].op = "revoke"]
       \/ cache[Sid(c)].status # "absent" /\ Read(c, "vset")
    /\ UNCHANGED <<stores, locks, log, failures>>

(* Mutant of RevokeWrite: the status is misspelt. *)
RevokeMisspelt(c) ==
    /\ pc[c] = "vset"
    /\ cache' = [cache EXCEPT ![Sid(c)] = [loc[c].copy EXCEPT !.status = "revokd"]]
    /\ Step(c, "vunlock")
    /\ UNCHANGED <<journal, locks, log, failures>>

RevokeWrite(c) ==
    /\ pc[c] = "vset"
    /\ cache' = [cache EXCEPT ![Sid(c)] = [loc[c].copy EXCEPT !.status = "revoked"]]
    /\ Step(c, "vunlock")
    /\ UNCHANGED <<journal, locks, log, failures>>

(* A Revoke that cleans up after a failed Login or Refresh ends the call. *)
AfterRevoke(c) ==
    IF loc[c].ok /\ loc[c].op \in {"logout", "revoke"} THEN Step(c, "jrevoke") ELSE Return(c)

RevokeUnlock(c) ==
    /\ pc[c] = "vunlock"
    /\ revLock' = IF revLock[Sid(c)] = c THEN [revLock EXCEPT ![Sid(c)] = NoClient] ELSE revLock
    /\ AfterRevoke(c)
    /\ UNCHANGED <<stores, rotLock, log, failures>>

JournalRevoke(c) ==
    /\ pc[c] = "jrevoke"
    /\ IF journal[Sid(c)].status = "active"
       THEN /\ journal' = [journal EXCEPT ![Sid(c)].status = "revoked"]
            /\ IF loc[c].op = "logout" THEN Step(c, "audit") ELSE Return(c)
       ELSE Return(c) /\ UNCHANGED journal
    /\ UNCHANGED <<cache, locks, log, failures>>

-----------------------------------------------------------------------------
(* The audit record, then the call returns; Login and Refresh with a pair. *)
Audit(c) ==
    /\ pc[c] = "audit"
    /\ pairs' = IF loc[c].op = "logout" THEN pairs
                ELSE pairs \cup {[sid |-> Sid(c), used |-> loc[c].used, jti |-> loc[c].next]}
    /\ Return(c)
    /\ UNCHANGED <<stores, locks, opened, nextToken, asked, failures>>

(* A command fails: under a lock the lock is released, a failed release is *)
(* ignored, a Login or Refresh that has already changed Redis revokes the  *)
(* session, anything else ends the call.  A command that takes effect and  *)
(* whose reply is lost is the same as a failure of the step after it.      *)
Fault(c) ==
    /\ Failure
    /\ pc[c] \in FaultPoints
    /\ \/ pc[c] \in {"create", "get", "rlock", "list", "vlock", "jrevoke"} /\ Return(c)
       \/ pc[c] = "audit" /\ loc[c].op = "logout" /\ Return(c)
       \/ pc[c] \in {"rget", "rset"} /\ Fail(c, "runlock")
       \/ pc[c] \in {"vget", "vset"} /\ Fail(c, "vunlock")
       \/ pc[c] = "runlock" /\ AfterRotate(c)
       \/ pc[c] = "vunlock" /\ AfterRevoke(c)
       \/ /\ pc[c] \in {"jcreate", "jrotate", "audit"}
          /\ loc[c].op # "logout"
          /\ Step(c, "vlock")
    /\ UNCHANGED <<stores, locks, log>>

(* The server process dies; what it has locked is freed by the TTL. *)
Crash(c) ==
    /\ Failure
    /\ pc[c] # "idle"
    /\ Return(c)
    /\ UNCHANGED <<stores, locks, log>>

Call(c) ==
    \/ \E s \in SessionIds : LoginCall(c, s) \/ LogoutCall(c, s) \/ RevokeCall(c, s)
    \/ \E p \in pairs : RefreshCall(c, p)
    \/ CacheCreate(c) \/ JournalCreate(c)
    \/ RefreshCheck(c) \/ RotateLock(c) \/ RotateRead(c) \/ RotateWrite(c) \/ RotateUnlock(c)
    \/ JournalRotate(c)
    \/ RevokeCheck(c) \/ RevokeLock(c) \/ RevokeRead(c) \/ RevokeWrite(c) \/ RevokeUnlock(c)
    \/ JournalRevoke(c)
    \/ Audit(c) \/ Fault(c) \/ Crash(c)

Rotating(c, s) == pc[c] \in {"rget", "rset", "runlock"} /\ Sid(c) = s
Revoking(c, s) == pc[c] \in {"vget", "vset", "vunlock"} /\ Sid(c) = s

(* A lock outlives a dead owner by its TTL, a live one only if calls stall. *)
TimesOut(held) ==
    \/ ~held /\ UNCHANGED failures
    \/ held /\ MayStall /\ Failure

ExpireRotateLock(s) ==
    /\ rotLock[s] # NoClient
    /\ TimesOut(Rotating(rotLock[s], s))
    /\ rotLock' = [rotLock EXCEPT ![s] = NoClient]
    /\ UNCHANGED <<stores, revLock, pc, loc, log>>

ExpireRevokeLock(s) ==
    /\ revLock[s] # NoClient
    /\ TimesOut(Revoking(revLock[s], s))
    /\ revLock' = [revLock EXCEPT ![s] = NoClient]
    /\ UNCHANGED <<stores, rotLock, pc, loc, log>>

Next ==
    \/ \E c \in Clients : Call(c)
    \/ \E s \in SessionIds : ExpireRotateLock(s) \/ ExpireRevokeLock(s)

Spec == Init /\ [][Next]_vars

-----------------------------------------------------------------------------
(* Properties. *)

(* Every variable has its type. *)
TypeOK ==
    /\ cache \in [SessionIds -> Session] /\ journal \in [SessionIds -> Session]
    /\ rotLock \in [SessionIds -> Clients \cup {NoClient}]
    /\ revLock \in [SessionIds -> Clients \cup {NoClient}]
    /\ pc \in [Clients -> Point] /\ loc \in [Clients -> Local]
    /\ \A c \in Clients : pc[c] # "idle" => Sid(c) \in SessionIds
    /\ opened \subseteq SessionIds /\ asked \subseteq SessionIds
    /\ pairs \subseteq Pair
    /\ nextToken \in Nat \ {0} /\ failures \in Nat

(* A refresh token buys at most one pair, even when two calls hold its     *)
(* rotation lock because the first was too slow.                           *)
SingleUse ==
    \A p, q \in pairs : p.sid = q.sid /\ p.used = q.used => p = q

(* A session that the journal has ended yields no pair to a Refresh that   *)
(* begins afterwards, even if a rotation that ran beside the revocation    *)
(* has brought the Redis entry back to life.                               *)
NoPairAfterEnd ==
    \A c \in Clients : pc[c] = "audit" /\ loc[c].op = "refresh" => ~loc[c].late

(* No call is working on s. *)
Quiet(s) == \A c \in Clients : Sid(c) # s

(* As long as nothing fails, a user who did not end a session is never     *)
(* locked out of it: the token last issued is the one both stores expect.  *)
NeverLockedOut ==
    \A s \in SessionIds :
        failures = 0 /\ Quiet(s) /\ s \notin asked /\ s \in opened =>
            \E p \in pairs : p.sid = s /\ Accepts(cache[s], p.jti) /\ Accepts(journal[s], p.jti)
=============================================================================
