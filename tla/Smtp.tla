----------------------------------- MODULE Smtp -----------------------------------
(* Delivery over SMTP: a message is offered to the accounts of a pool, one after the other, until one *)
(* session with a server ends well.  A session is a sequence of stages, any of which may fail; what    *)
(* fails after the server took the message, the reply to its end or the QUIT, counts as a failure like *)
(* the others.  A mailer of one account is a pool of one without cooldown.                              *)
EXTENDS Naturals, Sequences, FiniteSets
CONSTANTS
    Senders,
    Pool,           \* the enabled accounts in their order: [implicit, submission, user]
    RoundRobin,     \* or weighted at random: any account may come first
    MaxAttempts, Cooldown, MaxTime
VARIABLES
    sequence, failed, now,      \* the pool: its turn, until when each account cools down, the clock
    send,           \* each sender's call: what is left of its list, how often it has tried, the stage
    cancelled,      \* the senders whose context has ended
    accepted, unheard, result   \* what servers took, what of it the sender has not learnt, the answer
vars == <<sequence, failed, now, send, cancelled, accepted, unheard, result>>

Accounts == 1..Len(Pool)
SmtpAssumption == Pool # <<>> /\ {MaxAttempts, Cooldown, MaxTime} \subseteq Nat /\ MaxAttempts > 0

NeedsStartTLS(a) == ~Pool[a].implicit /\ (Pool[a].submission \/ Pool[a].user)
\* the list from its start on, and round to it
From(start) == [i \in Accounts |-> ((start + i - 2) % Len(Pool)) + 1]
Cooling(a) == Cooldown > 0 /\ now < failed[a]
Now(s) == Head(send[s].order)

\* what comes after a stage that went well
Following(a, at) ==
    LET login == IF Pool[a].user THEN "auth" ELSE "mail" IN
    CASE at = "dial" -> IF Pool[a].implicit THEN "tls_handshake" ELSE "connect"
      [] at = "tls_handshake" -> "connect"
      [] at = "connect" -> IF NeedsStartTLS(a) THEN "starttls" ELSE login
      [] at = "starttls" -> login
      [] at = "auth" -> "mail"
      [] at = "mail" -> "recipient"
      [] at = "recipient" -> "data"
      [] at = "data" -> "write"
      [] at = "write" -> "commit"
      [] at = "commit" -> "quit"
Stages == {"dial", "tls_handshake", "connect", "starttls", "auth", "mail", "recipient", "data", "write", "commit",
           "quit"}

Finish(s, answer) ==
    /\ send' = [send EXCEPT ![s].at = "done"]
    /\ result' = [result EXCEPT ![s] = answer]

-----------------------------------------------------------------------------------
(* Send takes the accounts in the order of the moment. *)
Send(s) ==
    /\ send[s].at = "idle"
    /\ \E start \in Accounts :
        /\ RoundRobin => start = (sequence % Len(Pool)) + 1
        /\ send' = [send EXCEPT ![s] = [at |-> "next", order |-> From(start), attempts |-> 0, secure |-> FALSE]]
    /\ sequence' = IF RoundRobin THEN sequence + 1 ELSE sequence
    /\ UNCHANGED <<failed, now, cancelled, accepted, unheard, result>>

\* the next account that is not cooling down; from the second on after a pause
TryNext(s) ==
    /\ send[s].at = "next"
    /\ \/ /\ send[s].order = <<>> \/ send[s].attempts >= MaxAttempts
          /\ Finish(s, "error")
       \/ /\ send[s].order # <<>> /\ send[s].attempts < MaxAttempts
          /\ IF Cooling(Now(s))
             THEN send' = [send EXCEPT ![s].order = Tail(@)]
             ELSE send' = [send EXCEPT ![s].at = IF send[s].attempts > 0 THEN "wait" ELSE "dial",
                                       ![s].attempts = IF @ > 0 THEN @ ELSE 1, ![s].secure = FALSE]
          /\ UNCHANGED result
    /\ UNCHANGED <<sequence, failed, now, cancelled, accepted, unheard>>

\* the timer and the end of the context race
WaitRetry(s) ==
    /\ send[s].at = "wait"
    /\ \/ send' = [send EXCEPT ![s].at = "dial", ![s].attempts = @ + 1] /\ UNCHANGED result
       \/ s \in cancelled /\ Finish(s, "error")
    /\ UNCHANGED <<sequence, failed, now, cancelled, accepted, unheard>>

(* A stage goes well: a dial only while the context lasts, a login only over TLS. *)
Advance(s) ==
    LET at == send[s].at IN
    /\ at \in Stages \ {"quit"}
    /\ at = "dial" => s \notin cancelled
    /\ at = "auth" => send[s].secure
    /\ send' = [send EXCEPT ![s].at = Following(Now(s), at),
                            ![s].secure = @ \/ at \in {"tls_handshake", "starttls"}]
    /\ accepted' = IF at = "commit" THEN [accepted EXCEPT ![s] = @ \cup {Now(s)}] ELSE accepted
    /\ UNCHANGED <<sequence, failed, now, cancelled, unheard, result>>

Quit(s) ==
    /\ send[s].at = "quit"
    /\ Finish(s, "ok")
    /\ UNCHANGED <<sequence, failed, now, cancelled, accepted, unheard>>

(* A stage fails: the account cools down, and the next one is tried unless the context has ended.  *)
(* The server may have taken the message when the end of the content was not answered, and has when *)
(* only the QUIT failed.                                                                             *)
StageFails(s) ==
    LET a == Now(s) IN
    /\ send[s].at \in Stages
    /\ \E taken \in BOOLEAN :
        /\ send[s].at = "quit" => taken
        /\ taken => send[s].at \in {"commit", "quit"}
        /\ accepted' = IF taken THEN [accepted EXCEPT ![s] = @ \cup {a}] ELSE accepted
        /\ unheard' = IF taken THEN [unheard EXCEPT ![s] = @ \cup {a}] ELSE unheard
    /\ failed' = IF Cooldown > 0 THEN [failed EXCEPT ![a] = now + Cooldown] ELSE failed
    /\ IF s \in cancelled THEN Finish(s, "error")
       ELSE send' = [send EXCEPT ![s].at = "next", ![s].order = Tail(@)] /\ UNCHANGED result
    /\ UNCHANGED <<sequence, now, cancelled>>

Cancel(s) ==
    /\ send[s].at \notin {"idle", "done"} /\ s \notin cancelled
    /\ cancelled' = cancelled \cup {s}
    /\ UNCHANGED <<sequence, failed, now, send, accepted, unheard, result>>
Tick ==
    /\ now < MaxTime
    /\ now' = now + 1
    /\ UNCHANGED <<sequence, failed, send, cancelled, accepted, unheard, result>>

Init ==
    /\ sequence = 0 /\ failed = [a \in Accounts |-> 0] /\ now = 0
    /\ send = [s \in Senders |-> [at |-> "idle", order |-> <<>>, attempts |-> 0, secure |-> FALSE]]
    /\ cancelled = {}
    /\ accepted = [s \in Senders |-> {}] /\ unheard = [s \in Senders |-> {}]
    /\ result = [s \in Senders |-> "none"]
Next ==
    \/ \E s \in Senders : Send(s) \/ TryNext(s) \/ WaitRetry(s) \/ Advance(s) \/ Quit(s) \/ StageFails(s) \/ Cancel(s)
    \/ Tick

-----------------------------------------------------------------------------------
(* A message is taken twice only when a server took it and the sender did not learn of it; success is *)
(* answered when one server has taken it and said so, and otherwise nothing is known to have taken it. *)
DeliveredOnce ==
    \A s \in Senders :
        /\ Cardinality(accepted[s] \ unheard[s]) <= 1
        /\ result[s] = "ok" => accepted[s] # unheard[s]
        /\ result[s] = "error" => accepted[s] = unheard[s]
        /\ send[s].attempts <= MaxAttempts
(* Past the login of an account with a user the connection is secure, on every attempt: what an *)
(* earlier account has negotiated does not count.                                                 *)
LoginSecure ==
    \A s \in Senders :
        /\ send[s].at \in {"mail", "recipient", "data", "write", "commit", "quit"} /\ Pool[Now(s)].user => send[s].secure
        /\ send[s].at = "dial" => ~send[s].secure
=============================================================================
