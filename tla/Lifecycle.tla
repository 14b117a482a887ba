------------------------------ MODULE Lifecycle ------------------------------
(***************************************************************************)
(* The life of the server process (cmd/api/main.go, bootstrap/app.go):     *)
(* New opens the dependencies one after the other, Run loads what the      *)
(* database holds, starts the background loops and serves requests until   *)
(* the process is told to stop or the listener fails; then HTTP is shut    *)
(* down and the dependencies are closed in reverse order.  A database of   *)
(* mode read_write has two pools (gormdb/store.go).                        *)
(***************************************************************************)
EXTENDS Naturals, Sequences, FiniteSets

CONSTANTS
    Configs,        \* the configurations: [database, redis, files, source]
    Requests        \* HTTP requests

Modes == {"off", "single", "read_write"}
LifecycleAssumption ==
    \A c \in Configs : c.database \in Modes /\ {c.redis, c.files, c.source} \subseteq BOOLEAN

VARIABLES
    config,
    pc,             \* of the main goroutine
    open,           \* resources that are open
    closers,        \* App.closers, without those that were closed
    handle,         \* the store's database handle is there
    loops, requests,
    prepared,       \* what came of the two loads from the database
    cancelled,      \* the process was told to stop
    forced,         \* requests are not waited for
    outcome

vars == <<config, pc, open, closers, handle, loops, requests, prepared, cancelled, forced, outcome>>

Startup ==
    <<"collector", "files", "database", "replica", "redis", "auth", "settings", "mail", "tasks", "imports", "apply", "ui">>
Loops ==
    {"worker", "scheduler"} \cup (IF config.redis THEN {"reconciliation"} ELSE {}) \cup (IF config.files THEN {"maintenance"} ELSE {})
HasDatabase == config.database # "off"

Init ==
    /\ config \in Configs /\ pc = "collector" /\ open = {} /\ closers = <<>> /\ handle = FALSE
    /\ loops = [l \in {"worker", "scheduler", "reconciliation", "maintenance"} |-> "off"]
    /\ requests = [r \in Requests |-> "none"]
    /\ prepared = <<>> /\ cancelled = FALSE /\ forced = FALSE /\ outcome = "none"

-----------------------------------------------------------------------------
(* New. *)

After(step) ==
    LET i == CHOOSE n \in DOMAIN Startup : Startup[n] = step
    IN IF i = Len(Startup) THEN "observability" ELSE Startup[i + 1]

Enabled(step) ==
    CASE step = "files"    -> config.files
      [] step = "database" -> HasDatabase
      [] step = "replica"  -> config.database = "read_write"
      [] step = "redis"    -> config.redis
      [] step = "ui"       -> config.source
      [] OTHER             -> TRUE
Opens == {"collector", "database", "replica", "redis", "apply", "ui"}

(* A store becomes a dependency of the application when its last pool is   *)
(* there.                                                                  *)
Registered(step) ==
    CASE step = "database" -> IF config.database = "single" THEN <<"database">> ELSE <<>>
      [] step = "replica"  -> <<"database">>
      [] step \in Opens \ {"database", "replica"} -> <<step>>
      [] OTHER             -> <<>>

New ==
    /\ pc \in {Startup[i] : i \in DOMAIN Startup} /\ pc' = After(pc)
    /\ IF ~Enabled(pc) THEN UNCHANGED <<open, closers, handle>>
       ELSE /\ open' = IF pc \in Opens THEN open \cup {pc} ELSE open
            /\ closers' = closers \o Registered(pc)
            /\ handle' = (handle \/ pc = "database")
    /\ UNCHANGED <<config, loops, requests, prepared, cancelled, forced, outcome>>

(* Pools of a store that New never got to see: Open closes them itself. *)
Abandoned == IF pc = "replica" THEN {"database"} ELSE {}

(* A step that may fail fails: New closes what there is and returns nil.   *)
NewFails ==
    /\ pc \in {Startup[i] : i \in DOMAIN Startup} \ {"apply"} /\ Enabled(pc)
    /\ open' = open \ Abandoned /\ handle' = (handle /\ Abandoned = {})
    /\ pc' = "closing" /\ outcome' = "not started"
    /\ UNCHANGED <<config, closers, loops, requests, prepared, cancelled, forced>>

-----------------------------------------------------------------------------
(* Run. *)

ForceClose(why) == pc' = "closing" /\ outcome' = why /\ forced' = TRUE

(* A database that cannot be reached does not keep the server from         *)
(* starting, one whose settings cannot be read does.                       *)
Prepare ==
    /\ pc \in {"observability", "preparing"}
    /\ \/ /\ \/ prepared' = Append(prepared, "loaded")
             \/ HasDatabase /\ prepared' = Append(prepared, "unreachable")
          /\ pc' = (IF pc = "observability" THEN "preparing" ELSE "loops") /\ UNCHANGED <<outcome, forced>>
       \/ HasDatabase /\ prepared' = Append(prepared, "malformed") /\ ForceClose("not prepared")
    /\ UNCHANGED <<config, open, closers, handle, loops, requests, cancelled>>

StartLoops ==
    /\ pc = "loops" /\ pc' = "listen"
    /\ loops' = [l \in DOMAIN loops |-> IF l \in Loops THEN "idle" ELSE "off"]
    /\ UNCHANGED <<config, open, closers, handle, requests, prepared, cancelled, forced, outcome>>

Listen ==
    /\ pc = "listen"
    /\ \/ pc' = "serving" /\ UNCHANGED <<outcome, forced>>
       \/ ForceClose("listener")
    /\ UNCHANGED <<config, open, closers, handle, loops, requests, prepared, cancelled>>

(* SIGTERM, once signal.NotifyContext is in place. *)
Signal ==
    /\ ~cancelled /\ pc \notin {"returned", "exited"} /\ cancelled' = TRUE
    /\ pc \notin {Startup[i] : i \in DOMAIN Startup} /\ outcome # "not started"
    /\ UNCHANGED <<config, pc, open, closers, handle, loops, requests, prepared, forced, outcome>>

ServeFails ==
    /\ pc = "serving" /\ ForceClose("listener")
    /\ UNCHANGED <<config, open, closers, handle, loops, requests, prepared, cancelled>>

Cancelled ==
    /\ pc = "serving" /\ cancelled /\ pc' = "shutdown"
    /\ UNCHANGED <<config, open, closers, handle, loops, requests, prepared, cancelled, forced, outcome>>

Running == {r \in Requests : requests[r] = "running"}

Drained == Running = {}

(* http.Server.Shutdown returns when the requests are done ... *)
Shutdown ==
    /\ pc = "shutdown" /\ Drained /\ pc' = "closing" /\ outcome' = "stopped"
    /\ UNCHANGED <<config, open, closers, handle, loops, requests, prepared, cancelled, forced>>

(* ... or when ShutdownTimeout has passed. *)
ShutdownExpires ==
    /\ pc = "shutdown" /\ Running # {} /\ ForceClose("timeout")
    /\ UNCHANGED <<config, open, closers, handle, loops, requests, prepared, cancelled>>

-----------------------------------------------------------------------------
(* closeResources: one after the other, the last first; the replicas of a  *)
(* store before its primary, its handle at the end.                        *)

Last == closers[Len(closers)]

Popped == SubSeq(closers, 1, Len(closers) - 1)

(* Mutant of CloseNext: a read_write store closes its primary only. *)
CloseNextPrimary ==
    /\ pc = "closing" /\ closers # <<>>
    /\ closers' = Popped /\ open' = open \ {Last} /\ handle' = (handle /\ Last # "database")
    /\ UNCHANGED <<config, pc, loops, requests, prepared, cancelled, forced, outcome>>
CloseNext ==
    /\ pc = "closing" /\ closers # <<>>
    /\ IF Last = "database" /\ "replica" \in open
       THEN open' = open \ {"replica"} /\ UNCHANGED <<closers, handle>>
       ELSE IF Last = "database" /\ "database" \in open
       THEN open' = open \ {"database"} /\ UNCHANGED <<closers, handle>>
       ELSE closers' = Popped /\ open' = open \ {Last} /\ handle' = (handle /\ Last # "database")
    /\ UNCHANGED <<config, pc, loops, requests, prepared, cancelled, forced, outcome>>

(* The loops are told to stop when Run returns (their context is also one  *)
(* of the process's), but nobody waits for them.                           *)
Return ==
    /\ pc = "closing" /\ closers = <<>> /\ pc' = "returned"
    /\ UNCHANGED <<config, open, closers, handle, loops, requests, prepared, cancelled, forced, outcome>>

Exit ==
    /\ pc = "returned" /\ pc' = "exited"
    /\ loops' = [l \in DOMAIN loops |-> "off"]
    /\ requests' = [r \in Requests |-> IF requests[r] = "running" THEN "cut off" ELSE requests[r]]
    /\ UNCHANGED <<config, open, closers, handle, prepared, cancelled, forced, outcome>>

-----------------------------------------------------------------------------
(* The loops and the requests.  Each uses the database, if there is one:   *)
(* with closed pools that is an error, without a handle a nil pointer.     *)

Tick(l) ==
    /\ loops[l] = "idle" /\ pc # "exited"
    /\ loops' = [loops EXCEPT ![l] = IF cancelled \/ pc = "returned" THEN "off" ELSE "busy"]
    /\ UNCHANGED <<config, pc, open, closers, handle, requests, prepared, cancelled, forced, outcome>>

LoopUses(l) ==
    /\ loops[l] = "busy" /\ pc # "exited"
    /\ IF HasDatabase /\ ~handle
       THEN /\ pc' = "exited" /\ outcome' = "panicked" /\ loops' = [k \in DOMAIN loops |-> "off"]
            /\ requests' = [r \in Requests |-> IF requests[r] = "running" THEN "cut off" ELSE requests[r]]
       ELSE loops' \in {loops, [loops EXCEPT ![l] = "idle"]} /\ UNCHANGED <<pc, outcome, requests>>
    /\ UNCHANGED <<config, open, closers, handle, prepared, cancelled, forced>>

Accept(r) ==
    /\ pc = "serving" /\ requests[r] = "none" /\ requests' = [requests EXCEPT ![r] = "running"]
    /\ UNCHANGED <<config, pc, open, closers, handle, loops, prepared, cancelled, forced, outcome>>

Usable == ~HasDatabase \/ "database" \in open
Answer(r) ==
    /\ r \in Running /\ pc # "exited"
    /\ requests' = [requests EXCEPT ![r] = IF Usable THEN "answered" ELSE "failed"]
    /\ UNCHANGED <<config, pc, open, closers, handle, loops, prepared, cancelled, forced, outcome>>

-----------------------------------------------------------------------------

Main == New \/ Prepare \/ StartLoops \/ Listen \/ Cancelled \/ Shutdown \/ CloseNext \/ Return \/ Exit
Next ==
    \/ Main \/ NewFails \/ Signal \/ ServeFails \/ ShutdownExpires
    \/ \E l \in DOMAIN loops : Tick(l) \/ LoopUses(l)
    \/ \E r \in Requests : Accept(r) \/ Answer(r)

(* The main goroutine goes on: each Close returns (see Observability for   *)
(* the collector's) and the timeout passes.  A request may take for ever.  *)
Spec == Init /\ [][Next]_vars /\ WF_vars(Main) /\ WF_vars(ShutdownExpires)

-----------------------------------------------------------------------------
(* Properties. *)

(* Every variable has its type. *)
TypeOK ==
    /\ config \in Configs /\ open \subseteq Opens /\ handle \in BOOLEAN
    /\ \A i \in DOMAIN closers : closers[i] \in Opens
    /\ \A l \in DOMAIN loops : loops[l] \in {"off", "idle", "busy"}
    /\ \A r \in Requests : requests[r] \in {"none", "running", "answered", "failed", "cut off"}

(* Whichever step of New or Run fails: a dependency is open as long as one *)
(* that was opened after it, and when the process ends in order none is    *)
(* left open.                                                              *)
ClosersHold ==
    /\ pc \in {"returned", "exited"} /\ outcome # "panicked" => open = {}
    /\ pc = "closing" => \A d \in open \ {"replica"} : d \in {closers[i] : i \in DOMAIN closers}
    /\ {"redis", "apply", "ui"} \cap open # {} => "collector" \in open /\ (HasDatabase => "database" \in open)

(* Requests are served only by a process that has loaded its settings, or  *)
(* has not reached the database that holds them.  "in-flight requests can  *)
(* finish": one fails for want of its dependencies, or is cut off, only    *)
(* when the listener failed, the timeout passed or a loop took the process *)
(* down.                                                                   *)
RequestsServed ==
    /\ (\E r \in Requests : requests[r] # "none") => Len(prepared) = 2 /\ "malformed" \notin {prepared[i] : i \in {1, 2}}
    /\ \A r \in Requests : requests[r] \in {"failed", "cut off"} => forced \/ outcome = "panicked"

(* A process that was told to stop while it served, or whose listener or   *)
(* preparation failed, ends.                                               *)
NotStopping == pc \notin {"shutdown", "closing", "returned"} /\ ~(pc = "serving" /\ cancelled)
StopEnds == []<>NotStopping

(* No loop takes the process down while it closes its dependencies.  The   *)
(* code does not ensure it: nobody waits for the loops.                    *)
LoopsOutlived == outcome # "panicked"
=============================================================================
