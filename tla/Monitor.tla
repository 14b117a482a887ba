--------------------------------- MODULE Monitor ---------------------------------
(* The overview of the operations page and the summary of the dashboard.  A request starts one        *)
(* collector per part: a waiter with a deadline and the goroutine that measures, joined by channels of  *)
(* one place; the request then takes the answers in turn.  The dashboard has the whole overview as one  *)
(* of its parts.  What is late is thrown away, what never returns holds nobody up.                       *)
EXTENDS Naturals, Sequences, Functions
CONSTANTS
    OverviewOrder,  \* the parts of the overview as they are taken
    SummaryOrder,   \* those of the dashboard, "overview" among them
    Dashboard,      \* the dashboard asks, not the operations page
    Live,           \* the dependencies and counters there is a collector for
    NilPointers,    \* the dependencies bootstrap hands over as pointers to nothing
    Places,         \* of a channel
    Timeout, MaxTime
VARIABLES
    now,
    gone,           \* the client has hung up
    waiter, measurer, result, output,   \* of each collector
    since,          \* when its waiter began
    got,            \* what its probe has measured
    todo, shown,    \* what each request still takes and what it has taken
    summary,        \* the status it answers
    crashed
vars == <<now, gone, waiter, measurer, result, output, since, got, todo, shown, summary, crashed>>

Overview == "overview"
Requests == {"summary", Overview}
Order(r) == IF r = Overview THEN OverviewOrder ELSE SummaryOrder
Parts == Range(OverviewOrder)
Dependencies == {"database", "redis", "tasks"}
Counters == Range(SummaryOrder) \ {Overview}
Collectors == Parts \cup IF Dashboard THEN Range(SummaryOrder) ELSE {}
MonitorAssumption ==
    /\ {"database", "redis"} \subseteq Parts /\ Overview \in Range(SummaryOrder)
    /\ Live \subseteq Dependencies \cup Counters /\ NilPointers \subseteq {"database", "redis"} \ Live
    /\ {Places, Timeout, MaxTime} \subseteq Nat

Metric(status, values) == [status |-> status, values |-> values]
Unmeasured == Metric("none", {})
Pooled(c) == c \in {"database", "redis"}
\* what a measurement may tell that goes on to its end
Outcomes(c) ==
    CASE Pooled(c) -> {Metric("ok", {"latency", "pool"}), Metric("degraded", {"latency"})}
      [] c \in Counters -> {Metric("ok", {"value"}), Metric("degraded", {})}
      [] OTHER -> {Metric("ok", {"value"}), Metric("degraded", {}), Metric("unavailable", {})}

-----------------------------------------------------------------------------------
(* summaryStatus of the monitor: a later part does not hide a worse one.  Of the dashboard: ok when *)
(* all are, unavailable when none is.                                                                *)
Worse(a, b) == IF b = "unavailable" THEN b ELSE IF b = "degraded" /\ a = "ok" THEN b ELSE a
OverviewStatus(parts) ==
    LET f[n \in 0..Len(OverviewOrder)] == IF n = 0 THEN "ok" ELSE Worse(f[n - 1], parts[OverviewOrder[n]].status)
    IN  f[Len(OverviewOrder)]
\* health and instance: of an overview that is late all is degraded; the runtime of one that came is ok
Health(metric) ==
    IF metric.status = "late" THEN {"degraded"} ELSE {"ok", metric.database, metric.redis}
SummaryStatus(parts) ==
    LET all == {parts[c].status : c \in Counters} \cup Health(parts[Overview]) IN
    IF all = {"ok"} THEN "ok" ELSE IF "ok" \notin all THEN "unavailable" ELSE "degraded"

-----------------------------------------------------------------------------------
(* The collectors of a request start; one that is not configured has its answer at once. *)
Unconfigured(c) == c \in (Dependencies \cup Counters) \ (Live \cup NilPointers)
Launch(r) ==
    LET asked == Range(Order(r)) IN
    /\ todo' = [todo EXCEPT ![r] = Order(r)]
    /\ waiter' = [c \in Collectors |->
                    IF c \notin asked THEN waiter[c] ELSE IF Unconfigured(c) THEN "end" ELSE "new"]
    /\ output' = [c \in Collectors |->
                    IF c \in asked /\ Unconfigured(c) THEN <<Metric("unavailable", {})>> ELSE output[c]]
Asking == IF Dashboard THEN "summary" ELSE Overview
Ask ==
    /\ summary[Asking] = "none" /\ todo[Asking] = <<>>
    /\ Launch(Asking)
    /\ UNCHANGED <<now, gone, measurer, result, since, got, shown, summary, crashed>>

(* The waiter of a collector begins: its time runs from here, and so does the measurement. *)
Begin(c) ==
    /\ waiter[c] = "new"
    /\ waiter' = [waiter EXCEPT ![c] = "select"]
    /\ measurer' = [measurer EXCEPT ![c] = IF c = Overview THEN "ask" ELSE IF c \in Dependencies THEN "ping" ELSE "run"]
    /\ since' = [since EXCEPT ![c] = now]
    /\ UNCHANGED <<now, gone, result, output, got, todo, shown, summary, crashed>>

Told(c, metric) ==
    /\ got' = [got EXCEPT ![c] = metric]
    /\ measurer' = [measurer EXCEPT ![c] = "send"]
(* A ping, and when it was answered the counters.  A store that is a nil pointer says so, a client *)
(* that is one ends the process.                                                                    *)
Ping(c) ==
    LET known == IF Pooled(c) THEN {"latency"} ELSE {} IN
    /\ measurer[c] = "ping"
    /\ IF c = "redis" /\ c \in NilPointers
       THEN crashed' = TRUE /\ UNCHANGED <<measurer, got>>
       ELSE /\ \/ Told(c, Metric("degraded", known))
               \/ /\ c \notin NilPointers
                  /\ got' = [got EXCEPT ![c].values = known]
                  /\ measurer' = [measurer EXCEPT ![c] = "run"]
            /\ UNCHANGED crashed
    /\ UNCHANGED <<now, gone, waiter, result, output, since, todo, shown, summary>>
Measure(c) ==
    /\ measurer[c] = "run"
    /\ \E metric \in Outcomes(c) : Told(c, metric)
    /\ UNCHANGED <<now, gone, waiter, result, output, since, todo, shown, summary, crashed>>
\* the dashboard's collector of the overview asks like the operations page
AskOverview ==
    /\ Dashboard /\ measurer[Overview] = "ask"
    /\ measurer' = [measurer EXCEPT ![Overview] = "wait"]
    /\ Launch(Overview)
    /\ UNCHANGED <<now, gone, result, since, got, shown, summary, crashed>>

\* a measurement waits in its channel whether anybody is there for it or not
Send(c) ==
    /\ measurer[c] = "send"
    /\ Len(result[c]) < Places
    /\ result' = [result EXCEPT ![c] = Append(@, got[c])]
    /\ measurer' = [measurer EXCEPT ![c] = "end"]
    /\ UNCHANGED <<now, gone, waiter, output, since, got, todo, shown, summary, crashed>>

\* the time of a collector is over, or that of the one that asked for it
Past(c) == waiter[c] # "new" /\ now >= since[c] + Timeout
Over(c) == gone \/ Past(c) \/ (Dashboard /\ c \in Parts /\ (Past(Overview) \/ waiter[Overview] = "end"))
Late(c) == Metric(IF c = Overview THEN "late" ELSE "degraded", {})
(* The waiter takes the measurement or the end of its time, whichever it sees. *)
Deliver(c) ==
    /\ waiter[c] = "select"
    /\ Len(output[c]) < Places
    /\ waiter' = [waiter EXCEPT ![c] = "end"]
    /\ \/ /\ result[c] # <<>>
          /\ output' = [output EXCEPT ![c] = Append(@, Head(result[c]))]
          /\ result' = [result EXCEPT ![c] = Tail(@)]
       \/ /\ Over(c)
          /\ output' = [output EXCEPT ![c] = Append(@, Late(c))]
          /\ UNCHANGED result
    /\ UNCHANGED <<now, gone, measurer, since, got, todo, shown, summary, crashed>>

(* A request takes the next answer, and with the last one it has its own. *)
Take(r) ==
    LET c == Head(todo[r])
        all == [shown[r] EXCEPT ![c] = Head(output[c])]
        status == IF r = Overview THEN OverviewStatus(all) ELSE SummaryStatus(all)
    IN
    /\ todo[r] # <<>>
    /\ output[c] # <<>>
    /\ output' = [output EXCEPT ![c] = Tail(@)]
    /\ shown' = [shown EXCEPT ![r] = all]
    /\ todo' = [todo EXCEPT ![r] = Tail(@)]
    /\ IF Len(todo[r]) = 1
       THEN /\ summary' = [summary EXCEPT ![r] = status]
            /\ IF Dashboard /\ r = Overview
               THEN Told(Overview, [status |-> status, values |-> {}, database |-> all["database"].status,
                                    redis |-> all["redis"].status])
               ELSE UNCHANGED <<measurer, got>>
       ELSE UNCHANGED <<summary, measurer, got>>
    /\ UNCHANGED <<now, gone, waiter, result, since, crashed>>

Hangup ==
    /\ ~gone
    /\ gone' = TRUE
    /\ UNCHANGED <<now, waiter, measurer, result, output, since, got, todo, shown, summary, crashed>>
Tick ==
    /\ now < MaxTime
    /\ now' = now + 1
    /\ UNCHANGED <<gone, waiter, measurer, result, output, since, got, todo, shown, summary, crashed>>

Init ==
    /\ now = 0 /\ gone = FALSE /\ crashed = FALSE
    /\ waiter = [c \in Collectors |-> "none"] /\ measurer = [c \in Collectors |-> "none"]
    /\ result = [c \in Collectors |-> <<>>] /\ output = [c \in Collectors |-> <<>>]
    /\ since = [c \in Collectors |-> 0] /\ got = [c \in Collectors |-> Unmeasured]
    /\ todo = [r \in Requests |-> <<>>]
    /\ shown = [r \in Requests |-> [c \in Range(Order(r)) |-> Unmeasured]]
    /\ summary = [r \in Requests |-> "none"]
Next ==
    /\ ~crashed
    /\ \/ Ask \/ AskOverview \/ Hangup \/ Tick
       \/ \E c \in Collectors : Begin(c) \/ Ping(c) \/ Measure(c) \/ Send(c) \/ Deliver(c)
       \/ \E r \in Requests : Take(r)

-----------------------------------------------------------------------------------
(* What is shown was measured for this request: every value, and every part that is well.  What is     *)
(* shown as degraded has failed, or was late, or was asked for by one that was.                          *)
ShownIsMeasured ==
    \A r \in Requests : \A c \in Range(Order(r)) :
        LET metric == shown[r][c] IN
        /\ metric.status = "ok" => got[c].status = "ok"
        /\ metric.status \in {"ok", "degraded"} => metric.values \subseteq got[c].values
        /\ metric.status = "degraded" => got[c].status = "degraded" \/ Over(c)
(* Well is what is well in every part; without a collector of the tasks, as it is started, the page is *)
(* never well; the dashboard is down only when nothing of it is up.                                      *)
StatusesAgree ==
    /\ summary[Overview] = "ok" => \A c \in Parts : got[c].status = "ok"
    /\ summary[Overview] = "degraded" => \A c \in Parts : ~Unconfigured(c)
    /\ summary["summary"] = "ok" => \A c \in Counters \cup {"database", "redis"} : got[c].status = "ok"
    /\ summary["summary"] = "unavailable" => \A c \in Counters : shown["summary"][c].status # "ok"
(* Nobody is stuck: who has something to send finds a place, and who is waited for has not ended. *)
NobodyStuck ==
    /\ \A c \in Collectors :
        /\ measurer[c] = "send" => Len(result[c]) < Places
        /\ waiter[c] = "select" => Len(output[c]) < Places
    /\ \A r \in Requests : todo[r] # <<>> => waiter[Head(todo[r])] # "end" \/ output[Head(todo[r])] # <<>>
(* The process ends in a probe only where Redis is not configured. *)
CrashesWithoutRedis == crashed => "redis" \in NilPointers
MonitorHolds == ShownIsMeasured /\ StatusesAgree /\ NobodyStuck /\ CrashesWithoutRedis
=============================================================================
