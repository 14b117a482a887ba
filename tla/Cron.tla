------------------------------------ MODULE Cron ------------------------------------
(* Cron expressions (domain/task/cron.go): what an expression means, and the search for   *)
(* its next instants, which skips whole units of the calendar instead of polling.          *)
(* An instant is a number of seconds; the calendar is a small one: the constants say how    *)
(* many seconds, minutes and hours there are to the next unit, how many months to a year     *)
(* and how many days each has.  An expression has a set of terms for every field.             *)
EXTENDS Integers, FiniteSets, Sequences

CONSTANTS
    SecondsPerMinute, MinutesPerHour, HoursPerDay, DaysPerWeek, MonthsPerYear,
    DaysIn(_, _),   \* of a year and a month
    DayOf,          \* the days in their order, each <<year, month, day>>; day 0 is a Sunday
    Years, Cycle,   \* the years there are, and after how many years the lengths repeat
    Horizon         \* how many years NextExecutions looks ahead (5 in the code)

VARIABLES expression, zone, after, count, cursor, out, result
vars == <<expression, zone, after, count, cursor, out, result>>
-----------------------------------------------------------------------------
(* The calendar of package time. *)

PerHour == SecondsPerMinute * MinutesPerHour
PerDay == PerHour * HoursPerDay
Before(x, y) ==
    \/ x[1] < y[1]
    \/ x[1] = y[1] /\ x[2] < y[2]
    \/ x[1] = y[1] /\ x[2] = y[2] /\ x[3] < y[3]

Local(t) == t + zone
Day(t) == Local(t) \div PerDay
Hour(t) == (Local(t) % PerDay) \div PerHour
Minute(t) == (Local(t) % PerHour) \div SecondsPerMinute
Second(t) == Local(t) % SecondsPerMinute
Midnight(n) == n * PerDay - zone
InCalendar(n) == n \in DOMAIN DayOf

-----------------------------------------------------------------------------
(* The fields: the least and the greatest value, and what a term stands for.  A term has a *)
(* base, "*" or one or two numbers, and may have a step.                                     *)

Fields == <<"second", "minute", "hour", "day", "month", "weekday", "year">>
Least == [second |-> 0, minute |-> 0, hour |-> 0, day |-> 1, month |-> 1, weekday |-> 0, year |-> CHOOSE y \in Years : \A z \in Years : y <= z]
Greatest == [second |-> SecondsPerMinute - 1, minute |-> MinutesPerHour - 1, hour |-> HoursPerDay - 1, day |-> 31,
             month |-> MonthsPerYear, weekday |-> DaysPerWeek, year |-> CHOOSE y \in Years : \A z \in Years : z <= y]

From(f, term) == IF term.base = <<>> THEN Least[f] ELSE term.base[1]
To(f, term) == IF term.base = <<>> \/ (Len(term.base) = 1 /\ term.step # 0) THEN Greatest[f] ELSE term.base[Len(term.base)]
TermValid(f, term) ==
    /\ term.step \in 0..Greatest[f] - Least[f] + 1
    /\ Least[f] <= From(f, term) /\ To(f, term) <= Greatest[f] /\ From(f, term) <= To(f, term)
TermValues(f, term) ==
    {v \in From(f, term)..To(f, term) : (v - From(f, term)) % (IF term.step = 0 THEN 1 ELSE term.step) = 0}

Any == [base |-> <<>>, step |-> 0]
Wildcard(e, f) == e[f] = {Any}
Values(e, f) == UNION {TermValues(f, term) : term \in e[f]}

(* A restricted day of restricted months, on any weekday, has to exist. *)
HasCalendarDate(e) ==
    \E y \in IF Wildcard(e, "year") THEN {x \in Years : x < Least["year"] + Cycle} ELSE Values(e, "year") :
        \E m \in Values(e, "month"), d \in Values(e, "day") : d <= DaysIn(y, m)
ParseCron(e) ==
    /\ \A f \in {Fields[i] : i \in DOMAIN Fields} : \A term \in e[f] : TermValid(f, term)
    /\ ~Wildcard(e, "day") /\ ~Wildcard(e, "month") /\ Wildcard(e, "weekday") => HasCalendarDate(e)

(* If both days are restricted, either will do; Sunday is 0 and the last value. *)
DayMatches(e, n) ==
    LET day == DayOf[n][3] \in Values(e, "day")
        weekday == n % DaysPerWeek \in Values(e, "weekday") \/ (n % DaysPerWeek = 0 /\ DaysPerWeek \in Values(e, "weekday"))
    IN IF ~Wildcard(e, "day") /\ ~Wildcard(e, "weekday") THEN day \/ weekday ELSE day /\ weekday
MatchesCron(e, t) ==
    /\ DayOf[Day(t)][1] \in Values(e, "year") /\ DayOf[Day(t)][2] \in Values(e, "month") /\ DayMatches(e, Day(t))
    /\ Hour(t) \in Values(e, "hour") /\ Minute(t) \in Values(e, "minute") /\ Second(t) \in Values(e, "second")

-----------------------------------------------------------------------------
(* NextExecutions: one pass of its loop is a step. *)

Limit ==
    LET d == DayOf[Day(after)]
        n == CHOOSE k \in DOMAIN DayOf : ~Before(DayOf[k], <<d[1] + Horizon, d[2], d[3]>>)
                                         /\ \A j \in DOMAIN DayOf : j < k => Before(DayOf[j], <<d[1] + Horizon, d[2], d[3]>>)
    IN after + (n + 1 - Day(after)) * PerDay

(* NextExecutions(e, a, n) in a zone. *)
Start(e, z, a, n) ==
    /\ expression = e /\ zone = z /\ after = a /\ count = n
    /\ cursor = after + 1 /\ out = <<>> /\ result = "none"
Scanning == result = "none" /\ ParseCron(expression) /\ cursor < Limit /\ Len(out) < count
Skip(to) == cursor' = to /\ UNCHANGED <<expression, zone, after, count, out, result>>
In(f, value) == value \in Values(expression, f)
Today == DayOf[Day(cursor)]

(* The first day after the cursor's that starts a unit. *)
FirstAfter(starts(_)) ==
    CHOOSE n \in DOMAIN DayOf : /\ n > Day(cursor) /\ starts(DayOf[n])
                                /\ \A k \in DOMAIN DayOf : Day(cursor) < k /\ k < n => ~starts(DayOf[k])
SkipYear == Scanning /\ ~In("year", Today[1]) /\ Skip(Midnight(FirstAfter(LAMBDA d : d[2] = 1 /\ d[3] = 1)))
SkipMonth ==
    Scanning /\ In("year", Today[1]) /\ ~In("month", Today[2]) /\ Skip(Midnight(FirstAfter(LAMBDA d : d[3] = 1)))
SkipDay ==
    /\ Scanning /\ In("year", Today[1]) /\ In("month", Today[2]) /\ ~DayMatches(expression, Day(cursor))
    /\ Skip(Midnight(Day(cursor) + 1))
DayTaken == In("year", Today[1]) /\ In("month", Today[2]) /\ DayMatches(expression, Day(cursor))

(* Truncate works on the instant, not on the clock of the zone. *)
NextHour(t) == (t \div PerHour) * PerHour + PerHour
SkipHour == Scanning /\ DayTaken /\ ~In("hour", Hour(cursor)) /\ Skip(NextHour(cursor))
SkipMinute ==
    /\ Scanning /\ DayTaken /\ In("hour", Hour(cursor)) /\ ~In("minute", Minute(cursor))
    /\ Skip((cursor \div SecondsPerMinute) * SecondsPerMinute + SecondsPerMinute)
ClockTaken == DayTaken /\ In("hour", Hour(cursor)) /\ In("minute", Minute(cursor))
SkipSecond == Scanning /\ ClockTaken /\ ~In("second", Second(cursor)) /\ Skip(cursor + 1)
Take ==
    /\ Scanning /\ ClockTaken /\ In("second", Second(cursor))
    /\ out' = Append(out, cursor) /\ cursor' = cursor + 1 /\ UNCHANGED <<expression, zone, after, count, result>>
Return ==
    /\ result = "none" /\ ~Scanning
    /\ result' = IF ParseCron(expression) /\ Len(out) = count THEN "listed" ELSE "invalid"
    /\ UNCHANGED <<expression, zone, after, count, cursor, out>>

Next == SkipYear \/ SkipMonth \/ SkipDay \/ SkipHour \/ SkipMinute \/ SkipSecond \/ Take \/ Return

TypeOK == cursor \in Nat /\ Len(out) <= count /\ result \in {"none", "listed", "invalid"} /\ \A i \in DOMAIN out : InCalendar(Day(out[i]))

(* NextExecutions lists the first instants at which the scheduler would start the task,    *)
(* the ones MatchesCron accepts (cron.go:143 "skips calendar units instead of polling each   *)
(* second"), and calls an expression invalid only if there are fewer of them.                 *)
ListsWhatMatches ==
    result # "none" /\ ParseCron(expression) =>
        LET due == {t \in after + 1..Limit - 1 : MatchesCron(expression, t)}
            first == {t \in due : Cardinality({u \in due : u < t}) < count}
        IN IF Cardinality(first) = count THEN result = "listed" /\ {out[i] : i \in DOMAIN out} = first ELSE result = "invalid"
=============================================================================
