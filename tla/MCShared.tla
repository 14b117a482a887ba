-------------------------------- MODULE MCShared --------------------------------
(* What several clients and servers change at once: the counters, challenges and tokens of *)
(* the logins (login, reset), the settings of a tenant and its organization, dictionaries,   *)
(* the queue while somebody cancels, the scheduler and its calendar, the folders of the media   *)
(* library, and the settings in memory.  A behaviour is one of one of them, the others are at    *)
(* rest.                                                                                          *)
EXTENDS RedisQueue, FiniteSets, Sequences
CONSTANTS
    c1, c2, NoOrg, Unset, Default, Deployed, Blank, Seed,
    p1, p2, t1, k1,
    sa, sb, d1, d2, d3, a1, a2, x1, x2, x3, None
VARIABLES
    part,
    fails, lock, younger, risk, rate, open, users, tokens, lpc, loc, handed, wrong, bare, uses, lfaults,
    rows, snapshot, status, sreq, removed,
    types, items, versions, counter, dreq, restarts,
    table, runs, clock, ticker, sched, seen, leader, admin, passed, dropped, broken, faults,
    expression, zone, after, count, cursor, out, result,
    folders, filed, replies, mutex, freq, asked, unheard, frestarts, late, raced, forgot,
    records, revision, form, unmarked

loginVars == <<fails, lock, younger, risk, rate, open, users, tokens, lpc, loc, handed, wrong, bare, uses,
               lfaults>>
settingVars == <<rows, snapshot, status, sreq, removed>>
dictVars == <<types, items, versions, counter, dreq, restarts>>
queueVars == vars
schedVars == <<table, runs, clock, ticker, sched, seen, leader, admin, passed, dropped, broken, faults>>
cronVars == <<expression, zone, after, count, cursor, out, result>>
folderVars == <<folders, filed, replies, mutex, freq, asked, unheard, frestarts, late, raced, forgot>>
memoryVars == <<records, revision, form, unmarked>>

Ann == [username |-> "ann", email |-> "ann@x", password |-> "p"]
L == INSTANCE Logins WITH
        Clients <- {"c1", "c2"}, Usernames <- {"ann"}, Emails <- {"ann@x"}, Passwords <- {"p", "q"}, Tried <- {"ann"},
        NoEmail <- "none", LockoutThreshold <- 2, RiskThreshold <- 1, RateLimit <- 1, MaxChallenges <- 1,
        MaxTokens <- 0, MaxFaults <- 1, failures <- fails, pc <- lpc, issued <- handed, faults <- lfaults
T == INSTANCE Logins WITH
        Clients <- {"c1", "c2"}, Usernames <- {"ann", "bob"}, Emails <- {"ann@x"}, Passwords <- {"p", "q"}, Tried <- {},
        NoEmail <- "none", LockoutThreshold <- 2, RiskThreshold <- 1, RateLimit <- 1, MaxChallenges <- 0,
        MaxTokens <- 2, MaxFaults <- 1, failures <- fails, pc <- lpc, issued <- handed, faults <- lfaults
Tenant == [tenant |-> "t1", org |-> NoOrg]
Unit == [tenant |-> "t1", org |-> "o1"]
SettingKeys == {"size", "secret", "provider"}
P == INSTANCE SettingScopes WITH
        Clients <- {c1}, Scopes <- {Tenant, Unit}, DefaultTenant <- "t1", Keys <- SettingKeys, Sensitive <- {"secret"},
        Mode <- [k \in SettingKeys |-> CASE k = "size" -> "immediate" [] k = "secret" -> "component_reload"
                                         [] OTHER -> "migration"],
        Fixed <- {"provider"}, Values <- {1}, MaxWrites <- 3, snap <- snapshot, req <- sreq
D == INSTANCE Dictionary WITH
        Clients <- {c1, c2}, ScopeOf <- [c \in {c1, c2} |-> IF c = c1 THEN Tenant ELSE Unit],
        System <- [tenant |-> "", org |-> ""], Codes <- {"k1"}, Values <- {1, 2}, Texts <- {"a"}, MaxIds <- 2,
        MaxVersion <- 2, MaxRestarts <- 1, req <- dreq
OneKey == [t \in {t1} |-> k1]
S == INSTANCE Scheduler WITH
        Servers <- {sa, sb}, Definitions <- {d1, d2, d3}, Admins <- {a1, a2}, Scopes <- <<x1, x2, x3>>,
        Scope <- [d \in {d1, d2, d3} |-> IF d = d1 THEN x1 ELSE IF d = d2 THEN x2 ELSE x3],
        Due <- [d \in {d1, d2, d3} |-> IF d = d1 THEN {1} ELSE IF d = d2 THEN {2} ELSE {2, 3}], Seconds <- {d2, d3}, PerMinute <- 2, LeaseSeconds <- 2,
        MaxTime <- 3, MaxFaults <- 1, MaxEdits <- 1, lease <- leader
\* two administrators, in a second
E == INSTANCE Scheduler WITH
        Servers <- {sa, sb}, Definitions <- {d1, d3}, Admins <- {a1, a2}, Scopes <- <<x1, x3>>,
        Scope <- [d \in {d1, d3} |-> IF d = d3 THEN x3 ELSE x1],
        Due <- [d \in {d1, d3} |-> {1}], Seconds <- {d1, d3}, PerMinute <- 2, LeaseSeconds <- 2,
        MaxTime <- 1, MaxFaults <- 1, MaxEdits <- 1, lease <- leader
MCDaysIn(y, m) == IF m = 1 THEN 3 ELSE IF y % 2 = 0 THEN 2 ELSE 1
CalendarDays == {day \in (0..4) \X (1..2) \X (1..3) : day[3] <= MCDaysIn(day[1], day[2])}
Place(day) == 9 * day[1] + 4 * day[2] + day[3]
\* two months to the year, and a leap day every other year
Calendar ==
    [n \in 0..Cardinality(CalendarDays) - 1 |->
        CHOOSE day \in CalendarDays : Cardinality({x \in CalendarDays : Place(x) < Place(day)}) = n]
C == INSTANCE Cron WITH
        SecondsPerMinute <- 2, MinutesPerHour <- 2, HoursPerDay <- 3, DaysPerWeek <- 3, MonthsPerYear <- 2,
        DaysIn <- MCDaysIn, DayOf <- Calendar, Years <- 0..4, Cycle <- 2, Horizon <- 2

\* two moves and deletions through the file handler; a key that is repeated, an administrator of both
\* tenants, lost answers and restarts; the folders of a server without a database
At1 == [c \in {"c1", "c2"} |-> "s"]
InT == [c \in {"c1", "c2"} |-> "t"]
AF == INSTANCE Categories WITH
        Clients <- {"c1", "c2"}, ServerOf <- At1, UsesCatalog <- {}, Scopes <- {"t"}, ScopeOf <- InT, Admins <- {},
        Keys <- {}, NoKey <- "none", Durable <- TRUE, MaxIds <- 3, MaxRequests <- 3, MaxLost <- 0, MaxRestarts <- 0,
        rows <- folders, idem <- replies, req <- freq, lost <- unheard, restarts <- frestarts
KF == INSTANCE Categories WITH
        Clients <- {"c1", "c2"}, ServerOf <- At1, UsesCatalog <- {"c1", "c2"}, Scopes <- {"t", "u"}, ScopeOf <- InT,
        Admins <- {"c2"}, Keys <- {"k"}, NoKey <- "none", Durable <- TRUE, MaxIds <- 4, MaxRequests <- 2, MaxLost <- 1,
        MaxRestarts <- 1, rows <- folders, idem <- replies, req <- freq, lost <- unheard, restarts <- frestarts
MF == INSTANCE Categories WITH
        Clients <- {"c1", "c2"}, ServerOf <- At1, UsesCatalog <- {"c2"}, Scopes <- {"t"}, ScopeOf <- InT, Admins <- {},
        Keys <- {"k"}, NoKey <- "none", Durable <- FALSE, MaxIds <- 3, MaxRequests <- 3, MaxLost <- 0, MaxRestarts <- 0,
        rows <- folders, idem <- replies, req <- freq, lost <- unheard, restarts <- frestarts
Folder(parent) == [parent |-> parent, scope |-> "t", deleted |-> FALSE, by |-> <<>>]
G == INSTANCE SettingsMemory WITH
        Clients <- {"c1"}, Scopes <- {Tenant, Unit}, Keys <- {"size", "secret"}, Sensitive <- {"secret"}, Nothing <- None,
        MaxVersion <- 3, seen <- form

ASSUME MCAssumption ==
    /\ L!LoginsAssumption /\ T!LoginsAssumption /\ P!ScopesAssumption /\ D!DictionaryAssumption
    /\ S!SchedulerAssumption /\ E!SchedulerAssumption
    /\ AF!CategoriesAssumption /\ KF!CategoriesAssumption /\ MF!CategoriesAssumption /\ G!MemoryAssumption

(* Failures and crashes without edits; edits of the other definition. *)
SchedInit == S!Start({d1, d2, d3}, {}, 0) \/ S!Start({d3}, {a1}, 0)
(* Expressions over that calendar, in UTC and in a zone a whole hour (four seconds) ahead. *)
One(n) == {[base |-> <<n>>, step |-> 0]}
Expressions ==
    {e \in [second : {{C!Any}, One(0)}, minute : {{C!Any}, One(0), {[base |-> <<>>, step |-> 2]}},
            hour : {{C!Any}, One(1), One(1) \cup One(7)}, day : {{C!Any}, One(2), One(3)}, month : {{C!Any}, One(2)},
            weekday : {{C!Any}, One(1), {[base |-> <<1, 3>>, step |-> 2]}}, year : {{C!Any}, One(2)}] :
        \* a sixth field, a minute step, an hour that does not exist: once each is enough
        /\ e.second = {C!Any} => e.minute = One(0) /\ e.month = {C!Any}
        /\ e.minute = {[base |-> <<>>, step |-> 2]} => e.hour = {C!Any} /\ e.month = {C!Any}
        /\ e.hour = One(1) \cup One(7) => e.minute = {C!Any} /\ e.year = {C!Any}}
CronInit == \E e \in Expressions, z \in {0, 4}, a \in {10, 39}, n \in {1, 2} : C!Start(e, z, a, n)

SchedRest == S!Start({}, {}, 0)
CronRest == C!Start(None, 0, 0, 0)
SettingRest == P!Init /\ rows = {}
FolderRest == AF!Start(<<>>)
Parts == {"login", "reset", "settings", "dictionary", "queue", "scheduler", "edits", "cron", "moves", "replays", "map",
          "memory"}
MCInit ==
    /\ part \in Parts /\ D!Init /\ Init /\ G!Init
    /\ IF part = "reset" THEN T!Init ELSE L!Init
    /\ IF part = "settings" THEN P!Init ELSE SettingRest
    /\ CASE part = "scheduler" -> SchedInit [] part = "edits" -> E!Start({d1}, {a1, a2}, 1) [] OTHER -> SchedRest
    /\ IF part = "cron" THEN CronInit ELSE CronRest
    /\ CASE part = "moves" -> AF!Start(<<Folder(0), Folder(0), Folder(0)>>)
         [] part = "replays" -> KF!Start(<<Folder(0), Folder(1)>>)
         [] part = "map" -> MF!Start(<<Folder(0), Folder(1)>>) [] OTHER -> FolderRest
MCNext ==
    /\ UNCHANGED part
    /\ IF part = "login" THEN L!Next ELSE IF part = "reset" THEN T!Next ELSE UNCHANGED loginVars
    /\ IF part = "settings" THEN P!Next ELSE UNCHANGED settingVars
    /\ IF part = "dictionary" THEN D!Next ELSE UNCHANGED dictVars
    /\ IF part = "queue" THEN Next ELSE UNCHANGED queueVars
    /\ IF part = "scheduler" THEN S!Next ELSE IF part = "edits" THEN E!Next ELSE UNCHANGED schedVars
    /\ IF part = "cron" THEN C!Next ELSE UNCHANGED cronVars
    /\ CASE part = "moves" -> AF!Next [] part = "replays" -> KF!Next [] part = "map" -> MF!Next
         [] OTHER -> UNCHANGED folderVars
    /\ IF part = "memory" THEN G!Next ELSE UNCHANGED memoryVars
MCSpec ==
    MCInit /\ [][MCNext]_<<part, loginVars, settingVars, dictVars, queueVars, schedVars, cronVars, folderVars, memoryVars>>

(* An account counts no more wrong passwords than lockout and captcha allow, and a captcha *)
(* and a reset token let one request through.                                               *)
LoginsHold ==
    /\ part = "login" => L!TypeOK /\ L!GuessesBounded /\ L!SpentOnce
    /\ part = "reset" => T!TypeOK /\ T!SpentOnce
(* No value of a scope is seen by another, a cleared credential is not in force again, a save   *)
(* overwrites nothing its form has not seen, and the folders of a scope are a forest of its own,     *)
(* whose files are in a folder that is there.                                                         *)
ScopesHold ==
    /\ part = "settings" => P!TypeOK /\ P!ScopesHold
    /\ part = "memory" => G!MemoryHolds
    /\ part = "moves" => AF!FoldersHold /\ AF!FiledInFolder /\ AF!WalkEnds /\ AF!KeyCreatesOne /\ AF!FolderScopes
    /\ part = "replays" => KF!FoldersHold /\ KF!FiledInFolder /\ KF!WalkEnds /\ KF!KeyCreatesOne /\ KF!FolderScopes
    /\ part = "map" => MF!FoldersHold /\ MF!FiledInFolder /\ MF!WalkEnds /\ MF!KeyCreatesOne /\ MF!FolderScopes
(* A definition that is due is started, and what is listed as its next instants is when it is due. *)
SchedulesHold ==
    /\ part = "scheduler" => S!TypeOK /\ S!DueIsStarted /\ S!EndsAreTicked
    /\ part = "edits" => E!TypeOK /\ E!DueIsStarted
    /\ part = "cron" => C!TypeOK /\ C!ListsWhatMatches
(* What belongs to another scope is not touched, of settings and of dictionaries; a deleted *)
(* definition of a task stays deleted and starts nothing, and a deleted folder as it was.      *)
RowsKept ==
    [][/\ part = "settings" => P!OneWritten
       /\ part = "memory" => G!OneScopeWritten
       /\ part = "dictionary" => D!OwnTouched
       /\ part = "scheduler" => S!DeletedKept
       /\ part = "edits" => E!DeletedKept
       /\ part \in {"moves", "replays", "map"} => AF!DeletedFolderKept]_<<settingVars, dictVars, schedVars, folderVars, memoryVars>>
=============================================================================
