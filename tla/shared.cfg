CONSTANTS
    c1 = c1
    c2 = c2
    NoOrg = NoOrg
    Unset = Unset
    Default = Default
    Deployed = Deployed
    Blank = Blank
    Seed = Seed
    p1 = p1
    p2 = p2
    t1 = t1
    k1 = k1
    NoProc = NoProc
    NoTask = NoTask
    Procs = {p1, p2}
    Tasks = {t1}
    Keys = {k1}
    KeyOf <- OneKey
    Registered = {t1}
    MaxAttempts = 1
    Cancellers = {p1}
    MayStall = TRUE
    MaxFailures = 1
    MaxCancels = 1
    sa = sa
    sb = sb
    d1 = d1
    d2 = d2
    d3 = d3
    a1 = a1
    a2 = a2
    x1 = x1
    x2 = x2
    x3 = x3
    None = None
    CrashPoints = {"idle", "rotate", "probe", "lock", "recheck", "read", "lease", "save", "unlock", "unlease", "exec", "start", "startw", "run", "fin", "finw", "after", "rel1", "lookup", "store", "index", "release", "cwrite", "cclaim", "cremove"}
    FaultPoints = {"idle", "cwrite", "cclaim", "cremove", "lookup", "lease", "expire"}
SPECIFICATION MCSpec
INVARIANTS
    LoginsHold
    ScopesHold
    SchedulesHold
PROPERTIES
    FinalOnceQuiet
    RowsKept
CHECK_DEADLOCK FALSE
