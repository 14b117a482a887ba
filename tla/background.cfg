CONSTANTS
    p1 = p1
    p2 = p2
    t1 = t1
    t2 = t2
    k1 = k1
    k2 = k2
    NoProc = NoProc
    NoTask = NoTask
    Procs = {p1, p2}
    Tasks = {t1, t2}
    Keys = {k1}
    KeyOf <- OneKey
    Registered = {t1}
    MaxAttempts = 2
    Cancellers = {}
    CrashPoints <- SafeCrashes
    FaultPoints <- SafeFaults
    MayStall = FALSE
    MaxFailures = 1
    MaxCancels = 0
    c1 = c1
    c2 = c2
    w1 = w1
    w2 = w2
    r1 = r1
    r2 = r2
    q1 = q1
    q2 = q2
    s1 = s1
    NoRun = NoRun
    NoQueue = NoQueue
    NoKey = NoKey
    d1 = d1
    d2 = d2
    d3 = d3
    e1 = e1
    e2 = e2
    m1 = m1
    m2 = m2
    h1 = h1
    h2 = h2
    NoAccount = NoAccount
    NoCall = NoCall
    Clients = {c1, c2}
    Workers = {w1, w2}
    Server <- MCRunsOn
    Runs = {r1, r2}
    QueueIds = {q1, q2}
    RunKeys = {k1, k2}
    Concurrency = 1
    MaxFaults = 1
    Sends = {d1, d2, d3}
    Editors = {e1, e2}
    MailServers = {m1, m2}
    MailServer <- MCServedBy
    MailAccounts = {h1, h2}
    MailKeys = {k1}
SPECIFICATION MCSpec
INVARIANTS
    TypeOK
    MutualExclusion
    TasksHold
    OneHandler
    MailHolds
PROPERTIES
    AttemptsNeverLost
    ImplementsContract
    DeletedForGood
    EverythingEnds
CHECK_DEADLOCK FALSE
