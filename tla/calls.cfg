CONSTANTS
    NoClient = NoClient
    NoSession = NoSession
    Clients = {c1, c2, c3}
    SessionIds = {s1}
    FaultPoints <- AllPoints
    MayStall = TRUE
    MaxFailures = 1
    MaxTokens = 3
    Workers = {w1}
    Runs = {r1, r2, r3}
    QueueIds = {q1, q2, q3}
    TriggerKeys = {k1, k2, k3}
    RetryKeys = {k1}
    RetryCalls = {"enqueue", "cancel", "retry"}
    Concurrency = 2
    MaxAttempts = 1
    MaxFaults = 1
    RunServer = m1
    NoRun = NoRun
    NoQueue = NoQueue
    NoKey = NoKey
SPECIFICATION MCSpec
SYMMETRY Callers
INVARIANTS
    TypeOK
    SingleUse
    NoPairAfterEnd
    NeverLockedOut
    RunsHold
    SettledForGood
PROPERTIES
    FinishedStays
CHECK_DEADLOCK FALSE
