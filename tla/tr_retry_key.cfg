CONSTANTS
    NoClient = NoClient
    NoSession = NoSession
    Clients = {c1, c2, c3}
    SessionIds = {}
    FaultPoints <- AllPoints
    MayStall = FALSE
    MaxFailures = 0
    MaxTokens = 0
    Workers = {w1}
    Runs = {r1, r2}
    QueueIds = {q1, q2, q3}
    TriggerKeys = {k1}
    RetryKeys = {k1}
    RetryCalls = {"enqueue", "retry"}
    Concurrency = 1
    MaxAttempts = 1
    MaxFaults = 0
    RunServer = m1
    NoRun = NoRun
    NoQueue = NoQueue
    NoKey = NoKey
SPECIFICATION MCSpec
SYMMETRY Callers
INVARIANTS
    NoOrphan
CHECK_DEADLOCK FALSE
