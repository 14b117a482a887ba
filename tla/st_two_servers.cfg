CONSTANTS
    None = None
    NoClient = NoClient
    NoUpload = NoUpload
    s1 = s1
    s2 = s2
    c1 = c1
    c2 = c2
    Servers = {s1, s2}
    Clients = {c1, c2}
    Keys = {"max_size", "quota"}
    Values = {1, 2}
    Default <- Compiled
    ValidModules <- AtMost
    FaultPoints <- StorePoints
    MaxCalls = 2
    MaxFailures = 0
    u1 = u1
    u2 = u2
    e1 = e1
    d1 = d1
    m1 = m1
    Uploads = {u1, u2}
    Keyed = {u1, u2}
    Editors = {e1}
    Deleters = {d1}
    Cleaners = {m1}
    Limit = 1
    MaxFaults = 0
    i1 = i1
    i2 = i2
    i3 = i3
    o1 = o1
    o2 = o2
    ImportServers = {s1, s2}
    Imported = {i1, i2, i3}
    Operators = {o1, o2}
    Asked <- MCAsked
    Server <- MCServed
    Tenant <- MCTenant
    ImportKey <- MCKey
    Kind <- MCKind
    Rows <- MCRows
    LongErrors = {}
    NoFields = {i3}
    MaxAttempts = 2
    j1 = j1
    j2 = j2
    j3 = j3
    r1 = r1
    BackupJobs = {}
    Restores = {}
    Paths = {"p1", "p2"}
    Dest <- MCDest
    Drivers = {"mysql", "postgres"}
    DriverOf <- MCDriverOf
    BackupKeys = {"k", "k2"}
    KeyOf <- MCKeyOf
    BackupFaults = 0
    q1 = q1
    q2 = q2
    Spans = {}
    Flushers = {}
    Reloads = {}
    Closer = closer
    QueueSize = 1
    MaxRefused = 0
    Configs <- Configurations
    HttpRequests = {}
SPECIFICATION MCSpec
SYMMETRY Requesters
INVARIANTS
    OneWinner
CHECK_DEADLOCK FALSE
