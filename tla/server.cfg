CONSTANTS
    None = None
    NoClient = NoClient
    NoUpload = NoUpload
    s1 = s1
    s2 = s2
    c1 = c1
    c2 = c2
    Servers = {s1}
    Clients = {c1, c2}
    Keys = {"max_size", "quota"}
    Values = {1, 2}
    Default <- Compiled
    ValidModules <- AtMost
    FaultPoints <- StorePoints
    MaxCalls = 2
    MaxFailures = 1
    u1 = u1
    u2 = u2
    e1 = e1
    d1 = d1
    m1 = m1
    Uploads = {u1, u2}
    Keyed = {u1, u2}
    Editors = {e1}
    Deleters = {d1}
    Cleaners = {m1}
    Limit = 1
    MaxFaults = 1
    i1 = i1
    i2 = i2
    i3 = i3
    o1 = o1
    o2 = o2
    ImportServers = {s1, s2}
    Imported = {i1, i2, i3}
    Operators = {o1, o2}
    Asked <- MCAsked
    Server <- MCServed
    Tenant <- MCTenant
    ImportKey <- MCKey
    Kind <- MCKind
    Rows <- MCRows
    LongErrors = {}
    NoFields = {i3}
    MaxAttempts = 2
    j1 = j1
    j2 = j2
    j3 = j3
    r1 = r1
    BackupJobs = {j1, j2, j3}
    Restores = {r1}
    Paths = {"p1", "p2"}
    Dest <- MCDest
    Drivers = {"mysql", "postgres"}
    DriverOf <- MCDriverOf
    BackupKeys = {"k", "k2"}
    KeyOf <- MCKeyOf
    BackupFaults = 2
    q1 = q1
    q2 = q2
    Spans = {q1, q2}
    Flushers = {f1}
    Reloads = {l1}
    Closer = closer
    QueueSize = 1
    MaxRefused = 1
    Configs <- Configurations
    HttpRequests = {q1}
SPECIFICATION MCSpec
INVARIANTS
    SettingsHold
    FilesHold
    ServerHolds
PROPERTIES
    KeptForGood
    Settles
CHECK_DEADLOCK FALSE
