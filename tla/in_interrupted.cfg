CONSTANTS
    Tx = {t1, t2, t3}
    None = None
    Foreign = Foreign
    Clash = Clash
    Procs = {s1}
    Databases = {d1}
    Contents = {Old, New}
    Seeds = {None, Foreign}
    Free = Free
    Stale = Stale
    JobsKept = 1
    PlanReadsJournal = TRUE
    MaxFaults = 1
    MaxCrashes = 1
    MaxEdits = 0
SPECIFICATION Spec
PROPERTIES
    InstalledInTheEnd
CHECK_DEADLOCK FALSE
