SPECIFICATION WatchSpec
CONSTANTS
    t1 = t1
    t2 = t2
    c1 = c1
    c2 = c2
    All = All
    Tables <- MCTables
    Callers <- MCCallers
    Switches <- MCSwitches
    ChanSize = 1
    MaxSwitches = 2
    Upsets = {"preempt", "duplicate", "disconnect", "reboot", "reconnect", "restart"}
    MaxUpsets = 1
INVARIANTS
    LightsTypeOK
    UndisturbedAgrees
    SyncRepairs
PROPERTIES
    PendingIsResolved
CHECK_DEADLOCK FALSE
