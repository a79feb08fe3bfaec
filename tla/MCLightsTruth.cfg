SPECIFICATION WatchSpec
CONSTANTS
    t1 = t1
    t2 = t2
    c1 = c1
    c2 = c2
    All = All
    Tables <- MCTables
    Callers <- MCCallers
    Switches <- MCSwitches
    ChanSize = 2
    MaxSwitches = 2
    Upsets = {"preempt"}
    MaxUpsets = 1
INVARIANTS
    LightIsRelay
CHECK_DEADLOCK FALSE
