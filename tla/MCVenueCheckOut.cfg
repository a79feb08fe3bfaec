SPECIFICATION WatchSpec
CONSTANTS
    b1 = b1
    b2 = b2
    r1 = r1
    c1 = c1
    c2 = c2
    NoId = NoId
    Free = Free
    Main = Main
    Ids <- MCIds
    Tables <- MCTables
    Times <- MCTimes
    Requests <- MCRequests
    Callbacks <- MCCallbacks
    Inputs <- MCInputs
    InitialDbs <- MCInitialDbs
    HalfMinute = 1
    DayStart = 0
    MaxNow = 2
    QueriesFail = FALSE
PROPERTIES
    EndsAtCheckOut
CHECK_DEADLOCK FALSE
