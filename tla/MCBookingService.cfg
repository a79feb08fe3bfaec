SPECIFICATION Spec
CONSTANTS
    t1 = t1
    t2 = t2
    b1 = b1
    b2 = b2
    r1 = r1
    r2 = r2
    NoId = NoId
    Free = Free
    Ids <- MCIds
    Tables <- MCTables
    Times <- MCTimes
    Requests <- MCRequests
    Inputs <- MCInputs
    HalfMinute = 1
    DayStart = 1
    MaxNow = 1
INVARIANTS
    TypeOK
    NoDoubleBooking
    FreshIsCurrent
PROPERTIES
    CancelledForever
    ImplementsLedger
    EveryRequestAnswered
