SPECIFICATION Spec
CONSTANTS
    Offset = 330
    Starts <- MCStarts
    Closes <- MCCloses
    Step = 30
    MaxNow = 1800
    Stays <- MCStays
    MaxStays = 2
    MaxDelay = 60
    ReadsFail = TRUE
INVARIANTS
    DayTypeOK
    TodayIsTheOneDay
PROPERTIES
    RunningIsOnTimeline
CHECK_DEADLOCK FALSE
