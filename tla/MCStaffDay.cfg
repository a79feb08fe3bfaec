SPECIFICATION Spec
CONSTANTS
    Offset = 330
    Starts <- MCStarts
    Closes <- MCCloses
    Step = 30
    MaxNow = 1800
    Stays <- MCStays
    MaxStays = 2
    MaxDelay = 60
    ReadsFail = FALSE
PROPERTIES
    StaffKeepToToday
CHECK_DEADLOCK FALSE
