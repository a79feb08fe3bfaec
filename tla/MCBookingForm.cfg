CONSTANTS
    Hour = 8
    MinSlot = 2
    OpenHour = 10
    CloseHour = 0
    Epoch = 44
    Tables = {1, 2}
    Ids = {1, 2}
    Others <- MCOthers
    Clock <- MCClock
    Times <- MCTimes
    Hours <- MCHours
    Minutes <- MCMinutes
    Buttons <- MCButtons
    MaxEffort = 5
SPECIFICATION Spec
CHECK_DEADLOCK FALSE
INVARIANTS
    SlotsAreTheGaps
    ReviewIsSent
    UntouchedEditKeeps
    OfferIsAccepted
    OnlyEarlyClashes
