SPECIFICATION Spec
CONSTANTS
    Slots <- MCSlots
    MaxToken = 3
    MaxUpsets = 2
INVARIANTS
    LiveMeansOpen
    NeverStranded
PROPERTIES
    ComesBack
    SignedOutStaysQuiet
CHECK_DEADLOCK FALSE
