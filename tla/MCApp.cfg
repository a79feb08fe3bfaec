SPECIFICATION AppSpec
CONSTANTS
    x = x
    y = y
    Nobody = Nobody
    Accounts <- MCAccounts
    RolesOf <- MCRolesOf
    MaxWaits = 1
    Tables = {1, 2}
    CallIds = {1, 2}
    Uids = {u, v}
    Roles = {staff, admin}
    FirstRole = staff
    Me = u
    Gone = Gone
    NoUid = NoUid
    OpIds = {1, 2}
    Rates = {0, 1}
    Times = {early, late}
    Blank = Blank
    FirstTime = early
    MaxTimeouts = 2
    PageRequests = {p1, p2}
    OtherRequests = {o1}
    NoRequest = NoRequest
    MaxNow = 2
    PerSecond = 2
    StartWindow = 1
    Soon = 4
    Final = 2
    Sessions <- MCSessions
    NoSession = NoSession
    MaxWall = 16
INVARIANTS
    UserIsSignedIn
    SpinnerIsOneCall
    ListIsTrue
    SavedIsTheForm
    HealthIsServed
    SoundsFollowBadges
PROPERTIES
    RedirectsSettle
    TurnedAway
CHECK_DEADLOCK FALSE
