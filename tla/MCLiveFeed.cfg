SPECIFICATION WatchSpec
CONSTANTS
    w1 = w1
    w2 = w2
    s1 = s1
    tv1 = tv1
    Conns <- StaffPage
    Staff <- StaffPage
    Writers <- MCWriters
    Changes <- MCChanges
    ChanSize <- MCChanSize
    BufSize = 1
    MaxChanges = 1
INVARIANTS
    NextMutationRepairs
PROPERTIES
    CalmFeedArrives
    InitialEnds
