\* a place, two increases to one size and a decrease that race; a lost session, stale lists
SPECIFICATION Spec
CONSTANTS
    o1 = o1
    o2 = o2
    k1 = k1
    u1 = u1
    u2 = u2
    u3 = u3
    Places <- OnePlace
    Cancels <- None
    Updates <- ThreeUpdates
    OrderOf <- OrderOfAll
    InitQty <- LotEach
    NewQty <- TwoOrOne
    NativeErrors <- JustNotFound
    DailyLimit = 10
    MaxSessions = 2
    MaxRestarts = 0
    MaxCrashes = 0
    MaxWire = 1
    CanLatch = FALSE
    CanExpire = FALSE
    CanFill = FALSE
    CanEnd = FALSE
    CanBlock = FALSE
SYMMETRY SameContent
INVARIANTS
    OkIsRecorded
    OpenKeepsOwnQuota
PROPERTIES
    QueryRight
\* sessions, restarts and requests are bounded: the system may stop
CHECK_DEADLOCK FALSE
