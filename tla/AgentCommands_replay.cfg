\* one place; three sessions, restarts of agent and server, expiry, fail-stop, kill switch, fills
SPECIFICATION Spec
CONSTANTS
    o1 = o1
    o2 = o2
    k1 = k1
    u1 = u1
    u2 = u2
    u3 = u3
    Places <- OnePlace
    Cancels <- None
    Updates <- None
    OrderOf <- OrderOfAll
    InitQty <- LotEach
    NewQty <- TwoLots
    NativeErrors <- JustException
    DailyLimit = 10
    MaxSessions = 3
    MaxRestarts = 1
    MaxCrashes = 1
    MaxWire = 2
    CanLatch = TRUE
    CanExpire = TRUE
    CanFill = TRUE
    CanEnd = FALSE
    CanBlock = TRUE
INVARIANTS
    ReExecutedOnlyIfLost
    QuotaHeld
PROPERTIES
    ImplementsContract
\* sessions, restarts and requests are bounded: the system may stop
CHECK_DEADLOCK FALSE
