\* a place and a cancel, fills, orders ended by the exchange, a crash of the server
SPECIFICATION FairSpec
CONSTANTS
    o1 = o1
    o2 = o2
    k1 = k1
    u1 = u1
    u2 = u2
    u3 = u3
    Places <- OnePlace
    Cancels <- OneCancel
    Updates <- None
    OrderOf <- OrderOfAll
    InitQty <- LotEach
    NewQty <- TwoLots
    NativeErrors <- JustException
    DailyLimit = 10
    MaxSessions = 2
    MaxRestarts = 0
    MaxCrashes = 1
    MaxWire = 1
    CanLatch = FALSE
    CanExpire = FALSE
    CanFill = TRUE
    CanEnd = TRUE
    CanBlock = FALSE
INVARIANTS
    TypeOK
PROPERTIES
    FinalLeftOnlyByPlace
    ResolvedStays
    EveryRequestReturns
    Answered
\* sessions, restarts and requests are bounded: the system may stop
CHECK_DEADLOCK FALSE
