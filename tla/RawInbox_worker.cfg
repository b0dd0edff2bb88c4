\* wake-ups, the page, the watchdog, exceptions and the shutdown
SPECIFICATION FairSpec
CONSTANTS
    o1 = o1
    o2 = o2
    o3 = o3
    u1 = u1
    u2 = u2
    a1 = a1
    a2 = a2
    None = None
    NoFee = NoFee
    Commission <- Five
    Multiplier <- Fifty
    FlatFee = 20
    Orders <- OneOrder
    Info <- InfoOf
    Events <- TwoEvents
    Binding <- Unbound
    Scope = u1
    Mode = "sim"
    BatchLimit = 2
    QueueSize = 2
    MaxCopies = 1
    MaxRows = 2
    MaxFaults = 1
    MaxCrashes = 0
    MaxPages = 1
    Hooks <- Both
    Watchdog = TRUE
    CanStop = TRUE
INVARIANTS
    NoLostWake
    StaleImpliesPing
PROPERTIES
    DrainedIsFinal
    EventuallyDone
\* rows are bounded: the system may stop
CHECK_DEADLOCK FALSE
