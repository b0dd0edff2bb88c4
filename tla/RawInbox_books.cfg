\* fills in parts, a cover that reverses, duplicates, orphans, a foreign order, a crash
SPECIFICATION Spec
CONSTANTS
    o1 = o1
    o2 = o2
    o3 = o3
    u1 = u1
    u2 = u2
    a1 = a1
    a2 = a2
    None = None
    NoFee = NoFee
    Commission <- Five
    Multiplier <- Fifty
    FlatFee = 20
    Orders <- OrdersOf
    Info <- InfoOf
    Events <- EventsOf
    Binding <- Unbound
    Scope = u1
    Mode = "sim"
    BatchLimit = 2
    QueueSize = 3
    MaxCopies = 2
    MaxRows = 3
    MaxFaults = 0
    MaxCrashes = 1
    MaxPages = 0
    Hooks <- Silent
    Watchdog = FALSE
    CanStop = FALSE
INVARIANTS
    TypeOK
    BooksMatchDeals
    FilledMatchesFills
    BookedExactlyOnce
    NoForeignBooking
    GuardGivesTwoTries
\* rows are bounded: the system may stop
CHECK_DEADLOCK FALSE
