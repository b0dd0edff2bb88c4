\* two owners, two order forms, increases and cancels, a kill switch, a crash
SPECIFICATION Spec
CONSTANTS
    u1 = u1
    u2 = u2
    c1 = c1
    c2 = c2
    t1 = t1
    t2 = t2
    t3 = t3
    k1 = k1
    k2 = k2
    Users = {u1, u2}
    Keys = {c1, c2}
    Contents <- OneAndTwo
    Tokens = {t1, t2, t3}
    Calls = {k1, k2}
    None = None
    Everyone = Everyone
    Mode = "real"
    MaxQtyPerOrder = 2
    DailyLimit = 3
    MaxOrders = 2
    Switches = {u1}
    Coolers = {u1}
    CanCancel = TRUE
    CanUnready = TRUE
    MaxCrashes = 1
SYMMETRY Symmetric
CONSTRAINT CoolingAlone
INVARIANTS
    TypeOK
    LimitHolds
    ExposureCovered
    SentAtMostOnce
    TokenBuysOneDecision
    ConfirmedIsSent
PROPERTIES
    NothingSentWhileBlocked
    SettledOnce
\* tokens are bounded: the system may stop
CHECK_DEADLOCK FALSE
