\* one order form: an order whose outcome is unknown is at the broker all the same
SPECIFICATION Spec
CONSTANTS
    u1 = u1
    u2 = u2
    c1 = c1
    c2 = c2
    t1 = t1
    t2 = t2
    t3 = t3
    k1 = k1
    k2 = k2
    Users = {u1}
    Keys = {c1}
    Contents <- OneAndTwo
    Tokens = {t1, t2, t3}
    Calls = {k1, k2}
    None = None
    Everyone = Everyone
    Mode = "real"
    MaxQtyPerOrder = 2
    DailyLimit = 3
    MaxOrders = 2
    Switches = {u1}
    Coolers = {}
    CanCancel = FALSE
    CanUnready = TRUE
    MaxCrashes = 1
INVARIANTS
    TakenIsCovered
CHECK_DEADLOCK FALSE
