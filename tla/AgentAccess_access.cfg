\* two users, two accounts, two connections of one user and one of the other,
\* a cooldown, a manual disconnect, a crash
SPECIFICATION Spec
CONSTANTS
    u1 = u1
    u2 = u2
    a1 = a1
    a2 = a2
    p1 = p1
    p2 = p2
    q1 = q1
    Users = {u1, u2}
    Accounts = {a1, a2}
    Conns = {p1, p2, q1}
    UserOf <- Owner
    None = None
    Histories <- NewAndUsed
    Coolers = {u1}
    Blockers = {u1}
    Reporters = {u1}
    MaxCrashes = 1
SYMMETRY Symmetric
CONSTRAINT OneStory
INVARIANTS
    SessionIsOwn
    ShutOutStays
PROPERTIES
    LoginIsClean
\* connections and crashes are bounded: the system may stop
CHECK_DEADLOCK FALSE
