\* two users, two GUI processes of one machine, two codes
SPECIFICATION Spec
CONSTANTS
    u1 = u1
    u2 = u2
    g1 = g1
    g2 = g2
    k1 = k1
    k2 = k2
    t1 = t1
    t2 = t2
    t3 = t3
    Users = {u1, u2}
    Owners = {u1, u2}
    Admins = {u1, u2}
    Codes = {k1, k2}
    Tokens = {t1, t2, t3}
    Guis = {g1, g2}
    Flows <- GuiFlows
    None = None
    MaxPending = 1
    MaxRestarts = 1
    MaxResends = 1
CONSTRAINT OneStory
SYMMETRY Symmetric
INVARIANTS
    TokensAccounted
    OwnSession
\* codes and tokens are bounded: the system may stop
CHECK_DEADLOCK FALSE
