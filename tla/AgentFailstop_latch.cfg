\* two children, two connections, one report that cannot be stored, one restart of the agent
SPECIFICATION Spec
CONSTANTS
    MaxGens = 2
    MaxSessions = 2
    MaxFaults = 1
    MaxRestarts = 1
    MaxWire = 1
INVARIANTS
    TypeOK
    OneChild
    SentinelHonoured
    OkMeansUnlatched
    LatchAnnounced
PROPERTIES
    NoCallOnceLatched
\* children, connections and restarts are bounded: the system may stop
CHECK_DEADLOCK FALSE
