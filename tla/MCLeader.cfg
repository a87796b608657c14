\* Two replicas, and any three of the things that can happen to them.
SPECIFICATION FairSpec

CONSTANTS
    r1 = r1  r2 = r2
    None = None
    Replicas = {r1, r2}
    LeaseDuration = 3
    GiveUp = 2
    SignalCount = 2
    CrashCount = 2
    RestartCount = 1
    MissCount = 1
    StallCount = 1
    OutageCount = 1
    UnlabelCount = 1
    UncleanCount = 1
    AnyCount = 3
    Budget <- MCBudget

\* The environment's budget ends: a replica whose pools cannot be registered
\* only renews its Lease.
CHECK_DEADLOCK FALSE
INVARIANTS
    TypeOK
    OneLeader
    AddressOnce
    LabelMarksLeader
PROPERTIES
    TakesOver
