\* A crash and a deletion, possibly followed by a re-creation, at any point
\* of the work, with one address for two.
SPECIFICATION FairSpec

CONSTANTS
    v1 = v1  v2 = v2  v3 = v3
    m1 = m1  m2 = m2  m3 = m3
    n1 = n1  n2 = n2
    a1 = a1  a2 = a2  a3 = a3
    NoIP = NoIP  NoNic = NoNic  NoRef = NoRef  NoEvent = NoEvent
    VMs = {v1, v2}
    MACs = {m1, m2}
    Networks = {n1}
    Configured = {n1}
    IPs = {a1}
    Excluded = {}
    MaxRetries = 2
    MaxClock = 1
    Creates = 2
    Updates = 0
    Unplugs = 0
    Deletes = 1
    Edits = 0
    Manuals = 0
    Reloads = 0
    Crashes = 1
    Fails = 0
    Budget <- MCBudget
    Shapes <- OneNic
    Window <- Anytime

\* The environment's budget ends: the helper may stop with nothing to do.
CHECK_DEADLOCK FALSE
INVARIANTS
    PoolStatusAccurate
PROPERTIES
    EventuallyServed
    EventuallyReleased
    BecomesOperational
