\* An interface is unplugged at any point of the work for another one, with
\* two addresses for three interfaces: both controllers write the pool status.
SPECIFICATION Spec

CONSTANTS
    v1 = v1  v2 = v2  v3 = v3
    m1 = m1  m2 = m2  m3 = m3
    n1 = n1  n2 = n2
    a1 = a1  a2 = a2  a3 = a3
    NoIP = NoIP  NoNic = NoNic  NoRef = NoRef  NoEvent = NoEvent
    VMs = {v1, v2}
    MACs = {m1, m2, m3}
    Networks = {n1}
    Configured = {n1}
    IPs = {a1, a2}
    Excluded = {}
    MaxRetries = 3
    MaxClock = 1
    Creates = 2
    Updates = 0
    Unplugs = 1
    Deletes = 0
    Edits = 0
    Manuals = 0
    Reloads = 0
    Crashes = 0
    Fails = 0
    Budget <- MCBudget
    Shapes <- HotPlug
    Window <- Anytime

\* The environment's budget ends: the helper may stop with nothing to do.
CHECK_DEADLOCK FALSE
INVARIANTS
    ListedAllocated
