\* A request to the API server fails, the process crashes and the pool is
\* reloaded, each at any point of the work, and one virtual machine has a
\* second interface on another network, which may be plugged in while idle.
SPECIFICATION Spec

CONSTANTS
    v1 = v1  v2 = v2  v3 = v3
    m1 = m1  m2 = m2  m3 = m3
    n1 = n1  n2 = n2
    a1 = a1  a2 = a2  a3 = a3
    NoIP = NoIP  NoNic = NoNic  NoRef = NoRef  NoEvent = NoEvent
    VMs = {v1, v2}
    MACs = {m1, m2, m3}
    Networks = {n1, n2}
    Configured = {n1}
    IPs = {a1, a2}
    Excluded = {}
    MaxRetries = 2
    MaxClock = 1
    Creates = 2
    Updates = 1
    Unplugs = 0
    Deletes = 0
    Edits = 0
    Manuals = 0
    Reloads = 1
    Crashes = 1
    Fails = 1
    Budget <- MCBudget
    Shapes <- TwoNetworks
    Window <- UpdatesIdle

\* The environment's budget ends: the helper may stop with nothing to do.
CHECK_DEADLOCK FALSE
INVARIANTS
    UniqueLease
    LeaseMatchesRecord
PROPERTIES
    StaticRecord
