\* Virtual machines are created at any time, with addresses to spare; while
\* the helper is idle a user writes another address in a vmnetcfg or changes an
\* option of the pool, and it may crash; a user creates a vmnetcfg while it is
\* down.
SPECIFICATION Spec

CONSTANTS
    v1 = v1  v2 = v2  v3 = v3
    m1 = m1  m2 = m2  m3 = m3
    n1 = n1  n2 = n2
    a1 = a1  a2 = a2  a3 = a3
    NoIP = NoIP  NoNic = NoNic  NoRef = NoRef  NoEvent = NoEvent
    VMs = {v1, v2}
    MACs = {m1, m2}
    Networks = {n1}
    Configured = {n1}
    IPs = {a1, a2, a3}
    Excluded = {}
    MaxRetries = 2
    MaxClock = 3
    Creates = 2
    Updates = 0
    Unplugs = 0
    Deletes = 0
    Edits = 1
    Manuals = 1
    Reloads = 1
    Crashes = 1
    Fails = 0
    Budget <- MCBudget
    Shapes <- OneNic
    Window <- EditsIdle

\* The environment's budget ends: the helper may stop with nothing to do.
CHECK_DEADLOCK FALSE
CONSTRAINT DistinctSeconds
INVARIANTS
    Served
    NoErrors
    NoHijack
