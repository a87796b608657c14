\* Two pools, created, changed, reloaded and deleted one step at a time.
SPECIFICATION FairSpec

CONSTANTS
    p1 = p1  p2 = p2
    n1 = n1  n2 = n2
    c1 = c1  c2 = c2  c3 = c3
    o1 = o1  o2 = o2  a1 = a1  a2 = a2
    None = None  NoEvent = NoEvent
    Pools = {p1, p2}
    Nets = {n1, n2}
    Confs = {c1, c2, c3}
    Opts = {o1, o2}
    Broken = {}
    MaxGen = 2
    Creates = 1
    Changes = 1
    Reloads = 1
    Deletes = 1
    Tenants = 1
    Questions = 1
    Crashes = 0
    Fails = 0
    Sockets = 0
    ServerIP <- MCServerIP
    Budget <- MCBudget
    Choices <- OwnNet
    Window <- Patient

\* The environment's budget ends: the helper may stop with nothing to do.
CHECK_DEADLOCK FALSE
INVARIANTS
    TypeOK
    ConfigurationApplied
    NothingStale
    OneListener
PROPERTIES
    ProtectedInUse
    Answered
    RestartEnds
