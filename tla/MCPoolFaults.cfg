\* Changes at any time the application runs, a crash, a failed request
\* and a failed socket at any time, and a configuration that cannot be registered.
SPECIFICATION Spec

CONSTANTS
    p1 = p1  p2 = p2
    n1 = n1  n2 = n2
    c1 = c1  c2 = c2  c3 = c3
    o1 = o1  o2 = o2  a1 = a1  a2 = a2
    None = None  NoEvent = NoEvent
    Pools = {p1, p2}
    Nets = {n1}
    Confs = {c1, c3}
    Opts = {o1, o2}
    Broken = {c3}
    MaxGen = 3
    Creates = 0
    Changes = 1
    Reloads = 1
    Deletes = 1
    Tenants = 1
    Questions = 1
    Crashes = 1
    Fails = 1
    Sockets = 1
    ServerIP <- MCServerIP
    Budget <- MCBudget
    Choices <- SharedNet
    Window <- Busy

\* The environment's budget ends: the helper may stop with nothing to do.
CHECK_DEADLOCK FALSE
INVARIANTS
    CacheBacked
    NoNilServer
