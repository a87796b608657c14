\* Two pods one after the other, failed requests, a crash, a late signer.
SPECIFICATION FairSpec

CONSTANTS
    k1 = k1  k2 = k2  k3 = k3  k4 = k4  k5 = k5
    None = None  Empty = Empty
    MaxPods = 2
    Keys = {k1, k2, k3, k4, k5}
    Validity = 11
    Period = 3
    Minute = 2
    Fails = 1
    Miscopies = 1
    Lates = 1
    Crashes = 1
    Outages = 1
    Rollouts = 1
    Window = FALSE
    Budget <- MCBudget

\* Once the budget is spent a webhook without a certificate only restarts.
CHECK_DEADLOCK FALSE
INVARIANTS
    TypeOK
    Paired
PROPERTIES
    NeverExpires
    TickRenews
    Recovers
