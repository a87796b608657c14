\* Two goroutines call GetIP and ReleaseIP while the subnet comes and goes.
SPECIFICATION FairSpec

CONSTANTS
    t1 = t1  t2 = t2
    n1 = n1
    Networks = {n1}
    Threads = {t1, t2}
    Nobody = Nobody
    Addresses = {0, 1, 2, 3, 4}
    NoIP = NoIP
    SubnetSpecs <- Specs
    Generations = 1

\* A panic ends the process.
CHECK_DEADLOCK FALSE
INVARIANTS
    TypeOK
    FoundStillTrue
PROPERTIES
    PoolSpec
    CallsReturn
