SPECIFICATION Spec
CONSTANTS
    alice = alice  bob = bob  proxy = proxy  t1 = t1  t2 = t2
    Addresses = {alice, bob, proxy}
    Callers = {alice, bob}
    Sent <- MCSent
    Proxies <- MCProxies
    Threads = {t1, t2}
    Limit = 2
    Window = 4
    Second = 2
    PruneAt = 2
    MaxWait = 1
    MaxClock = 7
    MaxHits <- MCMaxHits
SYMMETRY Symmetry
INVARIANTS
    TypeOK
    RetryIsHonest
    BurstBounded
    RefusedForCause
CHECK_DEADLOCK FALSE
