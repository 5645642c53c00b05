SPECIFICATION FairSpec
CONSTANTS
    r1 = r1  t1 = t1  t2 = t2
    Refs = {r1}
    Threads = {t1, t2}
    Nobody = Nobody
    Deployments = {"relay", "google"}
    Skews <- MCSkews
    MaxSkew = 1
    MaxClock = 1
INVARIANTS
    TypeOK
PROPERTIES
    ImplementsPort
    HoldsComeDown
    DirectReleasesEnd
CHECK_DEADLOCK FALSE
