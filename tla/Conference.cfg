SPECIFICATION Spec
CONSTANTS
    r1 = r1  r2 = r2  r3 = r3  h1 = h1
    Refs = {r1, r2, r3}
    Handlers = {h1}
    FirstCapacity = 1
    Capacities = {1, 2}
    Faults = {"wechat", "email", "database"}
    HoldMinutes = 1
    MaxAttempts = 8
    MaxNow = 1
    MaxCrashes = 1
    NoRef = NoRef
SYMMETRY Symmetry
CONSTRAINT ThirdComesLast
INVARIANTS
    SeatSoldOnce
    NeverOverPeak
    PaidSeatIsAudited
    RefundedIsClosed
PROPERTIES
    ImplementsLife
    ImplementsSale
CHECK_DEADLOCK FALSE
