SPECIFICATION Spec
CONSTANTS
    r1 = r1  r2 = r2  r3 = r3  h1 = h1  h2 = h2
    Refs = {r1, r2, r3}
    Strangers = {r3}
    Slots <- OneSlots
    SlotOf <- OneSlotOf
    Meetings = {}
    Conferences = {}
    Handlers = {h1, h2}
    Kinds = {"ok"}
    Faults = {"wechat"}
    RelayCalendar = TRUE
    HoldMinutes = 1
    MaxNow = 2
    MaxCrashes = 0
    NoEvent = NoEvent
SYMMETRY RequestSymmetry
INVARIANTS
    AnsweredIsAudited
    HoldIsBacked
    NoEventLeaks
PROPERTIES
    ImplementsSale
    ImplementsLife
CHECK_DEADLOCK FALSE
