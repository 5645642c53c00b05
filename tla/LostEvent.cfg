SPECIFICATION Spec
CONSTANTS
    r1 = r1  r2 = r2  r3 = r3  h1 = h1  h2 = h2
    Refs = {r1, r2}
    Strangers = {}
    Slots <- OneSlots
    SlotOf <- OneSlotOf
    Meetings = {}
    Conferences = {}
    Handlers = {h1}
    Kinds = {"ok"}
    Faults = {}
    RelayCalendar = FALSE
    HoldMinutes = 1
    MaxNow = 2
    MaxCrashes = 0
    NoEvent = NoEvent
INVARIANTS
    FinalizedIsOnCalendar
CHECK_DEADLOCK FALSE
