SPECIFICATION Spec
CONSTANTS
    r1 = r1  r2 = r2  r3 = r3  h1 = h1  h2 = h2
    Refs = {r1, r2, r3}
    Strangers = {}
    Slots <- TwoSlots
    SlotOf <- TwoSlotsOf
    Meetings <- OneMeeting
    Conferences = {}
    Handlers = {h1}
    Kinds = {"ok"}
    Faults = {}
    RelayCalendar = TRUE
    HoldMinutes = 1
    MaxNow = 1
    MaxCrashes = 0
    NoEvent = NoEvent
SYMMETRY RequestSymmetry
INVARIANTS
    StaleHoldsNeverBlock
PROPERTIES
    LiveCallsBlock
CHECK_DEADLOCK FALSE
