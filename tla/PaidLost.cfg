SPECIFICATION Spec
CONSTANTS
    r1 = r1  r2 = r2  r3 = r3  h1 = h1  h2 = h2
    Refs = {r1}
    Strangers = {}
    Slots <- OneSlots
    SlotOf <- OneSlotOf
    Meetings = {}
    Conferences = {}
    Handlers = {h1}
    Kinds = {"ok"}
    Faults = {}
    RelayCalendar = TRUE
    HoldMinutes = 1
    MaxNow = 2
    MaxCrashes = 0
    NoEvent = NoEvent
PROPERTIES
    PaidStaysPaid
CHECK_DEADLOCK FALSE
