SPECIFICATION FairSpec
CONSTANTS
    r1 = r1  r2 = r2  r3 = r3  h1 = h1  h2 = h2
    Refs = {r1, r2}
    Strangers = {}
    Slots <- OneSlots
    SlotOf <- OneSlotOf
    Meetings = {}
    Conferences = {}
    Handlers = {h1}
    Kinds = {"ok"}
    Faults = {"release"}
    RelayCalendar = TRUE
    HoldMinutes = 1
    MaxNow = 1
    MaxCrashes = 0
    NoEvent = NoEvent
PROPERTIES
    HoldsAreReleased
    PaymentsAreRecorded
    PaidIsMailed
CHECK_DEADLOCK FALSE
