SPECIFICATION Spec
CONSTANTS
    r1 = r1  r2 = r2  r3 = r3  h1 = h1  h2 = h2
    Refs = {r1, r2}
    Strangers = {}
    Slots <- OneSlots
    SlotOf <- OneSlotOf
    Meetings = {}
    Conferences <- OneConference
    Handlers = {h1}
    Kinds = {"ok", "bad_amount"}
    Faults = {"calendar", "release", "wechat", "email", "database", "sweeper"}
    RelayCalendar = TRUE
    HoldMinutes = 1
    MaxNow = 2
    MaxCrashes = 1
    NoEvent = NoEvent
SYMMETRY Symmetry
INVARIANTS
    TypeOK
    SlotSoldOnce
    PaidIsAudited
    ConflictIsFinal
    ConfirmedIsPaidFor
    MailedOnce
    OneEventEach
CHECK_DEADLOCK FALSE
