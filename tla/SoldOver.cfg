SPECIFICATION Spec
CONSTANTS
    talk = talk  chat = chat
    Types = {talk, chat}
    Duration <- MCDuration
    Before <- MCBefore
    After <- MCAfter
    Notice <- MCNotice
    Ahead <- MCAhead
    Rules <- MCRules
    SlotStep = 1
    HoldMinutes = 1
    Day = 12
    Zones <- MCZones
    Meetings <- MCMeetings
    Conferences <- MCConferences
    Starts = {0, 1, 2, 3, 4, 5, 6, 7, 8, 9, 10, 11, 12, 13, 14}
    Dates = {0, 1}
    MaxNow = 2
    MaxBookings = 2
INVARIANTS
    CallsNeverOverlap
CHECK_DEADLOCK FALSE
