SPECIFICATION FairSpec
CONSTANTS
    Choices = {c1, c2}
    NoChoice = NoChoice
    HoldMinutes = 1
    Skews <- MCSkews
    MaxPolls = 2
    MaxLoads = 1
    MaxNow = 2
INVARIANTS
    ChoiceIsKept
    ShownIsTrue
PROPERTIES
    TicketVerdictStands
    PageComesRight
CHECK_DEADLOCK FALSE
