------------------------------- MODULE MCGrid -------------------------------
(* Values of Grid's constants for TLC: days of 12 ticks. *)
EXTENDS Grid, TLC

CONSTANTS talk, chat

MCDuration == (talk :> 2 @@ chat :> 1)
MCBefore   == (talk :> 1 @@ chat :> 0)
MCAfter    == (talk :> 1 @@ chat :> 0)
MCNotice   == (talk :> 1 @@ chat :> 0)
MCAhead    == (talk :> 1 @@ chat :> 1)

\* Two rules of one day that are not aligned, and one at the start of a day.
MCRules ==
    talk :> {[weekday |-> 0, start |-> 2, end |-> 9],
             [weekday |-> 0, start |-> 3, end |-> 8],
             [weekday |-> 1, start |-> 0, end |-> 4]}
    @@ chat :> {[weekday |-> 0, start |-> 4, end |-> 7]}

\* No change of the clocks, one hour forward, one hour back.
MCZones == {[at |-> 4, shift |-> 0], [at |-> 4, shift |-> 1],
            [at |-> 4, shift |-> -1]}

MCMeetings    == {<<11, 12>>, <<4, 5>>}
MCConferences == {<<6, 7>>}

============================================================================
