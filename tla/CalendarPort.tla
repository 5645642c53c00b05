---------------------------- MODULE CalendarPort ----------------------------
(***************************************************************************)
(* What app/ports/calendar.py promises of a gateway, whatever lies behind  *)
(* it: an event is created, confirmed and deleted, in this order and at    *)
(* most once each; a call that returns has taken effect; one that raises   *)
(* may have.  Booking relies on this.                                      *)
(***************************************************************************)
CONSTANT Refs \* one for every event the application asks for

VARIABLES event, told

Init ==
    /\ event = [r \in Refs |-> "none"]
    /\ told = [r \in Refs |-> {}]

Create(r) ==
    /\ event[r] = "none"
    /\ event' = [event EXCEPT ![r] = "hold"]
    /\ UNCHANGED told

Confirm(r) ==
    /\ event[r] = "hold"
    /\ event' = [event EXCEPT ![r] = "confirmed"]
    /\ UNCHANGED told

Delete(r) ==
    /\ event[r] \in {"hold", "confirmed"}
    /\ event' = [event EXCEPT ![r] = "gone"]
    /\ UNCHANGED told

\* The states in which a call may be said to have taken effect.  A relay says
\* so of the confirmation of an event that is gone.
Effective ==
    [create  |-> {"hold", "confirmed", "gone"},
     confirm |-> {"confirmed", "gone"},
     release |-> {"gone"}]

\* A call returns.
Return(r, op) ==
    /\ event[r] \in Effective[op]
    /\ told' = [told EXCEPT ![r] = @ \cup {op}]
    /\ UNCHANGED event

Next ==
    \E r \in Refs :
        \/ Create(r) \/ Confirm(r) \/ Delete(r)
        \/ \E op \in {"create", "confirm", "release"} : Return(r, op)

Spec == Init /\ [][Next]_<<event, told>>

=============================================================================
