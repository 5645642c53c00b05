------------------------------ MODULE SlotSale ------------------------------
(***************************************************************************)
(* What the booking system promises about one slot and one payment,        *)
(* without database, calendar, time or handlers.  A slot has at most one   *)
(* owner.  A payment gets one verdict, for good; "paid" is given in the    *)
(* same step in which its booking owns the slot, and only when the slot    *)
(* was free or already its own.  A hold never displaces a paid owner.      *)
(***************************************************************************)
CONSTANTS Refs, Slots, SlotOf, Nobody

VARIABLES owner, verdict

svars == <<owner, verdict>>

Init ==
    /\ owner = [s \in Slots |-> Nobody]
    /\ verdict = [r \in Refs |-> "none"]

\* A new booking takes a free slot, or one whose holder has not paid.
Hold(r) ==
    /\ verdict[r] = "none"
    /\ \/ owner[SlotOf[r]] = Nobody
       \/ owner[SlotOf[r]] \in Refs \ {r} /\ verdict[owner[SlotOf[r]]] # "paid"
    /\ owner' = [owner EXCEPT ![SlotOf[r]] = r]
    /\ UNCHANGED verdict

\* The owner cancels.
Drop(r) ==
    /\ owner[SlotOf[r]] = r
    /\ owner' = [owner EXCEPT ![SlotOf[r]] = Nobody]
    /\ UNCHANGED verdict

\* A payment is honoured.
Settle(r) ==
    /\ verdict[r] = "none"
    /\ owner[SlotOf[r]] \in {Nobody, r}
    /\ owner' = [owner EXCEPT ![SlotOf[r]] = r]
    /\ verdict' = [verdict EXCEPT ![r] = "paid"]

\* A payment is turned down and recorded, and the slot is left alone.
Refuse(r) ==
    /\ verdict[r] = "none"
    /\ verdict' = [verdict EXCEPT ![r] = "refused"]
    /\ UNCHANGED owner

Next == \E r \in Refs : Hold(r) \/ Drop(r) \/ Settle(r) \/ Refuse(r)

Spec == Init /\ [][Next]_svars

=============================================================================
