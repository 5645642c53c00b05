----------------------------- MODULE OrderLife -----------------------------
(***************************************************************************)
(* The life of one order, a booking or a seat, as the readers of its row   *)
(* see it: GET /api/bookings/{reference}, GET /api/seats/{reference} and   *)
(* the payment pages.  Booking and Conference implement it for each of     *)
(* their orders; StatusPage and BookingFlow rely on it.                    *)
(***************************************************************************)
EXTENDS Integers

CONSTANTS HoldMinutes

VARIABLES
    now,
    status,     \* of the committed row, "none" while there is none
    expiresAt,  \* its deadline
    paid        \* WeChat has the customer's money

lvars == <<now, status, expiresAt, paid>>

Init == now = 0 /\ status = "none" /\ expiresAt = 0 /\ paid = FALSE

\* The row appears pending, with a deadline at most a hold away.
Create ==
    /\ status = "none"
    /\ status' = "pending_payment"
    /\ expiresAt' \in 1 .. now + HoldMinutes
    /\ UNCHANGED <<now, paid>>

\* Money comes in before the deadline only.
Pay ==
    /\ status # "none" /\ ~paid /\ now < expiresAt
    /\ paid' = TRUE
    /\ UNCHANGED <<now, status, expiresAt>>

\* It may be recorded at any later time, on a dead row as well.
Settle ==
    /\ status # "none" /\ paid
    /\ status' = "paid"
    /\ UNCHANGED <<now, expiresAt, paid>>

\* Only a pending row past its deadline lapses.
Lapse ==
    /\ status = "pending_payment" /\ expiresAt <= now
    /\ status' = "expired"
    /\ UNCHANGED <<now, expiresAt, paid>>

\* A cancellation acts on what it read before, so it may hit any row.
Cancel ==
    /\ status # "none"
    /\ status' = "cancelled"
    /\ UNCHANGED <<now, expiresAt, paid>>

Tick ==
    /\ now' = now + 1
    /\ UNCHANGED <<status, expiresAt, paid>>

Next == Create \/ Pay \/ Settle \/ Lapse \/ Cancel \/ Tick

Spec == Init /\ [][Next]_lvars

=============================================================================
