------------------------------ MODULE SeatSale ------------------------------
(***************************************************************************)
(* What the conference promises its attendees, without database, time,     *)
(* handlers or retries.  A seat number has one live holder at most.  A     *)
(* payment gets one verdict, for good, and "paid" is given in the step in  *)
(* which the payer is live on the number he was given and nobody else is.  *)
(* A new hold displaces only holds that nobody has paid for, and only the  *)
(* payment of someone who is not live is turned down.  A refund is         *)
(* announced only to those who have paid and lose the seat in that step.   *)
(***************************************************************************)
EXTENDS Integers

CONSTANTS Refs, FirstCapacity

VARIABLES
    live,       \* who holds a seat
    seat,       \* the number each was given, 0 for none
    verdict,    \* on each payment
    tickets, refunds,
    offered     \* how many numbers there are

svars == <<live, seat, verdict, tickets, refunds, offered>>

Init ==
    /\ live = {} /\ refunds = {}
    /\ seat = [r \in Refs |-> 0]
    /\ verdict = [r \in Refs |-> "none"]
    /\ tickets = [r \in Refs |-> 0]
    /\ offered = FirstCapacity

\* r is the only one with number n, once `gone` have left.
Alone(r, n, gone) == \A q \in live \ (gone \cup {r}) : seat[q] # n

\* A newcomer takes number n, and those who have not paid may have to leave.
Hold(r) ==
    /\ seat[r] = 0 /\ verdict[r] = "none"
    /\ \E gone \in SUBSET {q \in live : verdict[q] # "paid"}, n \in 1 .. offered :
          /\ Alone(r, n, gone)
          /\ live' = (live \ gone) \cup {r}
          /\ seat' = [seat EXCEPT ![r] = n]
    /\ UNCHANGED <<verdict, tickets, refunds, offered>>

\* A holder leaves.
Drop(r) ==
    /\ live' = live \ {r}
    /\ UNCHANGED <<seat, verdict, tickets, refunds, offered>>

\* A payment is honoured, even of someone who had to leave.
Settle(r) ==
    /\ seat[r] # 0 /\ verdict[r] = "none"
    /\ Alone(r, seat[r], {})
    /\ live' = live \cup {r}
    /\ verdict' = [verdict EXCEPT ![r] = "paid"]
    /\ UNCHANGED <<seat, tickets, refunds, offered>>

\* A payment is turned down and recorded, but never a holder's.
Refuse(r) ==
    /\ verdict[r] = "none" /\ r \notin live
    /\ verdict' = [verdict EXCEPT ![r] = "refused"]
    /\ UNCHANGED <<live, seat, tickets, refunds, offered>>

Mail(r) ==
    /\ verdict[r] = "paid" /\ tickets[r] = 0
    /\ tickets' = [tickets EXCEPT ![r] = 1]
    /\ UNCHANGED <<live, seat, verdict, refunds, offered>>

\* The conference is cancelled on some, and those who paid are named.
Close ==
    /\ \E gone \in SUBSET Refs : \E owed \in SUBSET gone :
          /\ \A r \in owed : verdict[r] = "paid"
          /\ live' = live \ gone
          /\ refunds' = refunds \cup owed
    /\ UNCHANGED <<seat, verdict, tickets, offered>>

\* There are more seats than ever before.
Enlarge ==
    /\ offered' \in Nat /\ offered' > offered
    /\ UNCHANGED <<live, seat, verdict, tickets, refunds>>

Next ==
    \/ \E r \in Refs : Hold(r) \/ Drop(r) \/ Settle(r) \/ Refuse(r) \/ Mail(r)
    \/ Close \/ Enlarge

Spec == Init /\ [][Next]_svars

=============================================================================
