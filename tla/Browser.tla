------------------------------ MODULE Browser ------------------------------
(***************************************************************************)
(* One browser tab from the choice to the payment: BookingFlow until the   *)
(* tab has left for the payment page, StatusPage from then on, and the     *)
(* order they share.                                                       *)
(***************************************************************************)
EXTENDS BookingFlow, StatusPage

CONSTANTS MaxNow    \* bound on the clock

vars == <<front, flowVars, order, kind, skew, pageVars>>

TypeOK == FlowTypeOK /\ PageTypeOK

Init ==
    /\ FlowInit /\ PageInit
    /\ kind = IF front = "conference" THEN "ticket" ELSE "booking"

----------------------------------------------------------------------------

\* The order whose page is loaded.  Another one of this customer, the answer to
\* which was lost or whose page is not loaded, is not followed.
CreateOrder ==
    /\ PostAnswered("created")
    /\ Life!Create /\ UNCHANGED past
    /\ UNCHANGED <<kind, skew, pageVars>>

\* window.location.assign with the reference of the answer.
LeaveFlow ==
    /\ Accepted
    /\ loading' = "asked"
    /\ UNCHANGED <<order, kind, skew, doc, hidden, polls>>

\* The payment page, or an error page, takes the place of the flow.
Arrive ==
    /\ front # "none" /\ (Start \/ LoadFails)
    /\ FlowGone

\* What is done on a page that is being left is not followed either.
Flow == loading = "no" /\ FlowStep /\ UNCHANGED <<order, kind, skew, pageVars>>

\* Until the payment page starts only the server has a part in it.
Page ==
    /\ \/ Render
       \/ front = "none" /\ (PageStep \/ Reload)
    /\ UNCHANGED <<front, flowVars>>

Order ==
    /\ \/ Life!Pay \/ Life!Settle \/ Life!Lapse \/ Life!Cancel
       \/ now < MaxNow /\ Life!Tick
    /\ past' = past \cup ({Verdict'} \ {"pending"})
    /\ UNCHANGED <<front, flowVars, kind, skew, pageVars>>

Next == CreateOrder \/ LeaveFlow \/ Arrive \/ Flow \/ Page \/ Order

Spec == Init /\ [][Next]_vars

Alone(action) == front = "none" /\ action /\ UNCHANGED <<front, flowVars>>

\* Timers fire; pages are rendered, and started although the old page may ask
\* for them again; the network does not lose every poll.
Fairness ==
    /\ WF_vars(Alone(Render)) /\ SF_vars(Alone(Start))
    /\ WF_vars(Alone(Countdown)) /\ WF_vars(Alone(Poll))
    /\ SF_vars(Alone(PollRead))
    /\ \A a \in Verdicts : SF_vars(Alone(PollArrive(a)))

FairSpec == Spec /\ Fairness

----------------------------------------------------------------------------
(***************************************************************************)
(* Properties                                                              *)
(***************************************************************************)

\* What the customer sees and sends belongs to what the form shows as chosen:
\* the slots on the screen and the one selected are of the chosen type and
\* date, none without a date, and a form is sent with a slot of the choice it
\* is sent with.  So it is on the page of the service as long as the form is
\* left alone while a list is on its way (renderSlots does not ask what its
\* list was for), and on the site as long as, besides, nothing is chosen
\* during a submission (its reload after a 409 is that of the old choice).
ChoiceIsKept ==
    ~overlapped /\ ~(front = "site" /\ strayed) =>
        /\ {list, selected} \subseteq {NoChoice, choice}
        /\ post.pc # "idle" /\ front # "conference" => post.slot = post.at

\* The payment page claims nothing that never was: it says "paid", or gives
\* the link of a conference, only when the row has been paid at some time,
\* whatever answers came late, and gives an order up only when the row was
\* final or the deadline was past, by the clock of the server or the browser.
ShownIsTrue ==
    /\ doc.shown = "paid" \/ doc.link => "paid" \in past
    /\ doc.shown = "dead" => "dead" \in past \/ PastDeadline \/ expiresAt <= now

\* A ticket that is shown as paid is not taken back by an old answer, by the
\* countdown or by the tab being shown again: only a page load changes it.
\* (A booking's page has no such promise: see the README.)
TicketVerdictStands ==
    [][kind = "ticket" /\ doc.shown = "paid" /\ doc'.shown # "paid"
            => loading # "no"]_vars

\* A payment reaches the screen: a pending page, and a page the deadline has
\* closed as it started but whose timers run, change once the row is paid,
\* unless the tab is hidden, the page is replaced or the row changes again.
PageComesRight ==
    /\ doc.shown = "pending" /\ ~hidden /\ status = "paid"
            ~> doc.shown # "pending" \/ hidden \/ status # "paid"
    /\ doc.shown = "dead" /\ doc.timers /\ status = "paid"
            ~> doc.shown # "dead" \/ ~doc.scripted \/ hidden \/ status # "paid"

=============================================================================
