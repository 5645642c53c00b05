---------------------------- MODULE BookingFlow ----------------------------
(***************************************************************************)
(* The page on which a customer chooses and submits, in one browser tab:   *)
(* booking.html of the booking service ("page"), booking-flow.tsx of the   *)
(* site with its proxy ("site"), and the form of conference.html           *)
(* ("conference"), which has nothing to choose.  A choice is an event type *)
(* and a date; a slot is known by the choice whose list it was in.         *)
(***************************************************************************)
EXTENDS Integers, FiniteSets

CONSTANTS
    Choices, NoChoice,
    MaxLoads    \* bound on the slot lists being loaded

ASSUME BookingFlowAssumption == NoChoice \notin Choices /\ MaxLoads \in Nat \ {0}

VARIABLES
    front,      \* "page", "site" or "conference", "none" once it is gone
    choice,     \* what the form shows as chosen; NoChoice without a date
    list,       \* the choice whose slots are on the screen
    selected,   \* the choice whose slot is selected
    loads,      \* lists being loaded
    post,       \* the submitted form: what the form showed and sent
    overlapped, \* the form has been changed, or its list loaded again, with a
                \* list still on its way
    strayed     \* the choice was changed while a form was being submitted

flowVars == <<choice, list, selected, loads, post, overlapped, strayed>>

Fronts == {"page", "site", "conference"}
NoPost == [pc |-> "idle", at |-> NoChoice, slot |-> NoChoice]

FlowTypeOK ==
    /\ front \in Fronts \cup {"none"}
    /\ choice \in Choices \cup {NoChoice}
    /\ list \in Choices \cup {NoChoice} /\ selected \in Choices \cup {NoChoice}
    /\ loads \in [Choices -> 0 .. MaxLoads]
    /\ post \in [pc : {"idle", "sent", "created", "taken", "invalid", "failed",
                       "reloading"},
                 at : Choices \cup {NoChoice}, slot : Choices \cup {NoChoice}]
    /\ overlapped \in BOOLEAN /\ strayed \in BOOLEAN

NoLoads == [c \in Choices |-> 0]

\* The page starts by loading the list of its first choice.
FlowInit ==
    /\ front \in Fronts
    /\ choice \in Choices
    /\ list = NoChoice /\ selected = NoChoice
    /\ loads = IF front = "conference" THEN NoLoads
               ELSE [NoLoads EXCEPT ![choice] = 1]
    /\ post = NoPost /\ overlapped = FALSE /\ strayed = FALSE

----------------------------------------------------------------------------

LoadsUnderWay == {c \in Choices : loads[c] > 0}

\* loadSlots: the old list and selection go at once.  Without a date the page
\* returns here, and a list that is on its way stays on its way.
LoadSlots(c) ==
    /\ list' = NoChoice /\ selected' = NoChoice
    /\ overlapped' = (overlapped \/ LoadsUnderWay # {})
    /\ \/ c = NoChoice /\ UNCHANGED loads
       \/ /\ c # NoChoice /\ loads[c] < MaxLoads
          /\ loads' = [loads EXCEPT ![c] = @ + 1]

\* Another event type or date.  Neither page locks them during a submission.
\* The page's date can be cleared, until another date or type is chosen; the
\* site's dates are buttons.
Choose(c) ==
    /\ front = "page" \/ (front = "site" /\ c # NoChoice)
    /\ c # choice
    /\ choice' = c
    /\ LoadSlots(c)
    /\ strayed' = (strayed \/ post.pc # "idle")
    /\ UNCHANGED <<front, post>>

\* What list_slots comes to on the screen: slots of c, or none, or an error.
Listed(c) == {c, NoChoice}

\* A list comes in and is shown, whatever is chosen by now.  The site's
\* submission is over when the list it awaits is here.
LoadArrives(c) ==
    /\ loads[c] > 0
    /\ loads' = [loads EXCEPT ![c] = @ - 1]
    /\ list' \in Listed(c)
    /\ \/ post' = NoPost /\ post.pc = "reloading" /\ post.at = c
       \/ /\ ~(post.pc = "reloading" /\ post.at = c) \/ loads[c] > 1
          /\ UNCHANGED post
    /\ UNCHANGED <<front, choice, selected, overlapped, strayed>>

Select ==
    /\ list # NoChoice /\ selected # list
    /\ selected' = list
    /\ UNCHANGED <<front, choice, list, loads, post, overlapped, strayed>>

\* The button is disabled until the answer has been dealt with.
Submit ==
    /\ post.pc = "idle"
    /\ front = "conference" \/ selected # NoChoice
    /\ post' = [pc |-> "sent", at |-> choice, slot |-> selected]
    /\ UNCHANGED <<front, choice, list, selected, loads, overlapped, strayed>>

\* 409, 422, and any other error, a throttled request and a lost answer among
\* them.
Refusals == {"taken", "invalid", "failed"}

\* One of them comes back, or 201 ("created").
PostAnswered(pc) ==
    /\ post.pc = "sent"
    /\ post' = [post EXCEPT !.pc = pc]
    /\ UNCHANGED <<front, choice, list, selected, loads, overlapped, strayed>>

\* Faulty variant: the page loads what was chosen when the form was sent.
PageReloadsAsSent == LoadSlots(post.at) /\ post' = NoPost

\* 409 and 422 on the page: what is chosen now is loaded again.
PageReloads == LoadSlots(choice) /\ post' = NoPost

\* 409 on the site: the loadSlots of the render in which the form was sent.
SiteReloads == LoadSlots(post.at) /\ post' = [post EXCEPT !.pc = "reloading"]

\* The form deals with an answer other than 201.
Refused ==
    /\ \/ front = "page" /\ post.pc \in {"taken", "invalid"} /\ PageReloads
       \/ front = "site" /\ post.pc = "taken" /\ SiteReloads
       \/ /\ \/ post.pc = "failed"
             \/ front = "site" /\ post.pc = "invalid"
             \/ front = "conference" /\ post.pc \in {"taken", "invalid"}
          /\ post' = NoPost
          /\ UNCHANGED <<list, selected, loads, overlapped>>
    /\ UNCHANGED <<front, choice, strayed>>

\* 201: the button is enabled again while the tab leaves the page.
Accepted ==
    /\ post.pc = "created"
    /\ post' = NoPost
    /\ UNCHANGED <<front, choice, list, selected, loads, overlapped, strayed>>

FlowStep ==
    \/ \E c \in Choices \cup {NoChoice} : Choose(c)
    \/ \E c \in Choices : LoadArrives(c)
    \/ Select \/ Submit \/ Refused
    \/ \E pc \in Refusals : PostAnswered(pc)

\* The tab has left the page.
FlowGone ==
    /\ front' = "none" /\ choice' = NoChoice
    /\ list' = NoChoice /\ selected' = NoChoice /\ loads' = NoLoads
    /\ post' = NoPost /\ overlapped' = FALSE /\ strayed' = FALSE

=============================================================================
