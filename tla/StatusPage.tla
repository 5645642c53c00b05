----------------------------- MODULE StatusPage -----------------------------
(***************************************************************************)
(* The payment page of one order in one browser tab.  routers/pages.py     *)
(* renders it; the scripts of book_status.html and ticket.html keep it     *)
(* current by polling and by a countdown.  Answers to polls overtake each  *)
(* other, the tab is hidden and shown, the browser's clock is its own.     *)
(***************************************************************************)
EXTENDS Integers, FiniteSets

CONSTANTS
    HoldMinutes,    \* settings.hold_minutes, in ticks of the clock
    Skews,          \* how far the browser's clock may be ahead
    MaxPolls        \* bound on the polls in flight

ASSUME StatusPageAssumption ==
    /\ HoldMinutes \in Nat \ {0}
    /\ Skews \subseteq Int
    /\ MaxPolls \in Nat \ {0}

VARIABLES
    now, status, expiresAt, paid,   \* the order, see OrderLife
    past,       \* the verdicts its row has given
    kind,       \* "booking" or "ticket"
    skew,       \* of this browser's clock
    loading,    \* the page on its way: not asked for, asked for, or rendered as
    doc,        \* the page in the tab and its script
    hidden,     \* document.hidden
    polls       \* polls in flight: unread, or with the status that was read

order    == <<now, status, expiresAt, paid, past>>
pageVars == <<loading, doc, hidden, polls>>

Verdicts == {"pending", "paid", "dead"}

\* What the stored status comes to for the polls and for the site's confirmed
\* page: an expired and a cancelled row are the same to them.
Verdict == CASE status = "paid" -> "paid"
             [] status \in {"expired", "cancelled"} -> "dead"
             [] OTHER -> "pending"

\* No page, or the browser's own error page.
Blank == [shown |-> "none", link |-> FALSE, scripted |-> FALSE, timers |-> FALSE]

NoPolls == [a \in {"unread"} \cup Verdicts |-> 0]

PageTypeOK ==
    /\ now \in Nat /\ expiresAt \in Nat /\ paid \in BOOLEAN
    /\ status \in {"none", "pending_payment", "paid", "expired", "cancelled"}
    /\ past \subseteq Verdicts
    /\ kind \in {"booking", "ticket"} /\ skew \in Skews
    /\ loading \in {"no", "asked"} \cup Verdicts
    /\ doc \in [shown : {"none"} \cup Verdicts, link : BOOLEAN,
                scripted : BOOLEAN, timers : BOOLEAN]
    /\ hidden \in BOOLEAN
    /\ polls \in [{"unread"} \cup Verdicts -> 0 .. MaxPolls]

Life == INSTANCE OrderLife

PageInit ==
    /\ Life!Init /\ past = {}
    /\ kind \in {"booking", "ticket"} /\ skew \in Skews
    /\ loading = "no" /\ doc = Blank /\ hidden = FALSE /\ polls = NoPolls

----------------------------------------------------------------------------
(***************************************************************************)
(* The server: booking_status_page and ticket_page.                        *)
(***************************************************************************)

\* Faulty variant: whatever is not pending has been paid for.
PageStateNotPending ==
    IF status # "pending_payment" THEN "paid"
    ELSE IF expiresAt <= now THEN "dead" ELSE "pending"

\* The stored status, with is_expired as the authority on a stale hold.
PageState ==
    IF Verdict = "pending" /\ expiresAt <= now THEN "dead" ELSE Verdict

Render ==
    /\ loading = "asked"
    /\ loading' = PageState
    /\ UNCHANGED <<order, kind, skew, doc, hidden, polls>>

\* The page as it leaves the server: the link of the conference is for a paid
\* ticket, the script does nothing unless the page is pending.
Rendered == [shown |-> loading, link |-> kind = "ticket" /\ loading = "paid",
             scripted |-> loading = "pending", timers |-> FALSE]

----------------------------------------------------------------------------
(***************************************************************************)
(* The script.                                                             *)
(***************************************************************************)

\* new Date(expiresAt).getTime() <= Date.now(), by the browser's clock.
PastDeadline == expiresAt <= now + skew

\* Faulty variant: the timers are stopped although nothing has changed.
ApplyStateAlways(d, s) ==
    [d EXCEPT !.shown = s, !.timers = FALSE]

\* applyState: a new verdict stops both timers.
ApplyState(d, s) ==
    IF d.shown = s THEN d
    ELSE [d EXCEPT !.shown = s, !.timers = FALSE]

\* The rendered page replaces the one in the tab and drops its polls.  The
\* script of a pending page looks at the clock first and starts the timers
\* whatever that shows.
Start ==
    /\ loading \in Verdicts
    /\ doc' = IF loading # "pending" THEN Rendered
              ELSE [(IF PastDeadline THEN ApplyState(Rendered, "dead") ELSE Rendered)
                    EXCEPT !.timers = TRUE]
    /\ loading' = "no" /\ polls' = NoPolls
    /\ UNCHANGED <<order, kind, skew, hidden>>

\* The page cannot be fetched.
LoadFails ==
    /\ loading # "no"
    /\ loading' = "no" /\ doc' = Blank /\ polls' = NoPolls
    /\ UNCHANGED <<order, kind, skew, hidden>>

InFlight == polls["unread"] + polls["pending"] + polls["paid"] + polls["dead"]

Polled == [polls EXCEPT !["unread"] = @ + 1]

\* The interval timer, or the button on the pending panel.
Poll ==
    /\ doc.timers \/ (doc.shown = "pending" /\ ~hidden)
    /\ InFlight < MaxPolls
    /\ polls' = Polled
    /\ UNCHANGED <<order, kind, skew, loading, doc, hidden>>

\* GET /api/bookings/{reference} or /api/seats/{reference} reads the row.
PollRead ==
    /\ polls["unread"] > 0
    /\ polls' = [polls EXCEPT !["unread"] = @ - 1, ![Verdict] = @ + 1]
    /\ UNCHANGED <<order, kind, skew, loading, doc, hidden>>

PollLost(a) ==
    /\ polls[a] > 0
    /\ polls' = [polls EXCEPT ![a] = @ - 1]
    /\ UNCHANGED <<order, kind, skew, loading, doc, hidden>>

\* Faulty variant: the ticket page patches itself like the booking page.
ShowPaidInPlace ==
    doc' = ApplyState(doc, "paid") /\ UNCHANGED loading

\* A paid booking is shown in place; a ticket is loaded again, with its link.
ShowPaid ==
    \/ kind = "booking" /\ doc' = ApplyState(doc, "paid") /\ UNCHANGED loading
    \/ kind = "ticket" /\ loading' = "asked" /\ UNCHANGED doc

\* Any answer, however old, is applied as it comes in.
PollArrive(a) ==
    /\ polls[a] > 0
    /\ polls' = [polls EXCEPT ![a] = @ - 1]
    /\ \/ a = "paid" /\ ShowPaid
       \/ /\ a = "dead" \/ (a = "pending" /\ PastDeadline)
          /\ doc' = ApplyState(doc, "dead") /\ UNCHANGED loading
       \/ a = "pending" /\ ~PastDeadline /\ UNCHANGED <<doc, loading>>
    /\ UNCHANGED <<order, kind, skew, hidden>>

\* tick, once the time has run out; before, it only writes the digits.
Countdown ==
    /\ doc.timers /\ PastDeadline
    /\ doc' = ApplyState(doc, "dead")
    /\ UNCHANGED <<order, kind, skew, loading, hidden, polls>>

\* visibilitychange.
Hide ==
    /\ ~hidden /\ doc.shown # "none"
    /\ hidden' = TRUE
    /\ doc' = [doc EXCEPT !.timers = FALSE]
    /\ UNCHANGED <<order, kind, skew, loading, polls>>

Reveal ==
    /\ hidden
    /\ hidden' = FALSE
    /\ IF doc.scripted
       THEN /\ doc' = [doc EXCEPT !.timers = TRUE]
            /\ polls' = IF InFlight < MaxPolls THEN Polled ELSE polls
       ELSE UNCHANGED <<doc, polls>>
    /\ UNCHANGED <<order, kind, skew, loading>>

\* The customer loads the page again.
Reload ==
    /\ loading = "no"
    /\ loading' = "asked"
    /\ UNCHANGED <<order, kind, skew, doc, hidden, polls>>

PageStep ==
    \/ Render \/ Start \/ LoadFails \/ Poll \/ PollRead
    \/ \E a \in Verdicts : PollArrive(a) \/ PollLost(a)
    \/ PollLost("unread")
    \/ Countdown \/ Hide \/ Reveal

=============================================================================
