-------------------------------- MODULE Grid --------------------------------
(***************************************************************************)
(* The slot grid of app/services/availability.py and the checks            *)
(* create_booking makes before it inserts, with intervals of time.         *)
(* Booking treats the interleavings of these checks; here a request is one *)
(* step and the arithmetic is kept.  Instants are ticks of UTC.            *)
(***************************************************************************)
EXTENDS Integers, FiniteSets, Folds

CONSTANTS
    Types,        \* event types
    Duration,     \* of each: duration_minutes,
    Before,       \*   buffer_before_minutes,
    After,        \*   buffer_after_minutes,
    Notice,       \*   min_notice_minutes,
    Ahead,        \*   max_days_ahead,
    Rules,        \*   availability_rules: weekday, start and end of day time
    SlotStep,     \* settings.slot_step_minutes
    HoldMinutes,  \* settings.hold_minutes
    Day,          \* 24 hours
    Zones,        \* time zones: one change of the clocks, by shift, at an instant
    Meetings,     \* intervals the owner may put into the calendar
    Conferences,  \* intervals of conferences that may be scheduled
    Starts,       \* instants customers may ask for
    Dates,        \* local dates customers look at
    MaxNow,       \* bound on the clock
    MaxBookings   \* bound on the bookings made

VARIABLES
    zone,         \* of the event types
    now,
    bookings,     \* rows; those that agree in everything are one
    meetings,     \* what the owner has in the calendar, bookings aside
    conferences   \* rows that are not cancelled

vars == <<zone, now, bookings, meetings, conferences>>

Intervals == {i \in Int \X Int : i[1] < i[2]}

ASSUME GridAssumption ==
    /\ Duration \in [Types -> Nat \ {0}]
    /\ Before \in [Types -> Nat] /\ After \in [Types -> Nat]
    /\ Notice \in [Types -> Nat] /\ Ahead \in [Types -> Nat]
    /\ Day \in Nat \ {0}
    /\ \A e \in Types : \A r \in Rules[e] :
           r \in [weekday : 0 .. 6, start : 0 .. Day - 1, end : 0 .. Day - 1]
    /\ SlotStep \in Nat /\ HoldMinutes \in Nat \ {0}
    /\ \A z \in Zones : z \in [at : Int, shift : Int]
    /\ Meetings \cup Conferences \subseteq Intervals
    /\ \A c \in Conferences : c[2] - c[1] <= Day
    /\ Starts \subseteq Int /\ Dates \subseteq Int
    /\ MaxNow \in Nat /\ MaxBookings \in Nat

Larger(a, b) == IF a >= b THEN a ELSE b

Slot(e, t) == <<t, t + Duration[e]>>

Overlap(i, j) == i[1] < j[2] /\ i[2] > j[1]

----------------------------------------------------------------------------
\* Local time.  The local date of a wall clock l is l \div Day.

\* astimezone(tz) and astimezone(UTC) with fold = 0: a local time the clocks
\* skip, or show twice, is read with the offset before the change.
Local(t) == IF t < zone.at THEN t ELSE t + zone.shift
Utc(l) == IF l < zone.at + Larger(zone.shift, 0) THEN l ELSE l - zone.shift

DayBounds(date) == <<Utc(date * Day), Utc((date + 1) * Day)>>
Weekday(date) == date % 7

----------------------------------------------------------------------------
\* What is booked.

Interval(b) == <<b.start, b.end>>

Live(b) ==
    \/ b.status = "paid"
    \/ b.status = "pending_payment" /\ b.expires > now

LiveOf(e) == {b \in bookings : b.type = e /\ Live(b)}

FreeBusy(window) ==
    {i \in meetings \cup {Interval(b) : b \in {q \in bookings : q.event}} :
        Overlap(i, window)}

OwnedIntervals(e, window) ==
    {Interval(b) : b \in {q \in bookings :
        /\ q.marker /\ Overlap(Interval(q), window)
        /\ ~Live(q) \/ q.type = e}}

\* The rows are looked up from a day before the window on.
ConferenceIntervals(window) ==
    {c \in conferences : c[1] >= window[1] - Day /\ Overlap(c, window)}

----------------------------------------------------------------------------
\* The grid.

EffectiveStep(e) == Larger(SlotStep, Duration[e])

\* Candidate starts of a rule on a date, as local wall clocks.
RuleGrid(e, rule, date) ==
    LET first == date * Day + rule.start
        last  == date * Day + rule.end - Duration[e]
    IN  {l \in first .. last : (l - first) % EffectiveStep(e) = 0}

IsSlotOnGrid(e, t) ==
    /\ t >= now + Notice[e]
    /\ t <= now + Ahead[e] * Day
    /\ \E rule \in Rules[e] :
         LET local == Local(t)
             first == (local \div Day) * Day + rule.start
             end   == (local \div Day) * Day + rule.end
         IN  /\ rule.weekday = Weekday(local \div Day)
             /\ first <= local /\ local + Duration[e] <= end
             /\ (local - first) % EffectiveStep(e) = 0

\* Faulty variant: the window is not padded.
PadNothing(e) == 0

\* The window generate_slots looks at reaches beyond the day by this much.
Pad(e) == Before[e] + After[e] + Duration[e] + EffectiveStep(e)

\* Faulty variant: the grid forgets conferences, as it once did.
BlockedByCalendarOnly(e, window) ==
    {<<i[1] - Before[e], i[2] + After[e]>> :
        i \in FreeBusy(window) \ OwnedIntervals(e, window)}

\* Calendar time with its buffers, and conferences without.
Blocked(e, window) ==
    {<<i[1] - Before[e], i[2] + After[e]>> :
        i \in FreeBusy(window) \ OwnedIntervals(e, window)}
    \cup ConferenceIntervals(window)

Candidates(e, date) ==
    LET day    == DayBounds(date)
        window == <<day[1] - Pad(e), day[2] + Pad(e)>>
        taken  == {i \in {Interval(b) : b \in LiveOf(e)} : Overlap(i, day)}
        locals == UNION {RuleGrid(e, rule, date) :
                           rule \in {r \in Rules[e] : r.weekday = Weekday(date)}}
    IN  {t \in {Utc(l) : l \in locals} :
            /\ IsSlotOnGrid(e, t)
            /\ \A i \in Blocked(e, window) \cup taken :
                 ~Overlap(Slot(e, t), i)}

\* Faulty variant: overlapping candidates of two rules are all offered.
ThinnedNot(e, starts) == starts

\* Faulty variant: a candidate is compared with the last candidate instead of
\* the last one kept.
ThinnedByNeighbour(e, starts) ==
    {t \in starts : \A u \in starts : u < t => u + Duration[e] <= t}

\* In ascending order, a start that overlaps the last one kept is dropped.
Thinned(e, starts) ==
    LET Latest(S) == CHOOSE t \in S : \A u \in S : u <= t
        Keep(t, kept) == IF kept # {} /\ t < Latest(kept) + Duration[e]
                         THEN kept ELSE kept \cup {t}
    IN  MapThenFoldSet(Keep, {}, LAMBDA t : t, Latest, starts)

GenerateSlots(e, date) == Thinned(e, Candidates(e, date))

----------------------------------------------------------------------------
\* The write path.

\* Steps 2, 3a, 3b and 3c of create_booking.
Clash(e, slot) == \E b \in LiveOf(e) : Overlap(Interval(b), slot)

Accepts(e, t) ==
    LET slot == Slot(e, t)
    IN  /\ IsSlotOnGrid(e, t)
        /\ ~Clash(e, slot)
        /\ FreeBusy(slot) \subseteq OwnedIntervals(e, slot)
        /\ ConferenceIntervals(slot) = {}

Expired(b) == b.status = "pending_payment" /\ b.expires <= now

\* expire_stale_holds for one slot.
Swept(e, t) ==
    {IF b.type = e /\ b.start = t /\ Expired(b)
     THEN [b EXCEPT !.status = "expired"] ELSE b : b \in bookings}

CreateBooking(e, t) ==
    /\ Cardinality(bookings) < MaxBookings
    /\ Accepts(e, t)
    /\ bookings' = Swept(e, t) \cup
           {[type |-> e, start |-> t, end |-> t + Duration[e],
             status |-> "pending_payment", expires |-> now + HoldMinutes,
             marker |-> TRUE, event |-> TRUE]}
    /\ UNCHANGED <<zone, now, meetings, conferences>>

Replace(b, c) == bookings' = (bookings \ {b}) \cup {c}

\* _slot_is_held_by_someone_else
HeldBySomeoneElse(b) == \E q \in LiveOf(b.type) \ {b} : q.start = b.start

\* uq_active_slot for a row that becomes live again: it counts holds that have
\* run out as well.
IndexAllows(b) ==
    \A q \in bookings \ {b} :
        q.type = b.type /\ q.start = b.start => q.status \in {"expired", "cancelled"}

\* mark_paid, and honour_late_payment for a booking that is no longer held.
HonourPayment(b) ==
    /\ \/ b.status = "pending_payment"
       \/ /\ b.status \in {"expired", "cancelled"}
          /\ ~HeldBySomeoneElse(b) /\ IndexAllows(b)
    /\ Replace(b, [b EXCEPT !.status = "paid"])
    /\ UNCHANGED <<zone, now, meetings, conferences>>

\* finalize_paid_booking creates the event of a booking that was swept.
Finalize(b) ==
    /\ b.status = "paid" /\ ~b.marker
    /\ Replace(b, [b EXCEPT !.marker = TRUE, !.event = TRUE])
    /\ UNCHANGED <<zone, now, meetings, conferences>>

\* cancel_booking keeps calendar_event_id; the release of the event may fail.
CancelBooking(b) ==
    /\ b.status = "pending_payment"
    /\ \E event \in {FALSE, b.event} :
          Replace(b, [b EXCEPT !.status = "cancelled", !.event = event])
    /\ UNCHANGED <<zone, now, meetings, conferences>>

\* The sweeper releases the event of an expired booking and clears the marker.
Sweep(b) ==
    /\ b.status = "expired" /\ b.marker
    /\ Replace(b, [b EXCEPT !.event = FALSE, !.marker = FALSE])
    /\ UNCHANGED <<zone, now, meetings, conferences>>

----------------------------------------------------------------------------
\* The owner, and time.

AddMeeting(i) ==
    /\ meetings' = meetings \cup {i}
    /\ UNCHANGED <<zone, now, bookings, conferences>>

ScheduleConference(i) ==
    /\ conferences' = conferences \cup {i}
    /\ UNCHANGED <<zone, now, bookings, meetings>>

CancelConference(i) ==
    /\ conferences' = conferences \ {i}
    /\ UNCHANGED <<zone, now, bookings, meetings>>

Tick ==
    /\ now < MaxNow
    /\ now' = now + 1
    /\ UNCHANGED <<zone, bookings, meetings, conferences>>

Init ==
    /\ zone \in Zones
    /\ now = 0 /\ bookings = {} /\ meetings = {} /\ conferences = {}

Next ==
    \/ \E e \in Types, t \in Starts : CreateBooking(e, t)
    \/ \E b \in bookings :
          HonourPayment(b) \/ Finalize(b) \/ CancelBooking(b) \/ Sweep(b)
    \/ \E i \in Meetings : AddMeeting(i)
    \/ \E i \in Conferences : ScheduleConference(i) \/ CancelConference(i)
    \/ Tick

Spec == Init /\ [][Next]_vars

----------------------------------------------------------------------------

Row == [type : Types, start : Int, end : Int,
        status : {"pending_payment", "paid", "expired", "cancelled"},
        expires : Nat, marker : BOOLEAN, event : BOOLEAN]

\* Types; a row lasts as long as its type, and an event in the calendar is
\* named by its row.
TypeOK ==
    /\ zone \in Zones /\ now \in 0 .. MaxNow
    /\ \A b \in bookings : /\ b \in Row
                           /\ b.end = b.start + Duration[b.type]
                           /\ b.event => b.marker
    /\ meetings \subseteq Meetings /\ conferences \subseteq Conferences

\* "a start the grid offers is always a start the booking path accepts"
\* (availability.py:136-137, 219-220): the page and the POST look at different
\* windows of time, by different code, and agree.
OfferedIsAccepted ==
    \A e \in Types, date \in Dates :
        \A t \in GenerateSlots(e, date) : Accepts(e, t)

\* "pairwise non-overlapping, so every button the visitor sees is a distinct
\* appointment" (availability.py:261-262), with rules of different alignment
\* and on a day on which the clocks change.
OfferedIsDisjoint ==
    \A e \in Types, date \in Dates :
        \A s, t \in GenerateSlots(e, date) :
            s # t => ~Overlap(Slot(e, s), Slot(e, t))

\* What the calendar says is taken, for type e, at any time.
Commitments(e) ==
    {i \in meetings \cup {Interval(b) : b \in {q \in bookings : q.event}} :
        \A q \in bookings : q.marker /\ Interval(q) = i => Live(q) /\ q.type # e}

KeepsBuffers(e, t) ==
    \A i \in Commitments(e) :
        ~Overlap(Slot(e, t), <<i[1] - Before[e], i[2] + After[e]>>)

\* No offered slot comes closer to a commitment than the buffers, also when
\* the commitment lies on another day (availability.py:268-290).
BuffersKept ==
    \A e \in Types, date \in Dates :
        \A t \in GenerateSlots(e, date) : KeepsBuffers(e, t)

\* Nothing that can be sold is hidden: a start the booking path accepts, with
\* its buffers free, is offered on its local date, or one that overlaps it is.
\* The second showing of a repeated hour is not offered (fold = 0).
OfferedIsMaximal ==
    \A e \in Types, t \in Starts :
        LET date == Local(t) \div Day
        IN  Accepts(e, t) /\ KeepsBuffers(e, t) /\ Utc(Local(t)) = t
            => \E s \in GenerateSlots(e, date) : Overlap(Slot(e, s), Slot(e, t))

\* "two 1-1 calls cannot overlap" (docs/MODULE_CONTRACT.md:702, and
\* availability.py:85-87; booking.py:379-381 on payments that come late).
\* Requests are one step here, so no race of two requests is to blame.
CallsNeverOverlap ==
    \A b, c \in bookings :
        /\ b.status = "paid" /\ c.status = "paid"
        /\ Overlap(Interval(b), Interval(c))
        => b = c

============================================================================
