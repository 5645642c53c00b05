------------------------------ MODULE Booking ------------------------------
(***************************************************************************)
(* The life of a 1-1 booking: app/services/booking.py, the WeChat notify   *)
(* handler of app/routers/payments.py, the background tasks of             *)
(* app/tasks.py and the sweeper process, over one database, one calendar   *)
(* and one payment provider.                                               *)
(*                                                                         *)
(* A handler is a sequence of actions cut where another actor can come in  *)
(* between: at every network call and between reading a row and writing    *)
(* it.  Statements that run between two such points are one action.  The   *)
(* database is PostgreSQL at READ COMMITTED without row versions: a read   *)
(* sees committed rows only, an ORM flush updates a row by its primary key *)
(* whatever the row has become since it was read, an UPDATE of a row       *)
(* another open transaction has updated waits for it, and so does an       *)
(* INSERT of a key another open transaction has inserted.                  *)
(***************************************************************************)
EXTENDS Integers, FiniteSets

CONSTANTS
    Refs,           \* booking references, one per booking request
    Strangers,      \* references of orders this deployment never created
    Slots,          \* [type, start, end]: an event type and its interval
    SlotOf,         \* the slot each reference asks for
    Meetings,       \* [start, end]: what the owner may put in the calendar
    Conferences,    \* [start, end]: ticketed conferences that may be scheduled
    Handlers,       \* notify handlers that may run at the same time
    Kinds,          \* "ok", "bad_amount", "bad_state": what a notification says
    Faults,         \* the parts that may fail: see FaultNames
    RelayCalendar,  \* TRUE: calendar calls go through the relay
    HoldMinutes,    \* settings.hold_minutes, in ticks of the clock
    MaxNow,         \* bound on the clock
    MaxCrashes,     \* bound on restarts of the application process
    NoEvent         \* calendar_event_id is NULL

\* "calendar" is freebusy, create_hold and confirm; "release" is release;
\* "wechat" is create_charge and close_order; "database" is a commit;
\* "sweeper" is the sweeper process itself.
FaultNames == {"calendar", "release", "wechat", "email", "database", "sweeper"}

\* An appointment, a meeting and a conference occupy a non-empty interval.
IsInterval(i) == i.start \in Int /\ i.end \in Int /\ i.start < i.end

\* Every hold makes one calendar event and a late payment may make another.
Events == Refs \X {"hold", "late"}

ASSUME BookingAssumption ==
    /\ Strangers \subseteq Refs
    /\ SlotOf \in [Refs -> Slots]
    /\ \A i \in Slots \cup Meetings \cup Conferences : IsInterval(i)
    /\ Kinds \subseteq {"ok", "bad_amount", "bad_state"}
    /\ Faults \subseteq FaultNames
    /\ RelayCalendar \in BOOLEAN
    /\ HoldMinutes \in Nat \ {0}
    /\ MaxNow \in Nat
    /\ MaxCrashes \in Nat
    /\ NoEvent \notin Events

VARIABLES
    now,         \* the clock
    \* the bookings table, committed rows only
    status,      \* "none" is a reference without a row
    expiresAt,
    marker,      \* calendar_event_id
    finalized,   \* finalized_at is set
    \* the payment_events table: the outcome recorded for the transaction
    \* that pays the order of each reference
    ledger,
    \* the outside world
    calendar,    \* state of every calendar event of ours
    meetings,    \* the owner's own commitments in the calendar
    conferences, \* conferences scheduled and not cancelled
    order,       \* the WeChat order of each reference
    answers,     \* every answer WeChat has been given for its transaction
    mails,       \* confirmation emails sent
    \* handlers in flight
    creator,     \* create_booking, by reference
    canceller,   \* cancel_booking, by reference
    notifier,    \* wechat_notify, by handler
    finalizer,   \* finalize_paid_booking, by reference
    sweeper,     \* release_expired_holds
    crashes

rows     == <<status, expiresAt, marker, finalized>>
diary    == <<meetings, conferences>>
world    == <<calendar, order, answers, mails>>
requests == <<creator, canceller, notifier, finalizer>>
vars     == <<now, status, expiresAt, marker, finalized, ledger, calendar,
              meetings, conferences, order, answers, mails, creator,
              canceller, notifier, finalizer, sweeper, crashes>>

Statuses  == {"none", "pending_payment", "paid", "expired", "cancelled"}
Outcomes  == {"none", "paid", "paid_conflict", "amount_mismatch",
              "trade_state", "unknown_order"}
Answers   == {"success", "refund_required", "fail"}

IdleCreator  == [pc |-> "idle", moment |-> 0, swept |-> {}, owned |-> {}]
IdleNotifier == [pc |-> "idle", ref |-> NoEvent, kind |-> "ok", seen |-> "none"]
IdleTask     == [pc |-> "idle", event |-> NoEvent]
IdleSweeper  == [pc |-> "idle", todo |-> {}, released |-> {}]

\* Where a request, a handler or a task has got to, and what it remembers.
CreatorPcs  == {"idle", "swept", "free", "cleared", "inserted", "held", "charged"}
NotifierPcs == {"idle", "loaded", "recorded"}
TaskPcs     == {"idle", "queued", "loaded", "confirmed", "mailed"}

Intervals      == [start : Int, end : Int]
CreatorStates  == [pc : CreatorPcs, moment : Nat, swept : SUBSET Refs,
                   owned : SUBSET Intervals]
NotifierStates == [pc : NotifierPcs, ref : Refs \cup {NoEvent},
                   kind : {"ok", "bad_amount", "bad_state"}, seen : Statuses]
TaskStates     == [pc : TaskPcs, event : Events \cup {NoEvent}]
SweeperStates  == [pc : {"idle", "working"}, todo : SUBSET Refs,
                   released : SUBSET Refs]

TypeOK ==
    /\ now \in Nat
    /\ status \in [Refs -> Statuses]
    /\ expiresAt \in [Refs -> Nat]
    /\ marker \in [Refs -> Events \cup {NoEvent}]
    /\ finalized \in [Refs -> BOOLEAN]
    /\ ledger \in [Refs -> Outcomes]
    /\ calendar \in [Events -> {"absent", "tentative", "confirmed"}]
    /\ meetings \subseteq Meetings
    /\ conferences \subseteq Conferences
    /\ order \in [Refs -> {"none", "open", "paid", "closed"}]
    /\ answers \in [Refs -> SUBSET Answers]
    /\ mails \in [Refs -> Nat]
    /\ creator \in [Refs -> CreatorStates]
    /\ canceller \in [Refs -> {"idle", "loaded", "released"}]
    /\ notifier \in [Handlers -> NotifierStates]
    /\ \A h \in Handlers : notifier[h].pc # "idle" => notifier[h].ref \in Refs
    /\ finalizer \in [Refs -> TaskStates]
    /\ sweeper \in SweeperStates
    /\ crashes \in Nat

Init ==
    /\ now = 0
    /\ status = [r \in Refs |-> "none"]
    /\ expiresAt = [r \in Refs |-> 0]
    /\ marker = [r \in Refs |-> NoEvent]
    /\ finalized = [r \in Refs |-> FALSE]
    /\ ledger = [r \in Refs |-> "none"]
    /\ calendar = [e \in Events |-> "absent"]
    /\ meetings = {}
    /\ conferences = {}
    /\ order = [r \in Refs |-> IF r \in Strangers THEN "paid" ELSE "none"]
    /\ answers = [r \in Refs |-> {}]
    /\ mails = [r \in Refs |-> 0]
    /\ creator = [r \in Refs |-> IdleCreator]
    /\ canceller = [r \in Refs |-> "idle"]
    /\ notifier = [h \in Handlers |-> IdleNotifier]
    /\ finalizer = [r \in Refs |-> IdleTask]
    /\ sweeper = IdleSweeper
    /\ crashes = 0

----------------------------------------------------------------------------
(***************************************************************************)
(* Reading the database and the calendar.                                  *)
(***************************************************************************)

Overlap(i, j) == i.start < j.end /\ i.end > j.start

Span(s) == [start |-> s.start, end |-> s.end]

SameSlot(q, r) == SlotOf[q] = SlotOf[r]

\* The predicate of the partial unique index uq_active_slot.
InIndex(q) == status[q] \in {"pending_payment", "paid"}

\* Live with lazy expiry: paid, or pending with a hold that has not run out.
LiveAt(q, t) ==
    \/ status[q] = "paid"
    \/ status[q] = "pending_payment" /\ expiresAt[q] > t

\* Rows an open create_booking transaction has flipped to expired.
Locked == UNION {creator[q].swept : q \in Refs}

\* create_booking transactions holding an uncommitted row.
Uncommitted == {q \in Refs : creator[q].pc \in {"inserted", "held", "charged"}}

SlotInserting(r) == \E q \in Uncommitted : q # r /\ SameSlot(q, r)

\* Faulty variants: the index covers paid rows only; it counts r's own row.
IndexPaidOnly(r, gone) ==
    \A q \in Refs \ ({r} \cup gone) : SameSlot(q, r) => status[q] # "paid"
IndexCountsSelf(r, gone) ==
    \A q \in Refs \ gone : SameSlot(q, r) => ~InIndex(q)

\* uq_active_slot lets r's row be live; `gone` are rows the same transaction
\* has expired.
IndexAllows(r, gone) ==
    \A q \in Refs \ ({r} \cup gone) : SameSlot(q, r) => ~InIndex(q)

\* expire_stale_holds for one slot: what its UPDATE ... WHERE selects.
StaleHolds(r, t) ==
    {q \in Refs : /\ SameSlot(q, r)
                  /\ status[q] = "pending_payment"
                  /\ expiresAt[q] <= t}

\* The SELECT of step 3a: a live booking of the same event type overlaps.
SameTypeClash(r, t) ==
    \E q \in Refs : /\ SlotOf[q].type = SlotOf[r].type
                    /\ Overlap(SlotOf[q], SlotOf[r])
                    /\ LiveAt(q, t)

\* Faulty variant: only live holds are recognised as our own.
OwnedLiveOnly(r, t) ==
    {Span(SlotOf[q]) :
        q \in {p \in Refs : /\ marker[p] # NoEvent
                            /\ Overlap(SlotOf[p], SlotOf[r])
                            /\ SlotOf[p].type = SlotOf[r].type
                            /\ LiveAt(p, t)}}

\* Faulty variant: every interval we own is ours to ignore.
OwnedAll(r, t) ==
    {Span(SlotOf[q]) :
        q \in {p \in Refs : marker[p] # NoEvent /\ Overlap(SlotOf[p], SlotOf[r])}}

\* owned_intervals: intervals of our own that the calendar must not report
\* as busy to a request for r.
OwnedIntervals(r, t) ==
    {Span(SlotOf[q]) :
        q \in {p \in Refs : /\ marker[p] # NoEvent
                            /\ Overlap(SlotOf[p], SlotOf[r])
                            /\ \/ ~LiveAt(p, t)
                               \/ SlotOf[p].type = SlotOf[r].type}}

\* CalendarGateway.freebusy over r's slot.
FreeBusy(r) ==
    {i \in {Span(SlotOf[q]) : q \in {p \in Refs :
                \E k \in {"hold", "late"} : calendar[<<p, k>>] # "absent"}}
           \cup meetings : Overlap(i, SlotOf[r])}

\* Step 3b of create_booking, when nothing comes between the two reads.
CalendarClear(r, t) == FreeBusy(r) \subseteq OwnedIntervals(r, t)

\* conference_intervals over r's slot is empty.
ConferenceClear(r) == \A c \in conferences : ~Overlap(c, SlotOf[r])

\* Releasing an event may raise.  Of an event that is gone Google says 404 or
\* 410; the direct gateway takes both for success, the relay 404 only.
ReleaseMayRaise(e) ==
    "release" \in Faults \/ (RelayCalendar /\ calendar[e] = "absent")

\* _slot_is_held_by_someone_else.
HeldBySomeoneElse(r, t) ==
    \E q \in Refs \ {r} : SameSlot(q, r) /\ LiveAt(q, t)

\* A reference is generated afresh for every request.
Fresh(r) ==
    /\ r \notin Strangers
    /\ status[r] = "none" /\ order[r] = "none"
    /\ calendar[<<r, "hold">>] = "absent"

----------------------------------------------------------------------------
(***************************************************************************)
(* create_booking.  A refusal rolls the transaction back, so it undoes the *)
(* sweep as well.                                                          *)
(***************************************************************************)

\* Steps 1 to 3a and the database read of step 3b.  The sweep waits for rows
\* another transaction has swept.
CreateSweep(r) ==
    /\ creator[r].pc = "idle"
    /\ Fresh(r)
    /\ StaleHolds(r, now) \cap Locked = {}
    /\ ~SameTypeClash(r, now)
    /\ creator' = [creator EXCEPT ![r] =
                      [pc |-> "swept", moment |-> now,
                       swept |-> StaleHolds(r, now),
                       owned |-> OwnedIntervals(r, now)]]
    /\ UNCHANGED <<now, rows, ledger, diary, world, canceller, notifier,
                   finalizer, sweeper, crashes>>

\* Step 3b: SlotNotBookable for an interval that was not ours when the
\* database was read, or the calendar call fails.
CreateFreebusy(r) ==
    /\ creator[r].pc = "swept"
    /\ \/ /\ FreeBusy(r) \subseteq creator[r].owned
          /\ creator' = [creator EXCEPT ![r] = [@ EXCEPT !.pc = "free", !.owned = {}]]
       \/ /\ ~(FreeBusy(r) \subseteq creator[r].owned) \/ "calendar" \in Faults
          /\ creator' = [creator EXCEPT ![r] = IdleCreator]
    /\ UNCHANGED <<now, rows, ledger, diary, world, canceller, notifier,
                   finalizer, sweeper, crashes>>

\* Step 3c.
CreateConferences(r) ==
    /\ creator[r].pc = "free"
    /\ creator' = [creator EXCEPT ![r] =
                      IF ConferenceClear(r)
                      THEN [@ EXCEPT !.pc = "cleared"]
                      ELSE IdleCreator]
    /\ UNCHANGED <<now, rows, ledger, diary, world, canceller, notifier,
                   finalizer, sweeper, crashes>>

\* Step 4: the INSERT under uq_active_slot, or SlotTaken.
CreateInsert(r) ==
    /\ creator[r].pc = "cleared"
    /\ ~SlotInserting(r)
    /\ creator' = [creator EXCEPT ![r] =
                      IF IndexAllows(r, creator[r].swept)
                      THEN [@ EXCEPT !.pc = "inserted"]
                      ELSE IdleCreator]
    /\ UNCHANGED <<now, rows, ledger, diary, world, canceller, notifier,
                   finalizer, sweeper, crashes>>

\* Step 5.  A failed call may still have made the event.
CreateHold(r) ==
    /\ creator[r].pc = "inserted"
    /\ \/ /\ calendar' = [calendar EXCEPT ![<<r, "hold">>] = "tentative"]
          /\ creator' = [creator EXCEPT ![r].pc = "held"]
       \/ /\ "calendar" \in Faults
          /\ \/ calendar' = [calendar EXCEPT ![<<r, "hold">>] = "tentative"]
             \/ UNCHANGED calendar
          /\ creator' = [creator EXCEPT ![r] = IdleCreator]
    /\ UNCHANGED <<now, rows, ledger, diary, order, answers, mails, canceller,
                   notifier, finalizer, sweeper, crashes>>

\* Faulty variant: the hold is not released.
UnwindKeepsHold(r) ==
    /\ creator' = [creator EXCEPT ![r] = IdleCreator]
    /\ UNCHANGED calendar

\* The except clause: roll back and release the hold, best effort.
Unwind(r) ==
    /\ creator' = [creator EXCEPT ![r] = IdleCreator]
    /\ \/ calendar' = [calendar EXCEPT ![<<r, "hold">>] = "absent"]
       \/ "release" \in Faults /\ UNCHANGED calendar

\* The gateway's create_charge: a call that fails may still have opened the
\* order.
Charge(r, succeeds) ==
    \/ order' = [order EXCEPT ![r] = "open"]
    \/ ~succeeds /\ UNCHANGED order

\* Step 6.
CreateCharge(r) ==
    /\ creator[r].pc = "held"
    /\ \/ /\ Charge(r, TRUE)
          /\ creator' = [creator EXCEPT ![r].pc = "charged"]
          /\ UNCHANGED calendar
       \/ "wechat" \in Faults /\ Charge(r, FALSE) /\ Unwind(r)
    /\ UNCHANGED <<now, rows, ledger, diary, answers, mails, canceller,
                   notifier, finalizer, sweeper, crashes>>

\* Faulty variants: the hold minutes are subtracted; the hold outlasts the
\* order that WeChat was asked for.
ExpiryInThePast(r) == creator[r].moment - HoldMinutes
ExpiryTooLate(r) == creator[r].moment + HoldMinutes + 1

\* expires_at = now + hold_minutes, now being read in step 1.
Expiry(r) == creator[r].moment + HoldMinutes

\* Step 7.  The sweep and the new row become visible together.
CreateCommit(r) ==
    /\ creator[r].pc = "charged"
    /\ \/ /\ status' = [q \in Refs |->
                           IF q = r THEN "pending_payment"
                           ELSE IF q \in creator[r].swept THEN "expired"
                           ELSE status[q]]
          /\ expiresAt' = [expiresAt EXCEPT ![r] = Expiry(r)]
          /\ marker' = [marker EXCEPT ![r] = <<r, "hold">>]
          /\ creator' = [creator EXCEPT ![r] = IdleCreator]
          /\ UNCHANGED calendar
       \/ /\ "database" \in Faults
          /\ Unwind(r)
          /\ UNCHANGED <<status, expiresAt, marker>>
    /\ UNCHANGED <<now, finalized, ledger, diary, order, answers, mails,
                   canceller, notifier, finalizer, sweeper, crashes>>

CreateBooking(r) ==
    \/ CreateSweep(r) \/ CreateFreebusy(r) \/ CreateConferences(r)
    \/ CreateInsert(r) \/ CreateHold(r) \/ CreateCharge(r) \/ CreateCommit(r)

----------------------------------------------------------------------------
(***************************************************************************)
(* cancel_booking: the row is read, the hold released, and only then the   *)
(* new status is flushed and committed.                                    *)
(***************************************************************************)

CancelLoad(r) ==
    /\ canceller[r] = "idle"
    /\ status[r] = "pending_payment"
    /\ canceller' = [canceller EXCEPT ![r] = "loaded"]
    /\ UNCHANGED <<now, rows, ledger, diary, world, creator, notifier,
                   finalizer, sweeper, crashes>>

CancelRelease(r) ==
    /\ canceller[r] = "loaded"
    /\ \/ /\ calendar' = [calendar EXCEPT ![<<r, "hold">>] = "absent"]
          /\ canceller' = [canceller EXCEPT ![r] = "released"]
       \/ /\ ReleaseMayRaise(<<r, "hold">>)
          /\ \/ calendar' = [calendar EXCEPT ![<<r, "hold">>] = "absent"]
             \/ UNCHANGED calendar
          /\ canceller' = [canceller EXCEPT ![r] = "idle"]
    /\ UNCHANGED <<now, rows, ledger, diary, order, answers, mails, creator,
                   notifier, finalizer, sweeper, crashes>>

\* UPDATE bookings SET status = 'cancelled' WHERE id = r.
CancelCommit(r) ==
    /\ canceller[r] = "released"
    /\ canceller' = [canceller EXCEPT ![r] = "idle"]
    /\ \/ /\ r \notin Locked
          /\ status' = [status EXCEPT ![r] = "cancelled"]
       \/ "database" \in Faults /\ UNCHANGED status
    /\ UNCHANGED <<now, expiresAt, marker, finalized, ledger, diary, world,
                   creator, notifier, finalizer, sweeper, crashes>>

CancelBooking(r) == CancelLoad(r) \/ CancelRelease(r) \/ CancelCommit(r)

----------------------------------------------------------------------------
(***************************************************************************)
(* wechat_notify and _handle_notification.  The transaction that pays the  *)
(* order of r is identified with r: WeChat settles an order once, and      *)
(* repeats the notification with the same transaction_id.                  *)
(***************************************************************************)

Answer(r, a) == answers' = [answers EXCEPT ![r] = @ \cup {a}]

NotifierDone(h) == notifier' = [notifier EXCEPT ![h] = IdleNotifier]

\* _find_order: the row is loaded into the session once and not read again.
NotifyLoad(h, r, k) ==
    /\ notifier[h].pc = "idle"
    /\ order[r] = "paid"
    /\ notifier' = [notifier EXCEPT ![h] =
                       [pc |-> "loaded", ref |-> r, kind |-> k,
                        seen |-> status[r]]]
    /\ UNCHANGED <<now, rows, ledger, diary, world, creator, canceller,
                   finalizer, sweeper, crashes>>

\* The unique transaction_id makes a second handler's INSERT wait for the
\* first one's transaction.
TransactionFree(h) ==
    \A g \in Handlers \ {h} :
        ~(notifier[g].pc = "recorded" /\ notifier[g].ref = notifier[h].ref)

\* The answer and the recorded outcome of a notification that settles
\* nothing: unknown order, replay, wrong amount, trade state, conflict.
Dismissal(h) ==
    LET r == notifier[h].ref
        k == notifier[h].kind
        s == notifier[h].seen
    IN  CASE s = "none" /\ ledger[r] = "none"  -> <<"unknown_order", "fail">>
          [] s = "none" /\ ledger[r] # "none"  -> <<ledger[r], "fail">>
          [] s # "none" /\ ledger[r] # "none"  -> <<ledger[r], "success">>
          [] s # "none" /\ ledger[r] = "none" /\ k = "bad_amount"
                                               -> <<"amount_mismatch", "fail">>
          [] s # "none" /\ ledger[r] = "none" /\ k = "bad_state"
                                               -> <<"trade_state", "fail">>
          [] OTHER                             -> <<"paid_conflict", "refund_required">>

\* Faulty variant: no replay guard.
SettlesReplays(h) ==
    LET r == notifier[h].ref
    IN  /\ notifier[h].seen # "none"
        /\ notifier[h].kind = "ok"
        /\ notifier[h].seen \in {"expired", "cancelled"}
              => ~HeldBySomeoneElse(r, now)

\* Faulty variant: a hold that has lapsed is not honoured although nobody has
\* taken its slot.
SettlesLiveOnly(h) ==
    LET r == notifier[h].ref
    IN  /\ notifier[h].seen # "none"
        /\ ledger[r] = "none"
        /\ notifier[h].kind = "ok"
        /\ notifier[h].seen = "pending_payment" => expiresAt[r] > now
        /\ notifier[h].seen \in {"expired", "cancelled"}
              => ~HeldBySomeoneElse(r, now)

\* The notification goes on to settle the order: known, not a replay, a
\* genuine success, and a dead hold's slot is not held by someone else.
Settles(h) ==
    LET r == notifier[h].ref
    IN  /\ notifier[h].seen # "none"
        /\ ledger[r] = "none"
        /\ notifier[h].kind = "ok"
        /\ notifier[h].seen \in {"expired", "cancelled"}
              => ~HeldBySomeoneElse(r, now)

\* Replay guard, audit row and the checks that may end the request.
NotifyRecord(h) ==
    /\ notifier[h].pc = "loaded"
    /\ TransactionFree(h)
    /\ \/ /\ Settles(h)
          /\ notifier' = [notifier EXCEPT ![h].pc = "recorded"]
          /\ UNCHANGED <<ledger, answers>>
       \/ /\ ~Settles(h)
          /\ \/ /\ ledger' = [ledger EXCEPT ![notifier[h].ref] = Dismissal(h)[1]]
                /\ Answer(notifier[h].ref, Dismissal(h)[2])
             \/ /\ "database" \in Faults
                /\ Answer(notifier[h].ref, "fail")
                /\ UNCHANGED ledger
          /\ NotifierDone(h)
    /\ UNCHANGED <<now, rows, diary, calendar, order, mails, creator,
                   canceller, finalizer, sweeper, crashes>>

\* Faulty variants: the audit row is committed in a transaction of its own;
\* the audit row is, but the booking is not; the task is not dispatched.
SettleThenAudit(r) ==
    /\ status' = [status EXCEPT ![r] = "paid"]
    /\ finalizer' = [finalizer EXCEPT ![r].pc = "queued"]
    /\ \/ ledger' = [ledger EXCEPT ![r] = "paid"] /\ Answer(r, "success")
       \/ "database" \in Faults /\ UNCHANGED ledger /\ Answer(r, "fail")
SettleAuditOnly(r) ==
    /\ ledger' = [ledger EXCEPT ![r] = "paid"]
    /\ finalizer' = [finalizer EXCEPT ![r].pc = "queued"]
    /\ Answer(r, "success")
    /\ UNCHANGED status
SettleUndispatched(r) ==
    /\ status' = [status EXCEPT ![r] = "paid"]
    /\ ledger' = [ledger EXCEPT ![r] = "paid"]
    /\ Answer(r, "success")
    /\ UNCHANGED finalizer

\* The commit: the flush by primary key, the audit row, and the task.
SettlePaid(r) ==
    /\ status' = [status EXCEPT ![r] = "paid"]
    /\ ledger' = [ledger EXCEPT ![r] = "paid"]
    /\ finalizer' = [finalizer EXCEPT ![r].pc = "queued"]
    /\ Answer(r, "success")

\* Faulty variant: the loser of the race for the slot is told SUCCESS.
RefusalAcked(h) == "success"

\* IntegrityError out of mark_paid ends in the outer handler; out of a
\* revival it becomes a PaymentConflict.
Refusal(h) == IF notifier[h].seen = "pending_payment"
              THEN "fail" ELSE "refund_required"

\* mark_paid or the revival in honour_late_payment.  When uq_active_slot
\* refuses it, the rollback takes the audit row with it.
NotifySettle(h) ==
    LET r == notifier[h].ref
    IN  /\ notifier[h].pc = "recorded"
        /\ r \notin Locked
        /\ ~SlotInserting(r)
        /\ \/ /\ IndexAllows(r, {})
              /\ SettlePaid(r)
           \/ /\ \/ ~IndexAllows(r, {}) /\ Answer(r, Refusal(h))
                 \/ "database" \in Faults /\ Answer(r, "fail")
              /\ UNCHANGED <<status, ledger, finalizer>>
        /\ NotifierDone(h)
        /\ UNCHANGED <<now, expiresAt, marker, finalized, diary, calendar,
                       order, mails, creator, canceller, sweeper, crashes>>

Notify(h) ==
    \/ \E r \in Refs, k \in Kinds : NotifyLoad(h, r, k)
    \/ NotifyRecord(h) \/ NotifySettle(h)

----------------------------------------------------------------------------
(***************************************************************************)
(* finalize_paid_booking, run after the response of the notification that  *)
(* settled the order.  An exception rolls back and nothing runs it again.  *)
(***************************************************************************)

FinalizeLoad(r) ==
    /\ finalizer[r].pc = "queued"
    /\ finalizer' = [finalizer EXCEPT ![r] =
                        IF status[r] = "paid" /\ ~finalized[r]
                        THEN [pc |-> "loaded", event |-> marker[r]]
                        ELSE IdleTask]
    /\ UNCHANGED <<now, rows, ledger, diary, world, creator, canceller,
                   notifier, sweeper, crashes>>

\* confirm the hold, or create and confirm an event when there is none; a
\* failed call may still have done its work.  A PATCH of an event that is gone
\* raises, unless the relay has a 404 from Google and answers with success.
FinalizeCalendar(r) ==
    LET e == finalizer[r].event
    IN  /\ finalizer[r].pc = "loaded"
        /\ \/ /\ e # NoEvent /\ calendar[e] # "absent"
              /\ calendar' = [calendar EXCEPT ![e] = "confirmed"]
              /\ finalizer' = [finalizer EXCEPT ![r].pc = "confirmed"]
           \/ /\ e # NoEvent /\ calendar[e] = "absent"
              /\ \/ /\ RelayCalendar
                    /\ finalizer' = [finalizer EXCEPT ![r].pc = "confirmed"]
                 \/ finalizer' = [finalizer EXCEPT ![r] = IdleTask]
              /\ UNCHANGED calendar
           \/ /\ e = NoEvent
              /\ calendar' = [calendar EXCEPT ![<<r, "late">>] = "confirmed"]
              /\ finalizer' = [finalizer EXCEPT ![r] =
                                  [pc |-> "confirmed", event |-> <<r, "late">>]]
           \/ /\ "calendar" \in Faults
              /\ finalizer' = [finalizer EXCEPT ![r] = IdleTask]
              /\ \/ UNCHANGED calendar
                 \/ /\ e # NoEvent /\ calendar[e] # "absent"
                    /\ calendar' = [calendar EXCEPT ![e] = "confirmed"]
                 \/ /\ e = NoEvent
                    /\ \E s \in {"tentative", "confirmed"} :
                          calendar' = [calendar EXCEPT ![<<r, "late">>] = s]
        /\ UNCHANGED <<now, rows, ledger, diary, order, answers, mails,
                       creator, canceller, notifier, sweeper, crashes>>

FinalizeMail(r) ==
    /\ finalizer[r].pc = "confirmed"
    /\ \/ /\ mails' = [mails EXCEPT ![r] = @ + 1]
          /\ finalizer' = [finalizer EXCEPT ![r].pc = "mailed"]
       \/ /\ "email" \in Faults
          /\ finalizer' = [finalizer EXCEPT ![r] = IdleTask]
          /\ UNCHANGED mails
    /\ UNCHANGED <<now, rows, ledger, diary, calendar, order, answers,
                   creator, canceller, notifier, sweeper, crashes>>

\* Only attributes the task assigned are written.
FinalizeCommit(r) ==
    /\ finalizer[r].pc = "mailed"
    /\ finalizer' = [finalizer EXCEPT ![r] = IdleTask]
    /\ \/ /\ finalized' = [finalized EXCEPT ![r] = TRUE]
          /\ marker' = [marker EXCEPT ![r] =
                           IF finalizer[r].event = <<r, "late">>
                           THEN <<r, "late">> ELSE @]
       \/ "database" \in Faults /\ UNCHANGED <<finalized, marker>>
    /\ UNCHANGED <<now, status, expiresAt, ledger, diary, world, creator,
                   canceller, notifier, sweeper, crashes>>

FinalizePaidBooking(r) ==
    \/ FinalizeLoad(r) \/ FinalizeCalendar(r)
    \/ FinalizeMail(r) \/ FinalizeCommit(r)

----------------------------------------------------------------------------
(***************************************************************************)
(* release_expired_holds, run for ever by the sweeper process.  One        *)
(* transaction reads the rows at the start and clears the markers at the   *)
(* end; the calendar and WeChat are called in between.                     *)
(***************************************************************************)

\* Faulty variants: lazily expired rows are swept too; cancelled rows are.
OrphanOrStale ==
    {r \in Refs : /\ \/ status[r] = "expired"
                     \/ status[r] = "pending_payment" /\ expiresAt[r] <= now
                  /\ marker[r] # NoEvent}
OrphanCancelled == {r \in Refs : status[r] = "cancelled" /\ marker[r] # NoEvent}

Orphan == {r \in Refs : status[r] = "expired" /\ marker[r] # NoEvent}

SweepSelect ==
    /\ sweeper.pc = "idle" /\ Orphan # {}
    /\ sweeper' = [pc |-> "working", todo |-> Orphan, released |-> {}]
    /\ UNCHANGED <<now, rows, ledger, diary, world, requests, crashes>>

\* The gateway's close_order, best effort.  A second call changes nothing, and
\* WeChat refuses to close an order that is paid.
CloseOrder(r) ==
    \/ order' = [order EXCEPT ![r] = IF @ = "open" THEN "closed" ELSE @]
    \/ "wechat" \in Faults /\ UNCHANGED order

\* Faulty variant: a marker is cleared although the release failed.
SweepForgets(r) ==
    /\ sweeper.pc = "working" /\ r \in sweeper.todo
    /\ sweeper' = [pc |-> "working", todo |-> sweeper.todo \ {r},
                   released |-> sweeper.released \cup {r}]
    /\ \/ calendar' = [calendar EXCEPT ![<<r, "hold">>] = "absent"] /\ CloseOrder(r)
       \/ "release" \in Faults /\ UNCHANGED <<calendar, order>>
    /\ UNCHANGED <<now, rows, ledger, diary, answers, mails, requests, crashes>>

\* A row that is expired with a marker names its hold.
SweepRelease(r) ==
    /\ sweeper.pc = "working" /\ r \in sweeper.todo
    /\ \/ /\ calendar' = [calendar EXCEPT ![<<r, "hold">>] = "absent"]
          /\ CloseOrder(r)
          /\ sweeper' = [pc |-> "working", todo |-> sweeper.todo \ {r},
                         released |-> sweeper.released \cup {r}]
       \/ /\ ReleaseMayRaise(<<r, "hold">>)
          /\ sweeper' = [sweeper EXCEPT !.todo = @ \ {r}]
          /\ \/ calendar' = [calendar EXCEPT ![<<r, "hold">>] = "absent"]
             \/ UNCHANGED calendar
          /\ UNCHANGED order
    /\ UNCHANGED <<now, rows, ledger, diary, answers, mails, requests, crashes>>

\* UPDATE bookings SET calendar_event_id = NULL WHERE id = r, for each.
SweepCommit ==
    /\ sweeper.pc = "working" /\ sweeper.todo = {}
    /\ marker' = [r \in Refs |-> IF r \in sweeper.released
                                 THEN NoEvent ELSE marker[r]]
    /\ sweeper' = IdleSweeper
    /\ UNCHANGED <<now, status, expiresAt, finalized, ledger, diary, world,
                   requests, crashes>>

\* The sweeper dies, or its commit fails, and the next sweep starts over.
SweepAbort ==
    /\ "sweeper" \in Faults
    /\ sweeper.pc = "working"
    /\ sweeper' = IdleSweeper
    /\ UNCHANGED <<now, rows, ledger, diary, world, requests, crashes>>

Sweep ==
    \/ SweepSelect \/ (\E r \in Refs : SweepRelease(r))
    \/ SweepCommit \/ SweepAbort

----------------------------------------------------------------------------
(***************************************************************************)
(* The environment.                                                        *)
(***************************************************************************)

\* The customer pays the QR code of a booking before the order's time_expire.
Pay(r) ==
    /\ order[r] = "open" /\ status[r] # "none" /\ now < expiresAt[r]
    /\ order' = [order EXCEPT ![r] = "paid"]
    /\ UNCHANGED <<now, rows, ledger, diary, calendar, answers, mails,
                   requests, sweeper, crashes>>

Tick ==
    /\ now < MaxNow
    /\ now' = now + 1
    /\ UNCHANGED <<rows, ledger, diary, world, requests, sweeper, crashes>>

\* The owner puts a meeting of their own where the calendar shows them free.
OwnerBooks(m) ==
    /\ m \notin meetings
    /\ \A q \in Refs, k \in {"hold", "late"} :
          Overlap(m, SlotOf[q]) => calendar[<<q, k>>] = "absent"
    /\ meetings' = meetings \cup {m}
    /\ UNCHANGED <<now, rows, ledger, conferences, world, requests, sweeper,
                   crashes>>

\* The admin schedules a conference (clashes are reported, not refused) or
\* cancels one.
ScheduleConference(c) ==
    /\ c \notin conferences
    /\ conferences' = conferences \cup {c}
    /\ UNCHANGED <<now, rows, ledger, meetings, world, requests, sweeper,
                   crashes>>

CancelConference(c) ==
    /\ c \in conferences
    /\ conferences' = conferences \ {c}
    /\ UNCHANGED <<now, rows, ledger, meetings, world, requests, sweeper,
                   crashes>>

\* The application process dies: open transactions roll back, requests and
\* background tasks are gone.
Crash ==
    /\ crashes < MaxCrashes
    /\ crashes' = crashes + 1
    /\ creator' = [r \in Refs |-> IdleCreator]
    /\ canceller' = [r \in Refs |-> "idle"]
    /\ notifier' = [h \in Handlers |-> IdleNotifier]
    /\ finalizer' = [r \in Refs |-> IdleTask]
    /\ UNCHANGED <<now, rows, ledger, diary, world, sweeper>>

Next ==
    \/ \E r \in Refs : \/ CreateBooking(r) \/ CancelBooking(r)
                       \/ FinalizePaidBooking(r) \/ Pay(r)
    \/ \E h \in Handlers : Notify(h)
    \/ Sweep
    \/ Tick
    \/ \E m \in Meetings : OwnerBooks(m)
    \/ \E c \in Conferences : ScheduleConference(c) \/ CancelConference(c)
    \/ Crash

Spec == Init /\ [][Next]_vars

----------------------------------------------------------------------------
(***************************************************************************)
(* Fairness.  Open requests and background tasks run to their end, the     *)
(* sweeper process loops for ever, an outage of the calendar ends, so that *)
(* a hold that is there is deleted in the end, and WeChat delivers a       *)
(* notification again until one has been recorded.  Nothing is assumed of  *)
(* releasing a hold that is gone: through the relay it may raise for ever. *)
(***************************************************************************)
Fairness ==
    /\ \A r \in Refs :
          /\ WF_vars(creator[r].pc # "idle" /\ CreateBooking(r))
          /\ WF_vars(canceller[r] # "idle" /\ CancelBooking(r))
          /\ WF_vars(FinalizePaidBooking(r))
          /\ SF_vars(/\ calendar[<<r, "hold">>] # "absent"
                     /\ SweepRelease(r)
                     /\ sweeper'.released # sweeper.released)
          /\ SF_vars(ledger[r] = "none" /\ \E h \in Handlers : NotifyLoad(h, r, "ok"))
    /\ \A h \in Handlers : WF_vars(NotifyRecord(h)) /\ SF_vars(NotifySettle(h))
    /\ WF_vars(Sweep)

FairSpec == Spec /\ Fairness

----------------------------------------------------------------------------
(***************************************************************************)
(* Safety.                                                                 *)
(***************************************************************************)

\* A slot of an event type is never sold to two customers: however holds
\* expire, late payments revive dead rows and requests race, at most one
\* committed row per slot is pending or paid.
SlotSoldOnce ==
    \A q, r \in Refs :
        q # r /\ SameSlot(q, r) => ~(InIndex(q) /\ InIndex(r))

\* No booking is paid without the payment_events row that says why, even
\* when handlers die, transactions fail or two deliveries race.
PaidIsAudited ==
    \A r \in Refs : status[r] = "paid" => ledger[r] = "paid"

\* WeChat stops resending after SUCCESS.  By then the transaction is on
\* record, and unless it was settled WeChat was told of the failure before.
AnsweredIsAudited ==
    \A r \in Refs : "success" \in answers[r] =>
        /\ ledger[r] # "none"
        /\ ledger[r] # "paid" => answers[r] \cap {"fail", "refund_required"} # {}

\* A payment that is recorded as a conflict, for the owner to refund, has no
\* booking: none that was still pending is turned down on a stale read, and
\* none comes back when the slot is free again and the notification repeated.
ConflictIsFinal ==
    \A r \in Refs : ledger[r] = "paid_conflict" => status[r] \in {"expired", "cancelled"}

\* payment_events is append-only: resends, races and later notifications of
\* the same transaction never change what was recorded first.
AuditAppendOnly ==
    [][\A r \in Refs : ledger[r] # "none" => ledger'[r] = ledger[r]]_vars

\* The customer gets one confirmation email at most, only for a settled
\* payment, and a booking marked finalized was mailed.
MailedOnce ==
    \A r \in Refs : /\ mails[r] <= 1
                    /\ mails[r] = 1 => ledger[r] = "paid"
                    /\ finalized[r] => mails[r] = 1

\* An event the owner sees as confirmed belongs to a payment on record, and a
\* hold that no row names was never told to a customer: a crash or a failed
\* task may leave an event behind, but not one that lies about money.
ConfirmedIsPaidFor ==
    \A r \in Refs :
        /\ \A k \in {"hold", "late"} :
              calendar[<<r, k>>] = "confirmed" => ledger[r] = "paid"
        /\ calendar[<<r, "hold">>] # "absent" /\ marker[r] = NoEvent
              => ledger[r] = "none"

\* A booking is in the owner's calendar once at most: the event that a late
\* payment gets when its hold was swept is made only when the hold is gone,
\* whatever the sweeper failed to release, and no hold comes back after it.
OneEventEach ==
    \A r \in Refs : \/ calendar[<<r, "hold">>] = "absent"
                     \/ calendar[<<r, "late">>] = "absent"

\* A pending booking has what its customer was promised: an order that can
\* be or was paid and a tentative event that keeps the owner free, unless a
\* cancellation of it is between the release and the commit.
HoldIsBacked ==
    \A r \in Refs : status[r] = "pending_payment" =>
        /\ order[r] \in {"open", "paid"}
        /\ marker[r] = <<r, "hold">>
        /\ \/ calendar[<<r, "hold">>] = "tentative"
           \/ canceller[r] = "released"

\* An event of ours on the calendar is one that a row still names or that a
\* request in flight is about to name or release.
NoEventLeaks ==
    \A r \in Refs, k \in {"hold", "late"} : calendar[<<r, k>>] # "absent" =>
        \/ marker[r] = <<r, k>>
        \/ k = "hold" /\ creator[r].pc \in {"held", "charged"}
        \/ k = "late" /\ finalizer[r].event = <<r, k>>

\* Expired and cancelled bookings never block a slot, whatever they left in
\* the calendar and whether or not the sweeper runs: a slot that no live
\* booking, meeting, open request or email in flight touches is clear.
StaleHoldsNeverBlock ==
    \A r \in Refs :
        /\ Fresh(r)
        /\ \A q \in Refs : Overlap(SlotOf[q], SlotOf[r]) =>
              /\ ~LiveAt(q, now)
              /\ creator[q].pc = "idle"
              /\ finalizer[q].pc = "idle"
        /\ \A m \in meetings : ~Overlap(m, SlotOf[r])
        => CalendarClear(r, now)

\* The booking of p, not a live hold of another type, has the bounds of q's.
Excuses(p, q, r) ==
    /\ status[p] # "none" /\ Span(SlotOf[p]) = Span(SlotOf[q])
    /\ \/ SlotOf[p].type = SlotOf[r].type
       \/ ~(status[p] = "pending_payment" /\ LiveAt(p, creator[r].moment))

\* "Two 1-1 calls cannot overlap, so it keeps blocking": no request gets past
\* the calendar check while an overlapping call of another type is pending and
\* live, whatever commits between the request's two reads.  Excepted are a call
\* whose cancellation has released its event and one with the bounds of another
\* booking that is dead, was revived by a late payment since it was read, or is
\* of the request's type: bounds are all that the check compares.
LiveCallsBlock ==
    [][\A q, r \in Refs :
        /\ creator[r].pc = "swept" /\ creator'[r].pc = "free"
        /\ SlotOf[q].type # SlotOf[r].type /\ Overlap(SlotOf[q], SlotOf[r])
        /\ status[q] = "pending_payment" /\ LiveAt(q, creator[r].moment)
        => \/ canceller[q] = "released"
           \/ \E p \in Refs \ {q} : Excuses(p, q, r)]_vars

\* The system implements SlotSale: rows in the index own their slots.
Sale == INSTANCE SlotSale WITH
    Nobody <- NoEvent,
    owner <- [s \in Slots |->
                 IF \E r \in Refs : SlotOf[r] = s /\ InIndex(r)
                 THEN CHOOSE r \in Refs : SlotOf[r] = s /\ InIndex(r)
                 ELSE NoEvent],
    verdict <- [r \in Refs |->
                   CASE ledger[r] = "none" -> "none"
                     [] ledger[r] = "paid" -> "paid"
                     [] OTHER              -> "refused"]

\* Every step of the handlers is a step of the sale or leaves it unchanged:
\* row, slot and payment verdict change together or not at all.
ImplementsSale == Sale!Spec

Life(r) == INSTANCE OrderLife WITH
    status <- status[r], expiresAt <- expiresAt[r], paid <- order[r] = "paid"

\* Whoever reads the row of a booking sees an order's life: a deadline that
\* never moves, no lapse before it whatever transaction decides on it, and
\* no settlement without money that came in time.
ImplementsLife ==
    /\ \A r \in Refs \ Strangers : Life(r)!Init
    /\ [][\A r \in Refs \ Strangers : [Life(r)!Next]_(Life(r)!lvars)]_vars

----------------------------------------------------------------------------
(***************************************************************************)
(* Liveness, under FairSpec.                                               *)
(***************************************************************************)

\* The sweeper catches up: the hold of an expired booking leaves the calendar,
\* or a late payment brings the booking back.
HoldsAreReleased ==
    \A r \in Refs :
        status[r] = "expired" /\ marker[r] # NoEvent
            ~> calendar[<<r, "hold">>] = "absent" \/ status[r] # "expired"

\* A payment does not hang: it is recorded, or another booking holds the
\* slot.
PaymentsAreRecorded ==
    \A r \in Refs :
        order[r] = "paid" ~> \/ ledger[r] # "none"
                             \/ \E q \in Refs \ {r} : SameSlot(q, r) /\ InIndex(q)

\* A notification that passes every check leads to the confirmation email,
\* unless another booking holds the slot, the booking is cancelled under it or
\* the task finds that the event named by the row is gone from the calendar.
PaidIsMailed ==
    \A h \in Handlers, r \in Refs :
        notifier[h].pc = "recorded" /\ notifier[h].ref = r ~>
            \/ mails[r] = 1
            \/ \E q \in Refs \ {r} : SameSlot(q, r) /\ InIndex(q)
            \/ status[r] = "cancelled"
            \/ /\ finalizer[r].pc = "loaded" /\ finalizer[r].event # NoEvent
               /\ calendar[finalizer[r].event] = "absent"

----------------------------------------------------------------------------
(***************************************************************************)
(* What the comments and the contract say and the code does not do.        *)
(***************************************************************************)

\* "A verified payment must never be silently dropped": no step turns a paid
\* booking into anything else.
PaidStaysPaid ==
    [][\A r \in Refs : status[r] = "paid" => status'[r] = "paid"]_vars

\* finalized_at marks "calendar confirmed and confirmation email sent": a
\* finalized paid booking is on the calendar once nobody works on it.
FinalizedIsOnCalendar ==
    \A r \in Refs :
        /\ finalized[r] /\ status[r] = "paid"
        /\ canceller[r] = "idle" /\ sweeper.pc = "idle"
        => \E k \in {"hold", "late"} : calendar[<<r, k>>] = "confirmed"

============================================================================
