# A verification of the booking system

The repository sells one-to-one calls and conference seats. A customer picks a
slot, gets a hold on it and a WeChat Pay order, and owns the slot once a verified
payment notification arrives. The code is a FastAPI application over PostgreSQL
(SQLite in tests), a Google calendar reached directly or through a relay, WeChat
Pay, SMTP, and one sweeper process. This directory holds TLA+ models of the parts
that carry money and slots, the TLC runs that check them, and TLAPS proofs.

## Inventory

| part | source | state | operations |
|---|---|---|---|
| booking service | `app/services/booking.py` | `bookings` rows | `create_booking`, `cancel_booking`, `mark_paid`, `honour_late_payment`, `expire_stale_holds` |
| notify handler | `app/routers/payments.py` | `payment_events` rows | `wechat_notify`, `_handle_notification`, `_dispatch_finalize` |
| tasks | `app/tasks.py` | `finalized_at`, `ticket_sent_at`, `calendar_event_id` | `finalize_paid_booking`, `finalize_ticket`, `release_expired_holds` |
| sweeper | `app/services/sweeper.py` | none | `sweep_once` for ever |
| conference service | `app/services/conference.py` | `conference_events`, `conference_seats` rows | `create_event`, `update_event`, `reserve_seat`, `cancel_seat`, `honour_late_seat_payment`, `cancel_event` |
| schema | `app/models.py`, `app/db.py` | indexes | `uq_active_slot`, `uq_live_seat`, unique `transaction_id` |
| availability | `app/services/availability.py` | none | `owned_intervals`, `conference_intervals`, `is_slot_on_grid`, `generate_slots` |
| rate limiter | `app/rate_limit.py` | hit counts per key | `hit`, `_prune`, `client_ip` |
| calendar gateways | `app/ports/calendar.py`, `app/adapters/calendar_*.py` | events | `freebusy`, `create_hold`, `confirm`, `release` |
| calendar relay | `relay/` | none | `POST /events`, `PATCH` and `DELETE /events/{id}`, `require_relay_auth` |
| payment provider | `app/adapters/payments_*.py` | orders | `create_charge`, `close_order`, notifications |
| pages and templates | `app/routers/pages.py`, `app/templates/` | the tab: list, selection, verdict shown, timers, polls | load and select a slot, submit, poll, count down, hide and show, reload |
| Next.js integration | `nextjs-integration/` | the same for the site's own form | the same, through a proxy |
| JSON API | `app/routers/booking.py`, `conferences.py` | none | slots, creation, status, cancellation |
| admin, email, seeding, configuration | the rest | none | input checks, transport |

How they interact. A request handler opens one database transaction and calls the
calendar and WeChat while it is open. Synchronous endpoints run in a thread pool,
so two of them, or one of them and a background task, interleave inside one
process. The notify handler is `async` with a synchronous body, so it is
serialised within a process, but a deployment with several workers or replicas
(README.md mentions both) runs several. Background tasks run after the response,
in the same process, and are lost with it. The sweeper is a process of its own
that shares only the database, the calendar and WeChat. A browser tab knows a row only
by what it reads from time to time; its answers overtake each other.

What is hard, and what makes each part correct:

* *Booking*: read-then-insert against a partial unique index, calls in the middle
  of a transaction, rows flushed by primary key long after they were read, holds
  that lapse by the clock and are flipped only when someone asks for the slot,
  payments that arrive after the hold has died. A slot has one owner; a payment
  has one verdict; both change together.
* *Notify*: repeated and concurrent deliveries, commits that fail after a flush.
  The audit row and the booking change together, nothing recorded is rewritten,
  and SUCCESS is said only about what is on record.
* *Tasks and sweeper*: a task that runs at most once, a sweeper that works from a
  snapshot. One email per booking, no orphaned events, no hold left for ever.
* *Conference*: numbers picked from a read and guarded by an index, retries in a
  savepoint, an admin who changes the capacity or cancels everything meanwhile.
* *Availability*: two pieces of code compute what is free, over different windows,
  for rules that need not be aligned and in a time zone whose clocks may change. What
  the page offers is accepted, disjoint, keeps the buffers, and hides nothing.
* *Calendar gateways and relay*: a call may fail before or after its effect, a request
  may be carried out after its caller has given up, releases are repeated, and the two
  ends compare clocks. Nothing a call that has returned did is undone or done again,
  and what is released comes down.
* *Rate limiter*: a window edge, a table pruned under a lock, and a clock read before
  the lock is taken. `Retry-After` can be relied on, bursts are bounded, and a caller
  is refused for its own requests only.
* *Pages and the site*: answers are applied as they come in, timers are started and
  stopped from several places, the browser's clock is its own. What is sent is what was
  chosen, what is shown was true at some time, and a payment reaches the screen.

## Modules

| module | what it is |
|---|---|
| `Booking` | one-to-one bookings: every handler, the sweeper, the environment |
| `SlotSale` | what `Booking` promises about slots and payments, without mechanism |
| `MCBooking` | values of `Booking`'s constants for TLC |
| `BookingProofs` | theorems about `Booking`: types, one owner per slot, audit, mail |
| `BookingRefinement` | the proofs that `Booking` implements `OrderLife` and `SlotSale` |
| `BookingCalendarProofs` | theorems about what `Booking` leaves in the calendar |
| `Conference` | the seats of one conference and the admin operations on it |
| `SeatSale` | what `Conference` promises about numbers, payments and refunds, without mechanism |
| `MCConference` | values of `Conference`'s constants for TLC |
| `ConferenceProofs` | theorems about `Conference`, with the proofs that it implements `OrderLife` and `SeatSale` |
| `OrderLife` | what the reader of one booking or one seat sees of it; implemented by `Booking` and `Conference` for each of theirs, the environment of `Browser` |
| `StatusPage` | the payment page of one order in one tab, served and scripted |
| `BookingFlow` | the form before it: the service's page, the site's, the conference's |
| `Browser` | both in one tab, and the order they share |
| `MCBrowser` | values of `Browser`'s constants for TLC |
| `BrowserProofs` | theorems about `Browser` for TLAPS |
| `CalendarPort` | what a calendar gateway promises, whatever lies behind it |
| `Relay` | the calendar behind the relay or reached directly, with what is on its way |
| `MCRelay` | values of `Relay`'s constants for TLC |
| `RelayProofs` | theorems about `Relay` for TLAPS |
| `Grid` | the slot grid and the checks of `create_booking`, with time as numbers |
| `MCGrid` | values of `Grid`'s constants for TLC |
| `GridProofs` | theorems about `Grid` for TLAPS |
| `RateLimit` | one limiter, its threads and the proxies before it |
| `MCRateLimit` | values of `RateLimit`'s constants for TLC |
| `RateLimitProofs` | theorems about `RateLimit` for TLAPS |

### From code to actions

A handler is cut where another actor can come in: at a network call, and between
reading a row and writing it. What runs between two such points is one action.
`pc` fields say how far a request has got; other fields are its local variables.

| code | actions of `Booking` |
|---|---|
| `create_booking` steps 1-3a, and the database read of 3b | `CreateSweep` |
| the `freebusy` call of 3b | `CreateFreebusy` |
| 3c | `CreateConferences` |
| 4 | `CreateInsert` |
| 5 | `CreateHold` |
| 6 and the `except` clause | `CreateCharge`, `Unwind` |
| 7 | `CreateCommit` |
| `cancel_booking` | `CancelLoad`, `CancelRelease`, `CancelCommit` |
| `_find_order`; replay guard, audit row, checks; settlement and commit | `NotifyLoad`; `NotifyRecord`; `NotifySettle` |
| `_finalize_paid_booking` | `FinalizeLoad`, `FinalizeCalendar`, `FinalizeMail`, `FinalizeCommit` |
| `release_expired_holds` in the sweeper's loop | `SweepSelect`, `SweepRelease`, `SweepCommit`, `SweepAbort` |

In `Conference`, `reserve_seat` is `ReserveSweep`, `ReservePick`, `ReserveInsert`
(the savepoint, with its retries) and `ReserveCommit`; `update_event` is
`UpdateCheck` and `UpdateCommit`; `cancel_event` is `CloseLoad` and `CloseCommit`.

In `Grid`, `local_date_bounds`, `effective_step_minutes`, `_rule_grid`,
`is_slot_on_grid`, `owned_intervals`, `conference_intervals` and `generate_slots` are
the operators of the corresponding names, and steps 2 to 3c of `create_booking` are
`Accepts`. The actions only make the states these functions are evaluated in:
`Booking` has the interleavings of the same handlers, so here each is one step.

In `Relay`, `Send` is `_request` up to the wire, `Receive` is `_check` with the return
to the caller, `GiveUp` is `httpx.HTTPError` (a timeout, a lost connection), `Admit` and
`Reject` are `require_relay_auth`, and `Execute` is an endpoint of the relay, or a call
of the Google client, with Google's answer; `Statuses` is what Google may answer,
`RelayAnswer` and `RelayReturns` what becomes of it on the two hops of the relay,
`GoogleReturns` what the direct gateway makes of it. `Booking` uses the calendar as
`CalendarPort` describes it: a call that returns has taken effect, one that raises may
have.

In `RateLimit`, `Arrive` is a request up to the reading of the clock in `hit`
(`rate_limit.py:91`) and `Hit` is what happens under the lock, with the answer.

| code | actions of `Browser` |
|---|---|
| `loadSlots` of `booking.html` and `booking-flow.tsx`, `list_slots` | `LoadSlots`, `LoadArrives`, `Listed` |
| a change of the type or the date; a click on a slot | `Choose`; `Select` |
| `submit` of the three forms, up to the request | `Submit` |
| `create_booking` and `reserve_seat` of the API, the proxy of the site | `PostAnswered`, `CreateOrder`, `Refusals` |
| the rest of `submit` | `Refused` with `PageReloads` and `SiteReloads`; `Accepted` in `LeaveFlow` |
| `booking_status_page`, `ticket_page` | `PageState`, `Render`, `Rendered` |
| the script of `book_status.html` and `ticket.html` from its start | `Start`, `Poll`, `PollArrive`, `Countdown`, `Hide`, `Reveal` |
| `get_booking`, `get_seat` of the API | `PollRead`, `Verdict` |

State. `status`, `expiresAt`, `marker` (`calendar_event_id`) and `finalized` are
the committed rows; a row that a transaction has written and not committed lives
in the `pc` of that transaction. `ledger` is `payment_events`, with the
transaction identified with the order it pays. `answers` is what WeChat has been
told; `"refund_required"` is the FAIL answer of a conflict, kept apart from the
other FAILs because a property speaks of it. `calendar`, `order` and `mails` are
the outside world.

### The database

PostgreSQL at READ COMMITTED, which is what the code asks for.

* A read sees committed rows. A SQLAlchemy object keeps what it read; a flush
  writes the changed attributes `WHERE id = ...` whatever the row holds by then.
* An UPDATE waits for a row that another open transaction has updated: rows an
  open `create_booking` has flipped to expired are `Locked`.
* An INSERT, or an UPDATE into the index, waits for an equal key another open
  transaction has inserted (`SlotInserting`, `InsertedBySomeone`) and fails if
  that one commits. The index guard is `IndexAllows`.
* A reservation inserts a seat under `FOR KEY SHARE` on the conference row, which
  an UPDATE of `capacity` or `cancelled_at` does not conflict with, so reservations
  and the admin's changes do not exclude each other.

### Abstractions

* Names, amounts, descriptions, signatures and message formats are left out. A
  notification is `ok`, `bad_amount` or `bad_state`. The last two differ in the outcome
  that is recorded and in nothing else, so the runs use one of them; the theorems are
  about any `Kinds`.
* The slots of the model are on the grid; step 2 of `create_booking` is not a
  guard. Steps 1 to 3a and the query of `owned_intervals` are one step: what another
  actor commits between these queries it may as well commit before or after them, since
  only the last one's answer outlives the step.
* `freebusy` lists every event by itself, as `FakeCalendarGateway` does.
  `owned_intervals` compares bounds, so a provider that merges intervals would
  make dead holds block; that depends on the provider and is not modelled.
* `create_booking` drops the sweep when it is refused, because the session is
  closed without a commit.
* `mark_paid`'s no-op on a paid row and the `not_paid` branch of the handler need
  a settled row without its audit row; `PaidIsAudited` shows there is none.
* Seats: `create_charge` and the commit are one step, since nobody can observe
  what lies between. `active`, `join_url` and `starts_at` only open and close the
  sale, and a reservation may be made or not at any time. `bad_amount` and
  `bad_state` are dealt with by the lines `Booking` models already.
* A failed call may still have had its effect.
* `Grid`: a time zone is one change of the clocks by some shift; local times that are
  skipped or shown twice are read with `fold = 0`, as `datetime.combine` and
  `astimezone` do. An event of the calendar is named by the row that created it. The
  payment of a lapsed booking is `HonourPayment`, whether it is refused or not being
  the guard; the calls that fail leave the event, as in `CancelBooking`.
* `Relay`: `freebusy` changes nothing and is in `Booking` and `Grid` as what it answers.
  An event is one of `Refs`, whose id is known once its creation has returned; what a
  lost answer leaves in the calendar is an event of `Refs` that nobody can name. The
  booking's summary and the times are left out, and so is the signature, which the
  model takes to be right. Google does not bring an event back that is gone.
* `RateLimit`: the scope in front of the key is left out, so the model is one of the
  application's three limiters. Seconds of `Retry-After` are several ticks, so that
  rounding up is not the identity. `log` is for the properties.
* `Browser`: a slot is known by the choice (type and date) whose list it was in. An
  order that is made but whose page is never loaded, because the answer was lost or the
  customer went on, is not followed. What a poll reads is the stored status; the
  deadline it also reads never moves, as `OrderLife` promises and both implementations
  are checked for. Both timers are one flag, since they are started and stopped
  together. `skew` is the browser's clock minus the server's. The row may change as
  `OrderLife` allows, a cancellation of any row included. An unset `payBase` of the site,
  which leaves the customer without a payment page, is a configuration error and left out.
* `release_booking_hold` and the Celery tasks are not called by any code here.

## Runs

| run | instance | shows |
|---|---|---|
| `Booking` | 2 requests for one slot, a stranger's payment, 2 notify handlers, clock 0-2, WeChat fails | `AnsweredIsAudited`, `HoldIsBacked`, `NoEventLeaks`, refinements of `SlotSale` and of `OrderLife` |
| `BookingFaults` | the 2 requests and 1 handler, a conference, every fault, 1 crash, wrong amounts | `TypeOK`, `SlotSoldOnce`, `PaidIsAudited`, `ConflictIsFinal`, `MailedOnce`, `ConfirmedIsPaidFor`, `OneEventEach` |
| `BookingTwoTypes` | 2 requests for a call, 1 for a longer review that overlaps it, a meeting, clock 0-1 | `StaleHoldsNeverBlock`, `LiveCallsBlock` |
| `BookingLive` | 2 requests, releases fail, `FairSpec` | `HoldsAreReleased`, `PaymentsAreRecorded`, `PaidIsMailed` |
| `Conference` | 3 buyers, capacity 1 or 2, faults, 1 crash | `SeatSoldOnce`, `NeverOverPeak`, `PaidSeatIsAudited`, `RefundedIsClosed`, refinements of `OrderLife` and of `SeatSale` |
| `Grid` | 2 event types, 4 rules, 2 bookings, 2 meetings, a conference, 3 time zones, days of 12 ticks | `OfferedIsAccepted`, `OfferedIsDisjoint`, `BuffersKept`, `OfferedIsMaximal` |
| `Relay` | 1 event, 2 threads, both deployments, clocks 1 apart in either direction, `FairSpec` | `TypeOK`, refinement of `CalendarPort`, `HoldsComeDown`, `DirectReleasesEnd` |
| `RateLimit` | 2 threads, 6 requests of one caller and 1 of another, limit 2, window of 4 ticks, 2 ticks a second, 1 proxy | `TypeOK`, `RetryIsHonest`, `BurstBounded`, `RefusedForCause` |
| `Browser` | 3 forms, 2 choices, 2 polls in flight, clock 0-2, a browser a tick behind, right or a tick ahead, `FairSpec` | `ChoiceIsKept`, `ShownIsTrue`, `TicketVerdictStands`, `PageComesRight` |

Bounds. In `Booking` and `Conference`, `MaxNow` and `MaxCrashes` bound the clock and
the restarts; nothing else is capped. Two requests are enough for every race about one
slot, which is always between a holder and one challenger.
A hold lasts one tick, so with two ticks a hold lapses, is swept by a rival, and the
rival's lapses too. In `BookingTwoTypes` all three requests are the application's own and
one tick is enough: one call lapses, the other expires it, is let go or holds the slot, the
sweeper has or has not been there, and the review looks at the database before, between
or after any of this and at the calendar later. In `Conference` there are three buyers
for at most two numbers, so that a sale above the peak is a state that a wrong guard
reaches, with the capacity lowered under reservations in flight and under live seats.
The constraint `ThirdComesLast` bounds the third: it comes after the other two, while
nothing has crashed, no ticket is mailed and the conference is on, and beside one other
request at most; the first two do everything. `MaxAttempts` is the code's 8.
Deadlock checking is off because a system with all requests served and the clock at its
bound has nothing left to do.

In `Relay`, `MaxClock` bounds the clock, and nothing bounds the calls: with one tick a
request may be just fresh enough or just stale at either skew. Events do not meet, so
one is enough; two threads let a release overtake a confirmation that was given up, and
two releases meet. Deadlock checking is off, since an event that is released and told so
leaves nothing to do.

In `Grid`, `MaxNow` bounds the clock and `MaxBookings` the rows. The day of 12 ticks
holds two rules whose starts are one tick apart, a rule at midnight with a meeting
just before it, and a change of the clocks in the middle; two rows give every pair of
live, dead and released bookings of equal and of different types. In `RateLimit`,
`MaxClock`, `MaxHits` and `MaxWait` bound the clock, the requests and the time a thread
waits for the lock. Six requests are three times the limit, which a burst over a window
edge plus a refusal need; `PruneAt` is 2, so that the table is pruned. `MaxWait` is no
promise of the code: the bounds that the properties state contain it.

In `Browser`, `MaxNow` bounds the clock, `MaxPolls` the polls in flight and `MaxLoads` the
lists being loaded for one choice. Two polls are enough for one to overtake the other,
two choices for a list of one to come in while the other is chosen. The hold is one
tick, so its deadline passes, on either clock first, while the page is open, loading,
rendered or hidden. Deadlock checking is off: a customer may stop.

`HoldIsBacked` and `NoEventLeaks` are checked with WeChat failures only: with a crash
between `create_hold` and the commit, or an email failure after a late event was created,
the code does leave an event behind that no row names. The theorems about them say which
faults they need to leave out.

Fairness (`FairSpec`). Weak fairness for requests already open and for background
tasks, which the server runs to their end; for the sweeper, which loops for ever;
strong fairness for the release of a hold that is in the calendar (an outage ends), for a
delivery while nothing is recorded (WeChat repeats it) and for a settlement that
others' locks disable now and then. There is no fairness on new requests, on
payments, on cancellations, or on the clock, and none on the release of a hold that is
gone: Google answers it with 410, for which the relay says 502 each time. So
`HoldsAreReleased` promises that the hold leaves the calendar, not that the marker is
cleared. `PaidIsMailed` starts where a notification has passed every check, and excepts
what stops it for good: the slot is another's, the booking is cancelled meanwhile, or the
task finds that the event it has to confirm is gone, since that confirmation may raise
and nothing repeats it.

In `Relay`, every call ends (`httpx` has a timeout), the sweeper calls `release` again
until it returns (`tasks.py:98-105`, `sweeper.py`), and of the calls that are repeated
without end some get through, are carried out and are answered before they time out:
strong fairness, for the calls of `release` only. `HoldsComeDown` of this run is what
`BookingLive` assumes of a hold that is there; that its release also returns is
`DirectReleasesEnd`, of the direct gateway only.

In `Browser`, a visible or just loaded page has its timers (`setInterval`), the server
renders what it is asked for (weak fairness), a page that is being loaded starts at last
although the page it replaces may ask for it again (a ticket's polls do, every three
seconds), and of the polls, which are repeated without end, some get through and are
answered (strong fairness: the scripts' own comment is "transient — keep polling").
Nothing is assumed of the customer or of the order.

The type invariants of `Conference`, `Grid` and `Browser`, and `AuditAppendOnly` and
`TicketedOnce`, are theorems and in no run any more. TLC checks the last two only through
the refinements: `SlotSale` gives a payment one verdict, `SeatSale` a payer one ticket.

Every property has a mutant in `PROJECT.json`: a variant of one definition with a
plausible bug (`IndexPaidOnly`, `SettleThenAudit`, `UnwindKeepsHold` and so on,
commented as faulty variants in the modules) under which TLC finds the property
violated.

## What the code does not do

Three runs check what a comment or the contract says and find the code doing
something else.

| run | statement | what happens |
|---|---|---|
| `PaidLost` | a verified payment is never silently dropped | `cancel_booking` read the row as pending, the payment settles, the cancellation's commit overwrites it |
| `LostEvent` | `finalized_at` means the calendar is confirmed | the sweeper reads a booking as expired; its late payment is settled, its hold confirmed, the customer mailed and `finalized_at` set; the sweeper then deletes the confirmed event and clears the marker |
| `SoldOver` | two 1-1 calls cannot overlap | a booking is let go, an overlapping start of another rule or type is sold, and the late payment of the first is honoured, since only equal starts of one type are compared |

Seen while modelling, and not the subject of a run:

* Google answers the DELETE of a deleted event with 410. The relay takes only 404 for a
  missing event (`relay/google.py:35-39`) and says 502, so a release whose first answer
  was lost, or of an event the owner has deleted, is repeated by the sweeper for ever,
  while `calendar_relay.py:9-10` says that a repeated release is no error. The direct
  gateway takes both; `DirectReleasesEnd` says so, and without its premise TLC finds the
  endless repetition.
* A booking shown as paid may turn into "预约已失效" before the customer's eyes. On a page
  that was rendered pending, hiding and showing the tab starts the timers again whatever
  the page shows by then (`book_status.html:195-198`), and at the deadline `tick`, which
  looks at the clock only, closes it (`:157-161`); an older answer to a poll, or one
  that a cancellation follows, does the same. `TicketVerdictStands` says that a ticket's
  page is safe from this, because a page rendered as paid has no script.
* A page that the countdown has closed no longer polls: a payment that settles later is
  seen only when the tab is hidden and shown, or reloaded.
* `renderSlots` and `setSlots` show whichever list came in last. With two loads under way
  the screen may show the slots of a date that is no longer chosen, and the booking is
  made for what was clicked. One load is enough on the service's page: clearing the date
  (`booking.html:299`) makes `loadSlots` return early (`:223`) and leaves the list that
  is on its way, which is then shown without a date and can be sent. `ChoiceIsKept`
  says that a form that is left alone while a list is on its way shows no wrong list.
* On the site, the 409 branch awaits the `loadSlots` of the render in which the form was
  submitted (`booking-flow.tsx:131`); a date chosen during the submission stays selected
  above the list of the old one. The call also clears the message that was just set
  (`:75`, `:130`), so the customer never reads that the slot has gone.
* Nothing leads to the site's `book/confirmed` page, "the page the payment page sends the
  customer back to" by its own comment.
* `pages.py:276-278` says that every seat on a cancelled event is closed, a paid one
  too. A seat paid late on a cancelled event stays `paid`, and its page shows the link.
* `owned_intervals` (`availability.py:109-116`) returns bounds. A cancelled booking
  keeps its `calendar_event_id`, so its bounds stay in the set and hide a live hold of
  another event type with the same bounds, which the contract (line 702) says keeps
  blocking. An expired one does the same until it is swept, and even after: the set is
  read before the calendar is asked (`booking.py:223-224`), so if the sweeper clears the
  marker and a customer takes the slot between the two, the new hold is ignored for the
  old row's sake. `LiveCallsBlock` states the rule with these exceptions, and is false
  without them.
* A cancelled booking also keeps the id of an event that has been deleted. Its order
  stays open: if the customer has paid it or still does, the late payment revives it, and
  `finalize_paid_booking` confirms the deleted event (`tasks.py:180-183`). Google
  answers 410, which the direct gateway and the relay (which takes 404 only) turn into
  an error: the booking stays paid, without an event, mail or `finalized_at`. The same
  happens when the sweeper deletes the hold between the task's read and its call.
* When the flush of a revival loses the race for the slot, the rollback in
  `honour_late_payment` (`booking.py:425`) also discards the handler's audit row, so a
  conflict leaves no `paid_conflict` row, which the contract (lines 691-692) promises.
  In `Booking` this is the failing disjunct of `NotifySettle`. The log asks for a refund,
  and if WeChat repeats the notification after the slot has become free again, the same
  payment is settled after all. `ConflictIsFinal` is about the conflicts on record.
* `cancel_event` updates its rows one after the other, while `CloseCommit` waits for all
  of them at once. A reservation that has swept one of the rows and inserts the number of
  another, which a late payment has just revived, may wait for `cancel_event` and be waited for. PostgreSQL then aborts one of the
  two, which in the model is a failing commit; the ring itself is not modelled.
* `cancel_event` says that it returns the seats that had been paid for
  (`conference.py:628`). A seat that settles between its read and its commit is
  closed unnamed, and one whose reservation commits after `cancel_event` is paid for
  later without being named either.
* When the answer of `create_hold` is lost, the event stays in the calendar and no row
  has its id: nothing releases it, and its slot stays busy.
* `freebusy` of Google reports a calendar it cannot read under `errors`, with an empty
  or missing `busy`; both `relay/google.py:93-96` and the direct gateway read this as
  free.
* `finalize_paid_booking` swallows a failing email (`tasks.py:155`); a replayed
  notification answers SUCCESS without dispatching, and nothing looks for paid rows
  without `finalized_at`. `tasks.py:163-164` says the work is retried.
* A reservation that read the old capacity commits above a capacity lowered meanwhile.
  `update_event` counts seats rather than numbers: with number 2 of 2 sold and number 1
  lapsed it lowers the capacity to 1, and the next customer gets number 1. So the comment
  at `models.py:343-345` holds for a capacity that is not lowered. `NeverOverPeak` states
  what remains.
* `cancel_seat` overwrites a seat that was paid after it was read, as `cancel_booking`
  does in `PaidLost`.
* `rate_limit.py:103-104` says `Retry-After` never exceeds the window. A thread that
  read the clock before the one that opened the window is told more, by its wait;
  `TypeOK` of `RateLimit` bounds it.
* Where the clocks go forward across midnight (`America/Nuuk` skips from 23:00 to 24:00 on
  2026-03-28), a rule that reaches into the skipped hour makes `_rule_grid` and
  `generate_slots` read a start of that hour as an instant of the next day. It is offered
  on the page of the old day, whose window ends where it begins
  (`availability.py:170-182`, `:302-312`), so that a booking there goes unseen, while
  `is_slot_on_grid` takes its date from the instant (`:197-201`) and refuses it. "A start
  the grid offers is always a start the booking path accepts" (`:136-137`) does not hold
  there. TLC finds it with one rule of the old day that covers the hour, one of the next
  day that does not, and such a zone; `ButtonsWork` proves it everywhere else.
* A slot that spans a change of the clocks forward ends after the end of its rule on the
  local clock, since the rule is checked on local starts and durations.

## Proofs

`BookingProofs` proves, for all constants that satisfy `BookingAssumption`:

* `TypeCorrect`: `Spec => []TypeOK`, one lemma per handler.
* `SlotsAreSoldOnce`: `[]SlotSoldOnce`. The invariant is not inductive: a committing
  request must know that the index still lets its row in. `SlotInv` adds
  `InsertGuarded` (a transaction that has inserted still passes the index, given the
  rows it has expired) and `OneInserter` (at most one open insert per slot). `Locked`
  rows and `SlotInserting` are what preserve them against payments that settle.
* `PaymentsAreAudited` and `LedgerIsAppendOnly`: `AuditInv` adds that a handler past
  the replay guard has a transaction that is not recorded (`RecordedIsNew`) and that
  it is the only one with it (`OneRecorder`).
* `SuccessIsAudited`: `AnswerInv` adds that a recorded refusal was told to WeChat.
* `CustomersAreMailedOnce`: `MailInv` adds that a task in flight belongs to a settled
  payment and has not mailed yet (`DispatchedOnce`); the replay guard keeps a second
  task from being dispatched.

`BookingRefinement` goes on from there, under the same assumptions:

* `WritersAreUpToDate`: `[]LifeInv`, that whoever is about to write a row still knows
  the truth about it. A row being created has not been seen, so neither cancelled nor
  paid for (`CreatedUnseen`); a row that an open transaction has swept is still pending
  and past its deadline (`SweptIsStale`), because the lock of the sweep keeps payments
  and cancellations away from it and no second transaction sweeps it (`SweptOnce`); a
  notification is about money that came in, and is settled on an existing row only
  (`NotifiedIsPaid`); a cancellation is of an existing row (`CancelledExists`). The five
  need each other to be inductive.
* `BookingsLiveAsOrders`: `Spec => ImplementsLife`. `LifeStep` maps `CreateCommit` to
  `Create` for its own row and to `Lapse` for the rows it swept, `CancelCommit` to
  `Cancel`, `NotifySettle` to `Settle`, `Pay` and `Tick` to themselves and all else to a
  stutter.
* `BookingImplementsSale`: `Spec => ImplementsSale`. The owner of a slot in `SlotSale` is
  computed from the rows by `CHOOSE`, so each step lemma first shows which row the choice
  falls on (`OwnerIs`, `OwnerIsNext`), which `SlotSoldOnce` makes unique. `SaleInv` adds
  that what is on the ledger was paid (`AuditedIsPaid`), that a pending row has no
  payment on record (`PendingIsUnsettled`), and that a request sweeps its own slot only
  (`SweptOfSlot`). A commit that sweeps and inserts is one change of hands.
* `ConflictsAreFinal`: `[]ConflictIsFinal`. A notification decides on the status it has
  loaded. `SeenDead` is what keeps the decision right: as long as the payment is not on
  record, a booking that was found dead is dead, since only a settlement, which puts the
  payment on record, could bring it back (`DeadStays`). It also holds of a payment that is
  repeated, because the conflict on record stops it at the replay guard.

`BookingCalendarProofs` proves what stays in the calendar. `BookingInv` is the conjunction
of all the invariants above and `CalendarInv`, and `BookingIsConsistent` its theorem. The
conjuncts of `CalendarInv` hold under every fault: a row and a task name only events of
their own (`OwnEvents`), a settled row stays settled (`SettledRow`), a row without a
marker has no hold in the calendar (`MarkedOrGone`), the sweeper's snapshot is of dead
rows that still have their markers (`SweptRows`), a request that is past `create_hold`
still has its event (`HeldIsTentative`), and a pending row names its hold
(`PendingIsNamed`). From it follow

* `ConfirmedEventsArePaidFor`: `[]ConfirmedIsPaidFor`, under every fault and any number
  of crashes.
* `PendingBookingsAreBacked`: `[]HoldIsBacked`, if no process is killed and neither a
  `release` nor a commit fails. Each of the three breaks it: `cancel_booking` releases the
  event before it commits.
* `EventsAreNamed` and `DeadHoldsFreeTheirSlots`: `[]NoEventLeaks` and
  `[]StaleHoldsNeverBlock`, if only WeChat fails. Each excluded fault leaves an event
  that nobody knows of; a failing `release` does so together with a WeChat failure, the
  others alone. The assumption is one on a constant, which the configurations of the runs
  `Booking` and `BookingTwoTypes` satisfy, and the system moves under it as the run shows.
* `OneEventPerBooking`: `[]OneEventEach`, under every fault and any number of crashes.
  `LateForHold` adds that a late event is of a booking that exists, and stands for a hold
  that is gone. A task makes the late event only for a row without a marker, whose hold
  is gone by `MarkedOrGone`, and nobody makes a hold for a row that exists.
* `LiveCallsKeepBlocking`: `LiveCallsBlock`, under the assumption of
  `PendingBookingsAreBacked`. A pending call is busy time because it is backed
  (`PendingIsBusy`); it is ignored only if another row with its bounds is, or its event
  has been released by a cancellation that has not committed yet. The two reads are
  steps apart, so the invariant `OwnedIsIgnorable` says what an old answer still means:
  every interval a request remembers is the bounds of a row that exists and is dead, as
  seen from the request's moment, or of its own type. `IgnorableStays` shows that
  nothing takes this away: a dead row may be revived by a late payment, which the
  exception allows for, but it never becomes pending again.

`ConferenceProofs` proves, for all constants that satisfy `ConferenceAssumption`, so for
any number of buyers, every capacity, fault and number of crashes:

* `TypeCorrect`, `SeatWritersAreUpToDate` (the `LifeInv` of seats, which also knows that
  `cancel_event` closes existing rows only) and `SeatsLiveAsOrders`: `Spec =>
  ImplementsLife`, so that the environment `Browser` is checked in is the one that the
  seats and the bookings provide.
* `NumberSoldOnce`: `[]SeatSoldOnce`, with `InsertGuarded` and `OneInserter` as for slots.
  The lemma `PickIsFree` is about the number a reservation picks.
* `SeatsWithinCapacity`: `[]NeverOverPeak`. A count is not inductive; `RangeInv` is: the
  number of a row, or of one in flight, lies in `1 .. peak`. With distinct numbers,
  `NumbersBoundRows` bounds the rows.
* `PaymentsAreOnRecord`, `PaidSeatsAudited`: `[]AuditInv`, with a clause for the list of
  refunds that `cancel_event` has read.
* `OneTicketEach`: `[]TicketedOnce`, from `MailInv`: a queued task belongs to a payment
  on record that has not been mailed about.
* `ConferenceImplementsSale`: `Spec => ImplementsSale`, the refinement of `SeatSale`. Its
  holders are the rows in the index, its verdicts the ledger, its numbers `seatNo`, what it
  offers `peak`. `ReserveCommit` is `Hold`, with the rows it sweeps as those who leave;
  `CancelCommit` is `Drop`, `NotifySettle` `Settle`, a recorded refusal `Refuse`,
  `TicketMail` `Mail`, `CloseCommit` `Close`, and a capacity above `peak` `Enlarge`; a
  failing commit is a stutter. All the invariants above are needed: `InsertGuarded` for
  the number of a newcomer, `SweptIsStale` for those who leave, `RangeInv` for what is
  offered, `AuditInv` for verdicts and refunds, `MailInv` for tickets. Two are new.
  `UnsettledInv`: a seat that does not exist yet has no number and no verdict, a pending
  one has not been settled, and `cancel_event` names as paid only what it closes.
  `SeenDead`, as for bookings, so that no holder is refused.
* `RefundsAreFinal`: `[]RefundedIsClosed`. It is inductive together with them: whoever is
  named has his payment on record, so no settlement of it is under way or will be.

The frame lemmas (`StatusFrame`, `LedgerFrame`, `MailFrame` and others) reduce each
induction to the few actions that touch the variables in question. TLC checked
the strengthened invariants on small instances before they were proved.

`RateLimitProofs` proves, for all constants that satisfy `RateLimitAssumption`, so for
any number of threads, callers, headers and proxies:

* `LimiterIsTyped`: `[]TypeOK`. It needs `Fresh` (no thread waits longer than
  `MaxWait`) and `WindowsHaveBegun` (no window starts in the future), which together
  bound how far a window may start after the reading of a thread.
* `WaitingPaysOff`: `[]RetryIsHonest`, from `LastRefusalCovers`: the window of a caller
  whose last answer was a refusal ends no later than that answer said. The lemmas
  `CeilCovers` and `CeilMonotone` are about the rounding, and `CallerIsIdentified`
  shows that the key is the caller's address whatever header it sends.
* `RefusalsHaveCause`: `[]RefusedForCause`, from `CountIsHonest`: the count of a window
  is at most the number of answers its caller got since the window was opened.
* `BurstsAreBounded`: `[]BurstBounded`. What a later hit needs to know of the past is kept
  by `WindowsFollow`: if more answers than the present window has used up let the caller in
  since its `i`-th, that one came before the window or within `MaxWait` of its start, and
  if a whole limit more, a window ago; `ForgottenHadTheirWindow` says it of a caller
  whose window was pruned. `AdmissionsGrow` counts, `OneWindowAtATime` says that a window
  is opened only when the last is over.

`RelayProofs` proves, for all constants that satisfy `RelayAssumption`, so for any
number of threads and events, any skew and both deployments:

* `RelayIsTyped`: `[]TypeOK`, with the clause that a request on its way belongs to the
  call its thread is waiting in, so that no answer reaches a later call.
* `RelayImplementsPort`: `Spec => ImplementsPort`. A step of `Relay` need not be one of
  `CalendarPort` from every state that is well typed. The invariant `Inv` adds that a
  creation is the only request for its event, which does not exist yet (`CreatedOnce`),
  so that a late one can neither revive an event nor make a second; that an answer
  which lets a call return is true (`AnswersAreTrue`) and stays so, because events only
  move forward (`EffectMovesOn`), until the caller has it (`ToldIsTrue`).
  `StepsOfThePort` then maps `Receive` to `Return`, `Execute` to `Create`, `Confirm` or
  `Delete` or a stutter, and `OwnerDeletes` to `Delete`.

`GridProofs` proves, for all constants that satisfy `GridAssumption`, so for all sets of
rules, types, zones and rows:

* `TypeCorrect`: `[]TypeOK`.
* `ButtonsAreDistinct` and `NothingIsHidden`: `[]OfferedIsDisjoint` and
  `[]OfferedIsMaximal`. They are about what the loop of `generate_slots` leaves of a set
  of candidates, a recursive function on sets. `Left` characterises the result without
  recursion, `LeftIsUnique` and `LoopLeaves` show that the loop computes it. Where this
  would be an induction over sets, the proofs take a smallest counterexample
  (`MinimalSet`, from the well-foundedness of strict inclusion) and the earliest instant
  in which two results differ (`Earliest`).
* `ButtonsWork`: `ClocksSkipByDay => (Spec => []OfferedIsAccepted)`. `CandidateClock` shows
  that the clock a rule offers is the one `is_slot_on_grid` reads back, `SlotInDay` that the
  window of the page covers the slot. The hypothesis is about the zones: no midnight
  falls into the time that is skipped or so shortly after that a slot, or the skipped
  time once more, does not fit before it. It holds where the clocks change at two in the
  morning, and without any change, and fails for the zones described above, for which
  the statement is false.
* `BuffersAreKept`: `SmallChanges => (Spec => []BuffersKept)`, with the wider window of
  `generate_slots`, if the clocks go forward by no more than a slot and a step together:
  an hour, for calls of half an hour offered every half hour.
  The zones of the run `Grid` satisfy both hypotheses.

`BrowserProofs` proves, for all constants that satisfy `BookingFlowAssumption` and
`StatusPageAssumption`, so for any number of choices, lists and polls, and a
clock of the browser that is any number of ticks off:

* `TabIsConsistent` and `TypeCorrect`: `[]TabInv` and `[]TypeOK`. What a poll or a page load
  carries was true when it was read (`AnswersWereTrue`), what the row is now is part of its
  past (`RowsArePast`), a tab with an order has left the form (`OrderComesFirst`,
  `FormIsOpen`), and a page rendered as a paid ticket has no timers and no polls
  (`PaidTicketsAreStill`).
* `PageTellsTheTruth`: `[]ShownIsTrue`; a truth about the past stays one, so answers may
  come in any order.
* `FormSendsItsChoice`: `[]ChoiceIsKept`, from `ChoiceInv`: a submission that nothing was
  chosen during is of the present choice, and so is a list under way where the property
  speaks; on the site, whose dates are buttons, there always is a choice.
* `PaidTicketsStand`: `Spec => TicketVerdictStands`.

Only model-checked: liveness (`HoldsAreReleased`, `PaymentsAreRecorded`, `PaidIsMailed`,
`HoldsComeDown`, `DirectReleasesEnd`, `PageComesRight`), which the prover does not treat.
Every other invariant and action
property and every refinement of a passing run is a theorem; those about the calendar, the
offered slots and their buffers under the hypotheses named above.

## Plan

1. Done: `Booking`, `SlotSale`, `Conference`, `SeatSale`, `Grid`, `RateLimit`, `Relay`,
   `CalendarPort`, `OrderLife`, `StatusPage`, `BookingFlow`, `Browser`, their runs, the
   theorems above.
2. Left: `cancel_event` and the sweep of a reservation with one step per row, for the
   ring described above, and a property that says who waits for whom.

Not modelled, and not planned: the transport of email, configuration, wiring and
seeding (no state that changes while the system runs), the lists and not-found pages and
all wording, input validation by the schemas, signatures and encryption of the relay and
of WeChat (cryptographic I/O).
