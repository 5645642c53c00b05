---------------------------- MODULE Conference ----------------------------
(***************************************************************************)
(* The seats of one conference: app/services/conference.py, with the part  *)
(* of the notify handler and the task that serve seats.  The database is   *)
(* the one of Booking: READ COMMITTED, flushes by primary key, an UPDATE   *)
(* waits for a row another open transaction has updated and an INSERT for  *)
(* a key another open transaction has inserted.                            *)
(***************************************************************************)
EXTENDS Integers, FiniteSets

CONSTANTS
    Refs,           \* seat references, one per reservation
    Handlers,       \* notify handlers that may run at the same time
    FirstCapacity,  \* capacity of the conference when it is created
    Capacities,     \* what the admin may change it to
    Faults,         \* "wechat", "email", "database"
    HoldMinutes,    \* settings.hold_minutes, in ticks of the clock
    MaxAttempts,    \* _MAX_ALLOCATION_ATTEMPTS
    MaxNow,         \* bound on the clock
    MaxCrashes,     \* bound on restarts of the application process
    NoRef           \* no reference

ASSUME ConferenceAssumption ==
    /\ FirstCapacity \in Nat \ {0}
    /\ Capacities \subseteq Nat \ {0}
    /\ Faults \subseteq {"wechat", "email", "database"}
    /\ HoldMinutes \in Nat \ {0}
    /\ MaxAttempts \in Nat \ {0}
    /\ MaxNow \in Nat /\ MaxCrashes \in Nat
    /\ NoRef \notin Refs

VARIABLES
    now,
    \* the conference_events row; active, join_url and starts_at, which only
    \* open and close the sale, may be anything at any time
    capacity,
    cancelled,  \* cancelled_at is set
    \* the conference_seats table, committed rows only
    status, seatNo, expiresAt,
    sent,       \* ticket_sent_at is set
    ledger,     \* payment_events, by the reference it pays for
    \* the outside world
    order, tickets,
    named,      \* references cancel_event has reported as owed a refund
    peak,       \* the largest capacity the conference has had
    \* handlers in flight
    buyer, canceller, notifier, finalizer, updater, closer, crashes

event    == <<capacity, cancelled>>
seats    == <<status, seatNo, expiresAt, sent>>
world    == <<order, tickets, named, peak>>
requests == <<buyer, canceller, notifier, finalizer, updater, closer>>
vars     == <<now, event, seats, ledger, world, requests, crashes>>

Statuses == {"none", "pending_payment", "paid", "expired", "cancelled"}

IdleBuyer    == [pc |-> "idle", moment |-> 0, limit |-> 0, swept |-> {},
                 pick |-> 0, tries |-> 0]
IdleNotifier == [pc |-> "idle", ref |-> NoRef, seen |-> "none"]
IdleUpdater  == [pc |-> "idle", capacity |-> 0]
IdleCloser   == [pc |-> "idle", seats |-> {}, paid |-> {}]

\* Where a reservation or a notification has got to, and what it remembers.
BuyerStates    == [pc : {"idle", "swept", "picked", "inserted"},
                   moment : Nat, limit : Nat, swept : SUBSET Refs,
                   pick : Nat, tries : 0 .. MaxAttempts]
NotifierStates == [pc : {"idle", "loaded", "recorded"},
                   ref : Refs \cup {NoRef}, seen : Statuses]

TypeOK ==
    /\ now \in Nat /\ capacity \in Nat /\ peak \in Nat /\ crashes \in Nat
    /\ cancelled \in BOOLEAN
    /\ status \in [Refs -> Statuses]
    /\ seatNo \in [Refs -> Nat]
    /\ expiresAt \in [Refs -> Nat]
    /\ sent \in [Refs -> BOOLEAN]
    /\ ledger \in [Refs -> {"none", "paid", "paid_conflict"}]
    /\ order \in [Refs -> {"none", "open", "paid"}]
    /\ tickets \in [Refs -> Nat]
    /\ named \subseteq Refs
    /\ buyer \in [Refs -> BuyerStates]
    /\ canceller \in [Refs -> {"idle", "loaded"}]
    /\ notifier \in [Handlers -> NotifierStates]
    /\ \A h \in Handlers : notifier[h].pc # "idle" => notifier[h].ref \in Refs
    /\ finalizer \in [Refs -> {"idle", "queued", "loaded", "mailed"}]
    /\ updater \in [pc : {"idle", "checked"}, capacity : Nat]
    /\ closer \in [pc : {"idle", "loaded"}, seats : SUBSET Refs,
                   paid : SUBSET Refs]

\* create_event, with its join link, and nothing sold.
Init ==
    /\ now = 0
    /\ capacity = FirstCapacity /\ cancelled = FALSE
    /\ status = [r \in Refs |-> "none"]
    /\ seatNo = [r \in Refs |-> 0]
    /\ expiresAt = [r \in Refs |-> 0]
    /\ sent = [r \in Refs |-> FALSE]
    /\ ledger = [r \in Refs |-> "none"]
    /\ order = [r \in Refs |-> "none"]
    /\ tickets = [r \in Refs |-> 0]
    /\ named = {} /\ peak = FirstCapacity
    /\ buyer = [r \in Refs |-> IdleBuyer]
    /\ canceller = [r \in Refs |-> "idle"]
    /\ notifier = [h \in Handlers |-> IdleNotifier]
    /\ finalizer = [r \in Refs |-> "idle"]
    /\ updater = IdleUpdater /\ closer = IdleCloser
    /\ crashes = 0

----------------------------------------------------------------------------

\* The predicate of the partial unique index uq_live_seat.
InIndex(r) == status[r] \in {"pending_payment", "paid"}

\* _live_predicate: paid, or pending with a hold that has not run out.
LiveAt(r, t) ==
    \/ status[r] = "paid"
    \/ status[r] = "pending_payment" /\ expiresAt[r] > t

\* _taken_seat_numbers, as a transaction that has expired `gone` sees it.
Taken(t, gone) == {seatNo[q] : q \in {p \in Refs \ gone : LiveAt(p, t)}}

\* Faulty variant: the deadline is not looked at.
PendingSeats(t) == {q \in Refs : status[q] = "pending_payment"}

\* Faulty variant: the status is not looked at.
StaleRows(t) == {q \in Refs : status[q] # "none" /\ expiresAt[q] <= t}

StaleSeats(t) ==
    {q \in Refs : status[q] = "pending_payment" /\ expiresAt[q] <= t}

\* Rows an open reservation has flipped to expired.
Locked == UNION {buyer[q].swept : q \in Refs}

\* Faulty variant: there is no unique index on the seat number.
IndexAbsent(r, n, gone) == TRUE

\* uq_live_seat lets r live with number n.
IndexAllows(r, n, gone) ==
    \A q \in Refs \ ({r} \cup gone) : seatNo[q] = n => ~InIndex(q)

\* An open transaction has inserted number n.
InsertedBySomeone(r, n) ==
    \E q \in Refs \ {r} : buyer[q].pc = "inserted" /\ buyer[q].pick = n

----------------------------------------------------------------------------
(***************************************************************************)
(* reserve_seat.                                                           *)
(***************************************************************************)

\* is_on_sale; what else it depends on may be either way at any time.
OnSale == ~cancelled

\* expire_stale_seats for a conference on sale.  The capacity is read here and not again.
ReserveSweep(r) ==
    /\ buyer[r].pc = "idle"
    /\ status[r] = "none" /\ order[r] = "none"
    /\ OnSale
    /\ StaleSeats(now) \cap Locked = {}
    /\ buyer' = [buyer EXCEPT ![r] =
                    [pc |-> "swept", moment |-> now, limit |-> capacity,
                     swept |-> StaleSeats(now), pick |-> 0, tries |-> 0]]
    /\ UNCHANGED <<now, event, seats, ledger, world, canceller, notifier,
                   finalizer, updater, closer, crashes>>

\* Faulty variant: numbers run to one above the capacity.
FreeNumbersTooMany(r) ==
    1 .. (buyer[r].limit + 1) \ Taken(buyer[r].moment, buyer[r].swept)

FreeNumbers(r) == 1 .. buyer[r].limit \ Taken(buyer[r].moment, buyer[r].swept)

\* The lowest free number, or SoldOut.
ReservePick(r) ==
    /\ buyer[r].pc = "swept"
    /\ \/ /\ FreeNumbers(r) # {}
          /\ buyer' = [buyer EXCEPT
                ![r].pc = "picked",
                ![r].pick = CHOOSE n \in FreeNumbers(r) :
                               \A m \in FreeNumbers(r) : n <= m]
       \/ FreeNumbers(r) = {} /\ buyer' = [buyer EXCEPT ![r] = IdleBuyer]
    /\ UNCHANGED <<now, event, seats, ledger, world, canceller, notifier,
                   finalizer, updater, closer, crashes>>

\* The INSERT in a savepoint.  When someone committed the number first, the
\* taken set is read again, up to MaxAttempts times; then SoldOut.
ReserveInsert(r) ==
    /\ buyer[r].pc = "picked"
    /\ ~InsertedBySomeone(r, buyer[r].pick)
    /\ \/ /\ IndexAllows(r, buyer[r].pick, buyer[r].swept)
          /\ buyer' = [buyer EXCEPT ![r].pc = "inserted"]
       \/ /\ ~IndexAllows(r, buyer[r].pick, buyer[r].swept)
          /\ buyer' = [buyer EXCEPT ![r] =
                IF @.tries + 1 < MaxAttempts
                THEN [@ EXCEPT !.pc = "swept", !.tries = buyer[r].tries + 1]
                ELSE IdleBuyer]
    /\ UNCHANGED <<now, event, seats, ledger, world, canceller, notifier,
                   finalizer, updater, closer, crashes>>

Expiry(r) == buyer[r].moment + HoldMinutes

\* create_charge and the commit.  Nobody can pay, read or number the seat
\* between the two, so they are one step.  A failure of either rolls back;
\* the reference is spent, on an order nobody has the code of.
ReserveCommit(r) ==
    /\ buyer[r].pc = "inserted"
    /\ buyer' = [buyer EXCEPT ![r] = IdleBuyer]
    /\ order' = [order EXCEPT ![r] = "open"]
    /\ \/ /\ status' = [q \in Refs |->
                           IF q = r THEN "pending_payment"
                           ELSE IF q \in buyer[r].swept THEN "expired"
                           ELSE status[q]]
          /\ seatNo' = [seatNo EXCEPT ![r] = buyer[r].pick]
          /\ expiresAt' = [expiresAt EXCEPT ![r] = Expiry(r)]
       \/ /\ Faults \cap {"wechat", "database"} # {}
          /\ UNCHANGED <<status, seatNo, expiresAt>>
    /\ UNCHANGED <<now, event, sent, ledger, tickets, named, peak, canceller,
                   notifier, finalizer, updater, closer, crashes>>

ReserveSeat(r) ==
    ReserveSweep(r) \/ ReservePick(r) \/ ReserveInsert(r) \/ ReserveCommit(r)

----------------------------------------------------------------------------
(***************************************************************************)
(* cancel_seat.                                                            *)
(***************************************************************************)

CancelLoad(r) ==
    /\ canceller[r] = "idle" /\ status[r] = "pending_payment"
    /\ canceller' = [canceller EXCEPT ![r] = "loaded"]
    /\ UNCHANGED <<now, event, seats, ledger, world, buyer, notifier,
                   finalizer, updater, closer, crashes>>

CancelCommit(r) ==
    /\ canceller[r] = "loaded" /\ r \notin Locked
    /\ \/ status' = [status EXCEPT ![r] = "cancelled"]
       \/ "database" \in Faults /\ UNCHANGED status
    /\ canceller' = [canceller EXCEPT ![r] = "idle"]
    /\ UNCHANGED <<now, event, seatNo, expiresAt, sent, ledger, world, buyer,
                   notifier, finalizer, updater, closer, crashes>>

----------------------------------------------------------------------------
(***************************************************************************)
(* The notify handler for a genuine payment of a seat, and finalize_ticket.*)
(***************************************************************************)

NotifyLoad(h, r) ==
    /\ notifier[h].pc = "idle" /\ order[r] = "paid"
    /\ notifier' = [notifier EXCEPT ![h] =
                       [pc |-> "loaded", ref |-> r, seen |-> status[r]]]
    /\ UNCHANGED <<now, event, seats, ledger, world, buyer, canceller,
                   finalizer, updater, closer, crashes>>

\* honour_late_seat_payment: a dead seat is honoured while the conference is
\* on and its number is free.
Honoured(h) ==
    \/ notifier[h].seen = "pending_payment"
    \/ ~cancelled /\ seatNo[notifier[h].ref] \notin Taken(now, {})

\* Faulty variant: no replay guard.
ReplayedNever(r) == FALSE

Replayed(r) == ledger[r] # "none"

\* The replay guard, the audit row and the checks that raise PaymentConflict.
NotifyRecord(h) ==
    LET r == notifier[h].ref
    IN  /\ notifier[h].pc = "loaded"
        /\ \A g \in Handlers \ {h} :
              ~(notifier[g].pc = "recorded" /\ notifier[g].ref = r)
        /\ \/ /\ ~Replayed(r) /\ Honoured(h)
              /\ notifier' = [notifier EXCEPT ![h].pc = "recorded"]
              /\ UNCHANGED ledger
           \/ /\ Replayed(r) \/ ~Honoured(h)
              /\ notifier' = [notifier EXCEPT ![h] = IdleNotifier]
              /\ \/ ledger' = [ledger EXCEPT ![r] =
                                  IF @ = "none" THEN "paid_conflict" ELSE @]
                 \/ "database" \in Faults /\ UNCHANGED ledger
        /\ UNCHANGED <<now, event, seats, world, buyer, canceller, finalizer,
                       updater, closer, crashes>>

\* Faulty variant: the audit row is not in the transaction.
SettleUnaudited(r) ==
    /\ status' = [status EXCEPT ![r] = "paid"]
    /\ finalizer' = [finalizer EXCEPT ![r] = "queued"]
    /\ UNCHANGED ledger

SettlePaid(r) ==
    /\ status' = [status EXCEPT ![r] = "paid"]
    /\ ledger' = [ledger EXCEPT ![r] = "paid"]
    /\ finalizer' = [finalizer EXCEPT ![r] = "queued"]

\* The flush and the commit.  When uq_live_seat refuses the flush, or the
\* commit fails, the audit row is rolled back too.
NotifySettle(h) ==
    LET r == notifier[h].ref
    IN  /\ notifier[h].pc = "recorded" /\ r \notin Locked
        /\ ~InsertedBySomeone(r, seatNo[r])
        /\ \/ IndexAllows(r, seatNo[r], {}) /\ SettlePaid(r)
           \/ /\ ~IndexAllows(r, seatNo[r], {}) \/ "database" \in Faults
              /\ UNCHANGED <<status, ledger, finalizer>>
        /\ notifier' = [notifier EXCEPT ![h] = IdleNotifier]
        /\ UNCHANGED <<now, event, seatNo, expiresAt, sent, world, buyer,
                       canceller, updater, closer, crashes>>

Notify(h) ==
    (\E r \in Refs : NotifyLoad(h, r)) \/ NotifyRecord(h) \/ NotifySettle(h)

TicketLoad(r) ==
    /\ finalizer[r] = "queued"
    /\ finalizer' = [finalizer EXCEPT ![r] =
                        IF status[r] = "paid" /\ ~sent[r] THEN "loaded" ELSE "idle"]
    /\ UNCHANGED <<now, event, seats, ledger, world, buyer, canceller,
                   notifier, updater, closer, crashes>>

TicketMail(r) ==
    /\ finalizer[r] = "loaded"
    /\ \/ /\ tickets' = [tickets EXCEPT ![r] = @ + 1]
          /\ finalizer' = [finalizer EXCEPT ![r] = "mailed"]
       \/ /\ "email" \in Faults
          /\ finalizer' = [finalizer EXCEPT ![r] = "idle"]
          /\ UNCHANGED tickets
    /\ UNCHANGED <<now, event, seats, ledger, order, named, peak, buyer,
                   canceller, notifier, updater, closer, crashes>>

TicketCommit(r) ==
    /\ finalizer[r] = "mailed"
    /\ finalizer' = [finalizer EXCEPT ![r] = "idle"]
    /\ \/ sent' = [sent EXCEPT ![r] = TRUE]
       \/ "database" \in Faults /\ UNCHANGED sent
    /\ UNCHANGED <<now, event, status, seatNo, expiresAt, ledger, world, buyer,
                   canceller, notifier, updater, closer, crashes>>

FinalizeTicket(r) == TicketLoad(r) \/ TicketMail(r) \/ TicketCommit(r)

----------------------------------------------------------------------------
(***************************************************************************)
(* The admin: update_event and cancel_event.                               *)
(***************************************************************************)

\* The guard of update_event counts seats at the clock, not numbers.
UpdateCheck(c) ==
    /\ updater.pc = "idle" /\ c # capacity
    /\ c >= Cardinality(Taken(now, {}))
    /\ updater' = [pc |-> "checked", capacity |-> c]
    /\ UNCHANGED <<now, event, seats, ledger, world, buyer, canceller,
                   notifier, finalizer, closer, crashes>>

UpdateCommit ==
    /\ updater.pc = "checked"
    /\ \/ /\ capacity' = updater.capacity
          /\ peak' = IF updater.capacity > peak THEN updater.capacity ELSE peak
       \/ "database" \in Faults /\ UNCHANGED <<capacity, peak>>
    /\ updater' = IdleUpdater
    /\ UNCHANGED <<now, cancelled, seats, ledger, order, tickets,
                   named, buyer, canceller, notifier, finalizer, closer, crashes>>

\* cancel_event reads the live rows, ...
CloseLoad ==
    /\ closer.pc = "idle"
    /\ closer' = [pc |-> "loaded",
                  seats |-> {r \in Refs : InIndex(r)},
                  paid |-> {r \in Refs : status[r] = "paid"}]
    /\ UNCHANGED <<now, event, seats, ledger, world, buyer, canceller,
                   notifier, finalizer, updater, crashes>>

\* ... closes them by primary key, and names the ones it read as paid.
CloseCommit ==
    /\ closer.pc = "loaded" /\ closer.seats \cap Locked = {}
    /\ \/ /\ cancelled' = TRUE
          /\ status' = [r \in Refs |->
                           IF r \in closer.seats THEN "cancelled" ELSE status[r]]
          /\ named' = named \cup closer.paid
       \/ "database" \in Faults /\ UNCHANGED <<cancelled, status, named>>
    /\ closer' = IdleCloser
    /\ UNCHANGED <<now, capacity, seatNo, expiresAt, sent, ledger, order,
                   tickets, peak, buyer, canceller, notifier, finalizer,
                   updater, crashes>>

----------------------------------------------------------------------------
(***************************************************************************)
(* The environment.                                                        *)
(***************************************************************************)

Pay(r) ==
    /\ order[r] = "open" /\ status[r] # "none" /\ now < expiresAt[r]
    /\ order' = [order EXCEPT ![r] = "paid"]
    /\ UNCHANGED <<now, event, seats, ledger, tickets, named, peak, requests,
                   crashes>>

Tick ==
    /\ now < MaxNow
    /\ now' = now + 1
    /\ UNCHANGED <<event, seats, ledger, world, requests, crashes>>

Crash ==
    /\ crashes < MaxCrashes
    /\ crashes' = crashes + 1
    /\ buyer' = [r \in Refs |-> IdleBuyer]
    /\ canceller' = [r \in Refs |-> "idle"]
    /\ notifier' = [h \in Handlers |-> IdleNotifier]
    /\ finalizer' = [r \in Refs |-> "idle"]
    /\ updater' = IdleUpdater /\ closer' = IdleCloser
    /\ UNCHANGED <<now, event, seats, ledger, world>>

Next ==
    \/ \E r \in Refs : \/ ReserveSeat(r) \/ CancelLoad(r) \/ CancelCommit(r)
                       \/ FinalizeTicket(r) \/ Pay(r)
    \/ \E h \in Handlers : Notify(h)
    \/ \E c \in Capacities : UpdateCheck(c)
    \/ UpdateCommit \/ CloseLoad \/ CloseCommit
    \/ Tick \/ Crash

Spec == Init /\ [][Next]_vars

----------------------------------------------------------------------------
(***************************************************************************)
(* Safety.                                                                 *)
(***************************************************************************)

\* A seat number is never sold twice, however reservations race, holds lapse
\* and late payments revive dead seats.
SeatSoldOnce ==
    \A q, r \in Refs : q # r /\ seatNo[q] = seatNo[r] => ~(InIndex(q) /\ InIndex(r))

\* There are never more rows in the index than the conference ever had seats,
\* whatever capacity changes race with reservations and late payments.
NeverOverPeak == Cardinality({r \in Refs : InIndex(r)}) <= peak

\* A paid seat has its payment on record, and whoever is reported as owed a
\* refund has paid.
PaidSeatIsAudited ==
    \A r \in Refs : status[r] = "paid" \/ r \in named => ledger[r] = "paid"

\* Who is reported as owed a refund has no seat, and never gets one again: no
\* repeated notification, attendee's cancellation or new reservation that
\* races with cancel_event brings the seat back.
RefundedIsClosed == \A r \in named : ~InIndex(r)

\* An attendee gets one ticket at most, and only for a recorded payment.
TicketedOnce ==
    \A r \in Refs : /\ tickets[r] <= 1
                    /\ tickets[r] = 1 => ledger[r] = "paid"
                    /\ sent[r] => tickets[r] = 1

Life(r) == INSTANCE OrderLife WITH
    status <- status[r], expiresAt <- expiresAt[r], paid <- order[r] = "paid"

\* Whoever reads the row of a seat sees an order's life, the same as that of
\* a booking, although the admin may close or resize the conference.
ImplementsLife ==
    /\ \A r \in Refs : Life(r)!Init
    /\ [][\A r \in Refs : [Life(r)!Next]_(Life(r)!lvars)]_vars

Sale == INSTANCE SeatSale WITH
    live    <- {r \in Refs : InIndex(r)},
    seat    <- seatNo,
    verdict <- [r \in Refs |-> IF ledger[r] = "paid_conflict" THEN "refused"
                                                             ELSE ledger[r]],
    refunds <- named,
    offered <- peak

\* Reservations that race for numbers, holds that lapse, payments that come
\* late or twice, capacity changes, closings and restarts all look, from
\* outside, like a sale in which each of these is one step.
ImplementsSale == Sale!Spec

============================================================================
