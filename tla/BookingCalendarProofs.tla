----------------------- MODULE BookingCalendarProofs -----------------------
(***************************************************************************)
(* Theorems about what Booking leaves in the calendar: which events are    *)
(* confirmed, what a pending booking is backed by, and what may stay       *)
(* behind.  The code promises the last two only while its own calls and    *)
(* commits succeed, so these theorems say which faults they exclude.       *)
(***************************************************************************)
EXTENDS BookingRefinement

Hold(r) == <<r, "hold">>
Late(r) == <<r, "late">>

(***************************************************************************)
(* What holds under every fault.                                           *)
(***************************************************************************)

\* A row, and a task at work on it, name events of their own.
OwnEvents ==
    \A r \in Refs :
        /\ marker[r] \in {NoEvent, Hold(r), Late(r)}
        /\ finalizer[r].event \in {NoEvent, Hold(r), Late(r)}
        /\ finalizer[r].pc \in {"idle", "queued"} => finalizer[r].event = NoEvent
        /\ finalizer[r].event = Late(r) => marker[r] = NoEvent
        /\ finalizer[r].pc = "loaded" /\ finalizer[r].event = NoEvent
              => marker[r] = NoEvent
        /\ marker[r] = Late(r) => finalizer[r].pc = "idle"

\* A settled booking does not go back to pending or lapse, and only it can
\* name a late event.
SettledRow ==
    \A r \in Refs : /\ ledger[r] = "paid" => status[r] \in {"paid", "cancelled"}
                    /\ marker[r] = Late(r) => ledger[r] = "paid"

ConfirmedIsSettled ==
    \A r \in Refs : \A k \in {"hold", "late"} :
        calendar[<<r, k>>] = "confirmed" => ledger[r] = "paid"

\* A row without a marker has no hold in the calendar any more.
MarkedOrGone ==
    \A r \in Refs :
        /\ status[r] = "none" => marker[r] = NoEvent
        /\ status[r] # "none" /\ marker[r] = NoEvent => calendar[Hold(r)] = "absent"

\* What the sweeper works on was expired, and has its marker until the commit.
SweptRows ==
    /\ \A r \in sweeper.todo \cup sweeper.released :
          status[r] \notin {"none", "pending_payment"} /\ marker[r] = Hold(r)
    /\ \A r \in sweeper.released : calendar[Hold(r)] = "absent"

\* Money without a row is a stranger's, who never had anything to do with us.
StrangersOnly ==
    /\ \A r \in Refs : order[r] = "paid" /\ status[r] = "none" => r \in Strangers
    /\ \A r \in Strangers : /\ creator[r].pc = "idle" /\ status[r] = "none"
                            /\ calendar[Hold(r)] = "absent"

\* A request that has its hold has a tentative event, and then its order.
HeldIsTentative ==
    \A r \in Refs :
        /\ creator[r].pc \in {"held", "charged"} => calendar[Hold(r)] = "tentative"
        /\ creator[r].pc = "charged" => order[r] = "open"

\* A pending booking has an order and names its hold.
PendingIsNamed ==
    \A r \in Refs : status[r] = "pending_payment" =>
        order[r] \in {"open", "paid"} /\ marker[r] = Hold(r)

CalendarInv == /\ OwnEvents /\ SettledRow /\ ConfirmedIsSettled /\ MarkedOrGone
               /\ SweptRows /\ StrangersOnly /\ HeldIsTentative /\ PendingIsNamed

(***************************************************************************)
(* Frames and effects.                                                     *)
(***************************************************************************)

LEMMA CalendarFrame ==
    [Next]_vars =>
        \/ UNCHANGED calendar
        \/ \E r \in Refs : \/ CreateHold(r) \/ CreateCharge(r) \/ CreateCommit(r)
                           \/ CancelRelease(r) \/ FinalizeCalendar(r) \/ SweepRelease(r)
BY DEF Next, vars, rows, diary, world, requests, CreateBooking, CreateSweep,
       CreateFreebusy, CreateConferences, CreateInsert, CancelBooking,
       CancelLoad, CancelCommit, Notify, NotifyLoad, NotifyRecord, NotifySettle, FinalizePaidBooking,
       FinalizeLoad, FinalizeMail, FinalizeCommit, Sweep, SweepSelect,
       SweepCommit, SweepAbort, Pay, Tick, OwnerBooks, ScheduleConference,
       CancelConference, Crash

LEMMA MarkerFrame ==
    [Next]_vars =>
        \/ UNCHANGED marker
        \/ \E r \in Refs : CreateCommit(r) \/ FinalizeCommit(r)
        \/ SweepCommit
BY DEF Next, vars, rows, diary, world, requests, CreateBooking, CreateSweep,
       CreateFreebusy, CreateConferences, CreateInsert, CreateHold,
       CreateCharge, CancelBooking, CancelLoad, CancelRelease, CancelCommit, Notify, NotifyLoad,
       NotifyRecord, NotifySettle, FinalizePaidBooking, FinalizeLoad,
       FinalizeCalendar, FinalizeMail, Sweep, SweepSelect, SweepRelease,
       SweepAbort, Pay, Tick, OwnerBooks, ScheduleConference,
       CancelConference, Crash

LEMMA FinalizerFrame ==
    [Next]_vars =>
        \/ UNCHANGED finalizer
        \/ finalizer' = [r \in Refs |-> IdleTask]
        \/ \E r \in Refs : FinalizePaidBooking(r)
        \/ \E h \in Handlers : NotifySettle(h)
BY DEF Next, vars, rows, diary, world, requests, CreateBooking, CreateSweep,
       CreateFreebusy, CreateConferences, CreateInsert, CreateHold,
       CreateCharge, CreateCommit,
       CancelBooking, CancelLoad, CancelRelease, CancelCommit, Notify,
       NotifyLoad, NotifyRecord, Sweep, SweepSelect, SweepRelease,
       SweepCommit, SweepAbort, Pay, Tick, OwnerBooks, ScheduleConference,
       CancelConference, Crash

LEMMA SweeperFrame ==
    [Next]_vars =>
        \/ UNCHANGED sweeper \/ sweeper' = IdleSweeper \/ SweepSelect
        \/ \E r \in Refs : SweepRelease(r)
BY DEF Next, vars, rows, diary, world, requests, CreateBooking, CreateSweep,
       CreateFreebusy, CreateConferences, CreateInsert, CreateHold,
       CreateCharge, CreateCommit,
       CancelBooking, CancelLoad, CancelRelease, CancelCommit, Notify,
       NotifyLoad, NotifyRecord, NotifySettle, FinalizePaidBooking, FinalizeLoad,
       FinalizeCalendar, FinalizeMail, FinalizeCommit, Sweep, SweepCommit,
       SweepAbort, Pay, Tick, OwnerBooks, ScheduleConference,
       CancelConference, Crash

\* A marker is set by the commit that makes the row, taken over by a task and
\* cleared by the sweeper.
LEMMA MarkerEffect ==
    ASSUME TypeOK, [Next]_vars, NEW r \in Refs
    PROVE  \/ marker'[r] = marker[r]
           \/ /\ creator[r].pc = "charged" /\ creator'[r] = IdleCreator
              /\ status'[r] = "pending_payment" /\ marker'[r] = Hold(r)
              /\ UNCHANGED <<calendar, order>>
           \/ /\ finalizer[r].pc = "mailed" /\ finalizer[r].event = Late(r)
              /\ finalizer'[r] = IdleTask
              /\ marker'[r] = Late(r) /\ UNCHANGED calendar
           \/ /\ r \in sweeper.released /\ marker'[r] = NoEvent
              /\ sweeper' = IdleSweeper /\ UNCHANGED <<status, calendar>>
<1> USE DEF TypeOK, Hold, Late
<1>1. ASSUME NEW q \in Refs, CreateCommit(q)
      PROVE  \/ marker'[r] = marker[r]
             \/ /\ creator[r].pc = "charged" /\ creator'[r] = IdleCreator
                /\ status'[r] = "pending_payment" /\ marker'[r] = Hold(r)
                /\ UNCHANGED <<calendar, order>>
    BY <1>1 DEF CreateCommit
<1>2. ASSUME NEW q \in Refs, FinalizeCommit(q)
      PROVE  \/ marker'[r] = marker[r]
             \/ /\ finalizer[r].pc = "mailed" /\ finalizer[r].event = Late(r)
                /\ finalizer'[r] = IdleTask
                /\ marker'[r] = Late(r) /\ UNCHANGED calendar
    BY <1>2 DEF FinalizeCommit, world
<1>3. CASE SweepCommit
    BY <1>3 DEF SweepCommit, world
<1> QED
    BY <1>1, <1>2, <1>3, MarkerFrame

\* A task looks at the marker once, may make a late event when it saw none,
\* and forgets the event with the rest.
LEMMA TaskEffect ==
    ASSUME TypeOK, [Next]_vars, NEW r \in Refs
    PROVE  \/ finalizer'[r] = IdleTask
           \/ /\ finalizer'[r].event = finalizer[r].event
              /\ finalizer'[r].pc \in {"idle", "loaded"} => finalizer'[r] = finalizer[r]
           \/ /\ finalizer[r].pc = "queued" /\ finalizer'[r].pc = "loaded"
              /\ finalizer'[r].event = marker[r] /\ UNCHANGED marker
           \/ /\ finalizer[r].pc = "loaded" /\ finalizer'[r].pc = "confirmed"
              /\ finalizer[r].event = NoEvent /\ finalizer'[r].event = Late(r)
              /\ UNCHANGED marker
<1> USE DEF TypeOK, Late
<1>1. ASSUME NEW q \in Refs, FinalizeLoad(q)
      PROVE  \/ finalizer'[r] \in {IdleTask, finalizer[r]}
             \/ /\ finalizer[r].pc = "queued" /\ finalizer'[r].pc = "loaded"
                /\ finalizer'[r].event = marker[r] /\ UNCHANGED marker
    BY <1>1 DEF FinalizeLoad, rows
<1>2. ASSUME NEW q \in Refs, NEW p \in {"queued", "confirmed", "mailed"},
             finalizer' = [finalizer EXCEPT ![q] = [finalizer[q] EXCEPT !.pc = p]]
      PROVE  /\ finalizer'[r].event = finalizer[r].event
             /\ finalizer'[r].pc \in {"idle", "loaded"} => finalizer'[r] = finalizer[r]
    BY <1>2 DEF TaskStates
<1>3. ASSUME NEW q \in Refs, FinalizeCalendar(q)
      PROVE  \/ finalizer' = [finalizer EXCEPT ![q] =
                                 [finalizer[q] EXCEPT !.pc = "confirmed"]]
             \/ finalizer'[r] \in {IdleTask, finalizer[r]}
             \/ /\ finalizer[r].pc = "loaded" /\ finalizer'[r].pc = "confirmed"
                /\ finalizer[r].event = NoEvent /\ finalizer'[r].event = Late(r)
                /\ UNCHANGED marker
  <2>1. \/ finalizer' = [finalizer EXCEPT ![q] = [finalizer[q] EXCEPT !.pc = "confirmed"]]
        \/ finalizer' = [finalizer EXCEPT ![q] = IdleTask]
        \/ /\ finalizer[q].pc = "loaded" /\ finalizer[q].event = NoEvent
           /\ finalizer' = [finalizer EXCEPT ![q] =
                               [pc |-> "confirmed", event |-> <<q, "late">>]]
           /\ UNCHANGED marker
      BY <1>3 DEF FinalizeCalendar, rows
  <2> QED
      BY <2>1
<1>4. ASSUME NEW q \in Refs, FinalizeMail(q)
      PROVE  \/ finalizer' = [finalizer EXCEPT ![q] = [finalizer[q] EXCEPT !.pc = "mailed"]]
             \/ finalizer'[r] \in {IdleTask, finalizer[r]}
    BY <1>4 DEF FinalizeMail
<1>5. ASSUME NEW q \in Refs, FinalizeCommit(q)
      PROVE  finalizer'[r] \in {IdleTask, finalizer[r]}
    BY <1>5 DEF FinalizeCommit
<1>6. ASSUME NEW h \in Handlers, NotifySettle(h)
      PROVE  \/ finalizer'[r] = finalizer[r]
             \/ \E q \in Refs : finalizer' = [finalizer EXCEPT ![q] =
                                                [finalizer[q] EXCEPT !.pc = "queued"]]
    BY <1>6 DEF NotifySettle, SettlePaid
<1>7. CASE finalizer'[r] = finalizer[r]
    BY <1>7
<1>8. CASE \E q \in Refs : FinalizePaidBooking(q)
    BY <1>1, <1>2, <1>3, <1>4, <1>5, <1>7, <1>8 DEF FinalizePaidBooking
<1> QED
    BY <1>2, <1>6, <1>7, <1>8, FinalizerFrame

\* An event is removed by whoever gives the hold up, made by the request or the
\* task of its own booking, and confirmed by that task.
LEMMA CalendarEffect ==
    ASSUME TypeOK, OwnEvents, [Next]_vars, NEW r \in Refs, NEW k \in {"hold", "late"}
    PROVE  \/ calendar'[<<r, k>>] = calendar[<<r, k>>]
           \/ /\ k = "hold" /\ calendar'[Hold(r)] = "absent"
              /\ \/ creator[r].pc \in {"held", "charged"} /\ creator'[r] = IdleCreator
                 \/ /\ canceller[r] = "loaded" /\ UNCHANGED status
                    /\ canceller'[r] = "released" \/ "release" \in Faults
                 \/ r \in sweeper.todo
           \/ /\ k = "hold" /\ calendar'[Hold(r)] = "tentative"
              /\ creator[r].pc = "inserted"
              /\ creator'[r].pc = "held" \/ "calendar" \in Faults
              /\ UNCHANGED <<status, marker>>
           \/ /\ finalizer[r].pc = "loaded"
              /\ finalizer[r].event = <<r, k>> /\ calendar[<<r, k>>] # "absent"
              /\ calendar'[<<r, k>>] = "confirmed"
           \/ /\ k = "late" /\ finalizer[r].pc = "loaded"
              /\ finalizer[r].event = NoEvent
              /\ finalizer'[r].event = Late(r) \/ "calendar" \in Faults
<1> DEFINE e == <<r, k>>
<1> USE DEF TypeOK, Hold, Late
<1>a. e \in Events
    BY DEF Events
<1>1. ASSUME NEW q \in Refs, CreateHold(q)
      PROVE  \/ calendar'[e] = calendar[e]
             \/ /\ k = "hold" /\ calendar'[Hold(r)] = "tentative"
                /\ creator[r].pc = "inserted"
                /\ creator'[r].pc = "held" \/ "calendar" \in Faults
                /\ UNCHANGED <<status, marker>>
  <2>1. CASE q = r /\ k = "hold"
    <3>1. creator[r].pc = "inserted" /\ UNCHANGED <<status, marker>>
        BY <1>1, <2>1 DEF CreateHold, rows
    <3>2. CASE /\ calendar' = [calendar EXCEPT ![<<r, "hold">>] = "tentative"]
               /\ creator' = [creator EXCEPT ![r] = [creator[r] EXCEPT !.pc = "held"]]
        BY <1>a, <2>1, <3>1, <3>2 DEF CreatorStates
    <3>3. CASE /\ "calendar" \in Faults
               /\ \/ calendar' = [calendar EXCEPT ![<<r, "hold">>] = "tentative"]
                  \/ UNCHANGED calendar
        BY <1>a, <2>1, <3>1, <3>3
    <3> QED
        BY <1>1, <2>1, <3>2, <3>3 DEF CreateHold
  <2>2. CASE ~(q = r /\ k = "hold")
    <3>1. \/ calendar' = [calendar EXCEPT ![<<q, "hold">>] = "tentative"]
          \/ UNCHANGED calendar
        BY <1>1 DEF CreateHold
    <3> QED
        BY <1>a, <2>2, <3>1
  <2> QED
      BY <2>1, <2>2
<1>2. ASSUME NEW q \in Refs, CreateCharge(q) \/ CreateCommit(q)
      PROVE  \/ calendar'[e] = calendar[e]
             \/ /\ k = "hold" /\ calendar'[Hold(r)] = "absent"
                /\ creator[r].pc \in {"held", "charged"} /\ creator'[r] = IdleCreator
  <2>1. creator[q].pc \in {"held", "charged"}
      BY <1>2 DEF CreateCharge, CreateCommit
  <2>2. \/ UNCHANGED calendar
        \/ /\ calendar' = [calendar EXCEPT ![<<q, "hold">>] = "absent"]
           /\ creator' = [creator EXCEPT ![q] = IdleCreator]
      BY <1>2 DEF CreateCharge, CreateCommit, Unwind
  <2> QED
      BY <1>a, <2>1, <2>2
<1>3. ASSUME NEW q \in Refs, CancelRelease(q)
      PROVE  \/ calendar'[e] = calendar[e]
             \/ /\ k = "hold" /\ calendar'[Hold(r)] = "absent"
                /\ canceller[r] = "loaded" /\ UNCHANGED status
                /\ canceller'[r] = "released" \/ "release" \in Faults
  <2>1. /\ canceller[q] = "loaded" /\ UNCHANGED status
        /\ \/ UNCHANGED calendar
           \/ /\ calendar' = [calendar EXCEPT ![<<q, "hold">>] = "absent"]
              /\ \/ canceller' = [canceller EXCEPT ![q] = "released"]
                 \/ "release" \in Faults
                 \/ calendar[<<q, "hold">>] = "absent"
      BY <1>3 DEF CancelRelease, ReleaseMayRaise, rows
  <2> QED
      BY <1>a, <2>1
<1>4. ASSUME NEW q \in Refs, SweepRelease(q)
      PROVE  \/ calendar'[e] = calendar[e]
             \/ k = "hold" /\ calendar'[Hold(r)] = "absent" /\ r \in sweeper.todo
  <2>1. /\ q \in sweeper.todo
        /\ \/ UNCHANGED calendar
           \/ calendar' = [calendar EXCEPT ![<<q, "hold">>] = "absent"]
      BY <1>4 DEF SweepRelease
  <2> QED
      BY <1>a, <2>1
<1>5. ASSUME NEW q \in Refs, FinalizeCalendar(q)
      PROVE  \/ calendar'[e] = calendar[e]
             \/ /\ finalizer[r].pc = "loaded"
                /\ finalizer[r].event = e /\ calendar[e] # "absent"
                /\ calendar'[e] = "confirmed"
             \/ /\ k = "late" /\ finalizer[r].pc = "loaded"
                /\ finalizer[r].event = NoEvent
                /\ finalizer'[r].event = Late(r) \/ "calendar" \in Faults
  <2>1. /\ finalizer[q].pc = "loaded"
        /\ \/ UNCHANGED calendar
           \/ /\ finalizer[q].event # NoEvent /\ calendar[finalizer[q].event] # "absent"
              /\ calendar' = [calendar EXCEPT ![finalizer[q].event] = "confirmed"]
           \/ /\ finalizer[q].event = NoEvent
              /\ \E s \in {"tentative", "confirmed"} :
                    calendar' = [calendar EXCEPT ![<<q, "late">>] = s]
              /\ \/ finalizer' = [finalizer EXCEPT ![q] =
                                    [pc |-> "confirmed", event |-> <<q, "late">>]]
                 \/ "calendar" \in Faults
      BY <1>5 DEF FinalizeCalendar
  <2>2. finalizer[q].event \in {NoEvent, <<q, "hold">>, <<q, "late">>}
      BY DEF OwnEvents
  <2>3. CASE UNCHANGED calendar
      BY <2>3
  <2>4. CASE /\ finalizer[q].event # NoEvent /\ calendar[finalizer[q].event] # "absent"
             /\ calendar' = [calendar EXCEPT ![finalizer[q].event] = "confirmed"]
    <3>1. finalizer[q].event = e \/ calendar'[e] = calendar[e]
        BY <1>a, <2>4
    <3>2. finalizer[q].event = e => q = r
        BY <2>2, <2>4
    <3> QED
        BY <1>a, <2>1, <2>4, <3>1, <3>2
  <2>5. CASE /\ finalizer[q].event = NoEvent
             /\ \E s \in {"tentative", "confirmed"} :
                   calendar' = [calendar EXCEPT ![<<q, "late">>] = s]
             /\ \/ finalizer' = [finalizer EXCEPT ![q] =
                                   [pc |-> "confirmed", event |-> <<q, "late">>]]
                \/ "calendar" \in Faults
      BY <1>a, <2>1, <2>5
  <2> QED
      BY <2>1, <2>3, <2>4, <2>5
<1> QED
    BY <1>1, <1>2, <1>3, <1>4, <1>5, CalendarFrame

\* What the sweeper works on it has selected, and what it has released is gone.
LEMMA SweeperEffect ==
    ASSUME TypeOK, [Next]_vars, NEW r \in sweeper'.todo \cup sweeper'.released
    PROVE  /\ \/ r \in Orphan /\ sweeper'.released = {} /\ UNCHANGED <<status, marker>>
              \/ r \in sweeper.todo \cup sweeper.released
           /\ r \in sweeper'.released =>
                 r \in sweeper.released \/ calendar'[Hold(r)] = "absent"
<1> USE DEF TypeOK, Hold
<1>1. CASE SweepSelect
    BY <1>1 DEF SweepSelect, rows
<1>2. ASSUME NEW q \in Refs, SweepRelease(q)
      PROVE  /\ sweeper'.todo \subseteq sweeper.todo
             /\ sweeper'.released \subseteq sweeper.released \cup {q}
             /\ q \in sweeper.todo
             /\ q \in sweeper'.released =>
                   q \in sweeper.released \/ calendar'[Hold(q)] = "absent"
  <2>1. <<q, "hold">> \in Events
      BY DEF Events
  <2>2. CASE /\ calendar' = [calendar EXCEPT ![<<q, "hold">>] = "absent"]
             /\ sweeper' = [pc |-> "working", todo |-> sweeper.todo \ {q},
                            released |-> sweeper.released \cup {q}]
      BY <1>2, <2>1, <2>2 DEF SweepRelease
  <2>3. CASE sweeper' = [sweeper EXCEPT !.todo = @ \ {q}]
      BY <1>2, <2>3 DEF SweepRelease, SweeperStates
  <2> QED
      BY <1>2, <2>2, <2>3 DEF SweepRelease
<1>3. CASE sweeper' = IdleSweeper
    BY <1>3 DEF IdleSweeper
<1> QED
    BY <1>1, <1>2, <1>3, SweeperFrame

\* A request reaches "held" by its own hold, and "charged" by its own order.
LEMMA PlaceEffect ==
    ASSUME TypeOK, [Next]_vars, NEW r \in Refs, creator'[r].pc \in {"held", "charged"}
    PROVE  \/ /\ creator[r].pc = "inserted" /\ creator'[r].pc = "held"
              /\ calendar'[Hold(r)] = "tentative"
           \/ creator'[r] = creator[r]
           \/ /\ creator[r].pc = "held" /\ creator'[r].pc = "charged"
              /\ order'[r] = "open" /\ UNCHANGED calendar
<1> USE DEF TypeOK, Hold
<1>1. ASSUME NEW q \in Refs, CreateBooking(q), q # r
      PROVE  creator'[r] = creator[r]
    BY <1>1, CreatorEffect
<1>2. CASE CreateHold(r)
  <2>1. <<r, "hold">> \in Events
      BY DEF Events
  <2>2. /\ creator[r].pc = "inserted"
        /\ \/ creator' = [creator EXCEPT ![r] = IdleCreator]
           \/ /\ creator' = [creator EXCEPT ![r] = [creator[r] EXCEPT !.pc = "held"]]
              /\ calendar' = [calendar EXCEPT ![<<r, "hold">>] = "tentative"]
      BY <1>2 DEF CreateHold
  <2> QED
      BY <2>1, <2>2 DEF IdleCreator, CreatorStates
<1>3. CASE CreateCharge(r)
  <2>1. /\ creator[r].pc = "held"
        /\ \/ creator' = [creator EXCEPT ![r] = IdleCreator]
           \/ /\ creator' = [creator EXCEPT ![r] = [creator[r] EXCEPT !.pc = "charged"]]
              /\ order' = [order EXCEPT ![r] = "open"] /\ UNCHANGED calendar
      BY <1>3 DEF CreateCharge, Charge, Unwind
  <2> QED
      BY <2>1 DEF IdleCreator, CreatorStates
<1>4. CASE CreateFreebusy(r) \/ CreateConferences(r)
  <2>1. \/ creator' = [creator EXCEPT ![r] = IdleCreator]
        \/ creator' = [creator EXCEPT ![r] =
                          [creator[r] EXCEPT !.pc = "free", !.owned = {}]]
        \/ creator' = [creator EXCEPT ![r] = [creator[r] EXCEPT !.pc = "cleared"]]
      BY <1>4 DEF CreateFreebusy, CreateConferences
  <2>2. /\ [creator[r] EXCEPT !.pc = "free", !.owned = {}].pc = "free"
        /\ [creator[r] EXCEPT !.pc = "cleared"].pc = "cleared"
        /\ IdleCreator.pc = "idle"
      BY DEF IdleCreator, CreatorStates
  <2> QED
      BY <2>1, <2>2
<1>5. CASE CreateInsert(r)
  <2>1. \/ creator' = [creator EXCEPT ![r] = IdleCreator]
        \/ creator' = [creator EXCEPT ![r] = [creator[r] EXCEPT !.pc = "inserted"]]
      BY <1>5 DEF CreateInsert
  <2> QED
      BY <2>1 DEF IdleCreator, CreatorStates
<1>6. CASE CreateSweep(r) \/ CreateCommit(r)
    BY <1>6 DEF CreateSweep, CreateCommit, Unwind, IdleCreator
<1>7. CASE creator' = [q \in Refs |-> IdleCreator]
    BY <1>7 DEF IdleCreator
<1> QED
    BY <1>1, <1>2, <1>3, <1>4, <1>5, <1>6, <1>7, CreatorFrame DEF CreateBooking

LEMMA EventNames ==
    ASSUME NEW r \in Refs
    PROVE  Hold(r) # Late(r) /\ Hold(r) # NoEvent /\ Late(r) # NoEvent
<1>1. Hold(r) \in Events /\ Late(r) \in Events
    BY DEF Hold, Late, Events
<1> QED
    BY <1>1, BookingAssumption DEF Hold, Late

\* A row appears with its marker, and with the order that was opened for it.
LEMMA RowAppears ==
    ASSUME TypeOK, LifeInv, [Next]_vars, NEW r \in Refs,
           status'[r] = "pending_payment", status[r] # "pending_payment"
    PROVE  /\ creator[r].pc = "charged" /\ marker'[r] = Hold(r)
           /\ UNCHANGED <<order, calendar, canceller>>
<1> USE DEF TypeOK
<1>1. ASSUME NEW q \in Refs, CreateCommit(q)
      PROVE  q = r /\ ~UNCHANGED status
  <2>1. CASE UNCHANGED status
      BY <2>1
  <2>2. CASE ~UNCHANGED status
      BY <1>1, <2>2 DEF CreateCommit
  <2> QED
      BY <2>1, <2>2
<1>2. ASSUME NEW q \in Refs, CancelCommit(q)
      PROVE  FALSE
    BY <1>2 DEF CancelCommit
<1>3. ASSUME NEW h \in Handlers, NotifySettle(h)
      PROVE  FALSE
    BY <1>3 DEF NotifySettle, SettlePaid
<1>4. CreateCommit(r) /\ ~UNCHANGED status
    BY <1>1, <1>2, <1>3, StatusFrame
<1> QED
    BY <1>4 DEF CreateCommit, Hold

\* An order is closed by the sweeper only, and a task begins with a payment
\* that was not on record.
LEMMA OrderCloses ==
    ASSUME TypeOK, [Next]_vars, NEW r \in Refs, order[r] = "open",
           order'[r] \notin {"open", "paid"}
    PROVE  r \in sweeper.todo
<1> USE DEF TypeOK
<1>1. \/ UNCHANGED order
      \/ \E q \in Refs : CreateCharge(q) \/ Pay(q) \/ SweepRelease(q)
    BY DEF Next, vars, rows, diary, world, requests, CreateBooking, CreateSweep,
       CreateFreebusy, CreateConferences, CreateInsert, CreateHold,
       CreateCommit, CancelBooking, CancelLoad, CancelRelease, CancelCommit, Notify, NotifyLoad, NotifyRecord,
       NotifySettle, FinalizePaidBooking, FinalizeLoad, FinalizeCalendar,
       FinalizeMail, FinalizeCommit, Sweep, SweepSelect, SweepCommit, SweepAbort,
       Tick, OwnerBooks, ScheduleConference, CancelConference, Crash
<1>2. ASSUME NEW q \in Refs, CreateCharge(q) \/ Pay(q)
      PROVE  FALSE
    BY <1>2 DEF CreateCharge, Charge, Pay
<1>3. ASSUME NEW q \in Refs, SweepRelease(q)
      PROVE  q = r /\ q \in sweeper.todo
    BY <1>3 DEF SweepRelease, CloseOrder
<1> QED
    BY <1>1, <1>2, <1>3

LEMMA TaskBegins ==
    ASSUME TypeOK, AuditInv, [Next]_vars, NEW r \in Refs,
           finalizer[r].pc = "idle", finalizer'[r].pc # "idle"
    PROVE  ledger[r] = "none"
<1>1. ASSUME NEW q \in Refs, FinalizePaidBooking(q)
      PROVE  FALSE
    BY <1>1, FinalizeEffect
<1>2. ASSUME NEW h \in Handlers, NotifySettle(h)
      PROVE  ledger[r] = "none"
  <2>1. /\ notifier[h].ref \in Refs /\ notifier[h].pc = "recorded"
        /\ finalizer' # finalizer
        /\ \/ UNCHANGED finalizer
           \/ finalizer' = [finalizer EXCEPT ![notifier[h].ref] =
                               [finalizer[notifier[h].ref] EXCEPT !.pc = "queued"]]
      BY <1>2, SettleEffect DEF NotifySettle, SettlePaid
  <2>2. notifier[h].ref = r
      BY <2>1 DEF TypeOK
  <2> QED
      BY <2>1, <2>2 DEF AuditInv, RecordedIsNew
<1>3. finalizer' # [q \in Refs |-> IdleTask]
    BY DEF IdleTask
<1> QED
    BY <1>1, <1>2, <1>3, FinalizerFrame

\* A task is queued when none is at work on the row.
LEMMA TaskQueues ==
    ASSUME TypeOK, AuditInv, MailInv, [Next]_vars, NEW r \in Refs,
           finalizer'[r].pc = "queued"
    PROVE  /\ finalizer'[r].event = finalizer[r].event
           /\ finalizer[r].pc \in {"idle", "queued"}
<1> USE DEF TypeOK
<1>1. ASSUME NEW q \in Refs, FinalizePaidBooking(q)
      PROVE  finalizer'[r] = finalizer[r]
    BY <1>1, FinalizeEffect
<1>2. ASSUME NEW h \in Handlers, NotifySettle(h)
      PROVE  /\ finalizer'[r].event = finalizer[r].event
             /\ finalizer[r].pc \in {"idle", "queued"}
  <2>1. /\ notifier[h].ref \in Refs /\ notifier[h].pc = "recorded"
        /\ \/ UNCHANGED finalizer
           \/ finalizer' = [finalizer EXCEPT ![notifier[h].ref] =
                               [finalizer[notifier[h].ref] EXCEPT !.pc = "queued"]]
      BY <1>2, SettleEffect DEF NotifySettle, SettlePaid
  <2>2. finalizer[notifier[h].ref].pc = "idle"
      BY <2>1 DEF AuditInv, RecordedIsNew, MailInv, DispatchedOnce
  <2> QED
      BY <2>1, <2>2 DEF TaskStates
<1> QED
    BY <1>1, <1>2, FinalizerFrame DEF IdleTask

\* What is known of the row at hand in each place of the code.
LEMMA PlaceFacts ==
    ASSUME AuditInv, LifeInv, SaleInv, MailInv, CalendarInv, NEW r \in Refs
    PROVE  /\ creator[r].pc # "idle" => /\ status[r] = "none" /\ order[r] # "paid"
                                        /\ ledger[r] = "none"
           /\ canceller[r] # "idle" => status[r] # "none"
           /\ finalizer[r].pc # "idle" => ledger[r] = "paid"
           /\ ledger[r] = "paid" => status[r] \in {"paid", "cancelled"}
           /\ r \in sweeper.todo \cup sweeper.released =>
                 status[r] \notin {"none", "pending_payment"} /\ marker[r] = Hold(r)
BY DEF LifeInv, CreatedUnseen, CancelledExists, SaleInv, AuditedIsPaid, MailInv,
       DispatchedOnce, CalendarInv, SettledRow, SweptRows

(***************************************************************************)
(* CalendarInv is inductive.                                               *)
(***************************************************************************)

LEMMA OwnEventsStep ==
    ASSUME TypeOK, AuditInv, LifeInv, SaleInv, MailInv, CalendarInv, [Next]_vars
    PROVE  OwnEvents'
<1> SUFFICES ASSUME NEW r \in Refs
             PROVE  /\ marker'[r] \in {NoEvent, Hold(r), Late(r)}
                    /\ finalizer'[r].event \in {NoEvent, Hold(r), Late(r)}
                    /\ finalizer'[r].pc \in {"idle", "queued"} => finalizer'[r].event = NoEvent
                    /\ finalizer'[r].event = Late(r) => marker'[r] = NoEvent
                    /\ finalizer'[r].pc = "loaded" /\ finalizer'[r].event = NoEvent
                          => marker'[r] = NoEvent
                    /\ marker'[r] = Late(r) => finalizer'[r].pc = "idle"
    BY DEF OwnEvents, Hold, Late
<1>0. /\ marker[r] \in {NoEvent, Hold(r), Late(r)}
      /\ finalizer[r].event \in {NoEvent, Hold(r), Late(r)}
      /\ finalizer[r].pc \in {"idle", "queued"} => finalizer[r].event = NoEvent
      /\ finalizer[r].event = Late(r) => marker[r] = NoEvent
      /\ finalizer[r].pc = "loaded" /\ finalizer[r].event = NoEvent
            => marker[r] = NoEvent
      /\ marker[r] = Late(r) => finalizer[r].pc = "idle"
    BY DEF CalendarInv, OwnEvents
<1>1. marker'[r] \in {NoEvent, Hold(r), Late(r)}
    BY <1>0, MarkerEffect
<1>2. finalizer'[r].event \in {NoEvent, Hold(r), Late(r)}
    BY <1>0, TaskEffect DEF IdleTask
<1>3. finalizer'[r].pc \in {"idle", "queued"} => finalizer'[r].event = NoEvent
    BY <1>0, TaskEffect, TaskQueues DEF IdleTask
\* A task in flight has the row to itself: a row without a marker gets none.
<1>4. ASSUME finalizer[r].pc # "idle", finalizer'[r].pc # "idle", marker[r] = NoEvent
      PROVE  marker'[r] = NoEvent
    BY <1>4, PlaceFacts, MarkerEffect DEF IdleTask
<1>5. ASSUME finalizer'[r].event = Late(r)
      PROVE  marker'[r] = NoEvent
  <2>1. finalizer'[r].pc # "idle"
      BY <1>3, <1>5, EventNames
  <2>2. CASE \/ finalizer'[r].event = finalizer[r].event
             \/ finalizer[r].event = NoEvent /\ finalizer[r].pc = "loaded"
      BY <1>0, <1>4, <1>5, <2>1, <2>2, EventNames
  <2>3. CASE /\ finalizer[r].pc = "queued" /\ finalizer'[r].event = marker[r]
             /\ UNCHANGED marker
      BY <1>0, <1>5, <2>3, EventNames
  <2>4. finalizer'[r] # IdleTask
      BY <2>1 DEF IdleTask
  <2> QED
      BY <1>5, <2>2, <2>3, <2>4, TaskEffect
<1>6. ASSUME finalizer'[r].pc = "loaded", finalizer'[r].event = NoEvent
      PROVE  marker'[r] = NoEvent
  <2>1. CASE finalizer'[r] = finalizer[r]
      BY <1>0, <1>4, <1>6, <2>1
  <2>2. CASE finalizer'[r].event = marker[r] /\ UNCHANGED marker
      BY <1>6, <2>2
  <2> QED
      BY <1>6, <2>1, <2>2, TaskEffect DEF IdleTask
<1>7. ASSUME marker'[r] = Late(r)
      PROVE  finalizer'[r].pc = "idle"
  <2>1. finalizer'[r] = IdleTask \/ marker[r] = Late(r)
      BY <1>7, EventNames, MarkerEffect
  <2>2. ASSUME marker[r] = Late(r), finalizer'[r].pc # "idle"
        PROVE  FALSE
    <3>1. finalizer[r].pc = "idle" /\ ledger[r] = "paid"
        BY <1>0, <2>2 DEF CalendarInv, SettledRow
    <3> QED
        BY <2>2, <3>1, TaskBegins
  <2> QED
      BY <2>1, <2>2 DEF IdleTask
<1> QED
    BY <1>1, <1>2, <1>3, <1>5, <1>6, <1>7

\* A payment goes on record as settled only with its row.
LEMMA LedgerPays ==
    ASSUME TypeOK, AuditInv, [Next]_vars, NEW r \in Refs,
           ledger'[r] = "paid", ledger[r] # "paid"
    PROVE  status'[r] = "paid"
<1> USE DEF TypeOK
<1>1. ASSUME NEW h \in Handlers, NotifySettle(h)
      PROVE  status'[r] = "paid"
    BY <1>1, SettleEffect
<1>2. ASSUME NEW h \in Handlers, NotifyRecord(h)
      PROVE  FALSE
  <2>1. /\ notifier[h].pc = "loaded" /\ notifier[h].ref \in Refs
        /\ \/ UNCHANGED ledger
           \/ ledger' = [ledger EXCEPT ![notifier[h].ref] = Dismissal(h)[1]]
      BY <1>2 DEF NotifyRecord
  <2> QED
      BY <2>1, DismissalKeepsLedger
<1> QED
    BY <1>1, <1>2, LedgerFrame

LEMMA SettledRowStep ==
    ASSUME TypeOK, AuditInv, LifeInv, SaleInv, MailInv, CalendarInv, [Next]_vars
    PROVE  SettledRow'
<1> SUFFICES ASSUME NEW r \in Refs
             PROVE  /\ ledger'[r] = "paid" => status'[r] \in {"paid", "cancelled"}
                    /\ marker'[r] = Late(r) => ledger'[r] = "paid"
    BY DEF SettledRow, Late
<1>1. ledger[r] = "paid" => ledger'[r] = "paid"
    BY AuditStep
<1>2. ASSUME ledger[r] = "paid"
      PROVE  status'[r] \in {"paid", "cancelled"}
  <2>1. status[r] \in {"paid", "cancelled"}
      BY <1>2 DEF CalendarInv, SettledRow
  <2> QED
      BY <2>1, StatusEffect DEF LifeInv, CreatedUnseen, SweptIsStale
<1>3. marker'[r] = Late(r) => ledger[r] = "paid"
  <2>1. marker[r] = Late(r) => ledger[r] = "paid"
      BY DEF CalendarInv, SettledRow
  <2> QED
      BY <2>1, PlaceFacts, MarkerEffect, EventNames
<1> QED
    BY <1>1, <1>2, <1>3, LedgerPays

LEMMA ConfirmedStep ==
    ASSUME TypeOK, AuditInv, LifeInv, SaleInv, MailInv, CalendarInv, [Next]_vars
    PROVE  ConfirmedIsSettled'
<1> SUFFICES ASSUME NEW r \in Refs, NEW k \in {"hold", "late"},
                    calendar'[<<r, k>>] = "confirmed"
             PROVE  ledger'[r] = "paid"
    BY DEF ConfirmedIsSettled
<1>1. OwnEvents /\ (calendar[<<r, k>>] = "confirmed" => ledger[r] = "paid")
    BY DEF CalendarInv, ConfirmedIsSettled
<1>2. calendar[<<r, k>>] = "confirmed" \/ finalizer[r].pc = "loaded"
    BY <1>1, CalendarEffect DEF Hold
<1>3. ledger[r] = "paid"
    BY <1>1, <1>2, PlaceFacts
<1> QED
    BY <1>3, AuditStep

\* A hold that is gone is not made again for a row that exists.
LEMMA GoneStays ==
    ASSUME TypeOK, AuditInv, LifeInv, SaleInv, MailInv, CalendarInv, [Next]_vars,
           NEW r \in Refs, calendar[Hold(r)] = "absent",
           creator[r].pc # "inserted"
    PROVE  calendar'[Hold(r)] = "absent"
<1>1. OwnEvents
    BY DEF CalendarInv
<1> QED
    BY <1>1, CalendarEffect DEF Hold

\* A row begins as pending.
LEMMA RowBegins ==
    ASSUME TypeOK, LifeInv, [Next]_vars, NEW r \in Refs,
           status[r] = "none", status'[r] # "none"
    PROVE  status'[r] = "pending_payment"
BY StatusEffect DEF LifeInv, SweptIsStale, CancelledExists, NotifiedIsPaid

LEMMA MarkedOrGoneStep ==
    ASSUME TypeOK, AuditInv, LifeInv, SaleInv, MailInv, CalendarInv, [Next]_vars
    PROVE  MarkedOrGone'
<1> SUFFICES ASSUME NEW r \in Refs
             PROVE  /\ status'[r] = "none" => marker'[r] = NoEvent
                    /\ status'[r] # "none" /\ marker'[r] = NoEvent
                          => calendar'[Hold(r)] = "absent"
    BY DEF MarkedOrGone, Hold
<1>0. /\ status[r] = "none" => marker[r] = NoEvent
      /\ status[r] # "none" /\ marker[r] = NoEvent => calendar[Hold(r)] = "absent"
    BY DEF CalendarInv, MarkedOrGone
<1>1. ASSUME status'[r] = "none"
      PROVE  marker'[r] = NoEvent
  <2>1. status[r] = "none" /\ marker[r] = NoEvent
      BY <1>0, <1>1, RowsStay
  <2> QED
      BY <1>1, <2>1, PlaceFacts, MarkerEffect
<1>2. ASSUME status'[r] # "none", marker'[r] = NoEvent
      PROVE  calendar'[Hold(r)] = "absent"
  <2>1. status[r] # "none"
      BY <1>2, RowBegins, RowAppears, EventNames
  <2>2. creator[r].pc = "idle"
      BY <2>1, PlaceFacts
  <2>3. CASE marker'[r] = marker[r]
      BY <1>0, <1>2, <2>1, <2>2, <2>3, GoneStays
  <2>4. CASE r \in sweeper.released /\ UNCHANGED calendar
      BY <2>4 DEF CalendarInv, SweptRows
  <2> QED
      BY <1>2, <2>3, <2>4, MarkerEffect, EventNames
<1> QED
    BY <1>1, <1>2

LEMMA SweptRowsStep ==
    ASSUME TypeOK, AuditInv, LifeInv, SaleInv, MailInv, CalendarInv, [Next]_vars
    PROVE  SweptRows'
<1>1. ASSUME NEW r \in sweeper'.todo \cup sweeper'.released
      PROVE  /\ r \in Refs
             /\ status'[r] \notin {"none", "pending_payment"} /\ marker'[r] = Hold(r)
             /\ r \in sweeper'.released => calendar'[Hold(r)] = "absent"
  <2>1. r \in Refs
    <3>1. TypeOK'
        BY TypeStep
    <3> QED
        BY <3>1 DEF TypeOK, SweeperStates
  <2>2. marker[r] \in {NoEvent, Hold(r), Late(r)}
      BY <2>1 DEF CalendarInv, OwnEvents
  <2>3. CASE r \in Orphan /\ sweeper'.released = {} /\ UNCHANGED <<status, marker>>
    <3>1. status[r] = "expired" /\ marker[r] # NoEvent
        BY <2>3 DEF Orphan
    <3>2. marker[r] # Late(r)
        BY <2>1, <3>1 DEF CalendarInv, SettledRow
    <3> QED
        BY <2>1, <2>2, <2>3, <3>1, <3>2
  <2>4. CASE r \in sweeper.todo \cup sweeper.released
    <3>1. status[r] \notin {"none", "pending_payment"} /\ marker[r] = Hold(r)
        BY <2>1, <2>4, PlaceFacts
    <3>2. creator[r].pc = "idle"
        BY <2>1, <3>1, PlaceFacts
    <3>3. status'[r] \notin {"none", "pending_payment"}
        BY <2>1, <3>1, <3>2, RowsStay, StatusEffect
    <3>4. sweeper' # IdleSweeper
        BY DEF IdleSweeper
    <3>5. finalizer[r].event # Late(r)
        BY <2>1, <3>1, EventNames DEF CalendarInv, OwnEvents
    <3>6. marker'[r] = Hold(r)
        BY <2>1, <3>1, <3>2, <3>4, <3>5, MarkerEffect
    <3>7. r \in sweeper.released => calendar[Hold(r)] = "absent"
        BY DEF CalendarInv, SweptRows
    <3>8. r \in sweeper'.released => calendar'[Hold(r)] = "absent"
        BY <2>1, <3>2, <3>7, SweeperEffect, GoneStays
    <3> QED
        BY <2>1, <3>3, <3>6, <3>8
  <2> QED
      BY <2>1, <2>3, <2>4, SweeperEffect
<1> QED
    BY <1>1 DEF SweptRows, Hold

LEMMA StrangersOnlyStep ==
    ASSUME TypeOK, AuditInv, LifeInv, SaleInv, MailInv, CalendarInv, [Next]_vars
    PROVE  StrangersOnly'
<1>1. ASSUME NEW r \in Refs, order'[r] = "paid", status'[r] = "none"
      PROVE  r \in Strangers
  <2>1. status[r] = "none"
      BY <1>1, RowsStay
  <2>2. order[r] = "paid"
      BY <1>1, <2>1, PaidEffect DEF Pay
  <2> QED
      BY <2>1, <2>2 DEF CalendarInv, StrangersOnly
<1>2. ASSUME NEW r \in Strangers
      PROVE  /\ creator'[r].pc = "idle" /\ status'[r] = "none"
             /\ calendar'[Hold(r)] = "absent"
  <2>1. /\ r \in Refs /\ creator[r].pc = "idle" /\ status[r] = "none"
        /\ calendar[Hold(r)] = "absent"
      BY BookingAssumption DEF CalendarInv, StrangersOnly
  <2>2. creator'[r].pc = "idle"
      BY <2>1, RequestEffect DEF CreateSweep, Fresh
  <2>3. status'[r] = "none"
      BY <2>1, RowBegins, RowAppears
  <2> QED
      BY <2>1, <2>2, <2>3, GoneStays
<1> QED
    BY <1>1, <1>2 DEF StrangersOnly, Hold

LEMMA HeldStep ==
    ASSUME TypeOK, AuditInv, LifeInv, SaleInv, MailInv, CalendarInv, [Next]_vars
    PROVE  HeldIsTentative'
<1> SUFFICES ASSUME NEW r \in Refs, creator'[r].pc \in {"held", "charged"}
             PROVE  /\ calendar'[Hold(r)] = "tentative"
                    /\ creator'[r].pc = "charged" => order'[r] = "open"
    BY DEF HeldIsTentative, Hold
<1>0. OwnEvents /\ HeldIsTentative
    BY DEF CalendarInv
<1>1. CASE creator'[r] = creator[r]
  <2>1. /\ creator[r].pc \in {"held", "charged"}
        /\ status[r] = "none" /\ canceller[r] = "idle" /\ r \notin sweeper.todo
        /\ finalizer[r].pc = "idle"
      BY <1>1, PlaceFacts
  <2>2. creator'[r] # IdleCreator
      BY <1>1, <2>1 DEF IdleCreator
  <2>3. calendar[Hold(r)] = "tentative" /\ (creator[r].pc = "charged" => order[r] = "open")
      BY <1>0, <2>1 DEF HeldIsTentative
  <2>4. calendar'[Hold(r)] = "tentative"
      BY <1>0, <2>1, <2>2, <2>3, CalendarEffect DEF Hold
  <2>5. order[r] = "open" => order'[r] = "open"
      BY <2>1, OrderEffect, OrderCloses DEF Pay
  <2> QED
      BY <1>1, <2>3, <2>4, <2>5
<1>2. CASE creator[r].pc = "inserted" /\ creator'[r].pc = "held"
           /\ calendar'[Hold(r)] = "tentative"
    BY <1>2
<1>3. CASE creator[r].pc = "held" /\ order'[r] = "open" /\ UNCHANGED calendar
    BY <1>0, <1>3 DEF HeldIsTentative
<1> QED
    BY <1>1, <1>2, <1>3, PlaceEffect

LEMMA PendingNamedStep ==
    ASSUME TypeOK, AuditInv, LifeInv, SaleInv, MailInv, CalendarInv, [Next]_vars
    PROVE  PendingIsNamed'
<1> SUFFICES ASSUME NEW r \in Refs, status'[r] = "pending_payment"
             PROVE  order'[r] \in {"open", "paid"} /\ marker'[r] = Hold(r)
    BY DEF PendingIsNamed, Hold
<1>1. CASE status[r] = "pending_payment"
  <2>1. order[r] \in {"open", "paid"} /\ marker[r] = Hold(r)
      BY <1>1 DEF CalendarInv, PendingIsNamed
  <2>2. /\ r \notin sweeper.todo \cup sweeper.released
        /\ creator[r].pc = "idle" /\ finalizer[r].pc = "idle"
      BY <1>1, PlaceFacts
  <2>3. order'[r] \in {"open", "paid"}
      BY <2>1, <2>2, PaidEffect, OrderCloses DEF Pay
  <2>4. marker'[r] = Hold(r)
      BY <2>1, <2>2, MarkerEffect
  <2> QED
      BY <2>3, <2>4
<1>2. CASE status[r] # "pending_payment"
    BY <1>2, RowAppears DEF CalendarInv, HeldIsTentative
<1> QED
    BY <1>1, <1>2

LEMMA InitCalendar == Init => CalendarInv
<1> SUFFICES ASSUME Init
             PROVE  CalendarInv
    OBVIOUS
<1>1. \A r \in Refs : Hold(r) \in Events /\ Late(r) \in Events
    BY DEF Hold, Late, Events
<1>2. OwnEvents /\ SettledRow /\ ConfirmedIsSettled
    BY <1>1, EventNames DEF Init, OwnEvents, SettledRow, ConfirmedIsSettled,
       IdleTask, Hold, Late
<1>3. MarkedOrGone /\ SweptRows /\ HeldIsTentative /\ PendingIsNamed
    BY DEF Init, MarkedOrGone, SweptRows, HeldIsTentative, PendingIsNamed,
       IdleSweeper, IdleCreator
<1>4. StrangersOnly
    BY <1>1, BookingAssumption DEF Init, StrangersOnly, IdleCreator
<1> QED
    BY <1>2, <1>3, <1>4 DEF CalendarInv

LEMMA CalendarStep ==
    ASSUME TypeOK, AuditInv, LifeInv, SaleInv, MailInv, CalendarInv, [Next]_vars
    PROVE  CalendarInv'
BY OwnEventsStep, SettledRowStep, ConfirmedStep, MarkedOrGoneStep, SweptRowsStep,
   StrangersOnlyStep, HeldStep, PendingNamedStep DEF CalendarInv

(***************************************************************************)
(* The invariants of Booking together: each step lemma takes them all.     *)
(***************************************************************************)

BookingInv == /\ TypeOK /\ AuditInv /\ MailInv
              /\ LifeInv /\ SaleInv /\ CalendarInv

LEMMA BookingStep == BookingInv /\ [Next]_vars => BookingInv'
BY TypeStep, AuditStep, MailStep, LifeInvStep, SaleInvStep, CalendarStep DEF BookingInv

\* Rows, ledger, mail, calendar and what handlers hold in their hands between
\* two steps of booking.py, payments.py and tasks.py agree at all times.
THEOREM BookingIsConsistent == Spec => []BookingInv
<1>1. Init => AuditInv /\ MailInv /\ LifeInv /\ SaleInv
    BY InitAudit DEF Init, MailInv, MailedOnce, DispatchedOnce, IdleTask, LifeInv,
       CreatedUnseen, SweptIsStale, SweptOnce, NotifiedIsPaid, CancelledExists,
       IdleCreator, IdleNotifier, SaleInv, AuditedIsPaid, PendingIsUnsettled,
       SweptOfSlot
<1>2. Init => BookingInv
    BY <1>1, InitType, InitCalendar DEF BookingInv
<1> QED
    BY <1>2, BookingStep, PTL DEF Spec

\* An event the owner sees as confirmed belongs to a payment on record, and a
\* hold that no row names was never told to a customer, whatever fails.
THEOREM ConfirmedEventsArePaidFor == Spec => []ConfirmedIsPaidFor
<1>1. BookingInv => ConfirmedIsPaidFor
  <2> SUFFICES ASSUME BookingInv, NEW r \in Refs
               PROVE  /\ \A k \in {"hold", "late"} :
                            calendar[<<r, k>>] = "confirmed" => ledger[r] = "paid"
                      /\ calendar[Hold(r)] # "absent" /\ marker[r] = NoEvent
                            => ledger[r] = "none"
      BY DEF ConfirmedIsPaidFor, Hold
  <2>1. /\ ConfirmedIsSettled /\ MarkedOrGone /\ StrangersOnly
        /\ AuditedIsPaid
      BY DEF BookingInv, CalendarInv, SaleInv
  <2>2. ASSUME calendar[Hold(r)] # "absent", marker[r] = NoEvent, ledger[r] # "none"
        PROVE  FALSE
    <3>1. status[r] = "none"
        BY <2>1, <2>2 DEF MarkedOrGone
    <3>2. r \in Strangers
        BY <2>1, <2>2, <3>1 DEF AuditedIsPaid, StrangersOnly
    <3> QED
        BY <2>1, <2>2, <3>2 DEF StrangersOnly
  <2> QED
      BY <2>1, <2>2 DEF ConfirmedIsSettled
<1> QED
    BY <1>1, BookingIsConsistent, PTL

(***************************************************************************)
(* One event for one booking.                                              *)
(***************************************************************************)

\* A late event stands for a hold that is gone, of a booking that exists.
LateForHold ==
    \A r \in Refs : calendar[Late(r)] # "absent" =>
        status[r] # "none" /\ calendar[Hold(r)] = "absent"

LEMMA LateForHoldStep ==
    ASSUME BookingInv, LateForHold, [Next]_vars
    PROVE  LateForHold'
<1> SUFFICES ASSUME NEW r \in Refs, calendar'[Late(r)] # "absent"
             PROVE  status'[r] # "none" /\ calendar'[Hold(r)] = "absent"
    BY DEF LateForHold, Hold, Late
<1> USE DEF BookingInv
<1>1. status[r] # "none" /\ calendar[Hold(r)] = "absent"
  <2>1. CASE calendar[Late(r)] # "absent"
      BY <2>1 DEF LateForHold
  <2>2. CASE calendar[Late(r)] = "absent"
    <3>1. OwnEvents /\ MarkedOrGone
        BY DEF CalendarInv
    <3>2. finalizer[r].pc = "loaded" /\ finalizer[r].event = NoEvent
        BY <2>2, <3>1, CalendarEffect DEF Late
    <3>3. marker[r] = NoEvent /\ status[r] # "none"
        BY <3>1, <3>2, PlaceFacts DEF OwnEvents
    <3> QED
        BY <3>1, <3>3 DEF MarkedOrGone
  <2> QED
      BY <2>1, <2>2
<1>2. creator[r].pc = "idle"
    BY <1>1, PlaceFacts
<1> QED
    BY <1>1, <1>2, RowsStay, GoneStays

\* The owner never sees one booking twice: whatever calls failed or were cut
\* short by a crash, the sweeper forgets a hold only when it is gone, and
\* nobody makes a hold for a row that exists.
THEOREM OneEventPerBooking == Spec => []OneEventEach
<1>1. Init => LateForHold
    BY DEF Init, LateForHold, Late, Events
<1>2. BookingInv /\ LateForHold /\ [Next]_vars => LateForHold'
    BY LateForHoldStep
<1>3. LateForHold => OneEventEach
    BY DEF LateForHold, OneEventEach, Hold, Late
<1> QED
    BY <1>1, <1>2, <1>3, BookingIsConsistent, PTL DEF Spec

(***************************************************************************)
(* What holds while the calls that undo the others succeed.                *)
(***************************************************************************)

LEMMA NoCrash ==
    ASSUME MaxCrashes = 0, TypeOK
    PROVE  ~Crash
BY DEF TypeOK, Crash

\* A cancellation that has released the hold ends with the booking cancelled.
LEMMA CancelEnds ==
    ASSUME Faults \cap {"release", "database"} = {}, MaxCrashes = 0,
           TypeOK, [Next]_vars, NEW r \in Refs, canceller[r] = "released"
    PROVE  canceller'[r] = "released" \/ status'[r] = "cancelled"
<1> USE DEF TypeOK
<1>1. \/ UNCHANGED canceller
      \/ \E q \in Refs : CancelBooking(q)
    BY NoCrash
    DEF Next, vars, rows, diary, world, requests, CreateBooking, CreateSweep,
       CreateFreebusy, CreateConferences, CreateInsert, CreateHold,
       CreateCharge, CreateCommit,
       Notify, NotifyLoad, NotifyRecord, NotifySettle, FinalizePaidBooking,
       FinalizeLoad, FinalizeCalendar, FinalizeMail, FinalizeCommit, Sweep,
       SweepSelect, SweepRelease, SweepCommit, SweepAbort, Pay, Tick,
       OwnerBooks, ScheduleConference, CancelConference
<1>2. ASSUME NEW q \in Refs, CancelLoad(q) \/ CancelRelease(q)
      PROVE  canceller'[r] = "released"
    BY <1>2 DEF CancelLoad, CancelRelease
<1>3. ASSUME NEW q \in Refs, CancelCommit(q)
      PROVE  canceller'[r] = "released" \/ status'[r] = "cancelled"
    BY <1>3 DEF CancelCommit
<1> QED
    BY <1>1, <1>2, <1>3 DEF CancelBooking

\* A pending booking has its hold until a cancellation has released it.
PendingIsHeld ==
    \A r \in Refs : status[r] = "pending_payment" =>
        calendar[Hold(r)] = "tentative" \/ canceller[r] = "released"

LEMMA PendingHeldStep ==
    ASSUME Faults \cap {"release", "database"} = {}, MaxCrashes = 0,
           BookingInv, PendingIsHeld, [Next]_vars
    PROVE  PendingIsHeld'
<1> SUFFICES ASSUME NEW r \in Refs, status'[r] = "pending_payment"
             PROVE  calendar'[Hold(r)] = "tentative" \/ canceller'[r] = "released"
    BY DEF PendingIsHeld, Hold
<1> USE DEF BookingInv
<1>1. CASE status[r] = "pending_payment" /\ canceller[r] = "released"
    BY <1>1, CancelEnds
<1>2. CASE status[r] = "pending_payment" /\ calendar[Hold(r)] = "tentative"
  <2>1. /\ creator[r].pc = "idle" /\ finalizer[r].pc = "idle"
        /\ r \notin sweeper.todo
      BY <1>2, PlaceFacts
  <2>2. OwnEvents
      BY DEF CalendarInv
  <2> QED
      BY <1>2, <2>1, <2>2, CalendarEffect DEF Hold
<1>3. CASE status[r] # "pending_payment"
    BY <1>3, RowAppears DEF CalendarInv, HeldIsTentative
<1> QED
    BY <1>1, <1>2, <1>3 DEF PendingIsHeld

\* A pending booking has what its customer was promised, an order and a
\* tentative event, unless its cancellation is under way: whatever the
\* payment provider, the calendar's other calls, the mail or the sweeper do.
\* A release that fails after it was done, a commit that fails after the
\* release and a crash between the two each break it.
THEOREM PendingBookingsAreBacked ==
    ASSUME Faults \cap {"release", "database"} = {}, MaxCrashes = 0
    PROVE  Spec => []HoldIsBacked
<1>1. Init => PendingIsHeld
    BY DEF Init, PendingIsHeld
<1>2. BookingInv /\ PendingIsHeld /\ [Next]_vars => PendingIsHeld'
    BY PendingHeldStep
<1>3. BookingInv /\ PendingIsHeld => HoldIsBacked
    BY DEF BookingInv, PendingIsHeld, HoldIsBacked, CalendarInv, PendingIsNamed, Hold
<1> QED
    BY <1>1, <1>2, <1>3, BookingIsConsistent, PTL DEF Spec

\* A request with a hold gives it to its row or releases it.
LEMMA PlaceEnds ==
    ASSUME "release" \notin Faults, MaxCrashes = 0, TypeOK, [Next]_vars,
           NEW r \in Refs, creator[r].pc \in {"held", "charged"}
    PROVE  \/ creator'[r].pc \in {"held", "charged"}
           \/ calendar'[Hold(r)] = "absent"
           \/ marker'[r] = Hold(r)
<1> USE DEF TypeOK, Hold
<1>a. <<r, "hold">> \in Events
    BY DEF Events
<1>1. ASSUME NEW q \in Refs, CreateBooking(q), q # r
      PROVE  creator'[r] = creator[r]
    BY <1>1, CreatorEffect
<1>2. CASE CreateCharge(r)
  <2>1. \/ creator' = [creator EXCEPT ![r] = [creator[r] EXCEPT !.pc = "charged"]]
        \/ calendar' = [calendar EXCEPT ![<<r, "hold">>] = "absent"]
      BY <1>2 DEF CreateCharge, Unwind
  <2> QED
      BY <1>a, <2>1 DEF CreatorStates
<1>3. CASE CreateCommit(r)
    BY <1>a, <1>3 DEF CreateCommit, Unwind
<1>4. ~(\/ CreateSweep(r) \/ CreateFreebusy(r) \/ CreateConferences(r)
        \/ CreateInsert(r) \/ CreateHold(r))
    BY DEF CreateSweep, CreateFreebusy, CreateConferences, CreateInsert, CreateHold
<1>5. UNCHANGED creator \/ \E q \in Refs : CreateBooking(q)
    BY NoCrash
    DEF Next, vars, rows, diary, world, requests, CancelBooking, CancelLoad,
       CancelRelease, CancelCommit, Notify, NotifyLoad, NotifyRecord,
       NotifySettle, FinalizePaidBooking, FinalizeLoad, FinalizeCalendar,
       FinalizeMail, FinalizeCommit, Sweep, SweepSelect, SweepRelease,
       SweepCommit, SweepAbort, Pay, Tick, OwnerBooks, ScheduleConference,
       CancelConference
<1> QED
    BY <1>1, <1>2, <1>3, <1>4, <1>5 DEF CreateBooking

\* A task with a late event gives it to the row.
LEMMA TaskEnds ==
    ASSUME Faults \cap {"calendar", "email", "database"} = {}, MaxCrashes = 0,
           TypeOK, AuditInv, MailInv, OwnEvents, [Next]_vars, NEW r \in Refs,
           finalizer[r].event = Late(r), calendar[Late(r)] # "absent"
    PROVE  finalizer'[r].event = Late(r) \/ marker'[r] = Late(r)
<1> USE DEF TypeOK
<1>0. /\ finalizer[r].pc \notin {"idle", "queued"}
      /\ Late(r) # NoEvent
    BY EventNames DEF OwnEvents
<1>1. ASSUME NEW q \in Refs, FinalizePaidBooking(q), q # r
      PROVE  finalizer'[r] = finalizer[r]
    BY <1>1, FinalizeEffect
<1>2. ASSUME NEW p \in {"confirmed", "mailed"},
             finalizer' = [finalizer EXCEPT ![r] = [finalizer[r] EXCEPT !.pc = p]]
      PROVE  finalizer'[r].event = Late(r)
    BY <1>2 DEF TaskStates
<1>3. CASE FinalizeCalendar(r)
  <2>1. finalizer' = [finalizer EXCEPT ![r] = [finalizer[r] EXCEPT !.pc = "confirmed"]]
      BY <1>0, <1>3 DEF FinalizeCalendar
  <2> QED
      BY <1>2, <2>1
<1>4. CASE FinalizeMail(r)
  <2>1. finalizer' = [finalizer EXCEPT ![r] = [finalizer[r] EXCEPT !.pc = "mailed"]]
      BY <1>4 DEF FinalizeMail
  <2> QED
      BY <1>2, <2>1
<1>5. CASE FinalizeCommit(r)
    BY <1>5 DEF FinalizeCommit, Late
<1>6. ~FinalizeLoad(r)
    BY <1>0 DEF FinalizeLoad
<1>7. ASSUME NEW h \in Handlers, NotifySettle(h)
      PROVE  finalizer'[r] = finalizer[r]
  <2>1. /\ notifier[h].ref \in Refs /\ notifier[h].pc = "recorded"
        /\ \/ UNCHANGED finalizer
           \/ finalizer' = [finalizer EXCEPT ![notifier[h].ref] =
                               [finalizer[notifier[h].ref] EXCEPT !.pc = "queued"]]
      BY <1>7, SettleEffect DEF NotifySettle, SettlePaid
  <2>2. finalizer[notifier[h].ref].pc = "idle"
      BY <2>1 DEF AuditInv, RecordedIsNew, MailInv, DispatchedOnce
  <2> QED
      BY <1>0, <2>1, <2>2
<1>8. \/ UNCHANGED finalizer
      \/ \E q \in Refs : FinalizePaidBooking(q)
      \/ \E h \in Handlers : NotifySettle(h)
    BY NoCrash
    DEF Next, vars, rows, diary, world, requests, CreateBooking, CreateSweep,
       CreateFreebusy, CreateConferences, CreateInsert, CreateHold,
       CreateCharge, CreateCommit,
       CancelBooking, CancelLoad, CancelRelease, CancelCommit, Notify,
       NotifyLoad, NotifyRecord, Sweep, SweepSelect, SweepRelease,
       SweepCommit, SweepAbort, Pay, Tick, OwnerBooks, ScheduleConference,
       CancelConference
<1> QED
    BY <1>1, <1>3, <1>4, <1>5, <1>6, <1>7, <1>8 DEF FinalizePaidBooking

LEMMA LeakStep ==
    ASSUME Faults \cap {"calendar", "release", "email", "database"} = {},
           MaxCrashes = 0, BookingInv, NoEventLeaks, [Next]_vars
    PROVE  NoEventLeaks'
<1> SUFFICES ASSUME NEW r \in Refs, NEW k \in {"hold", "late"},
                    calendar'[<<r, k>>] # "absent"
             PROVE  \/ marker'[r] = <<r, k>>
                    \/ k = "hold" /\ creator'[r].pc \in {"held", "charged"}
                    \/ k = "late" /\ finalizer'[r].event = <<r, k>>
    BY DEF NoEventLeaks
<1> USE DEF BookingInv
<1>1. OwnEvents /\ MarkedOrGone /\ SweptRows
    BY DEF CalendarInv
<1>2. CASE calendar[<<r, k>>] # "absent"
  <2>1. CASE marker[r] = <<r, k>>
    <3>1. marker[r] # NoEvent
        BY <2>1, EventNames DEF Hold, Late
    <3>2. creator[r].pc = "idle" /\ finalizer[r].event # Late(r)
        BY <1>1, <3>1, PlaceFacts DEF MarkedOrGone, OwnEvents
    <3>3. ~(r \in sweeper.released /\ UNCHANGED calendar)
        BY <1>1, <1>2, <2>1 DEF SweptRows, Hold
    <3> QED
        BY <2>1, <3>2, <3>3, MarkerEffect
  <2>2. CASE k = "hold" /\ creator[r].pc \in {"held", "charged"}
      BY <2>2, PlaceEnds DEF Hold
  <2>3. CASE k = "late" /\ finalizer[r].event = <<r, k>>
      BY <1>1, <1>2, <2>3, TaskEnds DEF Late
  <2> QED
      BY <1>2, <2>1, <2>2, <2>3 DEF NoEventLeaks
<1>3. CASE calendar[<<r, k>>] = "absent"
    BY <1>1, <1>3, CalendarEffect DEF Hold, Late
<1> QED
    BY <1>2, <1>3

\* While the calendar, the mail server and the database answer and nothing
\* crashes, an event of ours on the calendar is one that a row names or that
\* work in flight is about to name or release, whatever the payment provider
\* and the sweeper do.  Each fault left out leaves an event nobody knows of: a
\* release that fails does while WeChat fails too, the others by themselves.
THEOREM EventsAreNamed ==
    ASSUME Faults \cap {"calendar", "release", "email", "database"} = {},
           MaxCrashes = 0
    PROVE  Spec => []NoEventLeaks
<1>1. Init => NoEventLeaks
    BY DEF Init, NoEventLeaks, Events
<1>2. BookingInv /\ NoEventLeaks /\ [Next]_vars => NoEventLeaks'
    BY LeakStep
<1> QED
    BY <1>1, <1>2, BookingIsConsistent, PTL DEF Spec

\* Expired and cancelled bookings never block a slot, with or without the
\* sweeper: owned_intervals knows every event that they have left.
THEOREM DeadHoldsFreeTheirSlots ==
    ASSUME Faults \cap {"calendar", "release", "email", "database"} = {},
           MaxCrashes = 0
    PROVE  Spec => []StaleHoldsNeverBlock
<1>1. BookingInv /\ NoEventLeaks => StaleHoldsNeverBlock
  <2> SUFFICES ASSUME BookingInv, NoEventLeaks, NEW r \in Refs, NEW i \in FreeBusy(r),
                      \A q \in Refs : Overlap(SlotOf[q], SlotOf[r]) =>
                          /\ ~LiveAt(q, now)
                          /\ creator[q].pc = "idle" /\ finalizer[q].pc = "idle",
                      \A m \in meetings : ~Overlap(m, SlotOf[r])
               PROVE  i \in OwnedIntervals(r, now)
      BY DEF StaleHoldsNeverBlock, CalendarClear
  <2>1. Overlap(i, SlotOf[r])
      BY DEF FreeBusy
  <2>2. PICK q \in Refs : /\ i = Span(SlotOf[q])
                          /\ \E k \in {"hold", "late"} : calendar[<<q, k>>] # "absent"
      BY <2>1 DEF FreeBusy
  <2>3. Overlap(SlotOf[q], SlotOf[r])
      BY <2>1, <2>2 DEF Overlap, Span
  <2>4. creator[q].pc = "idle" /\ finalizer[q].event = NoEvent
      BY <2>3 DEF BookingInv, CalendarInv, OwnEvents
  <2>5. marker[q] # NoEvent
      BY <2>2, <2>4, EventNames DEF NoEventLeaks, Hold, Late
  <2> QED
      BY <2>2, <2>3, <2>5 DEF OwnedIntervals
<1> QED
    BY <1>1, BookingIsConsistent, EventsAreNamed, PTL

(***************************************************************************)
(* What the calendar check lets pass.                                      *)
(***************************************************************************)

\* A pending booking whose event has not been released is busy time to every
\* request it overlaps.
LEMMA PendingIsBusy ==
    ASSUME HoldIsBacked, NEW q \in Refs, NEW r \in Refs,
           status[q] = "pending_payment", canceller[q] # "released",
           Overlap(SlotOf[q], SlotOf[r])
    PROVE  Span(SlotOf[q]) \in FreeBusy(r)
<1>1. \E k \in {"hold", "late"} : calendar[<<q, k>>] # "absent"
    BY DEF HoldIsBacked
<1>2. Overlap(Span(SlotOf[q]), SlotOf[r])
    BY DEF Overlap, Span
<1> QED
    BY <1>1, <1>2 DEF FreeBusy

\* A request that waits for the calendar has just read the database, or has
\* waited before with what it had read then; and it passes by one step only.
LEMMA ReadEffect ==
    ASSUME TypeOK, [Next]_vars, NEW r \in Refs
    PROVE  /\ creator'[r].pc = "swept" => CreateSweep(r) \/ creator'[r] = creator[r]
           /\ creator[r].pc = "swept" /\ creator'[r].pc = "free"
                 => FreeBusy(r) \subseteq creator[r].owned
<1> USE DEF TypeOK
<1>1. CASE creator'[r] = creator[r] \/ creator'[r] = IdleCreator
    BY <1>1 DEF IdleCreator
<1>2. CASE CreateSweep(r)
    BY <1>2 DEF CreateSweep
<1>3. CASE CreateFreebusy(r)
  <2>1. /\ [creator[r] EXCEPT !.pc = "free", !.owned = {}].pc = "free"
        /\ IdleCreator.pc = "idle"
      BY DEF CreatorStates, IdleCreator
  <2>2. \/ creator' = [creator EXCEPT ![r] =
                         [creator[r] EXCEPT !.pc = "free", !.owned = {}]]
           /\ FreeBusy(r) \subseteq creator[r].owned
        \/ creator' = [creator EXCEPT ![r] = IdleCreator]
      BY <1>3 DEF CreateFreebusy
  <2> QED
      BY <2>1, <2>2
<1>4. ASSUME NEW p \in CreatorPcs \ {"swept", "free"},
             creator' = [creator EXCEPT ![r] = [creator[r] EXCEPT !.pc = p]]
      PROVE  creator'[r].pc \notin {"swept", "free"}
    BY <1>4 DEF CreatorStates
<1>5. {"cleared", "inserted", "held", "charged"} \subseteq CreatorPcs \ {"swept", "free"}
    BY DEF CreatorPcs
<1>6. CASE CreateConferences(r) \/ CreateInsert(r)
    BY <1>1, <1>4, <1>5, <1>6 DEF CreateConferences, CreateInsert
<1>7. CASE CreateHold(r) \/ CreateCharge(r) \/ CreateCommit(r)
    BY <1>1, <1>4, <1>5, <1>7 DEF CreateHold, CreateCharge, CreateCommit, Unwind
<1>8. ASSUME NEW q \in Refs, CreateBooking(q), q # r
      PROVE  creator'[r] = creator[r]
    BY <1>8, CreatorEffect
<1> QED
    BY <1>1, <1>2, <1>3, <1>6, <1>7, <1>8, CreatorFrame DEF CreateBooking

\* The row of p is there, and is no live hold of another type than r's: its
\* bounds are among those that a request for r may ignore.
Ignorable(p, r) ==
    /\ status[p] # "none"
    /\ \/ SlotOf[p].type = SlotOf[r].type
       \/ ~(status[p] = "pending_payment" /\ LiveAt(p, creator[r].moment))

\* What a request has read as its own stays so until it asks the calendar.
OwnedIsIgnorable ==
    \A r \in Refs : creator[r].pc = "swept" =>
        \A i \in creator[r].owned :
            \E p \in Refs : Ignorable(p, r) /\ Span(SlotOf[p]) = i

\* A row that may be ignored is not renewed: no deadline moves, and no dead
\* booking becomes pending again.
LEMMA IgnorableStays ==
    ASSUME BookingInv, [Next]_vars, NEW p \in Refs, NEW r \in Refs,
           Ignorable(p, r), creator'[r] = creator[r]
    PROVE  Ignorable(p, r)'
<1> USE DEF BookingInv
<1>1. status[p] # "none" /\ creator[p].pc = "idle"
    BY PlaceFacts DEF Ignorable
<1>2. status'[p] # "none"
    BY <1>1, RowsStay
<1>3. expiresAt'[p] = expiresAt[p]
    BY <1>1, DeadlineFrame DEF CreateCommit, TypeOK
<1>4. status'[p] = "pending_payment" => status[p] = "pending_payment"
    BY <1>1, RowAppears
<1> QED
    BY <1>2, <1>3, <1>4 DEF Ignorable, LiveAt

LEMMA OwnedStep ==
    ASSUME BookingInv, OwnedIsIgnorable, [Next]_vars
    PROVE  OwnedIsIgnorable'
<1> SUFFICES ASSUME NEW r \in Refs, creator'[r].pc = "swept",
                    NEW i \in creator'[r].owned
             PROVE  \E p \in Refs : Ignorable(p, r)' /\ Span(SlotOf[p]) = i
    BY DEF OwnedIsIgnorable, Span
<1> USE DEF BookingInv
<1>1. CASE creator'[r] = creator[r]
  <2>1. PICK p \in Refs : Ignorable(p, r) /\ Span(SlotOf[p]) = i
      BY <1>1 DEF OwnedIsIgnorable
  <2> QED
      BY <1>1, <2>1, IgnorableStays
<1>2. CASE CreateSweep(r)
  <2>1. /\ creator'[r].owned = OwnedIntervals(r, now) /\ creator'[r].moment = now
        /\ UNCHANGED <<status, expiresAt>>
      BY <1>2 DEF CreateSweep, rows, TypeOK
  <2>2. PICK p \in Refs : /\ marker[p] # NoEvent /\ Span(SlotOf[p]) = i
                          /\ \/ ~LiveAt(p, now)
                             \/ SlotOf[p].type = SlotOf[r].type
      BY <2>1 DEF OwnedIntervals
  <2>3. status[p] # "none"
      BY <2>2 DEF CalendarInv, MarkedOrGone
  <2> QED
      BY <2>1, <2>2, <2>3 DEF Ignorable, LiveAt
<1> QED
    BY <1>1, <1>2, ReadEffect

\* A live call of another type keeps blocking the time it overlaps, because
\* its event is in the calendar and not among the intervals the request has
\* read as its own, whatever rows and events come and go between the two
\* reads: only a cancellation that has released the event, or another booking
\* with the same bounds that is dead or of the request's type, lets a request
\* pass.  The faults left out each take the event away from a booking that is
\* pending.
THEOREM LiveCallsKeepBlocking ==
    ASSUME Faults \cap {"release", "database"} = {}, MaxCrashes = 0
    PROVE  Spec => LiveCallsBlock
<1> DEFINE Blocked(q, r) ==
        /\ creator[r].pc = "swept" /\ creator'[r].pc = "free"
        /\ SlotOf[q].type # SlotOf[r].type /\ Overlap(SlotOf[q], SlotOf[r])
        /\ status[q] = "pending_payment" /\ LiveAt(q, creator[r].moment)
        => \/ canceller[q] = "released"
           \/ \E p \in Refs \ {q} : Excuses(p, q, r)
<1>1. Init => OwnedIsIgnorable
    BY DEF Init, OwnedIsIgnorable, IdleCreator
<1>2. BookingInv /\ OwnedIsIgnorable /\ [Next]_vars => OwnedIsIgnorable'
    BY OwnedStep
<1>3. ASSUME BookingInv, OwnedIsIgnorable, HoldIsBacked, [Next]_vars,
             NEW q \in Refs, NEW r \in Refs
      PROVE  Blocked(q, r)
  <2> SUFFICES ASSUME creator[r].pc = "swept", creator'[r].pc = "free",
                      SlotOf[q].type # SlotOf[r].type,
                      Overlap(SlotOf[q], SlotOf[r]),
                      status[q] = "pending_payment", LiveAt(q, creator[r].moment),
                      canceller[q] # "released"
               PROVE  \E p \in Refs \ {q} : Excuses(p, q, r)
      OBVIOUS
  <2>1. Span(SlotOf[q]) \in creator[r].owned
      BY <1>3, PendingIsBusy, ReadEffect DEF BookingInv
  <2>2. PICK p \in Refs : Ignorable(p, r) /\ Span(SlotOf[p]) = Span(SlotOf[q])
      BY <1>3, <2>1 DEF OwnedIsIgnorable
  <2>3. p # q
      BY <2>2 DEF Ignorable
  <2> QED
      BY <2>2, <2>3 DEF Ignorable, Excuses
<1>4. BookingInv /\ OwnedIsIgnorable /\ HoldIsBacked /\ [Next]_vars
         => [\A q, r \in Refs : Blocked(q, r)]_vars
    BY <1>3
<1> QED
    BY <1>1, <1>2, <1>4, BookingIsConsistent, PendingBookingsAreBacked, PTL
    DEF Spec, LiveCallsBlock

=============================================================================
