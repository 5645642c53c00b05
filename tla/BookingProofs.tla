--------------------------- MODULE BookingProofs ---------------------------
(***************************************************************************)
(* Theorems about Booking for every set of references, slots and handlers, *)
(* every hold time and every combination of faults.                        *)
(***************************************************************************)
EXTENDS Booking, TLAPS

(***************************************************************************)
(* Frames: which actions may change a variable.                            *)
(***************************************************************************)

\* Rows change state in three commits only.
LEMMA StatusFrame ==
    [Next]_vars =>
        \/ UNCHANGED status
        \/ \E r \in Refs : CreateCommit(r) \/ CancelCommit(r)
        \/ \E h \in Handlers : NotifySettle(h)
BY DEF Next, vars, rows, diary, world, requests, CreateBooking, CreateSweep,
       CreateFreebusy, CreateConferences, CreateInsert, CreateHold,
       CreateCharge, Charge, CancelBooking, CancelLoad, CancelRelease, Notify, NotifyLoad, NotifyRecord,
       FinalizePaidBooking, FinalizeLoad, FinalizeCalendar, FinalizeMail,
       FinalizeCommit, Sweep, SweepSelect, SweepRelease, SweepCommit,
       SweepAbort, Pay, Tick, OwnerBooks, ScheduleConference,
       CancelConference, Crash

\* Only the notify handler writes the ledger and answers WeChat.
LEMMA LedgerFrame ==
    [Next]_vars =>
        \/ UNCHANGED <<ledger, answers>>
        \/ \E h \in Handlers : NotifyRecord(h) \/ NotifySettle(h)
BY DEF Next, vars, rows, diary, world, requests, CreateBooking, CreateSweep,
       CreateFreebusy, CreateConferences, CreateInsert, CreateHold,
       CreateCharge, CreateCommit,
       CancelBooking, CancelLoad, CancelRelease, CancelCommit, Notify,
       NotifyLoad, FinalizePaidBooking, FinalizeLoad, FinalizeCalendar,
       FinalizeMail, FinalizeCommit, Sweep, SweepSelect, SweepRelease,
       SweepCommit, SweepAbort, Pay, Tick, OwnerBooks, ScheduleConference,
       CancelConference, Crash

\* A handler leaves "idle" by loading an order and becomes "recorded" by
\* NotifyRecord; every other step forgets it or leaves it alone.
LEMMA NotifierFrame ==
    [Next]_vars =>
        \/ UNCHANGED notifier
        \/ notifier' = [h \in Handlers |-> IdleNotifier]
        \/ \E h \in Handlers :
              \/ \E r \in Refs, k \in Kinds : NotifyLoad(h, r, k)
              \/ NotifyRecord(h) \/ NotifySettle(h)
BY DEF Next, vars, rows, diary, world, requests, CreateBooking, CreateSweep,
       CreateFreebusy, CreateConferences, CreateInsert, CreateHold,
       CreateCharge, CreateCommit,
       CancelBooking, CancelLoad, CancelRelease, CancelCommit, Notify,
       FinalizePaidBooking, FinalizeLoad, FinalizeCalendar,
       FinalizeMail, FinalizeCommit, Sweep, SweepSelect, SweepRelease,
       SweepCommit, SweepAbort, Pay, Tick, OwnerBooks, ScheduleConference,
       CancelConference, Crash

(***************************************************************************)
(* Type correctness.                                                       *)
(***************************************************************************)

\* A step to another place of a handler keeps its shape.
LEMMA CreatorMove ==
    ASSUME NEW c \in CreatorStates, NEW p \in CreatorPcs
    PROVE  /\ [c EXCEPT !.pc = p] \in CreatorStates
           /\ [c EXCEPT !.pc = p, !.owned = {}] \in CreatorStates
BY DEF CreatorStates

\* The intervals a request takes for its own are intervals.
LEMMA OwnedType ==
    ASSUME NEW r \in Refs, NEW t
    PROVE  OwnedIntervals(r, t) \subseteq Intervals
<1>1. \A q \in Refs : SlotOf[q].start \in Int /\ SlotOf[q].end \in Int
    BY BookingAssumption DEF IsInterval
<1>2. \A q \in Refs : Span(SlotOf[q]) \in Intervals
    BY <1>1 DEF Span, Intervals
<1> QED
    BY <1>2 DEF OwnedIntervals

LEMMA NotifierMove ==
    ASSUME NEW c \in NotifierStates, NEW p \in NotifierPcs
    PROVE  [c EXCEPT !.pc = p] \in NotifierStates
BY DEF NotifierStates

LEMMA TaskMove ==
    ASSUME NEW c \in TaskStates, NEW p \in TaskPcs
    PROVE  [c EXCEPT !.pc = p] \in TaskStates
BY DEF TaskStates

LEMMA IdleShapes ==
    /\ IdleCreator \in CreatorStates
    /\ IdleNotifier \in NotifierStates
    /\ IdleTask \in TaskStates
    /\ IdleSweeper \in SweeperStates
<1>1. IdleCreator \in CreatorStates /\ IdleTask \in TaskStates
    BY DEF IdleCreator, IdleTask, CreatorStates, CreatorPcs, TaskStates, TaskPcs
<1>2. IdleNotifier \in NotifierStates /\ IdleSweeper \in SweeperStates
    BY DEF IdleNotifier, IdleSweeper, NotifierStates, NotifierPcs, Statuses,
       SweeperStates
<1> QED
    BY <1>1, <1>2

\* The initial state has the types.
LEMMA InitType == Init => TypeOK
BY IdleShapes, BookingAssumption
DEF Init, TypeOK, IdleNotifier, Outcomes, Statuses, Answers

\* Each operation of create_booking keeps the types.
LEMMA CreateType ==
    ASSUME TypeOK, NEW r \in Refs, CreateBooking(r)
    PROVE  TypeOK'
<1> USE DEF TypeOK
<1>a. \A p \in CreatorPcs :
          [creator EXCEPT ![r].pc = p] \in [Refs -> CreatorStates]
    BY CreatorMove
<1>b. {"swept", "free", "cleared", "inserted", "held", "charged"} \subseteq CreatorPcs
    BY DEF CreatorPcs
<1>c. [creator EXCEPT ![r] = IdleCreator] \in [Refs -> CreatorStates]
    BY IdleShapes
<1>d. <<r, "hold">> \in Events
    BY DEF Events
<1>1. CASE CreateSweep(r)
  <2>1. [pc |-> "swept", moment |-> now, swept |-> StaleHolds(r, now),
         owned |-> OwnedIntervals(r, now)] \in CreatorStates
      BY OwnedType DEF StaleHolds, CreatorStates, CreatorPcs
  <2> QED
      BY <1>1, <2>1 DEF CreateSweep, rows, diary, world
<1>2. CASE CreateFreebusy(r)
  <2>1. [creator[r] EXCEPT !.pc = "free", !.owned = {}] \in CreatorStates
      BY <1>b, CreatorMove
  <2>2. creator' \in [Refs -> CreatorStates]
      BY <1>2, <1>c, <2>1 DEF CreateFreebusy
  <2> QED
      BY <1>2, <2>2 DEF CreateFreebusy, rows, diary, world
<1>7. CASE CreateConferences(r)
    BY <1>7, <1>b, CreatorMove, IdleShapes
    DEF CreateConferences, rows, diary, world
<1>3. CASE CreateInsert(r)
    BY <1>3, <1>b, CreatorMove, IdleShapes DEF CreateInsert, rows, diary, world
<1>4. CASE CreateHold(r)
  <2>1. creator' \in [Refs -> CreatorStates]
      BY <1>4, <1>a, <1>b, <1>c DEF CreateHold
  <2> QED
      BY <1>4, <1>d, <2>1 DEF CreateHold, rows, diary
<1>5. CASE CreateCharge(r)
  <2>1. creator' \in [Refs -> CreatorStates]
      BY <1>5, <1>a, <1>b, <1>c DEF CreateCharge, Charge, Unwind
  <2> QED
      BY <1>5, <1>d, <2>1 DEF CreateCharge, Charge, Unwind, rows, diary
<1>6. CASE CreateCommit(r)
  <2>1. creator' \in [Refs -> CreatorStates]
      BY <1>6, <1>c DEF CreateCommit, Unwind
  <2>2. Expiry(r) \in Nat
      BY BookingAssumption DEF Expiry, CreatorStates
  <2> QED
      BY <1>6, <1>d, <2>1, <2>2
      DEF CreateCommit, Unwind, Statuses, diary
<1> QED
    BY <1>1, <1>2, <1>3, <1>4, <1>5, <1>6, <1>7 DEF CreateBooking

\* So does cancel_booking.
LEMMA CancelType ==
    ASSUME TypeOK, NEW r \in Refs, CancelBooking(r)
    PROVE  TypeOK'
<1>1. <<r, "hold">> \in Events
    BY DEF Events
<1> QED
    BY <1>1 DEF CancelBooking, CancelLoad, CancelRelease, CancelCommit, TypeOK,
       Statuses, rows, diary, world

\* A dismissal records an outcome and gives an answer.
LEMMA DismissalType ==
    ASSUME TypeOK, NEW h \in Handlers, notifier[h].ref \in Refs
    PROVE  Dismissal(h)[1] \in Outcomes /\ Dismissal(h)[2] \in Answers
BY DEF Dismissal, TypeOK, Outcomes, Answers

\* So does the notify handler.
LEMMA NotifyType ==
    ASSUME TypeOK, NEW h \in Handlers, Notify(h)
    PROVE  TypeOK'
<1> USE DEF TypeOK
<1>a. [notifier EXCEPT ![h] = IdleNotifier] \in [Handlers -> NotifierStates]
    BY IdleShapes
<1>b. IdleNotifier.pc = "idle"
    BY DEF IdleNotifier
<1>1. ASSUME NEW r \in Refs, NEW k \in Kinds, NotifyLoad(h, r, k)
      PROVE  TypeOK'
  <2>1. [pc |-> "loaded", ref |-> r, kind |-> k, seen |-> status[r]]
            \in NotifierStates
      BY BookingAssumption DEF NotifierStates, NotifierPcs
  <2> QED
      BY <1>1, <2>1 DEF NotifyLoad, rows, diary, world
<1>2. CASE NotifyRecord(h)
  <2>1. CASE Settles(h)
    <3>1. [notifier[h] EXCEPT !.pc = "recorded"] \in NotifierStates
        BY NotifierMove DEF NotifierPcs
    <3>2. notifier' \in [Handlers -> NotifierStates]
        BY <1>2, <2>1, <3>1 DEF NotifyRecord
    <3>3. \A g \in Handlers : /\ notifier'[g].ref = notifier[g].ref
                              /\ g # h => notifier'[g].pc = notifier[g].pc
        BY <1>2, <2>1 DEF NotifyRecord, NotifierStates
    <3>4. notifier[h].pc = "loaded"
        BY <1>2 DEF NotifyRecord
    <3> QED
        BY <1>2, <2>1, <3>2, <3>3, <3>4 DEF NotifyRecord, rows, diary
  <2>2. CASE ~Settles(h)
    <3>1. notifier[h].ref \in Refs
        BY <1>2 DEF NotifyRecord
    <3>2. /\ notifier' = [notifier EXCEPT ![h] = IdleNotifier]
          /\ UNCHANGED <<now, rows, diary, calendar, order, mails, creator,
                         canceller, finalizer, sweeper, crashes>>
        BY <1>2, <2>2 DEF NotifyRecord, NotifierDone
    <3>3. CASE ledger' = [ledger EXCEPT ![notifier[h].ref] = Dismissal(h)[1]]
               /\ Answer(notifier[h].ref, Dismissal(h)[2])
        BY <1>a, <1>b, <3>1, <3>2, <3>3, DismissalType DEF Answer, rows, diary
    <3>4. CASE UNCHANGED ledger /\ Answer(notifier[h].ref, "fail")
        BY <1>a, <1>b, <3>1, <3>2, <3>4 DEF Answer, Answers, rows, diary
    <3> QED
        BY <1>2, <2>2, <3>3, <3>4 DEF NotifyRecord
  <2> QED
      BY <2>1, <2>2
<1>3. CASE NotifySettle(h)
  <2> DEFINE q == notifier[h].ref
  <2>a. q \in Refs
      BY <1>3 DEF NotifySettle
  <2>b. [finalizer[q] EXCEPT !.pc = "queued"] \in TaskStates
    <3>1. "queued" \in TaskPcs
        BY DEF TaskPcs
    <3> QED
        BY <2>a, <3>1, TaskMove
  <2>1. finalizer' \in [Refs -> TaskStates]
      BY <1>3, <2>a, <2>b DEF NotifySettle, SettlePaid
  <2> QED
      BY <1>3, <1>a, <1>b, <2>1 DEF NotifySettle, SettlePaid, Answer, Refusal,
         NotifierDone, Outcomes, Statuses, Answers, diary
<1> QED
    BY <1>1, <1>2, <1>3 DEF Notify

\* So does the task that finalizes a booking.
LEMMA FinalizeType ==
    ASSUME TypeOK, NEW r \in Refs, FinalizePaidBooking(r)
    PROVE  TypeOK'
<1> USE DEF TypeOK
<1>a. \A p \in TaskPcs : [finalizer EXCEPT ![r].pc = p] \in [Refs -> TaskStates]
    BY TaskMove
<1>b. \A e \in Events \cup {NoEvent}, p \in TaskPcs :
          [pc |-> p, event |-> e] \in TaskStates
    BY DEF TaskStates
<1>c. {"loaded", "confirmed", "mailed"} \subseteq TaskPcs
    BY DEF TaskPcs
<1>d. <<r, "late">> \in Events
    BY DEF Events
<1>1. CASE FinalizeLoad(r)
    BY <1>1, <1>b, <1>c, IdleShapes DEF FinalizeLoad, rows, diary, world
<1>2. CASE FinalizeCalendar(r)
  <2>1. finalizer' \in [Refs -> TaskStates]
      BY <1>2, <1>a, <1>b, <1>c, <1>d, IdleShapes, TaskMove DEF FinalizeCalendar
  <2> QED
      BY <1>2, <1>d, <2>1 DEF FinalizeCalendar, rows, diary
<1>3. CASE FinalizeMail(r)
    BY <1>3, <1>a, <1>c, IdleShapes DEF FinalizeMail, rows, diary
<1>4. CASE FinalizeCommit(r)
    BY <1>4, <1>d, IdleShapes DEF FinalizeCommit, diary, world
<1> QED
    BY <1>1, <1>2, <1>3, <1>4 DEF FinalizePaidBooking

\* So does the sweeper.
LEMMA SweepType ==
    ASSUME TypeOK, Sweep
    PROVE  TypeOK'
<1> USE DEF TypeOK
<1>1. CASE SweepSelect
    BY <1>1 DEF SweepSelect, Orphan, SweeperStates, rows, diary, world, requests
<1>2. ASSUME NEW r \in Refs, SweepRelease(r) PROVE TypeOK'
  <2>1. sweeper' \in SweeperStates
      BY <1>2 DEF SweepRelease, CloseOrder, SweeperStates
  <2>2. <<r, "hold">> \in Events
      BY DEF Events
  <2> QED
      BY <1>2, <2>1, <2>2 DEF SweepRelease, CloseOrder, rows, diary, requests
<1>3. CASE SweepCommit \/ SweepAbort
    BY <1>3, IdleShapes DEF SweepCommit, SweepAbort, rows, diary, world, requests
<1> QED
    BY <1>1, <1>2, <1>3 DEF Sweep

\* And the environment.
LEMMA WorldType ==
    ASSUME TypeOK,
           \/ \E r \in Refs : Pay(r)
           \/ Tick
           \/ \E m \in Meetings : OwnerBooks(m)
           \/ \E c \in Conferences : ScheduleConference(c) \/ CancelConference(c)
           \/ Crash
    PROVE  TypeOK'
<1> USE DEF TypeOK, rows, diary, world, requests
<1>1. ASSUME NEW r \in Refs, Pay(r) PROVE TypeOK'
    BY <1>1 DEF Pay
<1>2. CASE Tick
    BY <1>2 DEF Tick
<1>3. ASSUME NEW m \in Meetings, OwnerBooks(m) PROVE TypeOK'
    BY <1>3 DEF OwnerBooks
<1>4. ASSUME NEW c \in Conferences, ScheduleConference(c) \/ CancelConference(c)
      PROVE  TypeOK'
    BY <1>4 DEF ScheduleConference, CancelConference
<1>5. CASE Crash
    BY <1>5, IdleShapes DEF Crash, IdleNotifier
<1> QED
    BY <1>1, <1>2, <1>3, <1>4, <1>5

LEMMA TypeStep == TypeOK /\ [Next]_vars => TypeOK'
<1>1. ASSUME TypeOK, UNCHANGED vars PROVE TypeOK'
    BY <1>1 DEF TypeOK, vars
<1>2. ASSUME TypeOK, Next PROVE TypeOK'
    BY <1>2, CreateType, CancelType, NotifyType, FinalizeType, SweepType,
       WorldType DEF Next
<1> QED
    BY <1>1, <1>2

\* Every variable keeps the shape its table, queue or handler has in the code.
THEOREM TypeCorrect == Spec => []TypeOK
BY InitType, TypeStep, PTL DEF Spec

(***************************************************************************)
(* A slot is sold once.  The index alone does not say so between an INSERT *)
(* and its commit: what holds then is that the slot of an uncommitted row  *)
(* has no other live row and no other uncommitted row.                     *)
(***************************************************************************)
InsertGuarded == \A r \in Uncommitted : IndexAllows(r, creator[r].swept)

OneInserter == \A q, r \in Uncommitted : SameSlot(q, r) => q = r

SlotInv == SlotSoldOnce /\ InsertGuarded /\ OneInserter

\* A request has an uncommitted row only since its own INSERT, and what it
\* swept does not change while it has.
LEMMA UncommittedFrame ==
    ASSUME TypeOK, [Next]_vars, NEW r \in Uncommitted'
    PROVE  \/ r \in Uncommitted /\ creator'[r].swept = creator[r].swept
           \/ /\ CreateInsert(r)
              /\ IndexAllows(r, creator[r].swept)
              /\ creator'[r].swept = creator[r].swept
              /\ Uncommitted' = Uncommitted \cup {r}
<1> USE DEF Uncommitted
<1>1. CASE UNCHANGED creator
    BY <1>1
<1>2. CASE creator' = [q \in Refs |-> IdleCreator]
    BY <1>2 DEF IdleCreator
<1>3. ASSUME NEW q \in Refs, creator' = [creator EXCEPT ![q] = IdleCreator]
      PROVE  r \in Uncommitted /\ creator'[r].swept = creator[r].swept
    BY <1>3 DEF IdleCreator, TypeOK
<1>4. ASSUME NEW q \in Refs, CreateSweep(q)
      PROVE  r \in Uncommitted /\ creator'[r].swept = creator[r].swept
    BY <1>4 DEF CreateSweep, TypeOK
<1>9. ASSUME NEW q \in Refs, CreateFreebusy(q) \/ CreateConferences(q)
      PROVE  r \in Uncommitted /\ creator'[r].swept = creator[r].swept
  <2>1. /\ creator'[q].pc \notin {"inserted", "held", "charged"}
        /\ \A x \in Refs \ {q} : creator'[x] = creator[x]
    <3>1. \/ creator' = [creator EXCEPT ![q] =
                            [creator[q] EXCEPT !.pc = "free", !.owned = {}]]
          \/ creator' = [creator EXCEPT ![q] = [creator[q] EXCEPT !.pc = "cleared"]]
          \/ creator' = [creator EXCEPT ![q] = IdleCreator]
        BY <1>9 DEF CreateFreebusy, CreateConferences
    <3>2. ASSUME NEW c, creator' = [creator EXCEPT ![q] = c],
                 c.pc \notin {"inserted", "held", "charged"}
          PROVE  /\ creator'[q].pc \notin {"inserted", "held", "charged"}
                 /\ \A x \in Refs \ {q} : creator'[x] = creator[x]
        BY <3>2 DEF TypeOK
    <3>3. /\ [creator[q] EXCEPT !.pc = "free", !.owned = {}].pc = "free"
          /\ [creator[q] EXCEPT !.pc = "cleared"].pc = "cleared"
          /\ IdleCreator.pc = "idle"
        BY DEF TypeOK, CreatorStates, IdleCreator
    <3> QED
        BY <3>1, <3>2, <3>3
  <2> QED
      BY <2>1
<1>5. ASSUME NEW q \in Refs, NEW p \in {"held", "charged"},
             creator' = [creator EXCEPT ![q].pc = p],
             q \in Uncommitted
      PROVE  r \in Uncommitted /\ creator'[r].swept = creator[r].swept
  <2>1. /\ creator'[q].pc = p /\ creator'[q].swept = creator[q].swept
        /\ \A x \in Refs \ {q} : creator'[x] = creator[x]
      BY <1>5 DEF TypeOK, CreatorStates
  <2> QED
      BY <1>5, <2>1
<1>6. ASSUME NEW q \in Refs, CreateInsert(q),
             IndexAllows(q, creator[q].swept)
      PROVE  \/ r \in Uncommitted /\ creator'[r].swept = creator[r].swept
             \/ /\ r = q
                /\ creator'[r].swept = creator[r].swept
                /\ Uncommitted' = Uncommitted \cup {r}
  <2>1. creator' = [creator EXCEPT ![q] = [creator[q] EXCEPT !.pc = "inserted"]]
      BY <1>6 DEF CreateInsert
  <2>2. /\ creator'[q].pc = "inserted" /\ creator'[q].swept = creator[q].swept
        /\ \A x \in Refs \ {q} : creator'[x] = creator[x]
      BY <2>1 DEF TypeOK, CreatorStates
  <2> QED
      BY <2>2
<1>7. ASSUME NEW q \in Refs, CreateBooking(q)
      PROVE  \/ r \in Uncommitted /\ creator'[r].swept = creator[r].swept
             \/ /\ CreateInsert(r)
                /\ IndexAllows(r, creator[r].swept)
                /\ creator'[r].swept = creator[r].swept
                /\ Uncommitted' = Uncommitted \cup {r}
  <2>1. CASE CreateSweep(q)
      BY <2>1, <1>4
  <2>2. CASE CreateInsert(q)
    <3>1. CASE IndexAllows(q, creator[q].swept)
        BY <2>2, <3>1, <1>6
    <3>2. CASE ~IndexAllows(q, creator[q].swept)
        BY <2>2, <3>2, <1>3 DEF CreateInsert
    <3> QED
        BY <3>1, <3>2
  <2>3. CASE CreateFreebusy(q) \/ CreateConferences(q)
      BY <2>3, <1>9
  <2>4. CASE CreateHold(q)
      BY <2>4, <1>3, <1>5 DEF CreateHold
  <2>5. CASE CreateCharge(q)
      BY <2>5, <1>3, <1>5 DEF CreateCharge, Charge, Unwind
  <2>6. CASE CreateCommit(q)
      BY <2>6, <1>3 DEF CreateCommit, Unwind
  <2> QED
      BY <1>7, <2>1, <2>2, <2>3, <2>4, <2>5, <2>6 DEF CreateBooking
<1>8. \/ UNCHANGED creator
      \/ creator' = [q \in Refs |-> IdleCreator]
      \/ \E q \in Refs : CreateBooking(q)
    BY DEF Next, vars, rows, diary, world, requests, CancelBooking, CancelLoad,
       CancelRelease, CancelCommit, Notify, NotifyLoad, NotifyRecord,
       NotifySettle, FinalizePaidBooking, FinalizeLoad, FinalizeCalendar,
       FinalizeMail, FinalizeCommit, Sweep, SweepSelect, SweepRelease,
       SweepCommit, SweepAbort, Pay, Tick, OwnerBooks, ScheduleConference,
       CancelConference, Crash
<1> QED
    BY <1>1, <1>2, <1>7, <1>8

\* Every commit leaves a slot with one live row, and every INSERT finds its
\* slot clear of live and uncommitted rows.
LEMMA SlotStep ==
    ASSUME TypeOK, SlotInv, [Next]_vars
    PROVE  SlotInv'
<1> USE DEF SameSlot, InIndex, IndexAllows
<1>1. OneInserter'
  <2> SUFFICES ASSUME NEW q \in Uncommitted', NEW r \in Uncommitted',
                      SameSlot(q, r), q # r
               PROVE  FALSE
      BY DEF OneInserter
  <2>1. CASE q \in Uncommitted /\ r \in Uncommitted
      BY <2>1 DEF SlotInv, OneInserter
  <2>2. ASSUME NEW x \in Uncommitted', NEW y \in Uncommitted',
               x # y, SameSlot(x, y), x \notin Uncommitted
        PROVE  FALSE
    <3>1. CreateInsert(x) /\ y \in Uncommitted
        BY <2>2, UncommittedFrame
    <3> QED
        BY <2>2, <3>1 DEF CreateInsert, SlotInserting
  <2> QED
      BY <2>1, <2>2
<1>2. CASE UNCHANGED status
  <2>1. SlotSoldOnce'
      BY <1>2 DEF SlotInv, SlotSoldOnce
  <2>2. ASSUME NEW r \in Uncommitted'
        PROVE  IndexAllows(r, creator[r].swept)'
    <3>1. IndexAllows(r, creator[r].swept)
        BY UncommittedFrame DEF SlotInv, InsertGuarded
    <3>2. creator'[r].swept = creator[r].swept
        BY UncommittedFrame
    <3> QED
        BY <1>2, <3>1, <3>2
  <2> QED
      BY <1>1, <2>1, <2>2 DEF SlotInv, InsertGuarded
<1>3. ASSUME NEW r \in Refs, CreateCommit(r), ~ UNCHANGED status
      PROVE  SlotInv'
  <2>1. /\ creator[r].pc = "charged"
        /\ status' = [q \in Refs |->
                         IF q = r THEN "pending_payment"
                         ELSE IF q \in creator[r].swept THEN "expired"
                         ELSE status[q]]
        /\ creator' = [creator EXCEPT ![r] = IdleCreator]
      BY <1>3 DEF CreateCommit
  <2>2. r \in Uncommitted
      BY <2>1 DEF Uncommitted
  <2>3. \A q \in Refs \ {r} : SameSlot(q, r) => ~InIndex(q)'
      BY <2>1, <2>2 DEF SlotInv, InsertGuarded
  <2>4. \A q \in Refs \ {r} : InIndex(q)' => InIndex(q)
      BY <2>1
  <2>5. SlotSoldOnce'
      BY <2>3, <2>4 DEF SlotInv, SlotSoldOnce
  <2>6. ASSUME NEW q \in Uncommitted'
        PROVE  IndexAllows(q, creator[q].swept)'
    <3>1. q \in Uncommitted /\ q # r /\ creator'[q] = creator[q]
        BY <2>1 DEF Uncommitted, IdleCreator, TypeOK
    <3>2. ~SameSlot(q, r)
        BY <2>2, <3>1 DEF SlotInv, OneInserter
    <3> QED
        BY <2>4, <3>1, <3>2 DEF SlotInv, InsertGuarded
  <2> QED
      BY <1>1, <2>5, <2>6 DEF SlotInv, InsertGuarded
<1>4. ASSUME NEW r \in Refs, CancelCommit(r)
      PROVE  SlotInv'
  <2>1. UNCHANGED creator /\ \A q \in Refs : InIndex(q)' => InIndex(q)
      BY <1>4 DEF CancelCommit, TypeOK
  <2> QED
      BY <1>1, <2>1
      DEF SlotInv, SlotSoldOnce, InsertGuarded, Uncommitted
<1>5. ASSUME NEW h \in Handlers, NotifySettle(h), ~ UNCHANGED status
      PROVE  SlotInv'
  <2> DEFINE r == notifier[h].ref
  <2>1. /\ r \in Refs
        /\ ~SlotInserting(r)
        /\ IndexAllows(r, {})
        /\ status' = [status EXCEPT ![r] = "paid"]
        /\ UNCHANGED creator
      BY <1>5 DEF NotifySettle, SettlePaid, TypeOK
  <2>2. \A q \in Refs \ {r} : InIndex(q)' => InIndex(q)
      BY <2>1 DEF TypeOK
  <2>3. SlotSoldOnce'
      BY <2>1, <2>2 DEF SlotInv, SlotSoldOnce
  <2>4. ASSUME NEW q \in Uncommitted'
        PROVE  IndexAllows(q, creator[q].swept)'
    <3>1. q \in Uncommitted /\ creator'[q] = creator[q]
        BY <2>1 DEF Uncommitted
    <3>2. q = r \/ ~SameSlot(q, r)
        BY <2>1, <3>1 DEF SlotInserting
    <3> QED
        BY <2>2, <3>1, <3>2 DEF SlotInv, InsertGuarded, Uncommitted
  <2> QED
      BY <1>1, <2>3, <2>4 DEF SlotInv, InsertGuarded
<1> QED
    BY <1>2, <1>3, <1>4, <1>5, StatusFrame

\* At most one committed row of a slot is pending or paid, whatever holds
\* expire, payments revive rows or requests race.
THEOREM SlotsAreSoldOnce == Spec => []SlotSoldOnce
<1>1. Init => SlotInv
    BY DEF Init, SlotInv, SlotSoldOnce, InsertGuarded, OneInserter, InIndex,
       Uncommitted, IdleCreator
<1>2. SlotInv => SlotSoldOnce
    BY DEF SlotInv
<1> QED
    BY <1>1, <1>2, SlotStep, TypeCorrect, PTL DEF Spec

(***************************************************************************)
(* Payments.  Between the flush of the audit row and the commit the ledger *)
(* has no row for the transaction and no other handler is past its flush.  *)
(***************************************************************************)
RecordedIsNew ==
    \A h \in Handlers :
        notifier[h].pc = "recorded" => ledger[notifier[h].ref] = "none"

OneRecorder ==
    \A g, h \in Handlers :
        /\ notifier[g].pc = "recorded" /\ notifier[h].pc = "recorded"
        /\ notifier[g].ref = notifier[h].ref
        => g = h

AuditInv == PaidIsAudited /\ RecordedIsNew /\ OneRecorder

\* What the two writers of the ledger do to it, and who has it in hand.
LEMMA RecordEffect ==
    ASSUME TypeOK, NEW h \in Handlers, NotifyRecord(h)
    PROVE  /\ notifier[h].ref \in Refs
           /\ UNCHANGED <<status, mails, finalizer, finalized>>
           /\ \A g \in Handlers \ {h} : notifier'[g] = notifier[g]
           /\ \/ /\ ledger[notifier[h].ref] = "none"
                 /\ notifier'[h].ref = notifier[h].ref
                 /\ UNCHANGED <<ledger, answers>>
              \/ /\ notifier'[h].pc = "idle"
                 /\ ledger' = [ledger EXCEPT ![notifier[h].ref] = Dismissal(h)[1]]
                 /\ Answer(notifier[h].ref, Dismissal(h)[2])
              \/ /\ notifier'[h].pc = "idle"
                 /\ UNCHANGED ledger
                 /\ Answer(notifier[h].ref, "fail")
<1> USE DEF TypeOK
<1>1. notifier[h].ref \in Refs
    BY DEF NotifyRecord
<1>2. CASE Settles(h)
  <2>1. notifier' = [notifier EXCEPT ![h] = [notifier[h] EXCEPT !.pc = "recorded"]]
      BY <1>2 DEF NotifyRecord
  <2>2. /\ notifier'[h].ref = notifier[h].ref
        /\ \A g \in Handlers \ {h} : notifier'[g] = notifier[g]
      BY <2>1 DEF NotifierStates
  <2> QED
      BY <1>1, <1>2, <2>2 DEF NotifyRecord, Settles, rows
<1>3. CASE ~Settles(h)
    BY <1>1, <1>3 DEF NotifyRecord, NotifierDone, IdleNotifier, rows
<1> QED
    BY <1>2, <1>3

LEMMA SettleEffect ==
    ASSUME TypeOK, NEW h \in Handlers, NotifySettle(h)
    PROVE  /\ notifier[h].ref \in Refs
           /\ notifier[h].pc = "recorded"
           /\ notifier'[h].pc = "idle"
           /\ \A g \in Handlers \ {h} : notifier'[g] = notifier[g]
           /\ UNCHANGED <<mails, finalized>>
           /\ \/ /\ IndexAllows(notifier[h].ref, {})
                 /\ status' = [status EXCEPT ![notifier[h].ref] = "paid"]
                 /\ ledger' = [ledger EXCEPT ![notifier[h].ref] = "paid"]
                 /\ SettlePaid(notifier[h].ref)
              \/ /\ UNCHANGED <<status, ledger, finalizer>>
                 /\ \/ Answer(notifier[h].ref, "fail")
                    \/ Answer(notifier[h].ref, "refund_required")
BY DEF NotifySettle, SettlePaid, NotifierDone, IdleNotifier, Refusal, TypeOK

\* Dismissing a notification never rewrites a row of the ledger, and writes
\* a refusal where there is none.
LEMMA DismissalKeepsLedger ==
    ASSUME TypeOK, NEW h \in Handlers, notifier[h].ref \in Refs
    PROVE  /\ ledger[notifier[h].ref] # "none"
                  => /\ Dismissal(h)[1] = ledger[notifier[h].ref]
                     /\ Dismissal(h)[2] \in {"fail", "success"}
           /\ ledger[notifier[h].ref] = "none"
                  => /\ Dismissal(h)[1] \notin {"none", "paid"}
                     /\ Dismissal(h)[2] \in {"fail", "refund_required"}
BY DEF Dismissal

\* The audit row and the row it audits change together, once.
LEMMA AuditStep ==
    ASSUME TypeOK, AuditInv, [Next]_vars
    PROVE  /\ AuditInv'
           /\ \A r \in Refs : ledger[r] # "none" => ledger'[r] = ledger[r]
<1> USE DEF TypeOK, AuditInv, PaidIsAudited, RecordedIsNew, OneRecorder
<1>1. /\ \A r \in Refs : ledger[r] # "none" => ledger'[r] = ledger[r]
      /\ PaidIsAudited'
  <2>1. ASSUME UNCHANGED ledger, UNCHANGED status
        PROVE  /\ \A r \in Refs : ledger[r] # "none" => ledger'[r] = ledger[r]
               /\ PaidIsAudited'
      BY <2>1
  <2>2. ASSUME UNCHANGED ledger, NEW r \in Refs,
               CreateCommit(r) \/ CancelCommit(r)
        PROVE  PaidIsAudited'
      BY <2>2 DEF CreateCommit, CancelCommit
  <2>3. ASSUME NEW h \in Handlers, NotifyRecord(h)
        PROVE  /\ \A r \in Refs : ledger[r] # "none" => ledger'[r] = ledger[r]
               /\ PaidIsAudited'
      BY <2>3, RecordEffect, DismissalKeepsLedger
  <2>4. ASSUME NEW h \in Handlers, NotifySettle(h)
        PROVE  /\ \A r \in Refs : ledger[r] # "none" => ledger'[r] = ledger[r]
               /\ PaidIsAudited'
    <3> DEFINE q == notifier[h].ref
    <3>1. q \in Refs /\ ledger[q] = "none"
        BY <2>4, SettleEffect
    <3>2. \/ UNCHANGED <<status, ledger>>
          \/ /\ status' = [status EXCEPT ![q] = "paid"]
             /\ ledger' = [ledger EXCEPT ![q] = "paid"]
        BY <2>4, SettleEffect
    <3> QED
        BY <3>1, <3>2
  <2> QED
      BY <2>1, <2>2, <2>3, <2>4, StatusFrame, LedgerFrame
<1>2. ASSUME UNCHANGED ledger,
             \/ UNCHANGED notifier
             \/ notifier' = [h \in Handlers |-> IdleNotifier]
             \/ \E h \in Handlers, r \in Refs, k \in Kinds : NotifyLoad(h, r, k)
      PROVE  RecordedIsNew' /\ OneRecorder'
    BY <1>2 DEF NotifyLoad, IdleNotifier
<1>3. ASSUME NEW h \in Handlers, NotifyRecord(h)
      PROVE  RecordedIsNew' /\ OneRecorder'
  <2>1. \A g \in Handlers \ {h} :
            ~(notifier[g].pc = "recorded" /\ notifier[g].ref = notifier[h].ref)
      BY <1>3 DEF NotifyRecord, TransactionFree
  <2>2. \A g \in Handlers : notifier'[g].pc = "recorded" =>
            /\ notifier'[g].ref = notifier[g].ref
            /\ \/ g = h /\ ledger[notifier[h].ref] = "none" /\ UNCHANGED ledger
               \/ g # h /\ notifier[g].pc = "recorded"
      BY <1>3, RecordEffect
  <2>3. \A q \in Refs : q # notifier[h].ref => ledger'[q] = ledger[q]
      BY <1>3, RecordEffect
  <2>4. \A g \in Handlers : notifier[g].pc = "recorded" => notifier[g].ref \in Refs
      OBVIOUS
  <2>5. RecordedIsNew'
      BY <2>1, <2>2, <2>3, <2>4
  <2>6. OneRecorder'
      BY <2>1, <2>2
  <2> QED
      BY <2>5, <2>6
<1>4. ASSUME NEW h \in Handlers, NotifySettle(h)
      PROVE  RecordedIsNew' /\ OneRecorder'
  <2>1. \A g \in Handlers : notifier'[g].pc = "recorded" =>
            /\ g # h /\ notifier'[g] = notifier[g]
            /\ notifier[g].ref \in Refs \ {notifier[h].ref}
      BY <1>4, SettleEffect
  <2>2. \A q \in Refs : q # notifier[h].ref => ledger'[q] = ledger[q]
      BY <1>4, SettleEffect
  <2> QED
      BY <2>1, <2>2
<1>5. ASSUME NEW r \in Refs, CreateCommit(r) \/ CancelCommit(r)
      PROVE  UNCHANGED <<ledger, notifier>>
    BY <1>5 DEF CreateCommit, CancelCommit
<1> QED
    BY <1>1, <1>2, <1>3, <1>4, LedgerFrame, NotifierFrame

LEMMA InitAudit == Init => AuditInv
BY DEF Init, AuditInv, PaidIsAudited, RecordedIsNew, OneRecorder, IdleNotifier

\* No booking is paid without the payment_events row that says why.
THEOREM PaymentsAreAudited == Spec => []PaidIsAudited
<1>1. AuditInv => PaidIsAudited
    BY DEF AuditInv
<1> QED
    BY <1>1, InitAudit, AuditStep, TypeCorrect, PTL DEF Spec

\* The first outcome recorded for a transaction is the only one.
THEOREM LedgerIsAppendOnly == Spec => AuditAppendOnly
<1>1. TypeOK /\ AuditInv /\ [Next]_vars =>
          [\A r \in Refs : ledger[r] # "none" => ledger'[r] = ledger[r]]_vars
    BY AuditStep
<1> QED
    BY <1>1, InitAudit, AuditStep, TypeCorrect, PTL DEF Spec, AuditAppendOnly

\* A refusal on record was told to WeChat.
RefusalIsTold ==
    \A r \in Refs : ledger[r] \notin {"none", "paid"} =>
        answers[r] \cap {"fail", "refund_required"} # {}

AnswerInv == AnsweredIsAudited /\ RefusalIsTold

\* WeChat is told SUCCESS only once a row is on record, and a refusal on
\* record was told before.
LEMMA AnswerStep ==
    ASSUME TypeOK, AuditInv, AnswerInv, [Next]_vars
    PROVE  AnswerInv'
<1> USE DEF TypeOK, AnswerInv, AnsweredIsAudited, RefusalIsTold
<1>1. CASE UNCHANGED <<ledger, answers>>
    BY <1>1
<1>2. ASSUME NEW h \in Handlers, NEW q \in Refs, NEW o, NEW a,
             ledger[q] # "none" => o = ledger[q] /\ a \in {"fail", "success"},
             ledger[q] = "none" => /\ o \notin {"none", "paid"}
                                   /\ a \in {"fail", "refund_required"},
             ledger' = [ledger EXCEPT ![q] = o], Answer(q, a)
      PROVE  AnswerInv'
  <2>1. /\ ledger'[q] = o /\ answers'[q] = answers[q] \cup {a}
        /\ \A r \in Refs \ {q} : ledger'[r] = ledger[r] /\ answers'[r] = answers[r]
      BY <1>2 DEF Answer
  <2> QED
      BY <1>2, <2>1
<1>a. ASSUME NEW q \in Refs, UNCHANGED ledger,
             NEW a \in {"fail", "refund_required"}, Answer(q, a)
      PROVE  AnswerInv'
  <2>1. /\ answers'[q] = answers[q] \cup {a}
        /\ \A r \in Refs \ {q} : answers'[r] = answers[r]
      BY <1>a DEF Answer
  <2> QED
      BY <1>a, <2>1
<1>3. ASSUME NEW h \in Handlers, NotifyRecord(h)
      PROVE  AnswerInv'
    BY <1>3, <1>1, <1>2, <1>a, RecordEffect, DismissalKeepsLedger
<1>4. ASSUME NEW h \in Handlers, NotifySettle(h)
      PROVE  AnswerInv'
  <2> DEFINE q == notifier[h].ref
  <2>1. q \in Refs /\ ledger[q] = "none"
      BY <1>4, SettleEffect DEF AuditInv, RecordedIsNew
  <2>2. CASE SettlePaid(q)
    <3>1. /\ ledger'[q] = "paid"
          /\ \A r \in Refs \ {q} : ledger'[r] = ledger[r] /\ answers'[r] = answers[r]
        BY <2>1, <2>2 DEF SettlePaid, Answer
    <3> QED
        BY <3>1
  <2> QED
      BY <1>4, <1>a, <2>1, <2>2, SettleEffect
<1> QED
    BY <1>1, <1>3, <1>4, LedgerFrame

\* WeChat stops resending only when the transaction is on record, and a
\* transaction on record as refused was answered with a failure.
THEOREM SuccessIsAudited == Spec => []AnsweredIsAudited
<1>1. Init => AnswerInv
    BY DEF Init, AnswerInv, AnsweredIsAudited, RefusalIsTold
<1>2. AnswerInv => AnsweredIsAudited
    BY DEF AnswerInv
<1> QED
    BY <1>1, <1>2, AnswerStep, InitAudit, AuditStep, TypeCorrect, PTL DEF Spec

\* The one task a settled payment dispatches has not mailed before it is
\* past the mail step.
DispatchedOnce ==
    \A r \in Refs :
        /\ ledger[r] # "paid" => finalizer[r].pc = "idle" /\ mails[r] = 0
        /\ finalizer[r].pc \in {"queued", "loaded", "confirmed"} => mails[r] = 0
        /\ finalizer[r].pc = "mailed" => mails[r] = 1

MailInv == MailedOnce /\ DispatchedOnce

\* A task moves on by one place or ends, and only its own row is touched.
LEMMA FinalizeEffect ==
    ASSUME TypeOK, NEW r \in Refs, FinalizePaidBooking(r)
    PROVE  /\ UNCHANGED ledger
           /\ \A q \in Refs \ {r} : /\ finalizer'[q] = finalizer[q]
                                    /\ mails'[q] = mails[q]
                                    /\ finalized'[q] = finalized[q]
           /\ \/ /\ finalizer'[r].pc = "idle"
                 /\ UNCHANGED mails
                 /\ \/ UNCHANGED finalized
                    \/ finalizer[r].pc = "mailed"
              \/ /\ \/ finalizer[r].pc = "queued" /\ finalizer'[r].pc = "loaded"
                    \/ finalizer[r].pc = "loaded" /\ finalizer'[r].pc = "confirmed"
                 /\ UNCHANGED <<mails, finalized>>
              \/ /\ finalizer[r].pc = "confirmed" /\ finalizer'[r].pc = "mailed"
                 /\ mails'[r] = mails[r] + 1
                 /\ UNCHANGED finalized
<1> USE DEF TypeOK, rows
<1>a. \A p \in TaskPcs : /\ [finalizer[r] EXCEPT !.pc = p].pc = p
    BY DEF TaskStates
<1>b. {"confirmed", "mailed"} \subseteq TaskPcs
    BY DEF TaskPcs
<1>1. CASE FinalizeLoad(r)
  <2>1. \/ finalizer' = [finalizer EXCEPT ![r] = [pc |-> "loaded", event |-> marker[r]]]
        \/ finalizer' = [finalizer EXCEPT ![r] = IdleTask]
      BY <1>1 DEF FinalizeLoad
  <2>2. /\ finalizer'[r].pc \in {"idle", "loaded"}
        /\ \A q \in Refs \ {r} : finalizer'[q] = finalizer[q]
      BY <2>1 DEF IdleTask
  <2> QED
      BY <1>1, <2>2 DEF FinalizeLoad, world
<1>2. CASE FinalizeCalendar(r)
  <2>1. \/ finalizer' = [finalizer EXCEPT ![r].pc = "confirmed"]
        \/ finalizer' = [finalizer EXCEPT ![r] = [finalizer[r] EXCEPT !.pc = "confirmed"]]
        \/ finalizer' = [finalizer EXCEPT ![r] = IdleTask]
        \/ finalizer' = [finalizer EXCEPT ![r] =
                            [pc |-> "confirmed", event |-> <<r, "late">>]]
      BY <1>2 DEF FinalizeCalendar
  <2>2. /\ finalizer'[r].pc \in {"idle", "confirmed"}
        /\ \A q \in Refs \ {r} : finalizer'[q] = finalizer[q]
    <3>1. ASSUME NEW t, t.pc \in {"idle", "confirmed"},
                 finalizer' = [finalizer EXCEPT ![r] = t]
          PROVE  /\ finalizer'[r].pc \in {"idle", "confirmed"}
                 /\ \A q \in Refs \ {r} : finalizer'[q] = finalizer[q]
        BY <3>1
    <3>2. CASE finalizer' = [finalizer EXCEPT ![r].pc = "confirmed"]
      <4>1. finalizer' = [finalizer EXCEPT ![r] = [finalizer[r] EXCEPT !.pc = "confirmed"]]
          BY <3>2
      <4> QED
          BY <1>a, <1>b, <3>1, <4>1
    <3> QED
        BY <1>a, <1>b, <2>1, <3>1, <3>2 DEF IdleTask
  <2>3. UNCHANGED <<ledger, mails, finalized>> /\ finalizer[r].pc = "loaded"
      BY <1>2 DEF FinalizeCalendar
  <2> QED
      BY <2>2, <2>3
<1>3. CASE FinalizeMail(r)
  <2>1. CASE mails' = [mails EXCEPT ![r] = @ + 1]
             /\ finalizer' = [finalizer EXCEPT ![r].pc = "mailed"]
    <3>1. finalizer' = [finalizer EXCEPT ![r] = [finalizer[r] EXCEPT !.pc = "mailed"]]
        BY <2>1
    <3>2. /\ finalizer'[r].pc = "mailed" /\ mails'[r] = mails[r] + 1
          /\ \A q \in Refs \ {r} : finalizer'[q] = finalizer[q] /\ mails'[q] = mails[q]
        BY <1>a, <1>b, <2>1, <3>1
    <3>3. UNCHANGED <<ledger, finalized>> /\ finalizer[r].pc = "confirmed"
        BY <1>3 DEF FinalizeMail
    <3> QED
        BY <3>2, <3>3
  <2>2. CASE finalizer' = [finalizer EXCEPT ![r] = IdleTask] /\ UNCHANGED mails
      BY <1>3, <2>2 DEF FinalizeMail, IdleTask
  <2> QED
      BY <1>3, <2>1, <2>2 DEF FinalizeMail
<1>4. CASE FinalizeCommit(r)
    BY <1>4 DEF FinalizeCommit, IdleTask, world
<1> QED
    BY <1>1, <1>2, <1>3, <1>4 DEF FinalizePaidBooking

\* Mail goes out of the one task of a settled payment.
LEMMA MailFrame ==
    [Next]_vars =>
        \/ UNCHANGED <<ledger, mails, finalizer, finalized>>
        \/ UNCHANGED <<ledger, mails, finalized>>
           /\ finalizer' = [r \in Refs |-> IdleTask]
        \/ \E r \in Refs : FinalizePaidBooking(r)
        \/ \E h \in Handlers : NotifyRecord(h) \/ NotifySettle(h)
BY DEF Next, vars, rows, diary, world, requests, CreateBooking, CreateSweep,
       CreateFreebusy, CreateConferences, CreateInsert, CreateHold,
       CreateCharge, CreateCommit,
       CancelBooking, CancelLoad, CancelRelease, CancelCommit, Notify,
       NotifyLoad, Sweep, SweepSelect, SweepRelease, SweepCommit, SweepAbort,
       Pay, Tick, OwnerBooks, ScheduleConference, CancelConference, Crash

LEMMA MailStep ==
    ASSUME TypeOK, AuditInv, MailInv, [Next]_vars
    PROVE  MailInv'
<1> USE DEF TypeOK, MailInv, MailedOnce, DispatchedOnce
<1>1. CASE UNCHANGED <<ledger, mails, finalizer, finalized>>
    BY <1>1
<1>2. CASE /\ UNCHANGED <<ledger, mails, finalized>>
           /\ finalizer' = [r \in Refs |-> IdleTask]
    BY <1>2 DEF IdleTask
<1>3. ASSUME NEW r \in Refs, FinalizePaidBooking(r)
      PROVE  MailInv'
  <2>1. mails[r] \in Nat
      OBVIOUS
  <2> QED
      BY <1>3, <2>1, FinalizeEffect
<1>4. ASSUME NEW h \in Handlers, NotifyRecord(h)
      PROVE  MailInv'
  <2>1. UNCHANGED <<mails, finalizer, finalized>>
      BY <1>4, RecordEffect
  <2>2. \A r \in Refs : ledger[r] = "paid" <=> ledger'[r] = "paid"
      BY <1>4, RecordEffect, DismissalKeepsLedger
  <2> QED
      BY <2>1, <2>2
<1>5. ASSUME NEW h \in Handlers, NotifySettle(h)
      PROVE  MailInv'
  <2> DEFINE q == notifier[h].ref
  <2>1. q \in Refs /\ ledger[q] = "none" /\ UNCHANGED <<mails, finalized>>
      BY <1>5, SettleEffect DEF AuditInv, RecordedIsNew
  <2>2. CASE UNCHANGED <<ledger, finalizer>>
      BY <2>1, <2>2
  <2>3. CASE SettlePaid(q)
    <3>1. finalizer' = [finalizer EXCEPT ![q] = [finalizer[q] EXCEPT !.pc = "queued"]]
        BY <2>3 DEF SettlePaid
    <3>2. /\ finalizer'[q].pc = "queued" /\ ledger'[q] = "paid"
          /\ \A r \in Refs \ {q} : /\ finalizer'[r] = finalizer[r]
                                   /\ ledger'[r] = ledger[r]
        BY <2>1, <2>3, <3>1 DEF SettlePaid, TaskStates
    <3> QED
        BY <2>1, <3>2
  <2> QED
      BY <1>5, <2>2, <2>3, SettleEffect
<1> QED
    BY <1>1, <1>2, <1>3, <1>4, <1>5, MailFrame

\* The customer gets one confirmation email at most, for a settled payment.
THEOREM CustomersAreMailedOnce == Spec => []MailedOnce
<1>1. Init => MailInv
    BY DEF Init, MailInv, MailedOnce, DispatchedOnce, IdleTask
<1>2. MailInv => MailedOnce
    BY DEF MailInv
<1> QED
    BY <1>1, <1>2, MailStep, InitAudit, AuditStep, TypeCorrect, PTL DEF Spec

============================================================================
