------------------------- MODULE BookingRefinement -------------------------
(***************************************************************************)
(* Booking implements two abstract specifications: OrderLife, which is     *)
(* what whoever polls the row of one booking sees, and SlotSale, which is  *)
(* what the system promises about slots and payments.                      *)
(***************************************************************************)
EXTENDS BookingProofs

(***************************************************************************)
(* What a transaction knows of a row it has read stays true until it       *)
(* commits.  The locks of the sweep keep it true of lapsed rows; nothing   *)
(* but the fresh reference keeps it true of a row that is being created.   *)
(***************************************************************************)

\* A booking that is being created cannot be seen or paid for yet.
CreatedUnseen ==
    \A r \in Refs : creator[r].pc # "idle" =>
        status[r] = "none" /\ order[r] # "paid" /\ creator[r].moment <= now

\* What a transaction has swept is stale, and its own.
SweptIsStale ==
    \A r \in Refs : \A q \in creator[r].swept :
        status[q] = "pending_payment" /\ expiresAt[q] <= now

SweptOnce ==
    \A q, r \in Refs : q # r => creator[q].swept \cap creator[r].swept = {}

\* A notification is about money that came in, and is settled on a row only.
NotifiedIsPaid ==
    \A h \in Handlers : notifier[h].pc # "idle" =>
        /\ order[notifier[h].ref] = "paid"
        /\ notifier[h].pc = "recorded" => notifier[h].seen # "none"
        /\ notifier[h].seen # "none" => status[notifier[h].ref] # "none"

CancelledExists == \A r \in Refs : canceller[r] # "idle" => status[r] # "none"

LifeInv == /\ CreatedUnseen /\ SweptIsStale /\ SweptOnce
           /\ NotifiedIsPaid /\ CancelledExists

(***************************************************************************)
(* Frames: which steps may change a variable, and to what.                 *)
(***************************************************************************)

\* Another request than r's is not touched by a step of r's.
LEMMA CreatorFrame ==
    [Next]_vars =>
        \/ UNCHANGED creator
        \/ creator' = [q \in Refs |-> IdleCreator]
        \/ \E q \in Refs : CreateBooking(q)
BY DEF Next, vars, rows, diary, world, requests, CancelBooking, CancelLoad,
       CancelRelease, CancelCommit, Notify, NotifyLoad, NotifyRecord,
       NotifySettle, FinalizePaidBooking, FinalizeLoad, FinalizeCalendar,
       FinalizeMail, FinalizeCommit, Sweep, SweepSelect, SweepRelease,
       SweepCommit, SweepAbort, Pay, Tick, OwnerBooks, ScheduleConference,
       CancelConference, Crash

\* What a request remembers is set in its first step and forgotten in its last.
LEMMA CreatorEffect ==
    ASSUME TypeOK, NEW q \in Refs, CreateBooking(q)
    PROVE  /\ \A r \in Refs \ {q} : creator'[r] = creator[r]
           /\ \/ creator'[q] = IdleCreator
              \/ CreateSweep(q)
              \/ /\ creator[q].pc # "idle"
                 /\ creator'[q].moment = creator[q].moment
                 /\ creator'[q].swept = creator[q].swept
<1> USE DEF TypeOK
<1>1. ASSUME creator' = [creator EXCEPT ![q] = IdleCreator]
      PROVE  creator'[q] = IdleCreator /\ \A r \in Refs \ {q} : creator'[r] = creator[r]
    BY <1>1
<1>2. ASSUME NEW p, creator' = [creator EXCEPT ![q].pc = p]
      PROVE  /\ creator'[q].moment = creator[q].moment
             /\ creator'[q].swept = creator[q].swept
             /\ \A r \in Refs \ {q} : creator'[r] = creator[r]
    BY <1>2 DEF CreatorStates
<1>3. CASE CreateSweep(q)
    BY <1>3 DEF CreateSweep
<1>4. CASE CreateFreebusy(q)
  <2>1. CASE creator' = [creator EXCEPT ![q] = IdleCreator]
      BY <1>1, <2>1
  <2>2. CASE creator' = [creator EXCEPT ![q] =
                            [creator[q] EXCEPT !.pc = "free", !.owned = {}]]
      BY <1>4, <2>2 DEF CreateFreebusy, CreatorStates
  <2> QED
      BY <1>4, <2>1, <2>2 DEF CreateFreebusy
<1>9. CASE CreateConferences(q)
    BY <1>9, <1>1 DEF CreateConferences, CreatorStates
<1>5. CASE CreateInsert(q)
    BY <1>5, <1>1 DEF CreateInsert, CreatorStates
<1>6. CASE CreateHold(q)
    BY <1>6, <1>1, <1>2 DEF CreateHold
<1>7. CASE CreateCharge(q)
    BY <1>7, <1>1, <1>2 DEF CreateCharge, Charge, Unwind
<1>8. CASE CreateCommit(q)
    BY <1>8, <1>1 DEF CreateCommit, Unwind
<1> QED
    BY <1>3, <1>4, <1>5, <1>6, <1>7, <1>8, <1>9 DEF CreateBooking

\* An order is opened for a request that holds a slot, paid by Pay, and
\* closed only while it is open.
LEMMA OrderEffect ==
    ASSUME TypeOK, [Next]_vars, NEW r \in Refs
    PROVE  \/ order'[r] = order[r]
           \/ order'[r] = "open" /\ creator[r].pc = "held"
           \/ order[r] = "open" /\ order'[r] = "closed"
           \/ Pay(r)
<1> USE DEF TypeOK
<1>1. \/ UNCHANGED order
      \/ \E q \in Refs : CreateCharge(q) \/ Pay(q) \/ SweepRelease(q)
    BY DEF Next, vars, rows, diary, world, requests, CreateBooking, CreateSweep,
       CreateFreebusy, CreateConferences, CreateInsert, CreateHold,
       CreateCommit, CancelBooking, CancelLoad, CancelRelease, CancelCommit, Notify, NotifyLoad, NotifyRecord,
       NotifySettle, FinalizePaidBooking, FinalizeLoad, FinalizeCalendar,
       FinalizeMail, FinalizeCommit, Sweep, SweepSelect, SweepCommit, SweepAbort,
       Tick, OwnerBooks, ScheduleConference, CancelConference, Crash
<1>2. ASSUME NEW q \in Refs, CreateCharge(q)
      PROVE  order'[r] = order[r] \/ (order'[r] = "open" /\ creator[r].pc = "held")
    BY <1>2 DEF CreateCharge, Charge
<1>3. ASSUME NEW q \in Refs, SweepRelease(q)
      PROVE  order'[r] = order[r] \/ (order[r] = "open" /\ order'[r] = "closed")
    BY <1>3 DEF SweepRelease, CloseOrder
<1>4. ASSUME NEW q \in Refs, Pay(q)
      PROVE  order'[r] = order[r] \/ Pay(r)
    BY <1>4 DEF Pay
<1> QED
    BY <1>1, <1>2, <1>3, <1>4

\* The clock moves alone, and so does a deadline but for its creation.
LEMMA ClockFrame ==
    [Next]_vars => UNCHANGED now \/ Tick
BY DEF Next, vars, rows, diary, world, requests, CreateBooking, CreateSweep,
       CreateFreebusy, CreateConferences, CreateInsert, CreateHold,
       CreateCharge, CreateCommit,
       CancelBooking, CancelLoad, CancelRelease, CancelCommit, Notify,
       NotifyLoad, NotifyRecord, NotifySettle, FinalizePaidBooking,
       FinalizeLoad, FinalizeCalendar, FinalizeMail, FinalizeCommit, Sweep,
       SweepSelect, SweepRelease, SweepCommit, SweepAbort, Pay, OwnerBooks,
       ScheduleConference, CancelConference, Crash

LEMMA DeadlineFrame ==
    [Next]_vars => UNCHANGED expiresAt \/ \E r \in Refs : CreateCommit(r)
BY DEF Next, vars, rows, diary, world, requests, CreateBooking, CreateSweep,
       CreateFreebusy, CreateConferences, CreateInsert, CreateHold, CreateCharge,
       CancelBooking, CancelLoad, CancelRelease, CancelCommit, Notify,
       NotifyLoad, NotifyRecord, NotifySettle, FinalizePaidBooking,
       FinalizeLoad, FinalizeCalendar, FinalizeMail, FinalizeCommit, Sweep,
       SweepSelect, SweepRelease, SweepCommit, SweepAbort, Pay, Tick,
       OwnerBooks, ScheduleConference, CancelConference, Crash

\* A cancellation in flight has seen a pending row.
LEMMA CancellerFrame ==
    ASSUME TypeOK, [Next]_vars, NEW r \in Refs, canceller'[r] # "idle"
    PROVE  \/ canceller[r] # "idle"
           \/ status[r] # "none" /\ UNCHANGED status
<1> USE DEF TypeOK
<1>1. \/ UNCHANGED canceller
      \/ canceller' = [q \in Refs |-> "idle"]
      \/ \E q \in Refs : CancelBooking(q)
    BY DEF Next, vars, rows, diary, world, requests, CreateBooking, CreateSweep,
       CreateFreebusy, CreateConferences, CreateInsert, CreateHold,
       CreateCharge, CreateCommit,
       Notify, NotifyLoad, NotifyRecord, NotifySettle, FinalizePaidBooking,
       FinalizeLoad, FinalizeCalendar, FinalizeMail, FinalizeCommit, Sweep,
       SweepSelect, SweepRelease, SweepCommit, SweepAbort, Pay, Tick,
       OwnerBooks, ScheduleConference, CancelConference, Crash
<1>2. ASSUME NEW q \in Refs, CancelBooking(q)
      PROVE  \/ canceller[r] # "idle"
             \/ status[r] # "none" /\ UNCHANGED status
    BY <1>2 DEF CancelBooking, CancelLoad, CancelRelease, CancelCommit, rows
<1> QED
    BY <1>1, <1>2

(***************************************************************************)
(* Effects: what one step can do to one booking, one request and one       *)
(* notification.                                                           *)
(***************************************************************************)

LEMMA RequestEffect ==
    ASSUME TypeOK, [Next]_vars, NEW r \in Refs
    PROVE  \/ creator'[r].pc = "idle" /\ creator'[r].swept = {}
           \/ CreateSweep(r)
           \/ /\ creator'[r].pc # "idle" => creator[r].pc # "idle"
              /\ creator'[r].moment = creator[r].moment
              /\ creator'[r].swept = creator[r].swept
<1>1. CASE creator' = [q \in Refs |-> IdleCreator]
    BY <1>1 DEF IdleCreator
<1>2. ASSUME NEW q \in Refs, CreateBooking(q), q # r
      PROVE  creator'[r] = creator[r]
    BY <1>2, CreatorEffect
<1>3. CASE CreateBooking(r)
    BY <1>3, CreatorEffect DEF IdleCreator
<1> QED
    BY <1>1, <1>2, <1>3, CreatorFrame

LEMMA StatusEffect ==
    ASSUME TypeOK, [Next]_vars, NEW r \in Refs
    PROVE  \/ status'[r] = status[r]
           \/ /\ creator[r].pc = "charged" /\ creator'[r] = IdleCreator
              /\ status'[r] = "pending_payment"
           \/ \E q \in Refs : /\ r \in creator[q].swept
                              /\ creator'[q] = IdleCreator
                              /\ status'[r] = "expired"
           \/ /\ canceller[r] = "released" /\ r \notin Locked
              /\ status'[r] = "cancelled"
           \/ \E h \in Handlers : /\ notifier[h].pc = "recorded"
                                  /\ notifier[h].ref = r /\ r \notin Locked
                                  /\ status'[r] = "paid"
<1> USE DEF TypeOK
<1>1. ASSUME NEW q \in Refs, CreateCommit(q)
      PROVE  \/ status'[r] = status[r]
             \/ /\ creator[r].pc = "charged" /\ creator'[r] = IdleCreator
                /\ status'[r] = "pending_payment"
             \/ /\ r \in creator[q].swept
                /\ creator'[q] = IdleCreator
                /\ status'[r] = "expired"
    BY <1>1 DEF CreateCommit
<1>2. ASSUME NEW q \in Refs, CancelCommit(q)
      PROVE  \/ status'[r] = status[r]
             \/ /\ canceller[r] = "released" /\ r \notin Locked
                /\ status'[r] = "cancelled"
    BY <1>2 DEF CancelCommit
<1>3. ASSUME NEW h \in Handlers, NotifySettle(h)
      PROVE  \/ status'[r] = status[r]
             \/ /\ notifier[h].pc = "recorded"
                /\ notifier[h].ref = r /\ r \notin Locked
                /\ status'[r] = "paid"
    BY <1>3 DEF NotifySettle, SettlePaid
<1> QED
    BY <1>1, <1>2, <1>3, StatusFrame

LEMMA NotifierEffect ==
    ASSUME TypeOK, [Next]_vars, NEW h \in Handlers, notifier'[h].pc # "idle"
    PROVE  \/ notifier'[h] = notifier[h]
           \/ /\ order[notifier'[h].ref] = "paid"
              /\ notifier'[h].pc = "loaded"
              /\ notifier'[h].seen = status[notifier'[h].ref]
              /\ UNCHANGED <<order, status>>
           \/ /\ notifier[h].pc # "idle"
              /\ notifier'[h].ref = notifier[h].ref
              /\ notifier'[h].seen = notifier[h].seen
              /\ notifier[h].seen # "none"
<1> USE DEF TypeOK
<1>1. CASE notifier' = [g \in Handlers |-> IdleNotifier]
    BY <1>1 DEF IdleNotifier
<1>2. ASSUME NEW g \in Handlers, NEW r \in Refs, NEW k \in Kinds,
             NotifyLoad(g, r, k)
      PROVE  \/ notifier'[h] = notifier[h]
             \/ /\ order[notifier'[h].ref] = "paid"
                /\ notifier'[h].pc = "loaded"
                /\ notifier'[h].seen = status[notifier'[h].ref]
                /\ UNCHANGED <<order, status>>
    BY <1>2 DEF NotifyLoad, rows, world
<1>3. ASSUME NEW g \in Handlers, NotifyRecord(g)
      PROVE  \/ notifier'[h] = notifier[h]
             \/ /\ notifier[h].pc # "idle"
                /\ notifier'[h].ref = notifier[h].ref
                /\ notifier'[h].seen = notifier[h].seen
                /\ notifier[h].seen # "none"
  <2>1. CASE g # h
      BY <1>3, <2>1, RecordEffect
  <2>2. CASE g = h /\ Settles(h)
    <3>1. /\ notifier[h].pc = "loaded"
          /\ notifier' = [notifier EXCEPT ![h] = [notifier[h] EXCEPT !.pc = "recorded"]]
        BY <1>3, <2>2 DEF NotifyRecord
    <3> QED
        BY <2>2, <3>1 DEF Settles, NotifierStates
  <2>3. CASE g = h /\ ~Settles(h)
      BY <1>3, <2>3 DEF NotifyRecord, NotifierDone, IdleNotifier
  <2> QED
      BY <2>1, <2>2, <2>3
<1>4. ASSUME NEW g \in Handlers, NotifySettle(g)
      PROVE  notifier'[h] = notifier[h]
    BY <1>4, SettleEffect
<1> QED
    BY <1>1, <1>2, <1>3, <1>4, NotifierFrame

(***************************************************************************)
(* LifeInv is inductive.                                                   *)
(***************************************************************************)

\* Rows do not vanish.
LEMMA RowsStay ==
    ASSUME TypeOK, LifeInv, [Next]_vars, NEW r \in Refs, status[r] # "none"
    PROVE  status'[r] # "none"
BY StatusEffect

\* Nor does money, and it comes in by Pay only.
LEMMA PaidEffect ==
    ASSUME TypeOK, LifeInv, [Next]_vars, NEW r \in Refs
    PROVE  (order'[r] = "paid") = (order[r] = "paid") \/ Pay(r)
BY OrderEffect DEF LifeInv, CreatedUnseen

LEMMA UnseenStep ==
    ASSUME TypeOK, LifeInv, [Next]_vars
    PROVE  CreatedUnseen'
<1> SUFFICES ASSUME NEW r \in Refs, creator'[r].pc # "idle"
             PROVE  status'[r] = "none" /\ order'[r] # "paid" /\ creator'[r].moment <= now'
    BY DEF CreatedUnseen
<1> USE DEF TypeOK
<1>1. CASE CreateSweep(r)
    BY <1>1 DEF CreateSweep, Fresh, rows, world
<1>2. CASE creator[r].pc # "idle" /\ creator'[r].moment = creator[r].moment
  <2>1. status[r] = "none" /\ order[r] # "paid" /\ creator[r].moment <= now
      BY <1>2 DEF LifeInv, CreatedUnseen
  <2>2. status'[r] = "none"
      BY <2>1, StatusEffect
      DEF LifeInv, SweptIsStale, NotifiedIsPaid, CancelledExists, IdleCreator
  <2>3. order'[r] # "paid"
      BY <2>1, PaidEffect DEF Pay
  <2>4. creator'[r].moment <= now'
    <3>1. now \in Nat /\ creator[r].moment \in Nat /\ now' \in {now, now + 1}
        BY ClockFrame DEF Tick, CreatorStates
    <3> QED
        BY <1>2, <2>1, <3>1
  <2> QED
      BY <2>2, <2>3, <2>4
<1> QED
    BY <1>1, <1>2, RequestEffect

LEMMA StaleStep ==
    ASSUME TypeOK, LifeInv, [Next]_vars
    PROVE  SweptIsStale'
<1> SUFFICES ASSUME NEW r \in Refs, NEW q \in creator'[r].swept
             PROVE  status'[q] = "pending_payment" /\ expiresAt'[q] <= now'
    BY DEF SweptIsStale
<1> USE DEF TypeOK
<1>1. CASE CreateSweep(r)
    BY <1>1 DEF CreateSweep, StaleHolds, rows
<1>2. CASE creator'[r].swept = creator[r].swept
  <2>1. q \in Refs /\ q \in creator[r].swept
      BY <1>2 DEF CreatorStates
  <2>2. status[q] = "pending_payment" /\ expiresAt[q] <= now
      BY <2>1 DEF LifeInv, SweptIsStale
  <2>3. q \in Locked
      BY <2>1 DEF Locked
  <2>4. creator[q].pc = "idle"
      BY <2>1, <2>2 DEF LifeInv, CreatedUnseen
  <2>5. ASSUME NEW p \in Refs, q \in creator[p].swept, creator'[p] = IdleCreator
        PROVE  FALSE
    <3>1. p = r
        BY <2>1, <2>5 DEF LifeInv, SweptOnce
    <3> QED
        BY <2>5, <3>1 DEF IdleCreator
  <2>6. status'[q] = "pending_payment"
      BY <2>1, <2>2, <2>3, <2>4, <2>5, StatusEffect
  <2>7. expiresAt'[q] = expiresAt[q]
      BY <2>1, <2>4, DeadlineFrame DEF CreateCommit
  <2>8. now \in Nat /\ expiresAt[q] \in Nat /\ now' \in {now, now + 1}
      BY <2>1, ClockFrame DEF Tick
  <2> QED
      BY <2>2, <2>6, <2>7, <2>8
<1> QED
    BY <1>1, <1>2, RequestEffect

LEMMA OnceStep ==
    ASSUME TypeOK, LifeInv, [Next]_vars
    PROVE  SweptOnce'
<1> SUFFICES ASSUME NEW q \in Refs, NEW r \in Refs, q # r,
                    NEW x \in creator'[q].swept, x \in creator'[r].swept
             PROVE  FALSE
    BY DEF SweptOnce
<1>1. ASSUME NEW y \in Refs, NEW z \in Refs, y # z, CreateSweep(y),
             x \in creator'[y].swept, x \in creator'[z].swept
      PROVE  FALSE
  <2>1. x \in StaleHolds(y, now) /\ x \in creator[z].swept
      BY <1>1 DEF CreateSweep, TypeOK
  <2> QED
      BY <1>1, <2>1 DEF CreateSweep, Locked
<1> QED
    BY <1>1, RequestEffect DEF LifeInv, SweptOnce

LEMMA NotifiedStep ==
    ASSUME TypeOK, TypeOK', LifeInv, [Next]_vars
    PROVE  NotifiedIsPaid'
<1> SUFFICES ASSUME NEW h \in Handlers, notifier'[h].pc # "idle"
             PROVE  /\ order'[notifier'[h].ref] = "paid"
                    /\ notifier'[h].pc = "recorded" => notifier'[h].seen # "none"
                    /\ notifier'[h].seen # "none" => status'[notifier'[h].ref] # "none"
    BY DEF NotifiedIsPaid
<1> DEFINE r == notifier'[h].ref
<1>1. r \in Refs
    BY DEF TypeOK
<1>2. order[r] = "paid" => order'[r] = "paid"
    BY <1>1, PaidEffect DEF Pay
<1>3. status[r] # "none" => status'[r] # "none"
    BY <1>1, RowsStay
<1> QED
    BY <1>2, <1>3, NotifierEffect DEF LifeInv, NotifiedIsPaid

LEMMA LifeInvStep ==
    ASSUME TypeOK, TypeOK', LifeInv, [Next]_vars
    PROVE  LifeInv'
<1>1. CancelledExists'
    BY CancellerFrame, RowsStay DEF LifeInv, CancelledExists
<1> QED
    BY <1>1, UnseenStep, StaleStep, OnceStep, NotifiedStep DEF LifeInv

\* What open transactions, cancellations and notifications know of a row
\* stays true until they write it.
THEOREM WritersAreUpToDate == Spec => []LifeInv
<1>1. Init => LifeInv
    BY DEF Init, LifeInv, CreatedUnseen, SweptIsStale, SweptOnce,
       NotifiedIsPaid, CancelledExists, IdleCreator, IdleNotifier
<1> QED
    BY <1>1, LifeInvStep, TypeCorrect, PTL DEF Spec

(***************************************************************************)
(* Every step of Booking is a step of each order's life.                   *)
(***************************************************************************)

LEMMA LifeStep ==
    ASSUME TypeOK, LifeInv, [Next]_vars, NEW r \in Refs
    PROVE  [Life(r)!Next]_(Life(r)!lvars)
<1> USE DEF TypeOK
<1> DEFINE paidStays == (order'[r] = "paid") = (order[r] = "paid")
<1>1. ASSUME NEW q \in Refs, CreateCommit(q)
      PROVE  [Life(r)!Next]_(Life(r)!lvars)
  <2>1. UNCHANGED <<now, order>>
      BY <1>1 DEF CreateCommit
  <2>2. CASE UNCHANGED <<status, expiresAt>>
      BY <2>1, <2>2 DEF Life!lvars
  <2>3. CASE ~ UNCHANGED <<status, expiresAt>>
    <3>1. /\ creator[q].pc = "charged"
          /\ status' = [p \in Refs |->
                           IF p = q THEN "pending_payment"
                           ELSE IF p \in creator[q].swept THEN "expired"
                           ELSE status[p]]
          /\ expiresAt' = [expiresAt EXCEPT ![q] = Expiry(q)]
        BY <1>1, <2>3 DEF CreateCommit
    <3>2. CASE r = q
      <4>1. status[r] = "none" /\ creator[r].moment <= now
          BY <3>1, <3>2 DEF LifeInv, CreatedUnseen
      <4>2. creator[r].moment \in Nat /\ now \in Nat /\ HoldMinutes \in Nat \ {0}
          BY BookingAssumption DEF CreatorStates
      <4>3. expiresAt'[r] \in 1 .. now + HoldMinutes
          BY <3>1, <3>2, <4>1, <4>2 DEF Expiry
      <4>4. status'[r] = "pending_payment"
          BY <3>1, <3>2
      <4> QED
          BY <2>1, <4>1, <4>3, <4>4 DEF Life!Next, Life!Create
    <3>3. CASE r # q /\ r \in creator[q].swept
      <4>1. status[r] = "pending_payment" /\ expiresAt[r] <= now
          BY <3>3 DEF LifeInv, SweptIsStale
      <4> QED
          BY <2>1, <3>1, <3>3, <4>1 DEF Life!Next, Life!Lapse
    <3>4. CASE r # q /\ r \notin creator[q].swept
        BY <2>1, <3>1, <3>4 DEF Life!lvars
    <3> QED
        BY <3>2, <3>3, <3>4
  <2> QED
      BY <2>2, <2>3
<1>2. ASSUME NEW q \in Refs, CancelCommit(q)
      PROVE  [Life(r)!Next]_(Life(r)!lvars)
  <2>1. UNCHANGED <<now, expiresAt, order>>
      BY <1>2 DEF CancelCommit, world
  <2>2. CASE status'[r] = status[r]
      BY <2>1, <2>2 DEF Life!lvars
  <2>3. CASE status'[r] # status[r]
    <3>1. status'[r] = "cancelled" /\ canceller[r] = "released"
        BY <1>2, <2>3 DEF CancelCommit
    <3>2. status[r] # "none"
        BY <3>1 DEF LifeInv, CancelledExists
    <3> QED
        BY <2>1, <3>1, <3>2 DEF Life!Next, Life!Cancel
  <2> QED
      BY <2>2, <2>3
<1>3. ASSUME NEW h \in Handlers, NotifySettle(h)
      PROVE  [Life(r)!Next]_(Life(r)!lvars)
  <2>1. UNCHANGED <<now, expiresAt, order>>
      BY <1>3 DEF NotifySettle
  <2>2. CASE status'[r] = status[r]
      BY <2>1, <2>2 DEF Life!lvars
  <2>3. CASE status'[r] # status[r]
    <3>1. /\ status'[r] = "paid"
          /\ notifier[h].ref = r /\ notifier[h].pc = "recorded"
        BY <1>3, <2>3 DEF NotifySettle, SettlePaid
    <3>2. order[r] = "paid" /\ status[r] # "none"
        BY <3>1 DEF LifeInv, NotifiedIsPaid
    <3> QED
        BY <2>1, <3>1, <3>2 DEF Life!Next, Life!Settle
  <2> QED
      BY <2>2, <2>3
<1>4. ASSUME UNCHANGED <<status, expiresAt>>
      PROVE  [Life(r)!Next]_(Life(r)!lvars)
  <2>1. CASE Pay(r)
      BY <1>4, <2>1 DEF Pay, Life!Next, Life!Pay
  <2>2. CASE Tick
    <3>1. UNCHANGED order
        BY <2>2 DEF Tick, world
    <3> QED
        BY <1>4, <2>2, <3>1 DEF Tick, Life!Next, Life!Tick
  <2>3. CASE UNCHANGED now /\ paidStays
      BY <1>4, <2>3 DEF Life!lvars
  <2> QED
      BY <2>1, <2>2, <2>3, ClockFrame, PaidEffect
<1> QED
    BY <1>1, <1>2, <1>3, <1>4, StatusFrame, DeadlineFrame

\* Whoever reads the row of any booking of this deployment sees an order's
\* life: a deadline that never moves, no lapse before it and no settlement
\* without money that came in time, under every fault and interleaving.
THEOREM BookingsLiveAsOrders == Spec => ImplementsLife
<1>1. Init => \A r \in Refs \ Strangers : Life(r)!Init
    BY DEF Init, Life!Init
<1>2. TypeOK /\ LifeInv /\ [Next]_vars
          => [\A r \in Refs \ Strangers : [Life(r)!Next]_(Life(r)!lvars)]_vars
    BY LifeStep
<1> QED
    BY <1>1, <1>2, TypeCorrect, WritersAreUpToDate, PTL DEF Spec, ImplementsLife

(***************************************************************************)
(* What links the rows of a slot to the payments for them.                 *)
(***************************************************************************)

\* Only money that came in is on record, ...
AuditedIsPaid == \A r \in Refs : ledger[r] # "none" => order[r] = "paid"

\* ... a pending row has no settled payment, so a sweep never takes the slot
\* from someone who paid, ...
PendingIsUnsettled ==
    \A r \in Refs : status[r] = "pending_payment" => ledger[r] # "paid"

\* ... and a request sweeps its own slot only.
SweptOfSlot == \A r \in Refs : \A q \in creator[r].swept : SameSlot(q, r)

SaleInv == AuditedIsPaid /\ PendingIsUnsettled /\ SweptOfSlot

\* The ledger is written for an order that a handler has seen paid.
LEMMA LedgerEffect ==
    ASSUME TypeOK, AuditInv, LifeInv, [Next]_vars, NEW r \in Refs
    PROVE  \/ ledger'[r] = ledger[r]
           \/ ledger[r] = "none" /\ order[r] = "paid" /\ ledger'[r] # "none"
<1>1. ASSUME NEW h \in Handlers, NotifyRecord(h) \/ NotifySettle(h)
      PROVE  ledger'[r] = ledger[r] \/ order[r] = "paid"
  <2>1. /\ notifier[h].ref \in Refs
        /\ order[notifier[h].ref] = "paid"
      BY <1>1 DEF NotifyRecord, NotifySettle, TypeOK, LifeInv, NotifiedIsPaid
  <2>2. notifier[h].ref # r => ledger'[r] = ledger[r]
      BY <1>1, RecordEffect, SettleEffect DEF TypeOK
  <2> QED
      BY <2>1, <2>2
<1>2. ledger[r] # "none" => ledger'[r] = ledger[r]
    BY AuditStep
<1> QED
    BY <1>1, <1>2, LedgerFrame

LEMMA SaleInvStep ==
    ASSUME TypeOK, AuditInv, LifeInv, SaleInv, [Next]_vars
    PROVE  SaleInv'
<1>1. AuditedIsPaid'
  <2> SUFFICES ASSUME NEW r \in Refs, ledger'[r] # "none"
               PROVE  order'[r] = "paid"
      BY DEF AuditedIsPaid
  <2>1. order[r] = "paid"
      BY LedgerEffect DEF SaleInv, AuditedIsPaid
  <2> QED
      BY <2>1, PaidEffect DEF Pay
<1>2. PendingIsUnsettled'
  <2> SUFFICES ASSUME NEW r \in Refs, status'[r] = "pending_payment"
               PROVE  ledger'[r] # "paid"
      BY DEF PendingIsUnsettled
  <2>1. ledger[r] # "paid"
    <3>1. CASE status[r] = "pending_payment"
        BY <3>1 DEF SaleInv, PendingIsUnsettled
    <3>2. CASE creator[r].pc = "charged"
      <4>1. order[r] # "paid"
          BY <3>2 DEF LifeInv, CreatedUnseen
      <4> QED
          BY <4>1 DEF SaleInv, AuditedIsPaid
    <3> QED
        BY <3>1, <3>2, StatusEffect
  <2>2. ASSUME NEW h \in Handlers, NotifyRecord(h) \/ NotifySettle(h)
        PROVE  ledger'[r] # "paid"
    <3>1. CASE NotifyRecord(h)
        BY <2>1, <3>1, RecordEffect, DismissalKeepsLedger DEF TypeOK
    <3>2. CASE NotifySettle(h)
        BY <2>1, <3>2, SettleEffect DEF TypeOK
    <3> QED
        BY <2>2, <3>1, <3>2
  <2> QED
      BY <2>1, <2>2, LedgerFrame
<1>3. SweptOfSlot'
  <2> SUFFICES ASSUME NEW r \in Refs, NEW q \in creator'[r].swept
               PROVE  SameSlot(q, r)
      BY DEF SweptOfSlot, SameSlot
  <2>1. CASE CreateSweep(r)
      BY <2>1 DEF CreateSweep, StaleHolds, TypeOK
  <2>2. CASE creator'[r].swept \subseteq creator[r].swept
      BY <2>2 DEF SaleInv, SweptOfSlot
  <2> QED
      BY <2>1, <2>2, RequestEffect
<1> QED
    BY <1>1, <1>2, <1>3 DEF SaleInv

(***************************************************************************)
(* Every step of Booking is a step of the sale.                            *)
(***************************************************************************)

\* The owners and the verdicts Sale is instantiated with.
Owner ==
    [s \in Slots |->
        IF \E r \in Refs : SlotOf[r] = s /\ InIndex(r)
        THEN CHOOSE r \in Refs : SlotOf[r] = s /\ InIndex(r)
        ELSE NoEvent]

Verdict ==
    [r \in Refs |-> CASE ledger[r] = "none" -> "none"
                      [] ledger[r] = "paid" -> "paid"
                      [] OTHER              -> "refused"]

\* A slot is owned by its one live row, ...
LEMMA OwnerIs ==
    ASSUME SlotSoldOnce, NEW s \in Slots
    PROVE  /\ \A r \in Refs : SlotOf[r] = s /\ InIndex(r) => Owner[s] = r
           /\ (\A r \in Refs : SlotOf[r] = s => ~InIndex(r)) => Owner[s] = NoEvent
<1> DEFINE P(r) == SlotOf[r] = s /\ InIndex(r)
<1>1. ASSUME NEW r \in Refs, P(r)
      PROVE  Owner[s] = r
  <2>1. \A q \in Refs : P(q) => q = r
      BY <1>1 DEF SlotSoldOnce, SameSlot
  <2>2. Owner[s] = CHOOSE q \in Refs : P(q)
      BY <1>1 DEF Owner
  <2>3. (CHOOSE q \in Refs : P(q)) = r
    <3> HIDE DEF P
    <3> QED
        BY <1>1, <2>1
  <2> QED
      BY <2>2, <2>3
<1>2. ASSUME \A r \in Refs : SlotOf[r] = s => ~InIndex(r)
      PROVE  Owner[s] = NoEvent
    BY <1>2 DEF Owner
<1> QED
    BY <1>1, <1>2

LEMMA OwnerIsNext ==
    ASSUME SlotSoldOnce', NEW s \in Slots
    PROVE  /\ \A r \in Refs : SlotOf[r] = s /\ InIndex(r)' => Owner'[s] = r
           /\ (\A r \in Refs : SlotOf[r] = s => ~InIndex(r)') => Owner'[s] = NoEvent
<1> DEFINE P(r) == SlotOf[r] = s /\ InIndex(r)'
<1>1. ASSUME NEW r \in Refs, P(r)
      PROVE  Owner'[s] = r
  <2>1. \A q \in Refs : P(q) => q = r
      BY <1>1 DEF SlotSoldOnce, SameSlot
  <2>2. Owner'[s] = CHOOSE q \in Refs : P(q)
      BY <1>1 DEF Owner
  <2>3. (CHOOSE q \in Refs : P(q)) = r
    <3> HIDE DEF P
    <3> QED
        BY <1>1, <2>1
  <2> QED
      BY <2>2, <2>3
<1>2. ASSUME \A r \in Refs : SlotOf[r] = s => ~InIndex(r)'
      PROVE  Owner'[s] = NoEvent
    BY <1>2 DEF Owner
<1> QED
    BY <1>1, <1>2

\* ... and keeps its owner while its rows stay in the index or out of it.
LEMMA OwnerStays ==
    ASSUME NEW s \in Slots,
           \A r \in Refs : SlotOf[r] = s => InIndex(r)' = InIndex(r)
    PROVE  Owner'[s] = Owner[s]
<1>1. \A r \in Refs : (SlotOf[r] = s /\ InIndex(r)') = (SlotOf[r] = s /\ InIndex(r))
    OBVIOUS
<1>2. (CHOOSE r \in Refs : SlotOf[r] = s /\ InIndex(r)') =
      (CHOOSE r \in Refs : SlotOf[r] = s /\ InIndex(r))
    BY <1>1, Zenon
<1> QED
    BY <1>1, <1>2 DEF Owner

\* The actions of Sale in these terms.
LEMMA SaleForms ==
    /\ Sale!Init = (/\ Owner = [s \in Slots |-> NoEvent]
                    /\ Verdict = [r \in Refs |-> "none"])
    /\ \A r \in Refs :
          /\ Sale!Hold(r) =
                (/\ Verdict[r] = "none"
                 /\ \/ Owner[SlotOf[r]] = NoEvent
                    \/ /\ Owner[SlotOf[r]] \in Refs \ {r}
                       /\ Verdict[Owner[SlotOf[r]]] # "paid"
                 /\ Owner' = [Owner EXCEPT ![SlotOf[r]] = r]
                 /\ UNCHANGED Verdict)
          /\ Sale!Drop(r) =
                (/\ Owner[SlotOf[r]] = r
                 /\ Owner' = [Owner EXCEPT ![SlotOf[r]] = NoEvent]
                 /\ UNCHANGED Verdict)
          /\ Sale!Settle(r) =
                (/\ Verdict[r] = "none"
                 /\ Owner[SlotOf[r]] \in {NoEvent, r}
                 /\ Owner' = [Owner EXCEPT ![SlotOf[r]] = r]
                 /\ Verdict' = [Verdict EXCEPT ![r] = "paid"])
          /\ Sale!Refuse(r) =
                (/\ Verdict[r] = "none"
                 /\ Verdict' = [Verdict EXCEPT ![r] = "refused"]
                 /\ UNCHANGED Owner)
    /\ (UNCHANGED Sale!svars) = (UNCHANGED <<Owner, Verdict>>)
BY Zenon DEF Sale!Init, Sale!Hold, Sale!Drop, Sale!Settle, Sale!Refuse, Sale!svars,
       Owner, Verdict

\* A step that changes the rows of one slot changes its owner only.
LEMMA OwnerMoves ==
    ASSUME NEW s \in Slots, NEW o, Owner'[s] = o,
           \A r \in Refs : SlotOf[r] # s => InIndex(r)' = InIndex(r)
    PROVE  Owner' = [Owner EXCEPT ![s] = o]
<1>1. \A t \in Slots \ {s} : Owner'[t] = Owner[t]
    BY OwnerStays
<1>2. /\ Owner' = [t \in Slots |-> Owner'[t]]
      /\ Owner = [t \in Slots |-> Owner[t]]
    BY Zenon DEF Owner
<1> HIDE DEF Owner
<1> QED
    BY <1>1, <1>2

\* Verdicts follow the ledger.
LEMMA VerdictStays ==
    ASSUME UNCHANGED ledger
    PROVE  UNCHANGED Verdict
BY DEF Verdict

LEMMA VerdictMoves ==
    ASSUME TypeOK, NEW r \in Refs, NEW o \in Outcomes \ {"none"},
           ledger' = [ledger EXCEPT ![r] = o]
    PROVE  Verdict' = [Verdict EXCEPT ![r] = IF o = "paid" THEN "paid" ELSE "refused"]
BY DEF Verdict, TypeOK

\* The commit of a new booking takes the slot: whoever owned it has lapsed,
\* and had not paid.
LEMMA CommitHolds ==
    ASSUME TypeOK, SlotInv, SlotInv', LifeInv, SaleInv,
           NEW r \in Refs, CreateCommit(r), ~UNCHANGED status
    PROVE  Sale!Hold(r)
<1> DEFINE s == SlotOf[r]
<1> USE DEF TypeOK
<1>1. /\ creator[r].pc = "charged"
      /\ status' = [q \in Refs |->
                       IF q = r THEN "pending_payment"
                       ELSE IF q \in creator[r].swept THEN "expired"
                       ELSE status[q]]
      /\ UNCHANGED ledger
    BY DEF CreateCommit
<1>2. status[r] = "none" /\ order[r] # "paid"
    BY <1>1 DEF LifeInv, CreatedUnseen
<1>3. s \in Slots
    BY BookingAssumption
<1>4. Verdict[r] = "none" /\ UNCHANGED Verdict
  <2>1. ledger[r] = "none"
      BY <1>2 DEF SaleInv, AuditedIsPaid
  <2> QED
      BY <1>1, <2>1, VerdictStays DEF Verdict
<1>5. \/ Owner[s] = NoEvent
      \/ Owner[s] \in Refs \ {r} /\ Verdict[Owner[s]] # "paid"
  <2>1. CASE \A q \in Refs : SlotOf[q] = s => ~InIndex(q)
      BY <1>3, <2>1, OwnerIs DEF SlotInv
  <2>2. ASSUME NEW q \in Refs, SlotOf[q] = s, InIndex(q)
        PROVE  Owner[s] \in Refs \ {r} /\ Verdict[Owner[s]] # "paid"
    <3>1. Owner[s] = q
        BY <1>3, <2>2, OwnerIs DEF SlotInv
    <3>2. q # r
        BY <1>2, <2>2 DEF InIndex
    <3>3. q \in creator[r].swept
        BY <1>1, <2>2, <3>2 DEF SlotInv, InsertGuarded, Uncommitted, IndexAllows, SameSlot
    <3>4. ledger[q] # "paid"
        BY <3>3 DEF LifeInv, SweptIsStale, SaleInv, PendingIsUnsettled
    <3>5. Verdict[q] # "paid"
        BY <3>4 DEF Verdict
    <3> QED
        BY <3>1, <3>2, <3>5
  <2> QED
      BY <2>1, <2>2
<1>6. Owner' = [Owner EXCEPT ![s] = r]
  <2>1. InIndex(r)'
      BY <1>1 DEF InIndex
  <2>2. Owner'[s] = r
      BY <1>3, <2>1, OwnerIsNext DEF SlotInv
  <2>3. \A q \in Refs : SlotOf[q] # s => InIndex(q)' = InIndex(q)
      BY <1>1 DEF InIndex, SaleInv, SweptOfSlot, SameSlot
  <2> QED
      BY <1>3, <2>2, <2>3, OwnerMoves
<1> QED
    BY <1>4, <1>5, <1>6, SaleForms

\* A cancellation drops the slot, if the row still owned it.
LEMMA CancelDrops ==
    ASSUME TypeOK, SlotInv, SlotInv', NEW r \in Refs, CancelCommit(r), InIndex(r),
           ~InIndex(r)'
    PROVE  Sale!Drop(r)
<1> DEFINE s == SlotOf[r]
<1>1. UNCHANGED ledger /\ \A q \in Refs \ {r} : InIndex(q)' = InIndex(q)
    BY DEF CancelCommit, InIndex, TypeOK
<1>2. s \in Slots
    BY BookingAssumption
<1>3. Owner[s] = r
    BY <1>2, OwnerIs DEF SlotInv
<1>4. \A q \in Refs : SlotOf[q] = s => ~InIndex(q)'
    BY <1>1 DEF SlotInv, SlotSoldOnce, SameSlot
<1>5. Owner'[s] = NoEvent
    BY <1>2, <1>4, OwnerIsNext DEF SlotInv
<1>6. Owner' = [Owner EXCEPT ![s] = NoEvent]
    BY <1>1, <1>2, <1>5, OwnerMoves
<1> QED
    BY <1>1, <1>3, <1>6, VerdictStays, SaleForms

\* A settlement takes the slot, or keeps it, and gives the verdict with it.
LEMMA SettleSettles ==
    ASSUME TypeOK, SlotInv, SlotInv', NEW r \in Refs, ledger[r] = "none",
           IndexAllows(r, {}),
           status' = [status EXCEPT ![r] = "paid"],
           ledger' = [ledger EXCEPT ![r] = "paid"]
    PROVE  Sale!Settle(r)
<1> DEFINE s == SlotOf[r]
<1>1. s \in Slots
    BY BookingAssumption
<1>2. Verdict[r] = "none" /\ Verdict' = [Verdict EXCEPT ![r] = "paid"]
  <2>1. "paid" \in Outcomes \ {"none"}
      BY DEF Outcomes
  <2> QED
      BY <2>1, VerdictMoves DEF Verdict
<1>3. Owner[s] \in {NoEvent, r}
    BY <1>1, OwnerIs DEF SlotInv, IndexAllows, SameSlot
<1>4. InIndex(r)' /\ \A q \in Refs \ {r} : InIndex(q)' = InIndex(q)
    BY DEF InIndex, TypeOK
<1>5. Owner'[s] = r
    BY <1>1, <1>4, OwnerIsNext DEF SlotInv
<1>6. Owner' = [Owner EXCEPT ![s] = r]
    BY <1>1, <1>4, <1>5, OwnerMoves
<1> QED
    BY <1>2, <1>3, <1>6, SaleForms

\* A notification that settles nothing refuses the payment once, or repeats
\* what was said.
LEMMA RecordRefuses ==
    ASSUME TypeOK, NEW r \in Refs, NEW o \in Outcomes \ {"none", "paid"},
           ledger[r] = "none", ledger' = [ledger EXCEPT ![r] = o], UNCHANGED status
    PROVE  Sale!Refuse(r)
<1>1. Verdict[r] = "none" /\ Verdict' = [Verdict EXCEPT ![r] = "refused"]
    BY VerdictMoves DEF Verdict
<1>2. UNCHANGED Owner
    BY Zenon DEF Owner, InIndex
<1> QED
    BY <1>1, <1>2, SaleForms

LEMMA SaleStep ==
    ASSUME TypeOK, TypeOK', SlotInv, SlotInv', AuditInv, LifeInv, SaleInv, [Next]_vars
    PROVE  [Sale!Next]_(Sale!svars)
<1>1. ASSUME NEW h \in Handlers, NotifyRecord(h)
      PROVE  [Sale!Next]_(Sale!svars)
  <2>1. notifier[h].ref \in Refs /\ UNCHANGED status
      BY <1>1, RecordEffect
  <2>2. CASE UNCHANGED ledger
    <3>1. UNCHANGED Owner
        BY <2>1, Zenon DEF Owner, InIndex
    <3> QED
        BY <2>2, <3>1, VerdictStays, SaleForms
  <2>3. CASE ~UNCHANGED ledger
    <3>1. PICK r \in Refs, o \in Outcomes : /\ o \notin {"none", "paid"}
                                             /\ ledger[r] = "none"
                                             /\ ledger' = [ledger EXCEPT ![r] = o]
      <4>1. ledger' = [ledger EXCEPT ![notifier[h].ref] = Dismissal(h)[1]]
          BY <1>1, <2>3, RecordEffect
      <4>2. ledger[notifier[h].ref] = "none"
          BY <2>1, <2>3, <4>1, DismissalKeepsLedger DEF TypeOK
      <4>3. Dismissal(h)[1] \in Outcomes /\ Dismissal(h)[1] \notin {"none", "paid"}
          BY <2>1, <4>2, DismissalKeepsLedger, DismissalType
      <4> QED
          BY <2>1, <4>1, <4>2, <4>3
    <3>2. Sale!Refuse(r)
        BY <2>1, <3>1, RecordRefuses
    <3> QED
        BY <3>2 DEF Sale!Next
  <2> QED
      BY <2>2, <2>3
<1>2. ASSUME UNCHANGED <<status, ledger>>
      PROVE  [Sale!Next]_(Sale!svars)
  <2>1. UNCHANGED Owner
      BY <1>2, Zenon DEF Owner, InIndex
  <2> QED
      BY <1>2, <2>1, VerdictStays, SaleForms
<1>3. ASSUME NEW h \in Handlers, NotifySettle(h)
      PROVE  [Sale!Next]_(Sale!svars)
  <2>1. CASE UNCHANGED <<status, ledger>>
      BY <1>2, <2>1
  <2>2. CASE ~UNCHANGED <<status, ledger>>
    <3>1. PICK r \in Refs : /\ IndexAllows(r, {}) /\ ledger[r] = "none"
                            /\ status' = [status EXCEPT ![r] = "paid"]
                            /\ ledger' = [ledger EXCEPT ![r] = "paid"]
        BY <1>3, <2>2, SettleEffect DEF AuditInv, RecordedIsNew
    <3>2. Sale!Settle(r)
        BY <3>1, SettleSettles
    <3> QED
        BY <3>2 DEF Sale!Next
  <2> QED
      BY <2>1, <2>2
<1>4. ASSUME NEW r \in Refs, CreateCommit(r)
      PROVE  [Sale!Next]_(Sale!svars)
  <2>1. UNCHANGED ledger
      BY <1>4 DEF CreateCommit
  <2> QED
      BY <1>2, <1>4, <2>1, CommitHolds DEF Sale!Next
<1>5. ASSUME NEW r \in Refs, CancelCommit(r)
      PROVE  [Sale!Next]_(Sale!svars)
  <2>1. /\ UNCHANGED ledger
        /\ \A q \in Refs \ {r} : InIndex(q)' = InIndex(q)
        /\ InIndex(r)' => InIndex(r)
      BY <1>5 DEF CancelCommit, InIndex, TypeOK
  <2>2. CASE InIndex(r) /\ ~InIndex(r)'
      BY <1>5, <2>2, CancelDrops DEF Sale!Next
  <2>3. CASE InIndex(r)' = InIndex(r)
    <3>1. \A q \in Refs : InIndex(q)' = InIndex(q)
        BY <2>1, <2>3
    <3>2. UNCHANGED Owner
      <4>1. \A t \in Slots : Owner'[t] = Owner[t]
          BY <3>1, OwnerStays
      <4>2. /\ Owner' = [t \in Slots |-> Owner'[t]]
            /\ Owner = [t \in Slots |-> Owner[t]]
          BY Zenon DEF Owner
      <4> HIDE DEF Owner
      <4> QED
          BY <4>1, <4>2
    <3> QED
        BY <2>1, <3>2, VerdictStays, SaleForms
  <2> QED
      BY <2>1, <2>2, <2>3 DEF InIndex
<1> QED
    BY <1>1, <1>2, <1>3, <1>4, <1>5, StatusFrame, LedgerFrame

\* Rows, slots and payments change together or not at all: a hold never takes
\* the slot from someone who paid, a payment is settled in the step in which
\* its booking owns the slot, and is refused or settled once, for good.
THEOREM BookingImplementsSale == Spec => ImplementsSale
<1>1. Init => Sale!Init
  <2> SUFFICES ASSUME Init PROVE Sale!Init
      OBVIOUS
  <2>1. Owner = [s \in Slots |-> NoEvent]
      BY DEF Owner, Init, InIndex
  <2>2. Verdict = [r \in Refs |-> "none"]
      BY DEF Verdict, Init
  <2> QED
      BY <2>1, <2>2, SaleForms
<1>2. Init => SlotInv
    BY DEF Init, SlotInv, SlotSoldOnce, InsertGuarded, OneInserter, InIndex,
       Uncommitted, IdleCreator
<1>3. Init => SaleInv
    BY DEF Init, SaleInv, AuditedIsPaid, PendingIsUnsettled, SweptOfSlot, IdleCreator
<1> QED
    BY <1>1, <1>2, <1>3, InitAudit, SlotStep, AuditStep, SaleInvStep, SaleStep,
       TypeCorrect, WritersAreUpToDate, PTL DEF Spec, ImplementsSale, Sale!Spec

(***************************************************************************)
(* A conflict is final.                                                    *)
(***************************************************************************)

\* A notification that did not find its booking pending finds it dead, as
\* long as nobody has written the audit row.
SeenDead ==
    \A h \in Handlers :
        /\ notifier[h].pc # "idle"
        /\ notifier[h].seen \notin {"none", "pending_payment"}
        /\ ledger[notifier[h].ref] = "none"
        => status[notifier[h].ref] \in {"expired", "cancelled"}

FinalInv == SeenDead /\ ConflictIsFinal

\* A dead booking comes back in no other way than by a settlement.
LEMMA DeadStays ==
    ASSUME TypeOK, LifeInv, [Next]_vars, NEW r \in Refs,
           status[r] \in {"expired", "cancelled"},
           \A h \in Handlers : NotifySettle(h) /\ notifier[h].ref = r => UNCHANGED status
    PROVE  status'[r] \in {"expired", "cancelled"}
<1> USE DEF TypeOK
<1>1. creator[r].pc = "idle"
    BY DEF LifeInv, CreatedUnseen
<1>2. ASSUME NEW q \in Refs, CreateCommit(q) \/ CancelCommit(q)
      PROVE  status'[r] \in {"expired", "cancelled"}
  <2>1. q # r \/ CancelCommit(q)
      BY <1>1, <1>2 DEF CreateCommit
  <2> QED
      BY <1>2, <2>1 DEF CreateCommit, CancelCommit
<1>3. ASSUME NEW h \in Handlers, NotifySettle(h)
      PROVE  status'[r] \in {"expired", "cancelled"}
    BY <1>3, SettleEffect
<1> QED
    BY <1>2, <1>3, StatusFrame

LEMMA SeenStep ==
    ASSUME TypeOK, TypeOK', AuditInv, LifeInv, SeenDead, [Next]_vars
    PROVE  SeenDead'
<1> SUFFICES ASSUME NEW h \in Handlers, notifier'[h].pc # "idle",
                    notifier'[h].seen \notin {"none", "pending_payment"},
                    ledger'[notifier'[h].ref] = "none"
             PROVE  status'[notifier'[h].ref] \in {"expired", "cancelled"}
    BY DEF SeenDead
<1> USE DEF TypeOK
<1> DEFINE r == notifier'[h].ref
<1>1. r \in Refs /\ ledger[r] = "none"
    BY AuditStep
<1>2. CASE notifier'[h].seen = status[r] /\ UNCHANGED status
  <2>1. status[r] # "paid"
      BY <1>1 DEF AuditInv, PaidIsAudited
  <2> QED
      BY <1>1, <1>2, <2>1 DEF Statuses
<1>3. CASE /\ notifier[h].pc # "idle"
           /\ notifier'[h].ref = notifier[h].ref
           /\ notifier'[h].seen = notifier[h].seen
  <2>1. status[r] \in {"expired", "cancelled"}
      BY <1>1, <1>3 DEF SeenDead
  <2>2. \A g \in Handlers : NotifySettle(g) /\ notifier[g].ref = r => UNCHANGED status
      BY <1>1, SettleEffect
  <2> QED
      BY <1>1, <2>1, <2>2, DeadStays
<1> QED
    BY <1>2, <1>3, NotifierEffect

\* A conflict is written for a booking that was dead when it was loaded.
LEMMA ConflictIsOfDead ==
    ASSUME TypeOK, SeenDead, NEW h \in Handlers, NotifyRecord(h),
           ledger[notifier[h].ref] = "none", ~Settles(h),
           Dismissal(h)[1] = "paid_conflict"
    PROVE  status[notifier[h].ref] \in {"expired", "cancelled"}
<1>1. notifier[h].pc = "loaded"
    BY DEF NotifyRecord
<1>2. notifier[h].seen # "none" /\ notifier[h].kind \notin {"bad_amount", "bad_state"}
    BY DEF Dismissal
<1>3. notifier[h].kind = "ok"
    BY <1>2, BookingAssumption DEF TypeOK, NotifierStates
<1>4. notifier[h].seen \in {"expired", "cancelled"}
    BY <1>1, <1>2, <1>3 DEF Settles
<1> QED
    BY <1>1, <1>4 DEF SeenDead

LEMMA ConflictStep ==
    ASSUME TypeOK, AuditInv, LifeInv, FinalInv, [Next]_vars
    PROVE  ConflictIsFinal'
<1> SUFFICES ASSUME NEW r \in Refs, ledger'[r] = "paid_conflict"
             PROVE  status'[r] \in {"expired", "cancelled"}
    BY DEF ConflictIsFinal
<1> USE DEF TypeOK
<1>1. CASE ledger[r] = "paid_conflict"
  <2>1. status[r] \in {"expired", "cancelled"}
      BY <1>1 DEF FinalInv, ConflictIsFinal
  <2>2. \A h \in Handlers : NotifySettle(h) => notifier[h].ref # r
      BY <1>1, SettleEffect DEF AuditInv, RecordedIsNew
  <2> QED
      BY <2>1, <2>2, DeadStays
<1>2. CASE ledger[r] # "paid_conflict"
  <2>1. ledger[r] = "none"
      BY <1>2, AuditStep
  <2>2. ASSUME NEW h \in Handlers, NotifySettle(h)
        PROVE  FALSE
      BY <1>2, <2>2, SettleEffect
  <2>3. ASSUME NEW h \in Handlers, NotifyRecord(h)
        PROVE  status'[r] \in {"expired", "cancelled"}
    <3>1. /\ notifier[h].ref = r /\ ~Settles(h)
          /\ Dismissal(h)[1] = "paid_conflict"
          /\ UNCHANGED status
        BY <1>2, <2>3, RecordEffect DEF NotifyRecord
    <3> QED
        BY <1>2, <2>1, <2>3, <3>1, ConflictIsOfDead DEF FinalInv
  <2> QED
      BY <1>2, <2>2, <2>3, LedgerFrame
<1> QED
    BY <1>1, <1>2

\* Money that is on record as owed back buys nothing any more: the booking was
\* dead when the conflict was written (payments.py:259-286), and no repeated
\* notification, however late, brings it back.
THEOREM ConflictsAreFinal == Spec => []ConflictIsFinal
<1>1. Init => FinalInv
    BY DEF Init, FinalInv, SeenDead, ConflictIsFinal, IdleNotifier
<1>2. /\ TypeOK /\ TypeOK' /\ AuditInv /\ LifeInv /\ FinalInv /\ [Next]_vars
      => FinalInv'
    BY SeenStep, ConflictStep DEF FinalInv
<1>3. FinalInv => ConflictIsFinal
    BY DEF FinalInv
<1> QED
    BY <1>1, <1>2, <1>3, InitAudit, AuditStep, TypeCorrect, WritersAreUpToDate,
       PTL DEF Spec

=============================================================================
