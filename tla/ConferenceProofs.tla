-------------------------- MODULE ConferenceProofs --------------------------
(***************************************************************************)
(* Theorems about Conference for every set of reservations and handlers,   *)
(* every capacity the admin may choose and every combination of faults.    *)
(***************************************************************************)
EXTENDS Conference, TLAPS, FiniteSetTheorems

(***************************************************************************)
(* The lowest of a set of numbers exists: what _allocate relies on.        *)
(***************************************************************************)
LEMMA LowestExists ==
    ASSUME NEW S \in SUBSET Nat, S # {}
    PROVE  \E n \in S : \A m \in S : n <= m
<1>1. \A m \in Nat, k \in Nat : m < k => <<m, k>> \in OpToRel(<, Nat)
    BY DEF OpToRel
<1>2. \E n \in S : \A m \in S : ~(m < n)
    BY <1>1, NatLessThanWellFounded, WFMin, Zenon
<1> QED
    BY <1>2

\* A reservation that picks gets a free number.
LEMMA PickIsFree ==
    ASSUME TypeOK, NEW r \in Refs, FreeNumbers(r) # {}
    PROVE  (CHOOSE n \in FreeNumbers(r) : \A m \in FreeNumbers(r) : n <= m)
               \in FreeNumbers(r)
<1>1. FreeNumbers(r) \in SUBSET Nat
    BY DEF FreeNumbers, TypeOK, BuyerStates
<1> HIDE DEF FreeNumbers
<1> QED
    BY <1>1, LowestExists

(***************************************************************************)
(* Type correctness.                                                       *)
(***************************************************************************)

\* A step to another place of a reservation keeps its shape.
LEMMA BuyerMove ==
    ASSUME NEW b \in BuyerStates, NEW p \in {"idle", "swept", "picked", "inserted"}
    PROVE  /\ [b EXCEPT !.pc = p] \in BuyerStates
           /\ \A n \in Nat : [b EXCEPT !.pc = p, !.pick = n] \in BuyerStates
           /\ b.tries + 1 < MaxAttempts
                  => [b EXCEPT !.pc = p, !.tries = @ + 1] \in BuyerStates
<1>1. [b EXCEPT !.pc = p] \in BuyerStates
    BY DEF BuyerStates
<1>2. \A n \in Nat : [b EXCEPT !.pc = p, !.pick = n] \in BuyerStates
    BY DEF BuyerStates
<1>3. ASSUME b.tries + 1 < MaxAttempts
      PROVE  [b EXCEPT !.pc = p, !.tries = @ + 1] \in BuyerStates
  <2>1. b.tries + 1 \in 0 .. MaxAttempts
      BY <1>3, ConferenceAssumption DEF BuyerStates
  <2> QED
      BY <2>1 DEF BuyerStates
<1> QED
    BY <1>1, <1>2, <1>3

LEMMA IdleShapes ==
    IdleBuyer \in BuyerStates /\ IdleNotifier \in NotifierStates
<1>1. IdleBuyer \in BuyerStates
    BY ConferenceAssumption DEF IdleBuyer, BuyerStates
<1>2. IdleNotifier \in NotifierStates
    BY DEF IdleNotifier, NotifierStates, Statuses
<1> QED
    BY <1>1, <1>2

LEMMA InitType == Init => TypeOK
<1> SUFFICES ASSUME Init PROVE TypeOK
    OBVIOUS
<1> USE DEF Init
<1>1. /\ buyer \in [Refs -> BuyerStates] /\ notifier \in [Handlers -> NotifierStates]
      /\ \A h \in Handlers : notifier[h].pc = "idle"
    BY IdleShapes DEF IdleNotifier
<1>2. /\ updater \in [pc : {"idle", "checked"}, capacity : Nat]
      /\ closer \in [pc : {"idle", "loaded"}, seats : SUBSET Refs, paid : SUBSET Refs]
    BY DEF IdleUpdater, IdleCloser
<1>3. capacity \in Nat /\ peak \in Nat
    BY ConferenceAssumption
<1> QED
    BY <1>1, <1>2, <1>3 DEF TypeOK, Statuses

LEMMA ReserveType ==
    ASSUME TypeOK, NEW r \in Refs, ReserveSeat(r)
    PROVE  TypeOK'
<1> USE DEF TypeOK, event, seats, world
<1>1. CASE ReserveSweep(r)
  <2>1. [pc |-> "swept", moment |-> now, limit |-> capacity,
         swept |-> StaleSeats(now), pick |-> 0, tries |-> 0] \in BuyerStates
      BY ConferenceAssumption DEF BuyerStates, StaleSeats
  <2> QED
      BY <1>1, <2>1 DEF ReserveSweep
<1>2. CASE ReservePick(r)
  <2> DEFINE n == CHOOSE x \in FreeNumbers(r) : \A m \in FreeNumbers(r) : x <= m
  <2>1. CASE FreeNumbers(r) # {}
    <3>1. n \in Nat
        BY <2>1, PickIsFree DEF FreeNumbers, BuyerStates
    <3>2. buyer' = [buyer EXCEPT ![r] = [buyer[r] EXCEPT !.pc = "picked", !.pick = n]]
        BY <1>2, <2>1 DEF ReservePick
    <3> HIDE DEF n
    <3>3. buyer' \in [Refs -> BuyerStates]
        BY <3>1, <3>2, BuyerMove
    <3> QED
        BY <1>2, <3>3 DEF ReservePick
  <2>2. CASE FreeNumbers(r) = {}
      BY <1>2, <2>2, IdleShapes DEF ReservePick
  <2> QED
      BY <2>1, <2>2
<1>3. CASE ReserveInsert(r)
  <2>1. buyer' \in [Refs -> BuyerStates]
    <3>1. CASE IndexAllows(r, buyer[r].pick, buyer[r].swept)
      <4>1. [buyer[r] EXCEPT !.pc = "inserted"] \in BuyerStates
          BY BuyerMove
      <4> QED
          BY <1>3, <3>1, <4>1 DEF ReserveInsert
    <3>2. CASE ~IndexAllows(r, buyer[r].pick, buyer[r].swept)
      <4>1. CASE buyer[r].tries + 1 < MaxAttempts
        <5> DEFINE b == [buyer[r] EXCEPT !.pc = "swept", !.tries = @ + 1]
        <5>1. b \in BuyerStates
            BY <4>1, BuyerMove
        <5>2. buyer' = [buyer EXCEPT ![r] = b]
            BY <1>3, <3>2, <4>1 DEF ReserveInsert
        <5> HIDE DEF b
        <5> QED
            BY <5>1, <5>2
      <4>2. CASE ~(buyer[r].tries + 1 < MaxAttempts)
          BY <1>3, <3>2, <4>2, IdleShapes DEF ReserveInsert
      <4> QED
          BY <4>1, <4>2
    <3> QED
        BY <3>1, <3>2
  <2> QED
      BY <1>3, <2>1 DEF ReserveInsert
<1>4. CASE ReserveCommit(r)
  <2>1. Expiry(r) \in Nat /\ buyer[r].pick \in Nat
      BY ConferenceAssumption DEF Expiry, BuyerStates
  <2> QED
      BY <1>4, <2>1, IdleShapes DEF ReserveCommit, Statuses
<1> QED
    BY <1>1, <1>2, <1>3, <1>4 DEF ReserveSeat

LEMMA CancelType ==
    ASSUME TypeOK, NEW r \in Refs, CancelLoad(r) \/ CancelCommit(r)
    PROVE  TypeOK'
BY DEF CancelLoad, CancelCommit, TypeOK, Statuses, event, seats, world

LEMMA NotifyType ==
    ASSUME TypeOK, NEW h \in Handlers, Notify(h)
    PROVE  TypeOK'
<1> USE DEF TypeOK, event, seats, world
<1>1. ASSUME NEW r \in Refs, NotifyLoad(h, r) PROVE TypeOK'
  <2>1. [pc |-> "loaded", ref |-> r, seen |-> status[r]] \in NotifierStates
      BY DEF NotifierStates
  <2> QED
      BY <1>1, <2>1 DEF NotifyLoad
<1>2. CASE NotifyRecord(h)
  <2>1. notifier[h].ref \in Refs
      BY <1>2 DEF NotifyRecord
  <2>2. CASE notifier' = [notifier EXCEPT ![h].pc = "recorded"] /\ UNCHANGED ledger
    <3>1. /\ notifier' \in [Handlers -> NotifierStates]
          /\ \A g \in Handlers : notifier'[g].ref = notifier[g].ref
          /\ \A g \in Handlers \ {h} : notifier'[g].pc = notifier[g].pc
        BY <2>2 DEF NotifierStates
    <3> QED
        BY <1>2, <2>1, <2>2, <3>1 DEF NotifyRecord
  <2>3. CASE /\ notifier' = [notifier EXCEPT ![h] = IdleNotifier]
             /\ \/ ledger' = [ledger EXCEPT ![notifier[h].ref] =
                                 IF @ = "none" THEN "paid_conflict" ELSE @]
                \/ UNCHANGED ledger
      BY <1>2, <2>1, <2>3, IdleShapes DEF NotifyRecord, IdleNotifier
  <2> QED
      BY <1>2, <2>2, <2>3 DEF NotifyRecord
<1>3. CASE NotifySettle(h)
    BY <1>3, IdleShapes DEF NotifySettle, SettlePaid, IdleNotifier, Statuses
<1> QED
    BY <1>1, <1>2, <1>3 DEF Notify

LEMMA TicketType ==
    ASSUME TypeOK, NEW r \in Refs, FinalizeTicket(r)
    PROVE  TypeOK'
<1> USE DEF TypeOK, event, seats, world
<1>1. CASE TicketLoad(r)
    BY <1>1 DEF TicketLoad
<1>2. CASE TicketMail(r)
    BY <1>2 DEF TicketMail
<1>3. CASE TicketCommit(r)
    BY <1>3 DEF TicketCommit
<1> QED
    BY <1>1, <1>2, <1>3 DEF FinalizeTicket

LEMMA AdminType ==
    ASSUME TypeOK,
           \/ \E c \in Capacities : UpdateCheck(c)
           \/ UpdateCommit \/ CloseLoad \/ CloseCommit
    PROVE  TypeOK'
<1> USE DEF TypeOK, event, seats, world
<1>1. ASSUME NEW c \in Capacities, UpdateCheck(c) PROVE TypeOK'
    BY <1>1, ConferenceAssumption DEF UpdateCheck
<1>2. CASE UpdateCommit
    BY <1>2 DEF UpdateCommit, IdleUpdater
<1>3. CASE CloseLoad
    BY <1>3 DEF CloseLoad
<1>4. CASE CloseCommit
    BY <1>4 DEF CloseCommit, IdleCloser, Statuses
<1> QED
    BY <1>1, <1>2, <1>3, <1>4

LEMMA WorldType ==
    ASSUME TypeOK, (\E r \in Refs : Pay(r)) \/ Tick \/ Crash
    PROVE  TypeOK'
<1> USE DEF TypeOK, event, seats, world, requests
<1>1. ASSUME NEW r \in Refs, Pay(r) PROVE TypeOK'
    BY <1>1 DEF Pay
<1>2. CASE Tick
    BY <1>2 DEF Tick
<1>3. CASE Crash
    BY <1>3, IdleShapes DEF Crash, IdleNotifier, IdleUpdater, IdleCloser
<1> QED
    BY <1>1, <1>2, <1>3

\* Every variable keeps the shape its column, task or handler has in the code.
THEOREM TypeCorrect == Spec => []TypeOK
<1>1. TypeOK /\ [Next]_vars => TypeOK'
  <2>1. ASSUME TypeOK, UNCHANGED vars PROVE TypeOK'
      BY <2>1 DEF TypeOK, vars, event, seats, world, requests
  <2>2. ASSUME TypeOK, Next PROVE TypeOK'
      BY <2>2, ReserveType, CancelType, NotifyType, TicketType, AdminType,
         WorldType DEF Next
  <2> QED
      BY <2>1, <2>2
<1> QED
    BY <1>1, InitType, PTL DEF Spec

(***************************************************************************)
(* Frames: which actions may change a variable.                            *)
(***************************************************************************)

LEMMA StatusFrame ==
    [Next]_vars =>
        \/ UNCHANGED status
        \/ \E r \in Refs : ReserveCommit(r) \/ CancelCommit(r)
        \/ \E h \in Handlers : NotifySettle(h)
        \/ CloseCommit
BY DEF Next, vars, event, seats, world, requests, ReserveSeat, ReserveSweep,
       ReservePick, ReserveInsert, CancelLoad, Notify, NotifyLoad, NotifyRecord,
       FinalizeTicket, TicketLoad, TicketMail, TicketCommit, UpdateCheck,
       UpdateCommit, CloseLoad, Pay, Tick, Crash

LEMMA SeatFrame ==
    [Next]_vars =>
        UNCHANGED <<seatNo, expiresAt>> \/ \E r \in Refs : ReserveCommit(r)
BY DEF Next, vars, event, seats, world, requests, ReserveSeat, ReserveSweep,
       ReservePick, ReserveInsert, CancelLoad, CancelCommit, Notify, NotifyLoad,
       NotifyRecord, NotifySettle, FinalizeTicket, TicketLoad, TicketMail,
       TicketCommit, UpdateCheck, UpdateCommit, CloseLoad, CloseCommit, Pay,
       Tick, Crash

LEMMA BuyerFrame ==
    [Next]_vars =>
        \/ UNCHANGED buyer
        \/ buyer' = [r \in Refs |-> IdleBuyer]
        \/ \E r \in Refs : ReserveSeat(r)
BY DEF Next, vars, event, seats, world, requests, CancelLoad, CancelCommit,
       Notify, NotifyLoad, NotifyRecord, NotifySettle, FinalizeTicket,
       TicketLoad, TicketMail, TicketCommit, UpdateCheck, UpdateCommit,
       CloseLoad, CloseCommit, Pay, Tick, Crash

LEMMA CapacityFrame ==
    [Next]_vars => UNCHANGED <<capacity, peak>> \/ UpdateCommit
BY DEF Next, vars, event, seats, world, requests, ReserveSeat, ReserveSweep,
       ReservePick, ReserveInsert, ReserveCommit, CancelLoad, CancelCommit,
       Notify, NotifyLoad, NotifyRecord, NotifySettle, FinalizeTicket,
       TicketLoad, TicketMail, TicketCommit, UpdateCheck, CloseLoad,
       CloseCommit, Pay, Tick, Crash

LEMMA ClockFrame ==
    [Next]_vars => UNCHANGED now \/ Tick
BY DEF Next, vars, event, seats, world, requests, ReserveSeat, ReserveSweep,
       ReservePick, ReserveInsert, ReserveCommit, CancelLoad, CancelCommit,
       Notify, NotifyLoad, NotifyRecord, NotifySettle, FinalizeTicket,
       TicketLoad, TicketMail, TicketCommit, UpdateCheck, UpdateCommit,
       CloseLoad, CloseCommit, Pay, Crash

LEMMA OrderFrame ==
    [Next]_vars => UNCHANGED order \/ \E r \in Refs : ReserveCommit(r) \/ Pay(r)
BY DEF Next, vars, event, seats, world, requests, ReserveSeat, ReserveSweep,
       ReservePick, ReserveInsert, CancelLoad, CancelCommit, Notify, NotifyLoad,
       NotifyRecord, NotifySettle, FinalizeTicket, TicketLoad, TicketMail,
       TicketCommit, UpdateCheck, UpdateCommit, CloseLoad, CloseCommit, Tick,
       Crash

LEMMA NotifierFrame ==
    [Next]_vars =>
        \/ UNCHANGED notifier
        \/ notifier' = [h \in Handlers |-> IdleNotifier]
        \/ \E h \in Handlers : Notify(h)
BY DEF Next, vars, event, seats, world, requests, ReserveSeat, ReserveSweep,
       ReservePick, ReserveInsert, ReserveCommit, CancelLoad, CancelCommit,
       FinalizeTicket, TicketLoad, TicketMail, TicketCommit, UpdateCheck,
       UpdateCommit, CloseLoad, CloseCommit, Pay, Tick, Crash

LEMMA CancellerFrame ==
    [Next]_vars =>
        \/ UNCHANGED canceller
        \/ canceller' = [r \in Refs |-> "idle"]
        \/ \E r \in Refs : CancelLoad(r) \/ CancelCommit(r)
BY DEF Next, vars, event, seats, world, requests, ReserveSeat, ReserveSweep,
       ReservePick, ReserveInsert, ReserveCommit, Notify, NotifyLoad,
       NotifyRecord, NotifySettle, FinalizeTicket, TicketLoad, TicketMail,
       TicketCommit, UpdateCheck, UpdateCommit, CloseLoad, CloseCommit, Pay,
       Tick, Crash

LEMMA CloserFrame ==
    [Next]_vars => UNCHANGED closer \/ closer' = IdleCloser \/ CloseLoad
BY DEF Next, vars, event, seats, world, requests, ReserveSeat, ReserveSweep,
       ReservePick, ReserveInsert, ReserveCommit, CancelLoad, CancelCommit,
       Notify, NotifyLoad, NotifyRecord, NotifySettle, FinalizeTicket,
       TicketLoad, TicketMail, TicketCommit, UpdateCheck, UpdateCommit,
       CloseCommit, Pay, Tick, Crash

(***************************************************************************)
(* Effects: what one step can do to one reservation and one seat.          *)
(***************************************************************************)

\* A reservation sweeps and reads the capacity once, picks a free number, and
\* inserts it when nobody has it.
LEMMA ReserveEffect ==
    ASSUME TypeOK, NEW r \in Refs, ReserveSeat(r)
    PROVE  /\ \A q \in Refs \ {r} : buyer'[q] = buyer[q]
           /\ \/ buyer'[r] = IdleBuyer
              \/ ReserveSweep(r)
              \/ /\ buyer[r].pc # "idle"
                 /\ buyer'[r].moment = buyer[r].moment
                 /\ buyer'[r].limit = buyer[r].limit
                 /\ buyer'[r].swept = buyer[r].swept
                 /\ \/ buyer'[r].pc = "swept"
                    \/ /\ buyer'[r].pc = "picked"
                       /\ buyer'[r].pick \in FreeNumbers(r)
                    \/ /\ buyer[r].pc = "picked" /\ buyer'[r].pc = "inserted"
                       /\ buyer'[r].pick = buyer[r].pick
                       /\ IndexAllows(r, buyer[r].pick, buyer[r].swept)
                       /\ ~InsertedBySomeone(r, buyer[r].pick)
<1> USE DEF TypeOK
<1>1. CASE ReserveSweep(r)
    BY <1>1 DEF ReserveSweep
<1>2. CASE ReservePick(r)
  <2> DEFINE n == CHOOSE x \in FreeNumbers(r) : \A m \in FreeNumbers(r) : x <= m
  <2>1. CASE FreeNumbers(r) # {}
    <3>1. n \in FreeNumbers(r)
        BY <2>1, PickIsFree
    <3>2. /\ buyer[r].pc = "swept"
          /\ buyer' = [buyer EXCEPT ![r] = [buyer[r] EXCEPT !.pc = "picked", !.pick = n]]
        BY <1>2, <2>1 DEF ReservePick
    <3> HIDE DEF n
    <3> QED
        BY <3>1, <3>2 DEF BuyerStates
  <2>2. CASE FreeNumbers(r) = {}
      BY <1>2, <2>2 DEF ReservePick
  <2> QED
      BY <2>1, <2>2
<1>3. CASE ReserveInsert(r)
  <2>1. CASE IndexAllows(r, buyer[r].pick, buyer[r].swept)
    <3>1. /\ buyer[r].pc = "picked" /\ ~InsertedBySomeone(r, buyer[r].pick)
          /\ buyer' = [buyer EXCEPT ![r] = [buyer[r] EXCEPT !.pc = "inserted"]]
        BY <1>3, <2>1 DEF ReserveInsert
    <3> QED
        BY <2>1, <3>1 DEF BuyerStates
  <2>2. CASE ~IndexAllows(r, buyer[r].pick, buyer[r].swept)
    <3> DEFINE b == [buyer[r] EXCEPT !.pc = "swept", !.tries = @ + 1]
    <3>1. /\ buyer[r].pc = "picked"
          /\ \/ buyer' = [buyer EXCEPT ![r] = b]
             \/ buyer' = [buyer EXCEPT ![r] = IdleBuyer]
        BY <1>3, <2>2 DEF ReserveInsert
    <3>2. /\ b.pc = "swept" /\ b.moment = buyer[r].moment
          /\ b.limit = buyer[r].limit /\ b.swept = buyer[r].swept
        BY DEF BuyerStates
    <3> HIDE DEF b
    <3> QED
        BY <3>1, <3>2
  <2> QED
      BY <2>1, <2>2
<1>4. CASE ReserveCommit(r)
    BY <1>4 DEF ReserveCommit
<1> QED
    BY <1>1, <1>2, <1>3, <1>4 DEF ReserveSeat

\* The same of one reservation under any step.
LEMMA BuyerEffect ==
    ASSUME TypeOK, [Next]_vars, NEW r \in Refs
    PROVE  \/ buyer'[r] = IdleBuyer
           \/ ReserveSweep(r)
           \/ /\ buyer'[r].pc # "idle" => buyer[r].pc # "idle"
              /\ buyer'[r].moment = buyer[r].moment
              /\ buyer'[r].limit = buyer[r].limit
              /\ buyer'[r].swept = buyer[r].swept
              /\ \/ buyer'[r] = buyer[r]
                 \/ buyer'[r].pc = "swept"
                 \/ /\ buyer'[r].pc = "picked"
                    /\ buyer'[r].pick \in FreeNumbers(r)
                 \/ /\ buyer[r].pc = "picked" /\ buyer'[r].pc = "inserted"
                    /\ buyer'[r].pick = buyer[r].pick
                    /\ IndexAllows(r, buyer[r].pick, buyer[r].swept)
                    /\ ~InsertedBySomeone(r, buyer[r].pick)
<1>1. ASSUME NEW q \in Refs, ReserveSeat(q), q # r
      PROVE  buyer'[r] = buyer[r]
    BY <1>1, ReserveEffect
<1>2. CASE ReserveSeat(r)
    BY <1>2, ReserveEffect
<1> QED
    BY <1>1, <1>2, BuyerFrame

LEMMA StatusEffect ==
    ASSUME TypeOK, [Next]_vars, NEW r \in Refs
    PROVE  \/ status'[r] = status[r]
           \/ /\ buyer[r].pc = "inserted" /\ buyer'[r] = IdleBuyer
              /\ status'[r] = "pending_payment" /\ seatNo'[r] = buyer[r].pick
           \/ \E q \in Refs : /\ r \in buyer[q].swept /\ buyer'[q] = IdleBuyer
                              /\ status'[r] = "expired"
           \/ /\ canceller[r] = "loaded" /\ r \notin Locked
              /\ status'[r] = "cancelled"
           \/ \E h \in Handlers : /\ notifier[h].pc = "recorded"
                                  /\ notifier[h].ref = r /\ r \notin Locked
                                  /\ status'[r] = "paid"
           \/ /\ r \in closer.seats /\ r \notin Locked
              /\ status'[r] = "cancelled"
<1> USE DEF TypeOK
<1>1. ASSUME NEW q \in Refs, ReserveCommit(q)
      PROVE  \/ status'[r] = status[r]
             \/ /\ buyer[r].pc = "inserted" /\ buyer'[r] = IdleBuyer
                /\ status'[r] = "pending_payment" /\ seatNo'[r] = buyer[r].pick
             \/ /\ r \in buyer[q].swept /\ buyer'[q] = IdleBuyer
                /\ status'[r] = "expired"
    BY <1>1 DEF ReserveCommit
<1>2. ASSUME NEW q \in Refs, CancelCommit(q)
      PROVE  \/ status'[r] = status[r]
             \/ canceller[r] = "loaded" /\ r \notin Locked /\ status'[r] = "cancelled"
    BY <1>2 DEF CancelCommit
<1>3. ASSUME NEW h \in Handlers, NotifySettle(h)
      PROVE  \/ status'[r] = status[r]
             \/ /\ notifier[h].pc = "recorded" /\ notifier[h].ref = r
                /\ r \notin Locked /\ status'[r] = "paid"
    BY <1>3 DEF NotifySettle, SettlePaid
<1>4. CASE CloseCommit
    BY <1>4 DEF CloseCommit
<1> QED
    BY <1>1, <1>2, <1>3, <1>4, StatusFrame

(***************************************************************************)
(* What a transaction knows of a row it has read stays true until it       *)
(* commits.                                                                *)
(***************************************************************************)

\* A seat that is being reserved cannot be seen yet.
CreatedUnseen ==
    \A r \in Refs : buyer[r].pc # "idle" =>
        status[r] = "none" /\ buyer[r].moment <= now

\* What a reservation has swept is stale, and its own.
SweptIsStale ==
    \A r \in Refs : \A q \in buyer[r].swept :
        status[q] = "pending_payment" /\ expiresAt[q] <= now

SweptOnce ==
    \A q, r \in Refs : q # r => buyer[q].swept \cap buyer[r].swept = {}

\* Money, and what is in flight, is about a row.
PaidExists == \A r \in Refs : order[r] = "paid" => status[r] # "none"

NotifiedIsPaid ==
    \A h \in Handlers : notifier[h].pc # "idle" => order[notifier[h].ref] = "paid"

CancelledExists == \A r \in Refs : canceller[r] # "idle" => status[r] # "none"

ClosedExists == \A r \in closer.seats : status[r] # "none"

LifeInv == /\ CreatedUnseen /\ SweptIsStale /\ SweptOnce /\ PaidExists
           /\ NotifiedIsPaid /\ CancelledExists /\ ClosedExists

(***************************************************************************)
(* The unique index sells a number once, although a reservation looks at   *)
(* it when it inserts and enters it when it commits.                       *)
(***************************************************************************)

\* What the index allowed an INSERT, it allows until the commit.
InsertGuarded ==
    \A r \in Refs : buyer[r].pc = "inserted" =>
        IndexAllows(r, buyer[r].pick, buyer[r].swept)

\* No two open transactions have inserted the same number.
OneInserter ==
    \A q, r \in Refs :
        /\ q # r
        /\ buyer[q].pc = "inserted" /\ buyer[r].pc = "inserted"
        => buyer[q].pick # buyer[r].pick

SaleInv == SeatSoldOnce /\ InsertGuarded /\ OneInserter

(***************************************************************************)
(* Numbers stay within the largest capacity there has been, whatever       *)
(* capacity a reservation in flight still goes by.                         *)
(***************************************************************************)
RangeInv ==
    /\ capacity <= peak
    /\ \A r \in Refs : status[r] # "none" => seatNo[r] \in 1 .. peak
    /\ \A r \in Refs :
          /\ buyer[r].pc # "idle" => buyer[r].limit <= peak
          /\ buyer[r].pc \in {"picked", "inserted"} => buyer[r].pick \in 1 .. peak

(***************************************************************************)
(* The audit trail.                                                        *)
(***************************************************************************)

\* An audit row that is being written is the first, and nobody else's.
RecordedIsNew ==
    \A h \in Handlers : notifier[h].pc = "recorded" => ledger[notifier[h].ref] = "none"

OneRecorder ==
    \A g, h \in Handlers :
        /\ notifier[g].pc = "recorded" /\ notifier[h].pc = "recorded"
        /\ notifier[g].ref = notifier[h].ref
        => g = h

\* What cancel_event has read as paid was.
ClosedIsAudited == \A r \in closer.paid : ledger[r] = "paid"

AuditInv == PaidSeatIsAudited /\ ClosedIsAudited /\ RecordedIsNew /\ OneRecorder

\* One task is queued per payment, and it mails once.
MailInv ==
    \A r \in Refs :
        /\ finalizer[r] # "idle" \/ tickets[r] # 0 \/ sent[r] => ledger[r] = "paid"
        /\ finalizer[r] \in {"queued", "loaded"} => tickets[r] = 0
        /\ finalizer[r] = "mailed" \/ sent[r] => tickets[r] = 1
        /\ tickets[r] <= 1

(***************************************************************************)
(* LifeInv is inductive.                                                   *)
(***************************************************************************)

\* Rows do not vanish, ...
LEMMA RowsStay ==
    ASSUME TypeOK, [Next]_vars, NEW r \in Refs, status[r] # "none"
    PROVE  status'[r] # "none"
BY StatusEffect

\* ... nor does money, and it comes in by Pay only.
LEMMA PaidEffect ==
    ASSUME TypeOK, LifeInv, [Next]_vars, NEW r \in Refs
    PROVE  (order'[r] = "paid") = (order[r] = "paid") \/ Pay(r)
<1> USE DEF TypeOK
<1>1. ASSUME NEW q \in Refs, ReserveCommit(q)
      PROVE  (order'[r] = "paid") = (order[r] = "paid")
  <2>1. status[q] = "none" /\ order' = [order EXCEPT ![q] = "open"]
      BY <1>1 DEF ReserveCommit, LifeInv, CreatedUnseen
  <2> QED
      BY <2>1 DEF LifeInv, PaidExists
<1>2. ASSUME NEW q \in Refs, Pay(q), q # r
      PROVE  order'[r] = order[r]
    BY <1>2 DEF Pay
<1> QED
    BY <1>1, <1>2, OrderFrame

LEMMA UnseenStep ==
    ASSUME TypeOK, LifeInv, [Next]_vars
    PROVE  CreatedUnseen'
<1> SUFFICES ASSUME NEW r \in Refs, buyer'[r].pc # "idle"
             PROVE  status'[r] = "none" /\ buyer'[r].moment <= now'
    BY DEF CreatedUnseen
<1> USE DEF TypeOK
<1>1. CASE ReserveSweep(r)
    BY <1>1 DEF ReserveSweep, seats
<1>2. CASE buyer[r].pc # "idle" /\ buyer'[r].moment = buyer[r].moment
  <2>1. status[r] = "none" /\ buyer[r].moment <= now
      BY <1>2 DEF LifeInv, CreatedUnseen
  <2>2. status'[r] = "none"
    <3>1. \A q \in Refs : r \notin buyer[q].swept
        BY <2>1 DEF LifeInv, SweptIsStale
    <3>2. canceller[r] = "idle" /\ r \notin closer.seats
        BY <2>1 DEF LifeInv, CancelledExists, ClosedExists
    <3>3. \A h \in Handlers : notifier[h].pc # "idle" => notifier[h].ref # r
        BY <2>1 DEF LifeInv, NotifiedIsPaid, PaidExists
    <3>4. buyer'[r] # IdleBuyer
        BY DEF IdleBuyer
    <3> QED
        BY <2>1, <3>1, <3>2, <3>3, <3>4, StatusEffect
  <2>3. now \in Nat /\ buyer[r].moment \in Nat /\ now' \in {now, now + 1}
      BY ClockFrame DEF Tick, BuyerStates
  <2> QED
      BY <1>2, <2>1, <2>2, <2>3
<1> QED
    BY <1>1, <1>2, BuyerEffect DEF IdleBuyer

LEMMA StaleStep ==
    ASSUME TypeOK, LifeInv, [Next]_vars
    PROVE  SweptIsStale'
<1> SUFFICES ASSUME NEW r \in Refs, NEW q \in buyer'[r].swept
             PROVE  status'[q] = "pending_payment" /\ expiresAt'[q] <= now'
    BY DEF SweptIsStale
<1> USE DEF TypeOK
<1>1. CASE ReserveSweep(r)
    BY <1>1 DEF ReserveSweep, StaleSeats, seats
<1>2. CASE buyer'[r].swept = buyer[r].swept
  <2>1. q \in Refs /\ q \in buyer[r].swept
      BY <1>2 DEF BuyerStates
  <2>2. status[q] = "pending_payment" /\ expiresAt[q] <= now
      BY <2>1 DEF LifeInv, SweptIsStale
  <2>3. q \in Locked
      BY <2>1 DEF Locked
  <2>4. buyer[q].pc = "idle"
      BY <2>1, <2>2 DEF LifeInv, CreatedUnseen
  <2>5. ASSUME NEW p \in Refs, q \in buyer[p].swept, buyer'[p] = IdleBuyer
        PROVE  FALSE
    <3>1. p = r
        BY <2>1, <2>5 DEF LifeInv, SweptOnce
    <3> QED
        BY <2>5, <3>1 DEF IdleBuyer
  <2>6. status'[q] = "pending_payment"
      BY <2>1, <2>2, <2>3, <2>4, <2>5, StatusEffect
  <2>7. expiresAt'[q] = expiresAt[q]
      BY <2>1, <2>4, SeatFrame DEF ReserveCommit
  <2>8. now \in Nat /\ expiresAt[q] \in Nat /\ now' \in {now, now + 1}
      BY <2>1, ClockFrame DEF Tick
  <2> QED
      BY <2>2, <2>6, <2>7, <2>8
<1> QED
    BY <1>1, <1>2, BuyerEffect DEF IdleBuyer

LEMMA OnceStep ==
    ASSUME TypeOK, LifeInv, [Next]_vars
    PROVE  SweptOnce'
<1> SUFFICES ASSUME NEW q \in Refs, NEW r \in Refs, q # r,
                    NEW x \in buyer'[q].swept, x \in buyer'[r].swept
             PROVE  FALSE
    BY DEF SweptOnce
<1>1. ASSUME NEW y \in Refs, NEW z \in Refs, y # z, ReserveSweep(y),
             x \in buyer'[y].swept, x \in buyer'[z].swept
      PROVE  FALSE
  <2>1. x \in StaleSeats(now) /\ x \in buyer[z].swept
      BY <1>1 DEF ReserveSweep, TypeOK
  <2> QED
      BY <1>1, <2>1 DEF ReserveSweep, Locked
<1>2. \A y \in Refs : \/ buyer'[y].swept \subseteq buyer[y].swept
                      \/ ReserveSweep(y)
    BY BuyerEffect DEF IdleBuyer
<1> QED
    BY <1>1, <1>2 DEF LifeInv, SweptOnce

\* A handler in flight has just loaded a paid order, or holds on to it.
LEMMA NotifierEffect ==
    ASSUME TypeOK, [Next]_vars, NEW h \in Handlers, notifier'[h].pc # "idle"
    PROVE  \/ notifier'[h] = notifier[h]
           \/ /\ order[notifier'[h].ref] = "paid" /\ notifier'[h].pc = "loaded"
              /\ UNCHANGED order
           \/ /\ notifier[h].pc = "loaded" /\ NotifyRecord(h)
              /\ notifier'[h].ref = notifier[h].ref
              /\ ledger[notifier[h].ref] = "none" /\ UNCHANGED ledger
<1> USE DEF TypeOK
<1>1. CASE notifier' = [g \in Handlers |-> IdleNotifier]
    BY <1>1 DEF IdleNotifier
<1>2. ASSUME NEW g \in Handlers, NEW r \in Refs, NotifyLoad(g, r)
      PROVE  \/ notifier'[h] = notifier[h]
             \/ /\ order[notifier'[h].ref] = "paid" /\ notifier'[h].pc = "loaded"
                /\ UNCHANGED order
    BY <1>2 DEF NotifyLoad, world
<1>3. ASSUME NEW g \in Handlers, NotifyRecord(g)
      PROVE  \/ notifier'[h] = notifier[h]
             \/ /\ notifier[h].pc = "loaded" /\ NotifyRecord(h)
                /\ notifier'[h].ref = notifier[h].ref
                /\ ledger[notifier[h].ref] = "none" /\ UNCHANGED ledger
  <2>1. CASE /\ notifier' = [notifier EXCEPT ![g].pc = "recorded"]
             /\ ~Replayed(notifier[g].ref) /\ UNCHANGED ledger
    <3>1. notifier'[g].ref = notifier[g].ref /\ \A k \in Handlers \ {g} : notifier'[k] = notifier[k]
        BY <2>1 DEF NotifierStates
    <3>2. notifier[g].pc = "loaded"
        BY <1>3 DEF NotifyRecord
    <3> QED
        BY <1>3, <2>1, <3>1, <3>2 DEF Replayed
  <2>2. CASE notifier' = [notifier EXCEPT ![g] = IdleNotifier]
      BY <2>2 DEF IdleNotifier
  <2> QED
      BY <1>3, <2>1, <2>2 DEF NotifyRecord
<1>4. ASSUME NEW g \in Handlers, NotifySettle(g)
      PROVE  notifier'[h] = notifier[h]
    BY <1>4 DEF NotifySettle, IdleNotifier
<1> QED
    BY <1>1, <1>2, <1>3, <1>4, NotifierFrame DEF Notify

LEMMA LifeInvStep ==
    ASSUME TypeOK, TypeOK', LifeInv, [Next]_vars
    PROVE  LifeInv'
<1>1. PaidExists'
    BY PaidEffect, RowsStay DEF LifeInv, PaidExists, Pay
<1>2. NotifiedIsPaid'
  <2> SUFFICES ASSUME NEW h \in Handlers, notifier'[h].pc # "idle"
               PROVE  order'[notifier'[h].ref] = "paid"
      BY DEF NotifiedIsPaid
  <2>1. notifier'[h].ref \in Refs
      BY DEF TypeOK
  <2>2. order[notifier'[h].ref] = "paid" => order'[notifier'[h].ref] = "paid"
      BY <2>1, PaidEffect DEF Pay
  <2> QED
      BY <2>2, NotifierEffect DEF LifeInv, NotifiedIsPaid
<1>3. CancelledExists'
  <2> SUFFICES ASSUME NEW r \in Refs, canceller'[r] # "idle"
               PROVE  status'[r] # "none"
      BY DEF CancelledExists
  <2>1. canceller[r] # "idle" \/ status[r] # "none"
      BY CancellerFrame DEF CancelLoad, CancelCommit, TypeOK
  <2> QED
      BY <2>1, RowsStay DEF LifeInv, CancelledExists
<1>4. ClosedExists'
  <2> SUFFICES ASSUME NEW r \in closer'.seats
               PROVE  status'[r] # "none"
      BY DEF ClosedExists
  <2>1. r \in Refs /\ status[r] # "none"
      BY CloserFrame DEF CloseLoad, InIndex, IdleCloser, TypeOK, LifeInv, ClosedExists
  <2> QED
      BY <2>1, RowsStay
<1> QED
    BY <1>1, <1>2, <1>3, <1>4, UnseenStep, StaleStep, OnceStep DEF LifeInv

\* What open reservations, cancellations, notifications and the closing of a
\* conference know of a row stays true until they write it.
THEOREM SeatWritersAreUpToDate == Spec => []LifeInv
<1>1. Init => LifeInv
    BY DEF Init, LifeInv, CreatedUnseen, SweptIsStale, SweptOnce, PaidExists,
       NotifiedIsPaid, CancelledExists, ClosedExists, IdleBuyer, IdleNotifier,
       IdleCloser
<1> QED
    BY <1>1, LifeInvStep, TypeCorrect, PTL DEF Spec

(***************************************************************************)
(* Every step of Conference is a step of each seat's life.                 *)
(***************************************************************************)

LEMMA LifeStep ==
    ASSUME TypeOK, LifeInv, [Next]_vars, NEW r \in Refs
    PROVE  [Life(r)!Next]_(Life(r)!lvars)
<1> USE DEF TypeOK
<1> DEFINE paidStays == (order'[r] = "paid") = (order[r] = "paid")
<1>1. ASSUME NEW q \in Refs, ReserveCommit(q)
      PROVE  [Life(r)!Next]_(Life(r)!lvars)
  <2>1. UNCHANGED now /\ paidStays
      BY <1>1, PaidEffect DEF ReserveCommit, Pay, LifeInv, CreatedUnseen
  <2>2. CASE UNCHANGED <<status, expiresAt>>
      BY <2>1, <2>2 DEF Life!lvars
  <2>3. CASE ~ UNCHANGED <<status, expiresAt>>
    <3>1. /\ buyer[q].pc = "inserted"
          /\ status' = [p \in Refs |->
                           IF p = q THEN "pending_payment"
                           ELSE IF p \in buyer[q].swept THEN "expired"
                           ELSE status[p]]
          /\ expiresAt' = [expiresAt EXCEPT ![q] = Expiry(q)]
        BY <1>1, <2>3 DEF ReserveCommit
    <3>2. CASE r = q
      <4>1. status[r] = "none" /\ buyer[r].moment <= now
          BY <3>1, <3>2 DEF LifeInv, CreatedUnseen
      <4>2. buyer[r].moment \in Nat /\ now \in Nat /\ HoldMinutes \in Nat \ {0}
          BY ConferenceAssumption DEF BuyerStates
      <4>3. expiresAt'[r] \in 1 .. now + HoldMinutes
          BY <3>1, <3>2, <4>1, <4>2 DEF Expiry
      <4>4. status'[r] = "pending_payment"
          BY <3>1, <3>2
      <4> QED
          BY <2>1, <4>1, <4>3, <4>4 DEF Life!Next, Life!Create
    <3>3. CASE r # q /\ r \in buyer[q].swept
      <4>1. status[r] = "pending_payment" /\ expiresAt[r] <= now
          BY <3>3 DEF LifeInv, SweptIsStale
      <4> QED
          BY <2>1, <3>1, <3>3, <4>1 DEF Life!Next, Life!Lapse
    <3>4. CASE r # q /\ r \notin buyer[q].swept
        BY <2>1, <3>1, <3>4 DEF Life!lvars
    <3> QED
        BY <3>2, <3>3, <3>4
  <2> QED
      BY <2>2, <2>3
<1>2. ASSUME UNCHANGED <<now, expiresAt, order>>, status[r] # "none",
             status'[r] \in {status[r], "cancelled"}
      PROVE  [Life(r)!Next]_(Life(r)!lvars)
    BY <1>2 DEF Life!Next, Life!Cancel, Life!lvars
<1>3. ASSUME NEW q \in Refs, CancelCommit(q)
      PROVE  [Life(r)!Next]_(Life(r)!lvars)
  <2>1. /\ UNCHANGED <<now, expiresAt, order>>
        /\ status'[r] = status[r] \/ (r = q /\ status'[r] = "cancelled")
        /\ canceller[q] = "loaded"
      BY <1>3 DEF CancelCommit, world
  <2>2. CASE status'[r] = status[r]
      BY <2>1, <2>2 DEF Life!lvars
  <2>3. CASE r = q
      BY <1>2, <2>1, <2>3 DEF LifeInv, CancelledExists
  <2> QED
      BY <2>1, <2>2, <2>3
<1>4. ASSUME NEW h \in Handlers, NotifySettle(h)
      PROVE  [Life(r)!Next]_(Life(r)!lvars)
  <2>1. UNCHANGED <<now, expiresAt, order>>
      BY <1>4 DEF NotifySettle, world
  <2>2. CASE status'[r] = status[r]
      BY <2>1, <2>2 DEF Life!lvars
  <2>3. CASE status'[r] # status[r]
    <3>1. /\ status'[r] = "paid"
          /\ notifier[h].ref = r /\ notifier[h].pc = "recorded"
        BY <1>4, <2>3 DEF NotifySettle, SettlePaid
    <3>2. order[r] = "paid" /\ status[r] # "none"
        BY <3>1 DEF LifeInv, NotifiedIsPaid, PaidExists
    <3> QED
        BY <2>1, <3>1, <3>2 DEF Life!Next, Life!Settle
  <2> QED
      BY <2>2, <2>3
<1>5. CASE CloseCommit
  <2>1. /\ UNCHANGED <<now, expiresAt, order>>
        /\ status'[r] = status[r] \/ (r \in closer.seats /\ status'[r] = "cancelled")
      BY <1>5 DEF CloseCommit
  <2>2. CASE status'[r] = status[r]
      BY <2>1, <2>2 DEF Life!lvars
  <2>3. CASE r \in closer.seats
      BY <1>2, <2>1, <2>3 DEF LifeInv, ClosedExists
  <2> QED
      BY <2>1, <2>2, <2>3
<1>6. ASSUME UNCHANGED <<status, expiresAt>>
      PROVE  [Life(r)!Next]_(Life(r)!lvars)
  <2>1. CASE Pay(r)
      BY <1>6, <2>1 DEF Pay, Life!Next, Life!Pay
  <2>2. CASE Tick
    <3>1. UNCHANGED order
        BY <2>2 DEF Tick, world
    <3> QED
        BY <1>6, <2>2, <3>1 DEF Tick, Life!Next, Life!Tick
  <2>3. CASE UNCHANGED now /\ paidStays
      BY <1>6, <2>3 DEF Life!lvars
  <2> QED
      BY <2>1, <2>2, <2>3, ClockFrame, PaidEffect
<1> QED
    BY <1>1, <1>3, <1>4, <1>5, <1>6, StatusFrame, SeatFrame

\* Whoever reads the row of any seat sees an order's life, the same as that of
\* a booking, under every fault and interleaving with the admin.
THEOREM SeatsLiveAsOrders == Spec => ImplementsLife
<1>1. Init => \A r \in Refs : Life(r)!Init
    BY DEF Init, Life!Init
<1>2. TypeOK /\ LifeInv /\ [Next]_vars
          => [\A r \in Refs : [Life(r)!Next]_(Life(r)!lvars)]_vars
    BY LifeStep
<1> QED
    BY <1>1, <1>2, TypeCorrect, SeatWritersAreUpToDate, PTL DEF Spec, ImplementsLife

(***************************************************************************)
(* SaleInv is inductive.                                                   *)
(***************************************************************************)

\* How seats get into the index: by the commit of a reservation, or by a
\* settlement that the index and the open transactions let through.
LEMMA IndexEffect ==
    ASSUME TypeOK, [Next]_vars
    PROVE  \/ \E r \in Refs :
                 /\ buyer[r].pc = "inserted"
                 /\ buyer'[r].pc = "idle"
                 /\ seatNo'[r] = buyer[r].pick
                 /\ \A q \in Refs \ {r} :
                       /\ buyer'[q] = buyer[q] /\ seatNo'[q] = seatNo[q]
                       /\ InIndex(q)' => InIndex(q) /\ q \notin buyer[r].swept
           \/ /\ UNCHANGED <<seatNo, buyer>>
              /\ \E r \in Refs :
                    /\ IndexAllows(r, seatNo[r], {})
                    /\ ~InsertedBySomeone(r, seatNo[r])
                    /\ \A q \in Refs \ {r} : InIndex(q)' => InIndex(q)
           \/ UNCHANGED seatNo /\ \A q \in Refs : InIndex(q)' => InIndex(q)
<1> USE DEF TypeOK, InIndex
<1>1. ASSUME NEW r \in Refs, ReserveCommit(r), ~UNCHANGED status
      PROVE  /\ buyer[r].pc = "inserted"
             /\ buyer'[r].pc = "idle"
             /\ seatNo'[r] = buyer[r].pick
             /\ \A q \in Refs \ {r} :
                   /\ buyer'[q] = buyer[q] /\ seatNo'[q] = seatNo[q]
                   /\ InIndex(q)' => InIndex(q) /\ q \notin buyer[r].swept
    BY <1>1 DEF ReserveCommit, IdleBuyer
<1>2. ASSUME NEW r \in Refs, ReserveCommit(r), UNCHANGED status
      PROVE  \/ UNCHANGED seatNo
             \/ /\ buyer[r].pc = "inserted"
                /\ buyer'[r].pc = "idle"
                /\ seatNo'[r] = buyer[r].pick
                /\ \A q \in Refs \ {r} :
                      /\ buyer'[q] = buyer[q] /\ seatNo'[q] = seatNo[q]
                      /\ InIndex(q)' => InIndex(q) /\ q \notin buyer[r].swept
  <2>1. CASE UNCHANGED seatNo
      BY <2>1
  <2>2. CASE ~UNCHANGED seatNo
    <3>1. /\ buyer[r].pc = "inserted"
          /\ buyer' = [buyer EXCEPT ![r] = IdleBuyer]
          /\ status' = [q \in Refs |->
                           IF q = r THEN "pending_payment"
                           ELSE IF q \in buyer[r].swept THEN "expired"
                           ELSE status[q]]
          /\ seatNo' = [seatNo EXCEPT ![r] = buyer[r].pick]
        BY <1>2, <2>2 DEF ReserveCommit
    <3> QED
        BY <3>1 DEF IdleBuyer
  <2> QED
      BY <2>1, <2>2
<1>3. ASSUME NEW h \in Handlers, NotifySettle(h)
      PROVE  /\ UNCHANGED <<seatNo, buyer>>
             /\ \/ \A q \in Refs : InIndex(q)' => InIndex(q)
                \/ /\ notifier[h].ref \in Refs
                   /\ IndexAllows(notifier[h].ref, seatNo[notifier[h].ref], {})
                   /\ ~InsertedBySomeone(notifier[h].ref, seatNo[notifier[h].ref])
                   /\ \A q \in Refs \ {notifier[h].ref} : InIndex(q)' => InIndex(q)
    BY <1>3 DEF NotifySettle, SettlePaid
<1>4. ASSUME NEW r \in Refs, CancelCommit(r)
      PROVE  UNCHANGED seatNo /\ \A q \in Refs : InIndex(q)' => InIndex(q)
    BY <1>4 DEF CancelCommit
<1>5. CASE CloseCommit
    BY <1>5 DEF CloseCommit
<1> QED
  <2>1. CASE \E r \in Refs : ReserveCommit(r)
      BY <1>1, <1>2, <2>1
  <2>2. CASE ~ \E r \in Refs : ReserveCommit(r)
    <3>1. UNCHANGED seatNo
        BY <2>2, SeatFrame
    <3> QED
        BY <1>3, <1>4, <1>5, <2>2, <3>1, StatusFrame
  <2> QED
      BY <2>1, <2>2

LEMMA SoldOnceStep ==
    ASSUME TypeOK, SaleInv, [Next]_vars
    PROVE  SeatSoldOnce'
<1> SUFFICES ASSUME NEW q \in Refs, NEW r \in Refs, q # r,
                    seatNo'[q] = seatNo'[r], InIndex(q)', InIndex(r)'
             PROVE  FALSE
    BY DEF SeatSoldOnce
<1>1. ASSUME NEW p \in Refs, NEW x \in Refs, p # x,
             seatNo'[p] = seatNo'[x], InIndex(x)',
             buyer[p].pc = "inserted", seatNo'[p] = buyer[p].pick,
             \A y \in Refs \ {p} :
                 /\ seatNo'[y] = seatNo[y]
                 /\ InIndex(y)' => InIndex(y) /\ y \notin buyer[p].swept
      PROVE  FALSE
    BY <1>1 DEF SaleInv, InsertGuarded, IndexAllows
<1>2. ASSUME NEW p \in Refs, NEW x \in Refs, p # x, UNCHANGED seatNo,
             seatNo'[p] = seatNo'[x], InIndex(x), IndexAllows(p, seatNo[p], {})
      PROVE  FALSE
    BY <1>2 DEF IndexAllows
<1>3. ~(InIndex(q) /\ InIndex(r) /\ seatNo'[q] = seatNo[q] /\ seatNo'[r] = seatNo[r])
    BY DEF SaleInv, SeatSoldOnce
<1> QED
    BY <1>1, <1>2, <1>3, IndexEffect

LEMMA GuardedStep ==
    ASSUME TypeOK, SaleInv, [Next]_vars
    PROVE  InsertGuarded'
<1> SUFFICES ASSUME NEW r \in Refs, buyer'[r].pc = "inserted",
                    NEW q \in Refs, q # r, q \notin buyer'[r].swept,
                    seatNo'[q] = buyer'[r].pick, InIndex(q)'
             PROVE  FALSE
    BY DEF InsertGuarded, IndexAllows
<1>1. IndexAllows(r, buyer'[r].pick, buyer'[r].swept)
    BY BuyerEffect DEF SaleInv, InsertGuarded, IdleBuyer, ReserveSweep, TypeOK
<1>2. seatNo'[q] # seatNo[q] \/ ~InIndex(q)
    BY <1>1 DEF IndexAllows
<1>3. ASSUME buyer[q].pc = "inserted", seatNo'[q] = buyer[q].pick,
             buyer'[r] = buyer[r]
      PROVE  FALSE
    BY <1>3 DEF SaleInv, OneInserter
<1>4. ASSUME UNCHANGED <<seatNo, buyer>>, ~InsertedBySomeone(q, seatNo[q])
      PROVE  FALSE
    BY <1>4 DEF InsertedBySomeone
<1> QED
    BY <1>2, <1>3, <1>4, IndexEffect

LEMMA OneInserterStep ==
    ASSUME TypeOK, SaleInv, [Next]_vars
    PROVE  OneInserter'
<1> SUFFICES ASSUME NEW q \in Refs, NEW r \in Refs, q # r,
                    buyer'[q].pc = "inserted", buyer'[r].pc = "inserted",
                    buyer'[q].pick = buyer'[r].pick
             PROVE  FALSE
    BY DEF OneInserter
<1>1. ASSUME NEW p \in Refs, NEW x \in Refs, p # x, ReserveSeat(p),
             buyer'[p].pc = "inserted", buyer'[x].pc = "inserted",
             buyer'[p].pick = buyer'[x].pick
      PROVE  FALSE
  <2>1. /\ buyer'[x] = buyer[x]
        /\ buyer'[p].pick = buyer[p].pick /\ ~InsertedBySomeone(p, buyer[p].pick)
      BY <1>1, ReserveEffect DEF IdleBuyer, ReserveSweep, TypeOK
  <2> QED
      BY <1>1, <2>1 DEF InsertedBySomeone
<1>2. ~(buyer'[q] = buyer[q] /\ buyer'[r] = buyer[r])
    BY DEF SaleInv, OneInserter
<1> QED
    BY <1>1, <1>2, BuyerFrame, ReserveEffect DEF IdleBuyer

\* The index, and what open reservations have inserted, agree.
LEMMA IndexAgrees == Spec => []SaleInv
<1>1. Init => SaleInv
    BY DEF Init, SaleInv, SeatSoldOnce, InsertGuarded, OneInserter, InIndex,
       IdleBuyer
<1>2. TypeOK /\ SaleInv /\ [Next]_vars => SaleInv'
    BY SoldOnceStep, GuardedStep, OneInserterStep DEF SaleInv
<1> QED
    BY <1>1, <1>2, TypeCorrect, PTL DEF Spec

\* No seat number is live twice: although a reservation picks its number, is
\* let into the index and commits in three steps, the database transactions
\* that race with it cannot take the number in between.
THEOREM NumberSoldOnce == Spec => []SeatSoldOnce
<1>1. SaleInv => SeatSoldOnce
    BY DEF SaleInv
<1> QED
    BY <1>1, IndexAgrees, PTL

(***************************************************************************)
(* RangeInv is inductive.                                                  *)
(***************************************************************************)

\* The peak never falls, and the capacity stays under it.
LEMMA PeakRises ==
    ASSUME TypeOK, TypeOK', capacity <= peak, [Next]_vars
    PROVE  peak <= peak' /\ capacity' <= peak'
<1>1. CASE UpdateCommit
    BY <1>1 DEF UpdateCommit, TypeOK
<1>2. CASE UNCHANGED <<capacity, peak>>
    BY <1>2 DEF TypeOK
<1> QED
    BY <1>1, <1>2, CapacityFrame

LEMMA RangeStep ==
    ASSUME TypeOK, TypeOK', LifeInv, RangeInv, [Next]_vars
    PROVE  RangeInv'
<1>1. /\ peak \in Nat /\ peak' \in Nat
      /\ peak <= peak' /\ capacity <= peak /\ capacity' <= peak'
    BY PeakRises DEF RangeInv, TypeOK
<1>2. 1 .. peak \subseteq 1 .. peak'
    BY <1>1
<1>3. ASSUME NEW r \in Refs
      PROVE  /\ buyer'[r].pc # "idle" => buyer'[r].limit <= peak'
             /\ buyer'[r].pc \in {"picked", "inserted"} => buyer'[r].pick \in 1 .. peak'
  <2> USE DEF TypeOK
  <2>1. CASE ReserveSweep(r)
    <3>1. buyer'[r].limit = capacity /\ buyer'[r].pc = "swept" /\ UNCHANGED peak
        BY <2>1 DEF ReserveSweep, world
    <3> QED
        BY <1>1, <3>1
  <2>2. CASE buyer'[r] = IdleBuyer
      BY <2>2 DEF IdleBuyer
  <2>3. CASE buyer[r].pc # "idle" /\ buyer'[r].limit = buyer[r].limit
    <3>1. buyer[r].limit \in Nat /\ buyer[r].limit <= peak
        BY <2>3 DEF RangeInv, BuyerStates
    <3>2. buyer'[r].limit <= peak'
        BY <1>1, <2>3, <3>1
    <3>3. FreeNumbers(r) \subseteq 1 .. peak
        BY <1>1, <3>1 DEF FreeNumbers
    <3>4. buyer'[r].pc \in {"picked", "inserted"} => buyer'[r].pick \in 1 .. peak
        BY <2>1, <2>2, <3>3, BuyerEffect DEF RangeInv, IdleBuyer, ReserveSweep
    <3> QED
        BY <1>2, <3>2, <3>4
  <2>4. CASE buyer[r].pc = "idle" /\ buyer'[r] = buyer[r]
      BY <2>4
  <2> QED
      BY <2>1, <2>2, <2>3, <2>4, BuyerEffect
<1>4. ASSUME NEW r \in Refs, status'[r] # "none"
      PROVE  seatNo'[r] \in 1 .. peak'
  <2>1. CASE buyer[r].pc = "inserted" /\ seatNo'[r] = buyer[r].pick
      BY <1>2, <2>1 DEF RangeInv
  <2>2. CASE seatNo'[r] = seatNo[r] /\ status[r] # "none"
      BY <1>2, <2>2 DEF RangeInv
  <2>3. \/ UNCHANGED seatNo
        \/ buyer[r].pc = "inserted" /\ seatNo'[r] = buyer[r].pick
        \/ seatNo'[r] = seatNo[r]
      BY SeatFrame DEF ReserveCommit, TypeOK
  <2>4. status[r] = "none" => buyer[r].pc = "inserted" /\ seatNo'[r] = buyer[r].pick
      BY <1>4, StatusEffect DEF LifeInv, SweptIsStale, CancelledExists,
         ClosedExists, NotifiedIsPaid, PaidExists
  <2> QED
      BY <2>1, <2>2, <2>3, <2>4
<1> QED
    BY <1>1, <1>3, <1>4 DEF RangeInv

\* Every number in use or on its way is one the conference has had.
LEMMA NumbersInRange == Spec => []RangeInv
<1>1. Init => RangeInv
    BY ConferenceAssumption DEF Init, RangeInv, IdleBuyer
<1>2. TypeOK /\ TypeOK' /\ LifeInv /\ RangeInv /\ [Next]_vars => RangeInv'
    BY RangeStep
<1> QED
    BY <1>1, <1>2, TypeCorrect, SeatWritersAreUpToDate, PTL DEF Spec

\* Rows with different numbers in 1 .. n are at most n.
LEMMA NumbersBoundRows ==
    ASSUME NEW S, NEW n \in Nat, NEW f \in [S -> 1 .. n],
           \A x, y \in S : f[x] = f[y] => x = y
    PROVE  Cardinality(S) <= n
<1>1. IsFiniteSet(1 .. n) /\ Cardinality(1 .. n) = n
    BY FS_Interval
<1>2. f \in Injection(S, 1 .. n)
    BY DEF Injection, IsInjective
<1> QED
    BY <1>1, <1>2, FS_Injection

\* Live rows never outnumber the seats the conference has had, although a
\* reservation goes by the capacity it read when it began and a late payment
\* by no capacity at all.
THEOREM SeatsWithinCapacity == Spec => []NeverOverPeak
<1>1. TypeOK /\ SeatSoldOnce /\ RangeInv => NeverOverPeak
  <2> SUFFICES ASSUME TypeOK, SeatSoldOnce, RangeInv PROVE NeverOverPeak
      OBVIOUS
  <2> DEFINE S == {r \in Refs : InIndex(r)}
             f == [r \in S |-> seatNo[r]]
  <2>1. f \in [S -> 1 .. peak]
      BY DEF RangeInv, InIndex
  <2>2. \A x, y \in S : f[x] = f[y] => x = y
      BY DEF SeatSoldOnce
  <2>3. peak \in Nat
      BY DEF TypeOK
  <2> HIDE DEF f, S
  <2>4. Cardinality(S) <= peak
      BY <2>1, <2>2, <2>3, NumbersBoundRows
  <2> QED
      BY <2>4 DEF NeverOverPeak, S
<1> QED
    BY <1>1, TypeCorrect, NumbersInRange, NumberSoldOnce, PTL

(***************************************************************************)
(* AuditInv and MailInv are inductive.                                     *)
(***************************************************************************)

LEMMA LedgerFrame ==
    [Next]_vars =>
        UNCHANGED ledger \/ \E h \in Handlers : NotifyRecord(h) \/ NotifySettle(h)
BY DEF Next, vars, event, seats, world, requests, ReserveSeat, ReserveSweep,
       ReservePick, ReserveInsert, ReserveCommit, CancelLoad, CancelCommit,
       Notify, NotifyLoad, FinalizeTicket, TicketLoad, TicketMail, TicketCommit,
       UpdateCheck, UpdateCommit, CloseLoad, CloseCommit, Pay, Tick, Crash

\* A recorded payment stays on record.
LEMMA LedgerEffect ==
    ASSUME TypeOK, [Next]_vars, NEW r \in Refs
    PROVE  \/ ledger'[r] = ledger[r]
           \/ /\ ledger[r] = "none" /\ ledger'[r] = "paid_conflict"
              /\ \E h \in Handlers :
                    /\ notifier' = [notifier EXCEPT ![h] = IdleNotifier]
                    /\ \A g \in Handlers \ {h} :
                          ~(notifier[g].pc = "recorded" /\ notifier[g].ref = r)
           \/ /\ ledger'[r] = "paid"
              /\ \E h \in Handlers :
                    /\ notifier[h].pc = "recorded" /\ notifier[h].ref = r
                    /\ notifier' = [notifier EXCEPT ![h] = IdleNotifier]
<1> USE DEF TypeOK
<1>1. ASSUME NEW h \in Handlers, NotifyRecord(h), ledger'[r] # ledger[r]
      PROVE  /\ ledger[r] = "none" /\ ledger'[r] = "paid_conflict"
             /\ notifier' = [notifier EXCEPT ![h] = IdleNotifier]
             /\ \A g \in Handlers \ {h} :
                   ~(notifier[g].pc = "recorded" /\ notifier[g].ref = r)
  <2>1. /\ ledger' = [ledger EXCEPT ![notifier[h].ref] =
                         IF @ = "none" THEN "paid_conflict" ELSE @]
        /\ notifier' = [notifier EXCEPT ![h] = IdleNotifier]
        /\ \A g \in Handlers \ {h} :
              ~(notifier[g].pc = "recorded" /\ notifier[g].ref = notifier[h].ref)
      BY <1>1 DEF NotifyRecord
  <2> QED
      BY <1>1, <2>1
<1>2. ASSUME NEW h \in Handlers, NotifySettle(h), ledger'[r] # ledger[r]
      PROVE  /\ ledger'[r] = "paid"
             /\ notifier[h].pc = "recorded" /\ notifier[h].ref = r
             /\ notifier' = [notifier EXCEPT ![h] = IdleNotifier]
    BY <1>2 DEF NotifySettle, SettlePaid
<1> QED
    BY <1>1, <1>2, LedgerFrame

LEMMA RecordStays ==
    ASSUME TypeOK, AuditInv, [Next]_vars, NEW r \in Refs, ledger[r] = "paid"
    PROVE  ledger'[r] = "paid"
BY LedgerEffect

LEMMA AuditedStep ==
    ASSUME TypeOK, TypeOK', AuditInv, [Next]_vars
    PROVE  PaidSeatIsAudited'
<1> SUFFICES ASSUME NEW r \in Refs, status'[r] = "paid" \/ r \in named'
             PROVE  ledger'[r] = "paid"
    BY DEF PaidSeatIsAudited
<1> USE DEF TypeOK
<1>1. CASE ledger[r] = "paid"
    BY <1>1, RecordStays
<1>2. CASE ledger[r] # "paid"
  <2>1. status[r] # "paid" /\ r \notin named /\ r \notin closer.paid
      BY <1>2 DEF AuditInv, PaidSeatIsAudited, ClosedIsAudited
  <2>2. r \notin named'
    <3>1. UNCHANGED named \/ CloseCommit
        BY DEF Next, vars, event, seats, world, requests, ReserveSeat,
           ReserveSweep, ReservePick, ReserveInsert, ReserveCommit, CancelLoad,
           CancelCommit, Notify, NotifyLoad, NotifyRecord, NotifySettle,
           FinalizeTicket, TicketLoad, TicketMail, TicketCommit, UpdateCheck,
           UpdateCommit, CloseLoad, Pay, Tick, Crash
    <3> QED
        BY <2>1, <3>1 DEF CloseCommit
  <2>3. \E h \in Handlers : NotifySettle(h)
      BY <2>1, <2>2, StatusFrame DEF ReserveCommit, CancelCommit, CloseCommit
  <2> QED
      BY <2>1, <2>2, <2>3 DEF NotifySettle, SettlePaid
<1> QED
    BY <1>1, <1>2

LEMMA ClosedStep ==
    ASSUME TypeOK, TypeOK', AuditInv, [Next]_vars
    PROVE  ClosedIsAudited'
<1> SUFFICES ASSUME NEW r \in closer'.paid
             PROVE  ledger'[r] = "paid"
    BY DEF ClosedIsAudited
<1>1. r \in Refs /\ ledger[r] = "paid"
    BY CloserFrame DEF CloseLoad, IdleCloser, TypeOK, AuditInv, ClosedIsAudited,
       PaidSeatIsAudited
<1> QED
    BY <1>1, RecordStays

LEMMA RecordedStep ==
    ASSUME TypeOK, TypeOK', AuditInv, [Next]_vars
    PROVE  RecordedIsNew' /\ OneRecorder'
<1> USE DEF TypeOK
<1>1. ASSUME NEW h \in Handlers, notifier'[h].pc = "recorded"
      PROVE  /\ ledger[notifier'[h].ref] = "none"
             /\ notifier'[h].ref \in Refs
             /\ \/ notifier'[h] = notifier[h]
                \/ /\ NotifyRecord(h) /\ notifier[h].pc = "loaded"
                   /\ notifier'[h].ref = notifier[h].ref
    BY <1>1, NotifierEffect DEF AuditInv, RecordedIsNew
<1>2. ASSUME NEW h \in Handlers, NotifyRecord(h), notifier'[h].pc = "recorded"
      PROVE  /\ UNCHANGED ledger
             /\ \A g \in Handlers \ {h} :
                   /\ notifier'[g] = notifier[g]
                   /\ ~(notifier[g].pc = "recorded" /\ notifier[g].ref = notifier[h].ref)
    BY <1>2 DEF NotifyRecord, IdleNotifier
<1>3. RecordedIsNew'
  <2> SUFFICES ASSUME NEW h \in Handlers, notifier'[h].pc = "recorded"
               PROVE  ledger'[notifier'[h].ref] = "none"
      BY DEF RecordedIsNew
  <2> DEFINE r == notifier'[h].ref
  <2>1. r \in Refs /\ ledger[r] = "none"
      BY <1>1
  <2>2. CASE NotifyRecord(h)
      BY <1>2, <2>1, <2>2
  <2>3. CASE notifier'[h] = notifier[h]
    <3>1. notifier'[h] # IdleNotifier
        BY DEF IdleNotifier
    <3>2. \A g \in Handlers : notifier[g].pc = "recorded" /\ notifier[g].ref = r => g = h
        BY <2>3 DEF AuditInv, OneRecorder
    <3>3. ledger'[r] = ledger[r]
        BY <2>1, <2>3, <3>1, <3>2, LedgerEffect
    <3> QED
        BY <2>1, <3>3
  <2> QED
      BY <1>1, <2>2, <2>3
<1>4. OneRecorder'
  <2> SUFFICES ASSUME NEW g \in Handlers, NEW h \in Handlers, g # h,
                      notifier'[g].pc = "recorded", notifier'[h].pc = "recorded",
                      notifier'[g].ref = notifier'[h].ref
               PROVE  FALSE
      BY DEF OneRecorder
  <2>0. ASSUME NEW x \in Handlers, NEW y \in Handlers, x # y, NotifyRecord(x),
               notifier'[x].pc = "recorded", notifier'[x].ref = notifier[x].ref,
               notifier'[y].pc = "recorded", notifier'[x].ref = notifier'[y].ref
        PROVE  FALSE
    <3>1. /\ notifier'[y] = notifier[y]
          /\ ~(notifier[y].pc = "recorded" /\ notifier[y].ref = notifier[x].ref)
        BY <1>2, <2>0
    <3> QED
        BY <2>0, <3>1
  <2>1. CASE NotifyRecord(g) /\ notifier'[g].ref = notifier[g].ref
      BY <2>0, <2>1
  <2>2. CASE NotifyRecord(h) /\ notifier'[h].ref = notifier[h].ref
      BY <2>0, <2>2
  <2>3. CASE notifier'[g] = notifier[g] /\ notifier'[h] = notifier[h]
      BY <2>3 DEF AuditInv, OneRecorder
  <2> QED
      BY <1>1, <2>1, <2>2, <2>3
<1> QED
    BY <1>3, <1>4

\* Money cannot be forgotten: the row of a seat and its audit row are written
\* together, and the list of refunds cancel_event hands to the admin is of
\* seats that have been paid for, even when a settlement races with it.
THEOREM PaymentsAreOnRecord == Spec => []AuditInv
<1>1. Init => AuditInv
    BY DEF Init, AuditInv, PaidSeatIsAudited, ClosedIsAudited, RecordedIsNew,
       OneRecorder, IdleNotifier, IdleCloser
<1>2. TypeOK /\ TypeOK' /\ AuditInv /\ [Next]_vars => AuditInv'
    BY AuditedStep, ClosedStep, RecordedStep DEF AuditInv
<1> QED
    BY <1>1, <1>2, TypeCorrect, PTL DEF Spec

\* A seat that counts as paid has its audit row (conference.py, payments.py:
\* one commit for both).
THEOREM PaidSeatsAudited == Spec => []PaidSeatIsAudited
<1>1. AuditInv => PaidSeatIsAudited
    BY DEF AuditInv
<1> QED
    BY <1>1, PaymentsAreOnRecord, PTL

\* Only a settlement queues a ticket task, and it is the first of its seat.
LEMMA MailStep ==
    ASSUME TypeOK, AuditInv, MailInv, [Next]_vars
    PROVE  MailInv'
<1> SUFFICES ASSUME NEW r \in Refs
             PROVE  /\ finalizer'[r] # "idle" \/ tickets'[r] # 0 \/ sent'[r]
                           => ledger'[r] = "paid"
                    /\ finalizer'[r] \in {"queued", "loaded"} => tickets'[r] = 0
                    /\ finalizer'[r] = "mailed" \/ sent'[r] => tickets'[r] = 1
                    /\ tickets'[r] <= 1
    BY DEF MailInv
<1> USE DEF TypeOK
<1>1. \/ finalizer' = [q \in Refs |-> "idle"] /\ UNCHANGED <<tickets, sent>>
      \/ UNCHANGED <<finalizer, tickets, sent>>
      \/ \E q \in Refs : FinalizeTicket(q)
      \/ \E h \in Handlers : NotifySettle(h)
    BY DEF Next, vars, event, seats, world, requests, ReserveSeat, ReserveSweep,
       ReservePick, ReserveInsert, ReserveCommit, CancelLoad, CancelCommit,
       Notify, NotifyLoad, NotifyRecord, UpdateCheck, UpdateCommit, CloseLoad,
       CloseCommit, Pay, Tick, Crash
<1>2. ledger[r] = "paid" => ledger'[r] = "paid"
    BY RecordStays
<1>3. ASSUME UNCHANGED <<tickets, sent>>, finalizer'[r] \in {"idle", finalizer[r]}
      PROVE  /\ finalizer'[r] # "idle" \/ tickets'[r] # 0 \/ sent'[r]
                    => ledger'[r] = "paid"
             /\ finalizer'[r] \in {"queued", "loaded"} => tickets'[r] = 0
             /\ finalizer'[r] = "mailed" \/ sent'[r] => tickets'[r] = 1
             /\ tickets'[r] <= 1
    BY <1>2, <1>3 DEF MailInv
<1>4. ASSUME NEW q \in Refs, TicketLoad(q)
      PROVE  /\ UNCHANGED <<tickets, sent>>
             /\ \/ finalizer'[r] \in {"idle", finalizer[r]}
                \/ finalizer[r] = "queued" /\ finalizer'[r] = "loaded"
    BY <1>4 DEF TicketLoad, seats, world
<1>5. ASSUME NEW q \in Refs, TicketMail(q)
      PROVE  /\ UNCHANGED sent
             /\ \/ UNCHANGED tickets /\ finalizer'[r] \in {"idle", finalizer[r]}
                \/ tickets'[r] = tickets[r] /\ finalizer'[r] = finalizer[r]
                \/ /\ finalizer[r] = "loaded" /\ finalizer'[r] = "mailed"
                   /\ tickets'[r] = tickets[r] + 1
    BY <1>5 DEF TicketMail, seats
<1>6. ASSUME NEW q \in Refs, TicketCommit(q)
      PROVE  /\ UNCHANGED tickets
             /\ \/ sent'[r] = sent[r] /\ finalizer'[r] \in {"idle", finalizer[r]}
                \/ finalizer[r] = "mailed" /\ finalizer'[r] = "idle"
    BY <1>6 DEF TicketCommit, world
<1>7. ASSUME NEW h \in Handlers, NotifySettle(h)
      PROVE  /\ UNCHANGED <<tickets, sent>>
             /\ \/ finalizer'[r] = finalizer[r]
                \/ /\ ledger[r] = "none" /\ ledger'[r] = "paid"
                   /\ finalizer'[r] = "queued"
    BY <1>7 DEF NotifySettle, SettlePaid, world, AuditInv, RecordedIsNew
<1>8. CASE \E q \in Refs : FinalizeTicket(q)
  <2>1. CASE \E q \in Refs : TicketLoad(q)
      BY <1>2, <1>3, <1>4, <2>1 DEF MailInv
  <2>2. CASE \E q \in Refs : TicketMail(q)
      BY <1>2, <1>3, <1>5, <2>2 DEF MailInv
  <2>3. CASE \E q \in Refs : TicketCommit(q)
      BY <1>2, <1>3, <1>6, <2>3 DEF MailInv
  <2> QED
      BY <1>8, <2>1, <2>2, <2>3 DEF FinalizeTicket
<1>9. CASE \E h \in Handlers : NotifySettle(h)
    BY <1>2, <1>3, <1>7, <1>9 DEF MailInv
<1> QED
    BY <1>1, <1>3, <1>8, <1>9

LEMMA MailedOnce == Spec => []MailInv
<1>1. Init => MailInv
    BY DEF Init, MailInv
<1>2. TypeOK /\ AuditInv /\ MailInv /\ [Next]_vars => MailInv'
    BY MailStep
<1> QED
    BY <1>1, <1>2, TypeCorrect, PaymentsAreOnRecord, PTL DEF Spec

\* An attendee gets one ticket at most, for a payment on record: a repeated
\* notification does not queue a second task, and a crash queues none.
THEOREM OneTicketEach == Spec => []TicketedOnce
<1>1. TypeOK /\ MailInv => TicketedOnce
    BY DEF MailInv, TicketedOnce, TypeOK
<1> QED
    BY <1>1, TypeCorrect, MailedOnce, PTL

(***************************************************************************)
(* Every step of Conference is a step of SeatSale.                         *)
(***************************************************************************)

\* The holders and the verdicts Sale is instantiated with.
Holders == {r \in Refs : InIndex(r)}

Verdict == [r \in Refs |-> IF ledger[r] = "paid_conflict" THEN "refused" ELSE ledger[r]]

\* A newcomer has no number and no verdict; a hold that waits for its money
\* has not been honoured; cancel_event owes money only to those it closes.
UnsettledInv ==
    /\ \A r \in Refs :
          /\ status[r] = "none" => seatNo[r] = 0 /\ ledger[r] = "none"
          /\ status[r] = "pending_payment" => ledger[r] # "paid"
    /\ closer.paid \subseteq closer.seats

\* A notification that did not find its seat waiting finds it dead or settled.
SeenDead ==
    \A h \in Handlers :
        /\ notifier[h].pc # "idle" /\ notifier[h].seen # "pending_payment"
        /\ ledger[notifier[h].ref] = "none"
        => ~InIndex(notifier[h].ref)

\* The actions of Sale in these terms.
LEMMA SaleForms ==
    /\ Sale!Init = (/\ Holders = {} /\ named = {}
                    /\ seatNo = [r \in Refs |-> 0]
                    /\ Verdict = [r \in Refs |-> "none"]
                    /\ tickets = [r \in Refs |-> 0]
                    /\ peak = FirstCapacity)
    /\ \A r \in Refs :
          /\ Sale!Hold(r) =
                (/\ seatNo[r] = 0 /\ Verdict[r] = "none"
                 /\ \E gone \in SUBSET {q \in Holders : Verdict[q] # "paid"},
                       n \in 1 .. peak :
                       /\ \A q \in Holders \ (gone \cup {r}) : seatNo[q] # n
                       /\ Holders' = (Holders \ gone) \cup {r}
                       /\ seatNo' = [seatNo EXCEPT ![r] = n]
                 /\ UNCHANGED <<Verdict, tickets, named, peak>>)
          /\ Sale!Drop(r) =
                (/\ Holders' = Holders \ {r}
                 /\ UNCHANGED <<seatNo, Verdict, tickets, named, peak>>)
          /\ Sale!Settle(r) =
                (/\ seatNo[r] # 0 /\ Verdict[r] = "none"
                 /\ \A q \in Holders \ ({} \cup {r}) : seatNo[q] # seatNo[r]
                 /\ Holders' = Holders \cup {r}
                 /\ Verdict' = [Verdict EXCEPT ![r] = "paid"]
                 /\ UNCHANGED <<seatNo, tickets, named, peak>>)
          /\ Sale!Refuse(r) =
                (/\ Verdict[r] = "none" /\ r \notin Holders
                 /\ Verdict' = [Verdict EXCEPT ![r] = "refused"]
                 /\ UNCHANGED <<Holders, seatNo, tickets, named, peak>>)
          /\ Sale!Mail(r) =
                (/\ Verdict[r] = "paid" /\ tickets[r] = 0
                 /\ tickets' = [tickets EXCEPT ![r] = 1]
                 /\ UNCHANGED <<Holders, seatNo, Verdict, named, peak>>)
    /\ Sale!Close =
          (/\ \E gone \in SUBSET Refs : \E owed \in SUBSET gone :
                 /\ \A r \in owed : Verdict[r] = "paid"
                 /\ Holders' = Holders \ gone
                 /\ named' = named \cup owed
           /\ UNCHANGED <<seatNo, Verdict, tickets, peak>>)
    /\ Sale!Enlarge =
          (/\ peak' \in Nat /\ peak' > peak
           /\ UNCHANGED <<Holders, seatNo, Verdict, tickets, named>>)
    /\ (UNCHANGED Sale!svars) =
          (UNCHANGED <<Holders, seatNo, Verdict, tickets, named, peak>>)
BY Zenon DEF Sale!Init, Sale!Hold, Sale!Drop, Sale!Settle, Sale!Refuse, Sale!Mail,
   Sale!Close, Sale!Enlarge, Sale!Alone, Sale!svars, Holders, Verdict

LEMMA UnsettledStep ==
    ASSUME TypeOK, TypeOK', LifeInv, UnsettledInv, [Next]_vars
    PROVE  UnsettledInv'
<1> USE DEF TypeOK
<1>1. ASSUME NEW r \in Refs, status[r] = "none"
      PROVE  ledger'[r] = ledger[r]
  <2>1. \A h \in Handlers : notifier[h].pc # "idle" => notifier[h].ref # r
      BY <1>1 DEF LifeInv, NotifiedIsPaid, PaidExists
  <2> QED
      BY <2>1, LedgerFrame DEF NotifyRecord, NotifySettle, SettlePaid
<1>2. ASSUME NEW r \in Refs, status'[r] = "none"
      PROVE  seatNo'[r] = 0 /\ ledger'[r] = "none"
  <2>1. status[r] = "none"
      BY <1>2, RowsStay
  <2>2. seatNo'[r] = seatNo[r]
      BY <1>2, SeatFrame DEF ReserveCommit
  <2> QED
      BY <1>1, <2>1, <2>2 DEF UnsettledInv
<1>3. ASSUME NEW r \in Refs, status'[r] = "pending_payment"
      PROVE  ledger'[r] # "paid"
  <2>1. status[r] = "pending_payment" \/ status[r] = "none"
      BY <1>3, StatusEffect DEF LifeInv, CreatedUnseen
  <2>2. ledger[r] # "paid"
      BY <2>1 DEF UnsettledInv
  <2>3. ASSUME NEW h \in Handlers, NotifyRecord(h)
        PROVE  ledger'[r] # "paid"
      BY <2>2, <2>3 DEF NotifyRecord
  <2>4. ASSUME NEW h \in Handlers, NotifySettle(h)
        PROVE  ledger'[r] # "paid"
      BY <1>3, <2>2, <2>4 DEF NotifySettle, SettlePaid
  <2> QED
      BY <2>2, <2>3, <2>4, LedgerFrame
<1>4. closer'.paid \subseteq closer'.seats
    BY CloserFrame DEF UnsettledInv, IdleCloser, CloseLoad, InIndex
<1> QED
    BY <1>2, <1>3, <1>4 DEF UnsettledInv

\* Newcomers are new and holds unpaid in every state.
LEMMA UnsettledHolds == Spec => []UnsettledInv
<1>1. Init => UnsettledInv
    BY DEF Init, UnsettledInv, IdleCloser
<1>2. TypeOK /\ TypeOK' /\ LifeInv /\ UnsettledInv /\ [Next]_vars => UnsettledInv'
    BY UnsettledStep
<1> QED
    BY <1>1, <1>2, TypeCorrect, SeatWritersAreUpToDate, PTL DEF Spec

\* What a notification has seen, it has seen since it was loaded.
LEMMA SeenEffect ==
    ASSUME TypeOK, [Next]_vars, NEW h \in Handlers, notifier'[h].pc # "idle"
    PROVE  \/ /\ notifier[h].pc # "idle"
              /\ notifier'[h].ref = notifier[h].ref
              /\ notifier'[h].seen = notifier[h].seen
           \/ /\ notifier'[h].seen = status[notifier'[h].ref]
              /\ UNCHANGED <<status, ledger>>
<1> USE DEF TypeOK
<1>1. CASE notifier' = [g \in Handlers |-> IdleNotifier]
    BY <1>1 DEF IdleNotifier
<1>2. ASSUME NEW g \in Handlers, NEW r \in Refs, NotifyLoad(g, r)
      PROVE  \/ notifier'[h] = notifier[h]
             \/ /\ notifier'[h].seen = status[notifier'[h].ref]
                /\ UNCHANGED <<status, ledger>>
    BY <1>2 DEF NotifyLoad, seats
<1>3. ASSUME NEW g \in Handlers, NotifyRecord(g) \/ NotifySettle(g)
      PROVE  /\ notifier[h].pc # "idle"
             /\ notifier'[h].ref = notifier[h].ref
             /\ notifier'[h].seen = notifier[h].seen
  <2>1. CASE notifier' = [notifier EXCEPT ![g].pc = "recorded"] /\ notifier[g].pc = "loaded"
      BY <2>1 DEF NotifierStates
  <2>2. CASE notifier' = [notifier EXCEPT ![g] = IdleNotifier]
      BY <2>2 DEF IdleNotifier
  <2> QED
      BY <1>3, <2>1, <2>2 DEF NotifyRecord, NotifySettle
<1> QED
    BY <1>1, <1>2, <1>3, NotifierFrame DEF Notify

LEMMA SeenStep ==
    ASSUME TypeOK, TypeOK', LifeInv, AuditInv, SeenDead, [Next]_vars
    PROVE  SeenDead'
<1> SUFFICES ASSUME NEW h \in Handlers, notifier'[h].pc # "idle",
                    notifier'[h].seen # "pending_payment",
                    ledger'[notifier'[h].ref] = "none"
             PROVE  status'[notifier'[h].ref] \notin {"pending_payment", "paid"}
    BY DEF SeenDead, InIndex
<1> DEFINE r == notifier'[h].ref
<1>1. r \in Refs
    BY DEF TypeOK
<1>2. ledger[r] = "none"
    BY <1>1, LedgerEffect DEF TypeOK
<1>3. CASE /\ notifier'[h].seen = status[r]
           /\ UNCHANGED <<status, ledger>>
    BY <1>1, <1>2, <1>3 DEF AuditInv, PaidSeatIsAudited
<1>4. CASE /\ notifier[h].pc # "idle"
           /\ notifier'[h].ref = notifier[h].ref
           /\ notifier'[h].seen = notifier[h].seen
  <2>1. status[r] \notin {"pending_payment", "paid"} /\ order[r] = "paid"
      BY <1>2, <1>4 DEF SeenDead, InIndex, LifeInv, NotifiedIsPaid
  <2>2. buyer[r].pc = "idle"
      BY <1>1, <2>1 DEF LifeInv, CreatedUnseen, PaidExists
  <2>3. status'[r] # "paid"
    <3>1. UNCHANGED status \/ ~\E g \in Handlers : NotifySettle(g) /\ notifier[g].ref = r
        BY <1>1, <1>2 DEF NotifySettle, SettlePaid, TypeOK
    <3>2. \A g \in Handlers : NotifySettle(g) /\ notifier[g].ref # r => status'[r] = status[r]
        BY <1>1 DEF NotifySettle, SettlePaid, TypeOK
    <3> QED
        BY <1>1, <2>1, <3>1, <3>2, StatusFrame
           DEF ReserveCommit, CancelCommit, CloseCommit, TypeOK
  <2>4. status'[r] # "pending_payment"
      BY <1>1, <2>1, <2>2, StatusEffect
  <2> QED
      BY <2>3, <2>4
<1> QED
    BY <1>3, <1>4, SeenEffect

\* Only the payment of a dead seat is looked at as a late one.
LEMMA SeenHolds == Spec => []SeenDead
<1>1. Init => SeenDead
    BY DEF Init, SeenDead, IdleNotifier
<1>2. /\ TypeOK /\ TypeOK' /\ LifeInv /\ AuditInv /\ SeenDead /\ [Next]_vars
      => SeenDead'
    BY SeenStep
<1> QED
    BY <1>1, <1>2, TypeCorrect, SeatWritersAreUpToDate, PaymentsAreOnRecord,
       PTL DEF Spec

\* Which steps are steps of the sale at all.
LEMMA SaleFrame ==
    [Next]_vars =>
        \/ UNCHANGED <<status, seatNo, ledger, tickets, named, peak>>
        \/ \E r \in Refs : ReserveCommit(r) \/ CancelCommit(r) \/ TicketMail(r)
        \/ \E h \in Handlers : NotifyRecord(h) \/ NotifySettle(h)
        \/ UpdateCommit \/ CloseCommit
BY DEF Next, vars, event, seats, world, requests, ReserveSeat, ReserveSweep,
       ReservePick, ReserveInsert, CancelLoad, Notify, NotifyLoad,
       FinalizeTicket, TicketLoad, TicketCommit, UpdateCheck, CloseLoad, Pay,
       Tick, Crash

\* A step that leaves the rows, or the ledger, alone leaves what Sale sees of
\* them alone.
LEMMA HoldersStay == UNCHANGED status => UNCHANGED Holders
BY Zenon DEF Holders, InIndex

LEMMA VerdictStays == UNCHANGED ledger => UNCHANGED Verdict
BY Zenon DEF Verdict

\* A verdict moves with its audit row.
LEMMA VerdictMoves ==
    ASSUME TypeOK, NEW r \in Refs, NEW v \in {"paid", "paid_conflict"},
           ledger' = [ledger EXCEPT ![r] = v]
    PROVE  Verdict' = [Verdict EXCEPT ![r] =
                          IF v = "paid_conflict" THEN "refused" ELSE v]
BY DEF Verdict, TypeOK

\* The commit of a reservation is a new hold: the rows it expires have not
\* been paid for, and the number it takes is the one it inserted.
LEMMA CommitHolds ==
    ASSUME TypeOK, LifeInv, SaleInv, RangeInv, UnsettledInv,
           NEW r \in Refs, ReserveCommit(r)
    PROVE  Sale!Hold(r) \/ UNCHANGED Sale!svars
<1> USE DEF TypeOK
<1>1. UNCHANGED <<Verdict, tickets, named, peak>>
    BY VerdictStays DEF ReserveCommit
<1>2. CASE UNCHANGED <<status, seatNo>>
    BY <1>1, <1>2, HoldersStay, SaleForms
<1>3. CASE ~UNCHANGED <<status, seatNo>>
  <2> DEFINE gone == buyer[r].swept
             n == buyer[r].pick
  <2>1. /\ buyer[r].pc = "inserted"
        /\ status' = [q \in Refs |->
                         IF q = r THEN "pending_payment"
                         ELSE IF q \in gone THEN "expired"
                         ELSE status[q]]
        /\ seatNo' = [seatNo EXCEPT ![r] = n]
      BY <1>3 DEF ReserveCommit
  <2>2. status[r] = "none" /\ seatNo[r] = 0 /\ ledger[r] = "none"
      BY <2>1 DEF LifeInv, CreatedUnseen, UnsettledInv
  <2>3. n \in 1 .. peak
      BY <2>1 DEF RangeInv
  <2>4. gone \in SUBSET {q \in Holders : Verdict[q] # "paid"}
      BY DEF LifeInv, SweptIsStale, UnsettledInv, Holders, Verdict, InIndex,
         BuyerStates
  <2>5. \A q \in Holders \ (gone \cup {r}) : seatNo[q] # n
      BY <2>1 DEF SaleInv, InsertGuarded, IndexAllows, Holders
  <2>6. Holders' = (Holders \ gone) \cup {r}
    <3>1. \A q \in Refs : (q \in Holders') = (q \in (Holders \ gone) \cup {r})
        BY <2>1, <2>2 DEF Holders, InIndex
    <3>2. Holders' \subseteq Refs /\ (Holders \ gone) \cup {r} \subseteq Refs
        BY DEF Holders
    <3> QED
        BY <3>1, <3>2
  <2>7. Verdict[r] = "none"
      BY <2>2 DEF Verdict
  <2> HIDE DEF gone, n
  <2> QED
      BY <1>1, <2>1, <2>2, <2>3, <2>4, <2>5, <2>6, <2>7, SaleForms
<1> QED
    BY <1>2, <1>3

\* A cancellation only makes room.
LEMMA CancelDrops ==
    ASSUME TypeOK, NEW r \in Refs, CancelCommit(r)
    PROVE  Sale!Drop(r) \/ UNCHANGED Sale!svars
<1> USE DEF TypeOK
<1>1. UNCHANGED <<seatNo, Verdict, tickets, named, peak>>
    BY VerdictStays DEF CancelCommit, world
<1>2. CASE UNCHANGED status
    BY <1>1, <1>2, HoldersStay, SaleForms
<1>3. CASE status' = [status EXCEPT ![r] = "cancelled"]
  <2>1. Holders' = Holders \ {r}
      BY <1>3 DEF Holders, InIndex
  <2> QED
      BY <1>1, <2>1, SaleForms
<1> QED
    BY <1>2, <1>3 DEF CancelCommit

\* A settlement gives the verdict and the seat in one step.
LEMMA SettleSettles ==
    ASSUME TypeOK, LifeInv, AuditInv, RangeInv, NEW h \in Handlers, NotifySettle(h)
    PROVE  (\E r \in Refs : Sale!Settle(r)) \/ UNCHANGED Sale!svars
<1> USE DEF TypeOK
<1> DEFINE r == notifier[h].ref
<1>1. /\ r \in Refs /\ notifier[h].pc = "recorded"
      /\ UNCHANGED <<seatNo, tickets, named, peak>>
    BY DEF NotifySettle, world
<1>2. CASE UNCHANGED <<status, ledger>>
    BY <1>1, <1>2, HoldersStay, VerdictStays, SaleForms
<1>3. CASE /\ IndexAllows(r, seatNo[r], {})
           /\ status' = [status EXCEPT ![r] = "paid"]
           /\ ledger' = [ledger EXCEPT ![r] = "paid"]
  <2>1. ledger[r] = "none" /\ Verdict[r] = "none"
      BY <1>1 DEF AuditInv, RecordedIsNew, Verdict
  <2>2. seatNo[r] # 0
      BY <1>1 DEF LifeInv, NotifiedIsPaid, PaidExists, RangeInv
  <2>3. \A q \in Holders \ ({} \cup {r}) : seatNo[q] # seatNo[r]
      BY <1>3 DEF IndexAllows, Holders
  <2>4. Holders' = Holders \cup {r}
    <3>1. \A q \in Refs : (q \in Holders') = (q \in Holders \cup {r})
        BY <1>1, <1>3 DEF Holders, InIndex
    <3>2. Holders' \subseteq Refs /\ Holders \cup {r} \subseteq Refs
        BY <1>1 DEF Holders
    <3> QED
        BY <3>1, <3>2
  <2>5. Verdict' = [Verdict EXCEPT ![r] = "paid"]
      BY <1>1, <1>3, VerdictMoves
  <2> HIDE DEF r
  <2> QED
      BY <1>1, <2>1, <2>2, <2>3, <2>4, <2>5, SaleForms
<1> QED
    BY <1>2, <1>3 DEF NotifySettle, SettlePaid

\* A notification that settles nothing refuses the payment once, of someone
\* who has no seat, or repeats what was said.
LEMMA RecordRefuses ==
    ASSUME TypeOK, SeenDead, NEW h \in Handlers, NotifyRecord(h)
    PROVE  (\E r \in Refs : Sale!Refuse(r)) \/ UNCHANGED Sale!svars
<1> USE DEF TypeOK
<1> DEFINE r == notifier[h].ref
<1>1. /\ r \in Refs
      /\ UNCHANGED <<Holders, seatNo, tickets, named, peak>>
    BY HoldersStay DEF NotifyRecord, seats, world
<1>2. CASE UNCHANGED ledger
    BY <1>1, <1>2, VerdictStays, SaleForms
<1>3. CASE ~UNCHANGED ledger
  <2>1. ledger' = [ledger EXCEPT ![r] =
                      IF ledger[r] = "none" THEN "paid_conflict" ELSE ledger[r]]
      BY <1>3 DEF NotifyRecord
  <2>2. ledger[r] = "none"
      BY <1>1, <1>3, <2>1
  <2>3. Verdict' = [Verdict EXCEPT ![r] = "refused"]
    <3>1. ledger' = [ledger EXCEPT ![r] = "paid_conflict"]
        BY <2>1, <2>2
    <3> QED
        BY <1>1, <3>1, VerdictMoves
  <2>4. Verdict[r] = "none"
      BY <1>1, <2>2 DEF Verdict
  <2>5. r \notin Holders
    <3>1. notifier[h].pc = "loaded" /\ notifier[h].seen # "pending_payment"
        BY <1>3, <2>2 DEF NotifyRecord, Replayed, Honoured
    <3> QED
        BY <2>2, <3>1 DEF SeenDead, Holders
  <2> HIDE DEF r
  <2> QED
      BY <1>1, <2>3, <2>4, <2>5, SaleForms
<1> QED
    BY <1>2, <1>3

\* A ticket is mailed for an honoured payment that has had none.
LEMMA MailMails ==
    ASSUME TypeOK, MailInv, NEW r \in Refs, TicketMail(r)
    PROVE  Sale!Mail(r) \/ UNCHANGED Sale!svars
<1> USE DEF TypeOK
<1>1. UNCHANGED <<Holders, seatNo, Verdict, named, peak>>
    BY HoldersStay, VerdictStays DEF TicketMail, seats
<1>2. CASE UNCHANGED tickets
    BY <1>1, <1>2, SaleForms
<1>3. CASE tickets' = [tickets EXCEPT ![r] = tickets[r] + 1]
  <2>1. finalizer[r] = "loaded"
      BY DEF TicketMail
  <2>2. tickets[r] = 0 /\ Verdict[r] = "paid"
      BY <2>1 DEF MailInv, Verdict
  <2>3. tickets' = [tickets EXCEPT ![r] = 1]
      BY <1>3, <2>2
  <2> QED
      BY <1>1, <2>2, <2>3, SaleForms
<1> QED
    BY <1>2, <1>3 DEF TicketMail

\* cancel_event closes what it read, and names those of it who had paid.
LEMMA CloseCloses ==
    ASSUME TypeOK, AuditInv, UnsettledInv, CloseCommit
    PROVE  Sale!Close \/ UNCHANGED Sale!svars
<1> USE DEF TypeOK
<1>1. UNCHANGED <<seatNo, Verdict, tickets, peak>>
    BY VerdictStays DEF CloseCommit
<1>2. CASE UNCHANGED <<cancelled, status, named>>
    BY <1>1, <1>2, HoldersStay, SaleForms
<1>3. CASE /\ status' = [r \in Refs |->
                            IF r \in closer.seats THEN "cancelled" ELSE status[r]]
           /\ named' = named \cup closer.paid
  <2>1. closer.seats \in SUBSET Refs /\ closer.paid \in SUBSET closer.seats
      BY DEF UnsettledInv
  <2>2. \A r \in closer.paid : Verdict[r] = "paid"
      BY DEF AuditInv, ClosedIsAudited, Verdict
  <2>3. Holders' = Holders \ closer.seats
    <3>1. \A q \in Refs : (q \in Holders') = (q \in Holders \ closer.seats)
        BY <1>3 DEF Holders, InIndex
    <3>2. Holders' \subseteq Refs /\ Holders \ closer.seats \subseteq Refs
        BY DEF Holders
    <3> QED
        BY <3>1, <3>2
  <2> QED
      BY <1>1, <1>3, <2>1, <2>2, <2>3, SaleForms
<1> QED
    BY <1>2, <1>3 DEF CloseCommit

\* A capacity above every earlier one makes new numbers.
LEMMA UpdateEnlarges ==
    ASSUME TypeOK, TypeOK', UpdateCommit
    PROVE  Sale!Enlarge \/ UNCHANGED Sale!svars
<1>1. UNCHANGED <<Holders, seatNo, Verdict, tickets, named>>
    BY HoldersStay, VerdictStays DEF UpdateCommit, seats
<1>2. peak' \in Nat /\ (peak' > peak \/ peak' = peak)
    BY DEF UpdateCommit, TypeOK
<1> QED
    BY <1>1, <1>2, SaleForms

\* A seat sale is what the transactions of many handlers add up to: holds
\* never displace a payer, a payment is settled in the step in which the
\* payer alone holds his number, a payment is refused only when the payer has
\* no seat, either of the two is for good, and a refund is announced only to
\* payers who lose the seat.
THEOREM ConferenceImplementsSale == Spec => ImplementsSale
<1>1. Init => Sale!Init
  <2> SUFFICES ASSUME Init PROVE Sale!Init
      OBVIOUS
  <2>1. Holders = {} /\ Verdict = [r \in Refs |-> "none"]
      BY DEF Init, Holders, Verdict, InIndex
  <2> QED
      BY <2>1, SaleForms DEF Init
<1>2. /\ TypeOK /\ TypeOK' /\ LifeInv /\ SaleInv /\ RangeInv /\ AuditInv
      /\ MailInv /\ UnsettledInv /\ SeenDead /\ [Next]_vars
      => [Sale!Next]_(Sale!svars)
  <2> SUFFICES ASSUME TypeOK, TypeOK', LifeInv, SaleInv, RangeInv, AuditInv,
                      MailInv, UnsettledInv, SeenDead, [Next]_vars
               PROVE  [Sale!Next]_(Sale!svars)
      OBVIOUS
  <2>1. CASE UNCHANGED <<status, seatNo, ledger, tickets, named, peak>>
      BY <2>1, HoldersStay, VerdictStays, SaleForms
  <2>2. ASSUME NEW r \in Refs, ReserveCommit(r) \/ CancelCommit(r) \/ TicketMail(r)
        PROVE  [Sale!Next]_(Sale!svars)
      BY <2>2, CommitHolds, CancelDrops, MailMails DEF Sale!Next
  <2>3. ASSUME NEW h \in Handlers, NotifyRecord(h) \/ NotifySettle(h)
        PROVE  [Sale!Next]_(Sale!svars)
      BY <2>3, SettleSettles, RecordRefuses DEF Sale!Next
  <2>4. CASE UpdateCommit \/ CloseCommit
      BY <2>4, UpdateEnlarges, CloseCloses DEF Sale!Next
  <2> QED
      BY <2>1, <2>2, <2>3, <2>4, SaleFrame
<1> QED
    BY <1>1, <1>2, TypeCorrect, SeatWritersAreUpToDate, IndexAgrees,
       NumbersInRange, PaymentsAreOnRecord, MailedOnce, UnsettledHolds,
       SeenHolds, PTL DEF Spec, ImplementsSale, Sale!Spec

(***************************************************************************)
(* A refund is final.                                                      *)
(***************************************************************************)

LEMMA RefundedStep ==
    ASSUME TypeOK, LifeInv, AuditInv, UnsettledInv, RefundedIsClosed, [Next]_vars
    PROVE  RefundedIsClosed'
<1> SUFFICES ASSUME NEW r \in named', InIndex(r)'
             PROVE  FALSE
    BY DEF RefundedIsClosed
<1> USE DEF TypeOK
<1>1. CASE r \in named
  <2>1. r \in Refs /\ ledger[r] = "paid" /\ ~InIndex(r)
      BY <1>1 DEF AuditInv, PaidSeatIsAudited, RefundedIsClosed
  <2>2. buyer[r].pc = "idle"
      BY <2>1 DEF LifeInv, CreatedUnseen, UnsettledInv
  <2>3. \A h \in Handlers : notifier[h].pc = "recorded" => notifier[h].ref # r
      BY <2>1 DEF AuditInv, RecordedIsNew
  <2> QED
      BY <2>1, <2>2, <2>3, StatusEffect DEF InIndex
<1>2. CASE r \notin named
  <2>1. UNCHANGED named \/ CloseCommit
      BY DEF Next, vars, event, seats, world, requests, ReserveSeat,
         ReserveSweep, ReservePick, ReserveInsert, ReserveCommit, CancelLoad,
         CancelCommit, Notify, NotifyLoad, NotifyRecord, NotifySettle,
         FinalizeTicket, TicketLoad, TicketMail, TicketCommit, UpdateCheck,
         UpdateCommit, CloseLoad, Pay, Tick, Crash
  <2>2. CloseCommit /\ r \in closer.paid
      BY <1>2, <2>1 DEF CloseCommit
  <2>3. r \in Refs /\ r \in closer.seats
      BY <2>2 DEF UnsettledInv
  <2>4. status'[r] = "cancelled"
      BY <1>2, <2>2, <2>3 DEF CloseCommit
  <2> QED
      BY <2>4 DEF InIndex
<1> QED
    BY <1>1, <1>2

\* A reference that cancel_event has reported as owed a refund never holds a
\* seat again, although attendees, notifications and reservations of the same
\* conference are still in flight when it does.
THEOREM RefundsAreFinal == Spec => []RefundedIsClosed
<1>1. Init => RefundedIsClosed
    BY DEF Init, RefundedIsClosed
<1>2. /\ TypeOK /\ LifeInv /\ AuditInv /\ UnsettledInv /\ RefundedIsClosed
      /\ [Next]_vars
      => RefundedIsClosed'
    BY RefundedStep
<1> QED
    BY <1>1, <1>2, TypeCorrect, SeatWritersAreUpToDate, PaymentsAreOnRecord,
       UnsettledHolds, PTL DEF Spec

=============================================================================
