----------------------------- MODULE GridProofs -----------------------------
(***************************************************************************)
(* Theorems about Grid.  The loop of generate_slots is a fold, and what a  *)
(* fold computes takes an induction over the set of candidates.  It is     *)
(* done here by minimal counterexamples: a family of finite sets has a     *)
(* member that is minimal under inclusion.                                 *)
(***************************************************************************)
EXTENDS Grid, FiniteSetTheorems, WellFoundedInduction, TLAPS

(***************************************************************************)
(* Finite sets of instants.                                                *)
(***************************************************************************)

LEMMA MinimalSet ==
    ASSUME NEW S, IsFiniteSet(S), NEW F \in SUBSET SUBSET S, F # {}
    PROVE  \E T \in F : \A U \in F : ~(U \subseteq T /\ U # T)
<1>1. IsWellFoundedOn(StrictSubsetOrdering(S), FiniteSubsetsOf(S))
    BY FS_StrictSubsetOrderingWellFounded
<1>2. FiniteSubsetsOf(S) = SUBSET S
    BY FS_FiniteSubsetsOfFinite
<1>3. \E T \in F : \A U \in F : ~(<<U, T>> \in StrictSubsetOrdering(S))
    BY <1>1, <1>2, WFMin
<1> QED
    BY <1>3 DEF StrictSubsetOrdering

\* Finite sets of instants.
Instants(S) == IsFiniteSet(S) /\ S \subseteq Int

LEMMA Earliest ==
    ASSUME NEW S, Instants(S), S # {}
    PROVE  \E t \in S : \A u \in S : t <= u
<1> DEFINE F == {T \in SUBSET S : /\ T # {}
                                  /\ \A u \in T, v \in S : v < u => v \in T}
<1>1. S \in F /\ IsFiniteSet(S)
    BY DEF Instants
<1>2. PICK T \in F : \A U \in F : ~(U \subseteq T /\ U # T)
  <2>1. F \in SUBSET SUBSET S /\ F # {}
      BY <1>1
  <2> HIDE DEF F
  <2> QED
      BY <1>1, <2>1, MinimalSet
<1>3. PICK t \in T : TRUE
    BY <1>2
<1>4. \A u \in T : ~(u < t)
  <2> SUFFICES ASSUME NEW u \in T, u < t
               PROVE  FALSE
      OBVIOUS
  <2> DEFINE U == {v \in T : v < t}
  <2>0. /\ S \subseteq Int /\ T \subseteq Int /\ t \in Int
        /\ \A v \in T, w \in S : w < v => w \in T
      BY <1>2, <1>3 DEF Instants
  <2>1. ASSUME NEW v \in U, NEW w \in S, w < v
        PROVE  w \in U
      BY <2>0, <2>1
  <2>3. U \in F
      BY <1>2, <2>1
  <2>2. U \subseteq T /\ t \notin U
      BY <2>0
  <2> QED
      BY <1>2, <2>2, <2>3
<1>5. \A v \in S : t <= v
    BY <1>2, <1>3, <1>4 DEF Instants
<1> QED
    BY <1>2, <1>3, <1>5

Latest(S) == CHOOSE t \in S : \A u \in S : u <= t

LEMMA LatestIs ==
    ASSUME NEW S, Instants(S), S # {}
    PROVE  /\ Latest(S) \in S
           /\ \A u \in S : u <= Latest(S)
<1> DEFINE F == {T \in SUBSET S : /\ T # {}
                                  /\ \A u \in T, v \in S : v > u => v \in T}
<1>1. S \in F /\ IsFiniteSet(S)
    BY DEF Instants
<1>2. PICK T \in F : \A U \in F : ~(U \subseteq T /\ U # T)
  <2>1. F \in SUBSET SUBSET S /\ F # {}
      BY <1>1
  <2> HIDE DEF F
  <2> QED
      BY <1>1, <2>1, MinimalSet
<1>3. PICK t \in T : TRUE
    BY <1>2
<1>4. \A u \in T : ~(u > t)
  <2> SUFFICES ASSUME NEW u \in T, u > t
               PROVE  FALSE
      OBVIOUS
  <2> DEFINE U == {v \in T : v > t}
  <2>0. /\ S \subseteq Int /\ T \subseteq Int /\ t \in Int
        /\ \A v \in T, w \in S : w > v => w \in T
      BY <1>2, <1>3 DEF Instants
  <2>1. ASSUME NEW v \in U, NEW w \in S, w > v
        PROVE  w \in U
      BY <2>0, <2>1
  <2>3. U \in F
      BY <1>2, <2>1
  <2>2. U \subseteq T /\ t \notin U
      BY <2>0
  <2> QED
      BY <1>2, <2>2, <2>3
<1>5. \A v \in S : v <= t
    BY <1>2, <1>3, <1>4 DEF Instants
<1>6. \E u \in S : \A v \in S : v <= u
    BY <1>2, <1>3, <1>5
<1> QED
    BY <1>6 DEF Latest

(***************************************************************************)
(* The loop of generate_slots.                                             *)
(***************************************************************************)

\* The last candidate of a set joins what is kept of the others.
Keep(e, t, kept) ==
    IF kept # {} /\ t < Latest(kept) + Duration[e] THEN kept ELSE kept \cup {t}

\* What a loop over S keeps of every set of candidates.
IsLoop(e, S, f) ==
    f = [T \in SUBSET S |->
            IF T = {} THEN {} ELSE Keep(e, Latest(T), f[T \ {Latest(T)}])]

LEMMA ThinnedIsLoop ==
    ASSUME NEW e, NEW S
    PROVE  Thinned(e, S) = (CHOOSE f : IsLoop(e, S, f))[S]
BY DEF Thinned, MapThenFoldSet, IsLoop, Keep, Latest

\* K is what is left of S: a candidate is kept unless it overlaps an earlier
\* one that is.
Left(e, S, K) ==
    /\ K \subseteq S
    /\ \A t \in S : t \in K <=> \A u \in K : u < t => u + Duration[e] <= t

LEMMA LeftIsUnique ==
    ASSUME NEW e \in Types, NEW S, Instants(S),
           NEW K, Left(e, S, K), NEW L, Left(e, S, L)
    PROVE  K = L
<1> SUFFICES ASSUME K # L
             PROVE  FALSE
    OBVIOUS
<1> DEFINE D == {t \in S : (t \in K) # (t \in L)}
<1>1. Instants(D)
    BY FS_Subset DEF Instants
<1>2. D # {}
    BY DEF Left
<1>3. PICK t \in D : \A u \in D : t <= u
  <2> HIDE DEF D
  <2> QED
      BY <1>1, <1>2, Earliest
<1>4. \A u \in S : u < t => (u \in K <=> u \in L)
    BY <1>3 DEF Instants
<1> QED
    BY <1>3, <1>4 DEF Left

\* One turn of the loop.
LEMMA LeftOfMore ==
    ASSUME NEW e \in Types, NEW S, Instants(S), S # {},
           NEW K, Left(e, S \ {Latest(S)}, K)
    PROVE  Left(e, S, Keep(e, Latest(S), K))
<1> DEFINE t == Latest(S)
<1>1. t \in S /\ \A u \in S : u <= t
    BY LatestIs
<1>2. Duration[e] \in Nat
    BY GridAssumption
<1>3. /\ K \subseteq S \ {t} /\ Instants(K) /\ K \subseteq Int
      /\ \A s \in S \ {t} : s \in K <=> \A u \in K : u < s => u + Duration[e] <= s
    BY FS_Subset DEF Left, Instants
<1>4. t \in Int /\ \A s \in S \ {t} : s \in Int /\ s < t
  <2> HIDE DEF t
  <2> QED
      BY <1>1 DEF Instants
<1>5. CASE K # {} /\ t < Latest(K) + Duration[e]
  <2>1. Latest(K) \in K
      BY <1>3, <1>5, LatestIs
  <2>2. Keep(e, t, K) = K
      BY <1>5 DEF Keep
  <2> HIDE DEF t
  <2>3. ~ \A u \in K : u < t => u + Duration[e] <= t
    <3> DEFINE l == Latest(K)
    <3>1. l \in K /\ t < l + Duration[e] /\ l \in Int /\ l < t
        BY <1>3, <1>4, <1>5, <2>1
    <3> HIDE DEF l
    <3> QED
        BY <1>2, <1>4, <3>1
  <2>4. Left(e, S, K)
      BY <1>1, <1>3, <2>3 DEF Left
  <2> QED
      BY <2>2, <2>4 DEF t
<1>6. CASE ~(K # {} /\ t < Latest(K) + Duration[e])
  <2>1. Keep(e, t, K) = K \cup {t}
      BY <1>6 DEF Keep
  <2>2. K # {} => Latest(K) \in K /\ \A u \in K : u <= Latest(K)
      BY <1>3, LatestIs
  <2> HIDE DEF t
  <2>3. ASSUME NEW u \in K
        PROVE  u + Duration[e] <= t
    <3> DEFINE l == Latest(K)
    <3>1. u \in Int /\ l \in Int /\ u <= l /\ ~(t < l + Duration[e])
        BY <1>3, <1>6, <2>2
    <3> HIDE DEF l
    <3> QED
        BY <1>2, <1>4, <3>1
  <2>4. Left(e, S, K \cup {t})
      BY <1>1, <1>2, <1>3, <1>4, <2>3 DEF Left
  <2> QED
      BY <2>1, <2>4 DEF t
<1> QED
    BY <1>5, <1>6

LEMMA LeftExists ==
    ASSUME NEW e \in Types, NEW S, Instants(S)
    PROVE  \E K \in SUBSET S : Left(e, S, K)
<1> DEFINE F == {T \in SUBSET S : ~ \E K \in SUBSET T : Left(e, T, K)}
<1> SUFFICES ASSUME F # {}
             PROVE  FALSE
    OBVIOUS
<1>1. PICK T \in F : \A U \in F : ~(U \subseteq T /\ U # T)
  <2>1. F \in SUBSET SUBSET S /\ F # {} /\ IsFiniteSet(S)
      BY DEF Instants
  <2> HIDE DEF F
  <2> QED
      BY <2>1, MinimalSet
<1>2. Instants(T)
    BY <1>1, FS_Subset DEF Instants
<1>3. T # {}
  <2>1. Left(e, {}, {})
      BY DEF Left
  <2> QED
      BY <1>1, <2>1
<1>4. Latest(T) \in T
    BY <1>2, <1>3, LatestIs
<1>5. PICK K : Left(e, T \ {Latest(T)}, K)
    BY <1>1, <1>4
<1>6. Left(e, T, Keep(e, Latest(T), K))
    BY <1>2, <1>3, <1>5, LeftOfMore
<1> QED
    BY <1>1, <1>6 DEF Left
TheLeft(e, S) == CHOOSE K \in SUBSET S : Left(e, S, K)

\* What the loop computes is what its turns leave.
LEMMA LoopLeaves ==
    ASSUME NEW e \in Types, NEW S, Instants(S)
    PROVE  Left(e, S, Thinned(e, S))
<1> DEFINE f == CHOOSE g : IsLoop(e, S, g)
           h == [T \in SUBSET S |-> TheLeft(e, T)]
<1>a. \A T \in SUBSET S : Instants(T)
    BY FS_Subset DEF Instants
<1>b. ASSUME NEW T \in SUBSET S
      PROVE  Left(e, T, TheLeft(e, T))
  <2>1. \E K \in SUBSET T : Left(e, T, K)
      BY <1>a, LeftExists
  <2> QED
      BY <2>1 DEF TheLeft
<1>c. ASSUME NEW T \in SUBSET S, T # {}
      PROVE  TheLeft(e, T) = Keep(e, Latest(T), TheLeft(e, T \ {Latest(T)}))
  <2>1. Left(e, T \ {Latest(T)}, TheLeft(e, T \ {Latest(T)}))
      BY <1>b, <1>c
  <2>2. Left(e, T, Keep(e, Latest(T), TheLeft(e, T \ {Latest(T)})))
      BY <1>a, <1>c, <2>1, LeftOfMore
  <2> QED
      BY <1>a, <1>b, <1>c, <2>2, LeftIsUnique
<1>d. TheLeft(e, {}) = {}
    BY <1>b DEF Left
<1>1. IsLoop(e, S, h)
  <2>1. ASSUME NEW T \in SUBSET S
        PROVE  h[T] = IF T = {} THEN {} ELSE Keep(e, Latest(T), h[T \ {Latest(T)}])
    <3>1. CASE T = {}
        BY <1>d, <3>1
    <3>2. CASE T # {}
        BY <1>c, <3>2
    <3> QED
        BY <3>1, <3>2
  <2> QED
      BY <2>1 DEF IsLoop
<1>2. IsLoop(e, S, f)
    BY <1>1, Zenon
<1>3. f[S] = h[S]
  <2> DEFINE F == {T \in SUBSET S : f[T] # h[T]}
  <2> SUFFICES ASSUME F # {}
               PROVE  FALSE
      OBVIOUS
  <2>1. PICK T \in F : \A U \in F : ~(U \subseteq T /\ U # T)
    <3>1. F \in SUBSET SUBSET S /\ IsFiniteSet(S)
        BY DEF Instants
    <3> HIDE DEF F
    <3> QED
        BY <3>1, MinimalSet
  <2>2. CASE T = {}
      BY <1>1, <1>2, <2>1, <2>2 DEF IsLoop
  <2>3. CASE T # {}
    <3>1. Latest(T) \in T
        BY <1>a, <2>1, <2>3, LatestIs
    <3>2. f[T \ {Latest(T)}] = h[T \ {Latest(T)}]
      <4> DEFINE U == T \ {Latest(T)}
      <4>1. U \in SUBSET S /\ U \subseteq T /\ U # T
          BY <2>1, <3>1
      <4> HIDE DEF U, f, h
      <4> QED
          BY <2>1, <4>1 DEF U
    <3>3. \A g : IsLoop(e, S, g) =>
              g[T] = Keep(e, Latest(T), g[T \ {Latest(T)}])
        BY <2>1, <2>3 DEF IsLoop
    <3> QED
        BY <1>1, <1>2, <2>1, <3>2, <3>3
  <2> QED
      BY <2>2, <2>3
<1>4. Thinned(e, S) = f[S]
    BY ThinnedIsLoop
<1> QED
    BY <1>3, <1>4, <1>b

(***************************************************************************)
(* Types.                                                                  *)
(***************************************************************************)

RowOK(b) == /\ b \in Row
            /\ b.end = b.start + Duration[b.type]
            /\ b.event => b.marker

\* A row that is well formed stays so when it moves on.
LEMMA StatusMoves ==
    ASSUME NEW b, RowOK(b), NEW s \in {"pending_payment", "paid", "expired", "cancelled"}
    PROVE  RowOK([b EXCEPT !.status = s])
<1> DEFINE c == [b EXCEPT !.status = s]
<1>1. /\ c \in Row /\ c.type = b.type /\ c.start = b.start /\ c.end = b.end
      /\ c.event = b.event /\ c.marker = b.marker
    BY DEF RowOK, Row
<1> HIDE DEF c
<1>2. RowOK(c)
    BY <1>1 DEF RowOK
<1> QED
    BY <1>2 DEF c

LEMMA EventMoves ==
    ASSUME NEW b, RowOK(b), NEW m \in BOOLEAN, NEW v \in BOOLEAN, v => m
    PROVE  RowOK([b EXCEPT !.marker = m, !.event = v])
<1> DEFINE c == [b EXCEPT !.marker = m, !.event = v]
<1>1. /\ c \in Row /\ c.type = b.type /\ c.start = b.start /\ c.end = b.end
      /\ c.event = v /\ c.marker = m
    BY DEF RowOK, Row
<1> HIDE DEF c
<1>2. RowOK(c)
    BY <1>1 DEF RowOK
<1> QED
    BY <1>2 DEF c

LEMMA CancelMoves ==
    ASSUME NEW b, RowOK(b), NEW v \in {FALSE, b.event}
    PROVE  RowOK([b EXCEPT !.status = "cancelled", !.event = v])
<1> DEFINE c == [b EXCEPT !.status = "cancelled", !.event = v]
<1>0. v \in BOOLEAN
    BY DEF RowOK, Row
<1>1. /\ c \in Row /\ c.type = b.type /\ c.start = b.start /\ c.end = b.end
      /\ c.event = v /\ c.marker = b.marker
    BY <1>0 DEF RowOK, Row
<1> HIDE DEF c
<1>2. RowOK(c)
    BY <1>1 DEF RowOK
<1> QED
    BY <1>2 DEF c

LEMMA TypeStep == TypeOK /\ [Next]_vars => TypeOK'
<1> SUFFICES ASSUME TypeOK, [Next]_vars
             PROVE  TypeOK'
    OBVIOUS
<1>0. /\ zone \in Zones /\ now \in 0 .. MaxNow
      /\ \A b \in bookings : RowOK(b)
      /\ meetings \subseteq Meetings /\ conferences \subseteq Conferences
    BY DEF TypeOK, RowOK
<1>1. ASSUME NEW e \in Types, NEW t \in Starts, CreateBooking(e, t)
      PROVE  TypeOK'
  <2> DEFINE n == [type |-> e, start |-> t, end |-> t + Duration[e],
                   status |-> "pending_payment", expires |-> now + HoldMinutes,
                   marker |-> TRUE, event |-> TRUE]
  <2>1. RowOK(n)
    <3>1. /\ t \in Int /\ t + Duration[e] \in Int /\ now + HoldMinutes \in Nat
        BY <1>0, GridAssumption
    <3> QED
        BY <3>1 DEF RowOK, Row
  <2>2. \A b \in Swept(e, t) : RowOK(b)
      BY <1>0, StatusMoves DEF Swept
  <2>3. bookings' = Swept(e, t) \cup {n} /\ UNCHANGED <<zone, now, meetings, conferences>>
      BY <1>1 DEF CreateBooking
  <2> HIDE DEF n
  <2>4. \A b \in bookings' : RowOK(b)
      BY <2>1, <2>2, <2>3
  <2> QED
      BY <1>0, <2>3, <2>4 DEF TypeOK, RowOK
<1>2. ASSUME NEW b \in bookings, NEW c, Replace(b, c), RowOK(c),
             UNCHANGED <<zone, now, meetings, conferences>>
      PROVE  TypeOK'
  <2>1. \A q \in bookings' : RowOK(q)
      BY <1>0, <1>2 DEF Replace
  <2> QED
      BY <1>0, <1>2, <2>1 DEF TypeOK, RowOK
<1>3. ASSUME NEW b \in bookings, HonourPayment(b)
      PROVE  TypeOK'
  <2>1. RowOK([b EXCEPT !.status = "paid"])
      BY <1>0, StatusMoves
  <2> QED
      BY <1>2, <1>3, <2>1 DEF HonourPayment
<1>4. ASSUME NEW b \in bookings, Finalize(b)
      PROVE  TypeOK'
  <2>1. RowOK([b EXCEPT !.marker = TRUE, !.event = TRUE])
      BY <1>0, EventMoves
  <2> QED
      BY <1>2, <1>4, <2>1 DEF Finalize
<1>5. ASSUME NEW b \in bookings, CancelBooking(b)
      PROVE  TypeOK'
  <2>1. PICK v \in {FALSE, b.event} : Replace(b, [b EXCEPT !.status = "cancelled", !.event = v])
      BY <1>5 DEF CancelBooking
  <2>2. RowOK([b EXCEPT !.status = "cancelled", !.event = v])
      BY <1>0, CancelMoves
  <2> QED
      BY <1>2, <1>5, <2>1, <2>2 DEF CancelBooking
<1>6. ASSUME NEW b \in bookings, Sweep(b)
      PROVE  TypeOK'
  <2>1. RowOK([b EXCEPT !.marker = FALSE, !.event = FALSE])
      BY <1>0, EventMoves
  <2>2. [b EXCEPT !.event = FALSE, !.marker = FALSE] = [b EXCEPT !.marker = FALSE, !.event = FALSE]
      BY <1>0 DEF RowOK, Row
  <2> QED
      BY <1>2, <1>6, <2>1, <2>2 DEF Sweep
<1>7. ASSUME \/ \E i \in Meetings : AddMeeting(i)
             \/ \E i \in Conferences : ScheduleConference(i) \/ CancelConference(i)
             \/ Tick
             \/ UNCHANGED vars
      PROVE  TypeOK'
  <2>1. /\ UNCHANGED <<zone, bookings>>
        /\ meetings' \subseteq Meetings /\ conferences' \subseteq Conferences
        /\ now' \in 0 .. MaxNow
      BY <1>0, <1>7, GridAssumption
      DEF AddMeeting, ScheduleConference, CancelConference, Tick, vars
  <2> QED
      BY <1>0, <2>1 DEF TypeOK, RowOK
<1> QED
    BY <1>1, <1>3, <1>4, <1>5, <1>6, <1>7 DEF Next

\* Types; a row lasts as long as its type, and an event in the calendar is
\* named by its row.
THEOREM TypeCorrect == Spec => []TypeOK
<1>1. Init => TypeOK
    BY GridAssumption DEF Init, TypeOK
<1> QED
    BY <1>1, TypeStep, PTL DEF Spec

(***************************************************************************)
(* The candidates of a date.                                               *)
(***************************************************************************)

LEMMA LocalTime ==
    ASSUME TypeOK, NEW t \in Int
    PROVE  /\ zone.at \in Int /\ zone.shift \in Int
           /\ Local(t) \in Int /\ Utc(t) \in Int
BY GridAssumption DEF TypeOK, Local, Utc, Larger

LEMMA CandidatesAreInstants ==
    ASSUME TypeOK, NEW e \in Types, NEW date \in Int
    PROVE  Instants(Candidates(e, date))
<1> DEFINE first == now + Notice[e]
           last  == now + Ahead[e] * Day
<1>1. now \in Int /\ Notice[e] \in Int /\ Ahead[e] \in Int /\ Day \in Int
    BY GridAssumption DEF TypeOK
<1>2. first \in Int /\ last \in Int
    BY <1>1
<1>3. ASSUME NEW t \in Candidates(e, date)
      PROVE  t \in first .. last
  <2>1. IsSlotOnGrid(e, t)
      BY DEF Candidates
  <2>2. \E l \in Int : t = Utc(l)
    <3>1. ASSUME NEW rule \in Rules[e], NEW l \in RuleGrid(e, rule, date)
          PROVE  l \in Int
      <4>1. l \in (date * Day + rule.start) .. (date * Day + rule.end - Duration[e])
          BY DEF RuleGrid
      <4> QED
          BY <4>1
    <3> QED
        BY <3>1 DEF Candidates
  <2>3. t \in Int
      BY <2>2, LocalTime
  <2> QED
      BY <1>2, <2>1, <2>3 DEF IsSlotOnGrid
<1> HIDE DEF first, last
<1> DEFINE range == first .. last
           C     == Candidates(e, date)
<1>4. IsFiniteSet(range) /\ range \subseteq Int /\ C \subseteq range
    BY <1>2, <1>3, FS_Interval
<1> HIDE DEF range, C
<1>5. IsFiniteSet(C)
    BY <1>4, FS_Subset
<1> QED
    BY <1>4, <1>5 DEF Instants, C

\* What the loop of generate_slots leaves of the candidates.
LEMMA OfferedIsLeft ==
    ASSUME TypeOK, NEW e \in Types, NEW date \in Int
    PROVE  /\ Instants(Candidates(e, date))
           /\ Left(e, Candidates(e, date), GenerateSlots(e, date))
<1>1. Instants(Candidates(e, date))
    BY CandidatesAreInstants
<1> QED
    BY <1>1, LoopLeaves DEF GenerateSlots

\* Every button is a distinct appointment, however the rules lie and the
\* clocks change.
THEOREM ButtonsAreDistinct == Spec => []OfferedIsDisjoint
<1>1. TypeOK => OfferedIsDisjoint
  <2> SUFFICES ASSUME TypeOK, NEW e \in Types, NEW date \in Dates,
                      NEW s \in GenerateSlots(e, date), NEW t \in GenerateSlots(e, date),
                      s # t
               PROVE  ~Overlap(Slot(e, s), Slot(e, t))
      BY DEF OfferedIsDisjoint
  <2>0. date \in Int
      BY GridAssumption
  <2>1. s \in Int /\ t \in Int /\ Duration[e] \in Nat
      BY <2>0, OfferedIsLeft, GridAssumption DEF Left, Instants
  <2>2. s < t => s + Duration[e] <= t
      BY <2>0, OfferedIsLeft DEF Left
  <2>3. t < s => t + Duration[e] <= s
      BY <2>0, OfferedIsLeft DEF Left
  <2> QED
      BY <2>1, <2>2, <2>3 DEF Overlap, Slot
<1> QED
    BY <1>1, TypeCorrect, PTL

\* What makes an instant a candidate of a date, with the lets named.
Window(e, date) == <<DayBounds(date)[1] - Pad(e), DayBounds(date)[2] + Pad(e)>>
Taken(e, date)  == {i \in {Interval(b) : b \in LiveOf(e)} : Overlap(i, DayBounds(date))}

LEMMA CandidatesAre ==
    ASSUME NEW e, NEW date, NEW t
    PROVE  t \in Candidates(e, date) <=>
               /\ \E rule \in Rules[e] : /\ rule.weekday = Weekday(date)
                                         /\ \E l \in RuleGrid(e, rule, date) : t = Utc(l)
               /\ IsSlotOnGrid(e, t)
               /\ \A i \in Blocked(e, Window(e, date)) \cup Taken(e, date) :
                     ~Overlap(Slot(e, t), i)
BY DEF Candidates, Window, Taken

LEMMA Conference ==
    ASSUME TypeOK, NEW c \in conferences
    PROVE  c[1] \in Int /\ c[2] \in Int /\ c[1] < c[2] /\ c[2] - c[1] <= Day
BY GridAssumption DEF TypeOK, Intervals

\* Nothing that can be sold is hidden: a start the booking path accepts, with
\* its buffers free, is offered on its local date, or one that overlaps it is.
THEOREM NothingIsHidden == Spec => []OfferedIsMaximal
<1>1. TypeOK => OfferedIsMaximal
  <2> DEFINE date(t) == Local(t) \div Day
  <2> SUFFICES ASSUME TypeOK, NEW e \in Types, NEW t \in Starts,
                      Accepts(e, t), KeepsBuffers(e, t), Utc(Local(t)) = t
               PROVE  \E s \in GenerateSlots(e, date(t)) : Overlap(Slot(e, s), Slot(e, t))
      BY DEF OfferedIsMaximal
  <2>0. /\ t \in Int /\ Local(t) \in Int /\ Day \in Nat \ {0}
        /\ Duration[e] \in Nat \ {0} /\ date(t) \in Int
      BY LocalTime, GridAssumption
  <2>1. IsSlotOnGrid(e, t)
      BY DEF Accepts
  <2>2. \E rule \in Rules[e] : /\ rule.weekday = Weekday(date(t))
                               /\ \E l \in RuleGrid(e, rule, date(t)) : t = Utc(l)
    <3>1. PICK rule \in Rules[e] :
             LET local == Local(t)
                 first == (local \div Day) * Day + rule.start
                 end   == (local \div Day) * Day + rule.end
             IN  /\ rule.weekday = Weekday(local \div Day)
                 /\ first <= local /\ local + Duration[e] <= end
                 /\ (local - first) % EffectiveStep(e) = 0
        BY <2>1 DEF IsSlotOnGrid
    <3>2. rule.start \in Int /\ rule.end \in Int
        BY GridAssumption
    <3> DEFINE midnight == date(t) * Day
    <3>3. midnight \in Int
        BY <2>0
    <3> HIDE DEF date, midnight
    <3>4. Local(t) \in RuleGrid(e, rule, date(t))
        BY <2>0, <3>1, <3>2, <3>3 DEF RuleGrid, date, midnight
    <3> QED
        BY <3>1, <3>4 DEF date
  <2> HIDE DEF date
  <2>3. ASSUME NEW i \in FreeBusy(Window(e, date(t))) \ OwnedIntervals(e, Window(e, date(t)))
        PROVE  ~Overlap(Slot(e, t), <<i[1] - Before[e], i[2] + After[e]>>)
    <3>1. i \in Commitments(e)
        BY <2>3 DEF FreeBusy, OwnedIntervals, Commitments
    <3> QED
        BY <3>1 DEF KeepsBuffers
  <2>4. ASSUME NEW c \in ConferenceIntervals(Window(e, date(t)))
        PROVE  ~Overlap(Slot(e, t), c)
    <3>1. c \in conferences /\ c \notin ConferenceIntervals(Slot(e, t))
        BY DEF ConferenceIntervals, Accepts
    <3> QED
        BY <2>0, <3>1, Conference DEF ConferenceIntervals, Overlap, Slot
  <2>5. ASSUME NEW i \in Taken(e, date(t))
        PROVE  ~Overlap(Slot(e, t), i)
    <3>1. PICK b \in LiveOf(e) : i = Interval(b)
        BY DEF Taken
    <3>2. ~Overlap(Interval(b), Slot(e, t))
        BY DEF Accepts, Clash
    <3> QED
        BY <2>0, <3>1, <3>2 DEF Overlap, Interval, Slot
  <2>6. t \in Candidates(e, date(t))
    <3>1. \A i \in Blocked(e, Window(e, date(t))) : ~Overlap(Slot(e, t), i)
        BY <2>3, <2>4 DEF Blocked
    <3> QED
        BY <2>1, <2>2, <2>5, <3>1, CandidatesAre
  <2>7. \/ t \in GenerateSlots(e, date(t))
        \/ \E u \in GenerateSlots(e, date(t)) : u < t /\ ~(u + Duration[e] <= t)
      BY <2>0, <2>6, OfferedIsLeft DEF Left
  <2>8. \A u \in GenerateSlots(e, date(t)) : u \in Int
      BY <2>0, OfferedIsLeft DEF Left, Instants
  <2> QED
      BY <2>0, <2>7, <2>8 DEF Overlap, Slot, date
<1> QED
    BY <1>1, TypeCorrect, PTL

(***************************************************************************)
(* The edges of a local day.  The page of a date looks for bookings between *)
(* its two midnights, read as instants; the booking path looks at the slot. *)
(* Where a clock that goes forward skips midnight, or comes close to it, a  *)
(* slot of the date may lie outside.                                       *)
(***************************************************************************)

Midnight(date) == date * Day

\* No midnight falls into the time that zone z skips, nor so soon after that a
\* slot of e, or the skipped time once more, does not fit before it.
SkipsByDay(z, e) ==
    z.shift > 0 =>
        \A date \in Int : \/ Midnight(date) <= z.at
                          \/ z.at + z.shift + Larger(z.shift, Duration[e]) <= Midnight(date)

LEMMA Midnights ==
    ASSUME NEW date \in Int
    PROVE  /\ Midnight(date) \in Int
           /\ Midnight(date + 1) = Midnight(date) + Day
           /\ \A l \in Int : Midnight(date) <= l /\ l < Midnight(date + 1)
                             => l \div Day = date
<1>1. Day \in Nat \ {0}
    BY GridAssumption
<1>2. Midnight(date) \in Int /\ Midnight(date + 1) = Midnight(date) + Day
    BY <1>1 DEF Midnight
<1>3. ASSUME NEW l \in Int, Midnight(date) <= l, l < Midnight(date) + Day
      PROVE  l \div Day = date
  <2> DEFINE q == l \div Day
             r == l % Day
  <2>1. q \in Int /\ r \in Int /\ l = Day * q + r /\ 0 <= r /\ r < Day
      BY <1>1
  <2>2. date * Day <= l /\ l < date * Day + Day
      BY <1>3 DEF Midnight
  <2> HIDE DEF q, r
  <2>3. q < date + 1
    <3>1. SUFFICES ASSUME q >= date + 1 PROVE FALSE
        BY <2>1
    <3>2. Day * q >= Day * (date + 1)
        BY <1>1, <2>1, <3>1
    <3> QED
        BY <1>1, <2>1, <2>2, <3>2
  <2>4. q > date - 1
    <3>1. SUFFICES ASSUME q <= date - 1 PROVE FALSE
        BY <2>1
    <3>2. Day * q <= Day * (date - 1)
        BY <1>1, <2>1, <3>1
    <3> QED
        BY <1>1, <2>1, <2>2, <3>2
  <2> QED
      BY <2>1, <2>3, <2>4 DEF q
<1> QED
    BY <1>2, <1>3

\* The date of a slot of the page, by the wall clock of its start: the rule's
\* clock l, and what IsSlotOnGrid reads from the instant.
LEMMA CandidateClock ==
    ASSUME TypeOK, NEW e \in Types, NEW date \in Int, NEW t \in Candidates(e, date)
    PROVE  /\ t \in Int /\ Duration[e] \in Nat \ {0}
           /\ \E l \in Int : /\ t = Utc(l)
                             /\ Midnight(date) <= l
                             /\ l + Duration[e] < Midnight(date + 1)
           /\ \E d \in Int : /\ d = Local(t) \div Day
                             /\ Local(t) + Duration[e] < Midnight(d + 1)
<1>0. PICK rule \in Rules[e] : \E l \in RuleGrid(e, rule, date) : t = Utc(l)
    BY CandidatesAre
<1>1. PICK l \in RuleGrid(e, rule, date) : t = Utc(l)
    BY <1>0
<1>2. /\ rule.start \in Int /\ rule.start >= 0
      /\ rule.end \in Int /\ rule.end < Day
      /\ Day \in Nat \ {0} /\ Duration[e] \in Nat \ {0}
    BY GridAssumption
<1>3. l \in (Midnight(date) + rule.start) .. (Midnight(date) + rule.end - Duration[e])
    BY DEF RuleGrid, Midnight
<1>4. /\ l \in Int /\ Midnight(date) <= l /\ l + Duration[e] < Midnight(date + 1)
  <2>1. Midnight(date) \in Int /\ Midnight(date + 1) = Midnight(date) + Day
      BY Midnights
  <2> QED
      BY <1>2, <1>3, <2>1
<1>5. t \in Int /\ Local(t) \in Int
    BY <1>1, <1>4, LocalTime
<1> DEFINE d == Local(t) \div Day
<1>6. PICK q \in Rules[e] : Local(t) + Duration[e] <= Midnight(d) + q.end
    BY CandidatesAre DEF IsSlotOnGrid, Midnight
<1>7. q.end \in Int /\ q.end < Day
    BY GridAssumption
<1>8. d \in Int
    BY <1>2, <1>5
<1> HIDE DEF d
<1>9. Local(t) + Duration[e] < Midnight(d + 1)
  <2>1. Midnight(d) \in Int /\ Midnight(d + 1) = Midnight(d) + Day
      BY <1>8, Midnights
  <2> QED
      BY <1>2, <1>5, <1>6, <1>7, <2>1
<1> QED
    BY <1>1, <1>2, <1>4, <1>5, <1>8, <1>9 DEF d

\* A slot of the page lies between the midnights of its date, as instants.
LEMMA SlotInDay ==
    ASSUME TypeOK, NEW e \in Types, NEW date \in Int, NEW t \in Candidates(e, date),
           SkipsByDay(zone, e)
    PROVE  DayBounds(date)[1] <= t /\ t + Duration[e] <= DayBounds(date)[2]
<1> DEFINE m == Midnight(date)
           n == Midnight(date + 1)
<1>1. PICK l \in Int : t = Utc(l) /\ m <= l /\ l + Duration[e] < n
    BY CandidateClock
<1>2. PICK d \in Int : /\ d = Local(t) \div Day
                       /\ Local(t) + Duration[e] < Midnight(d + 1)
    BY CandidateClock
<1>3. /\ m \in Int /\ n \in Int /\ n = m + Day /\ Day \in Nat \ {0}
      /\ \A k \in Int : m <= k /\ k < n => k \div Day = date
  <2>1. Day \in Nat \ {0}
      BY GridAssumption
  <2>2. m \in Int /\ n = m + Day
      BY Midnights
  <2>3. \A k \in Int : m <= k /\ k < n => k \div Day = date
      BY Midnights
  <2> HIDE DEF m, n
  <2> QED
      BY <2>1, <2>2, <2>3
<1>4. /\ t \in Int /\ Local(t) \in Int /\ Duration[e] \in Nat \ {0}
      /\ zone.at \in Int /\ zone.shift \in Int
    BY CandidateClock, LocalTime
<1>5. DayBounds(date)[1] = Utc(m) /\ DayBounds(date)[2] = Utc(n)
    BY DEF DayBounds, Midnight
<1>6. zone.shift > 0 =>
          /\ \/ m <= zone.at
             \/ zone.at + zone.shift + Larger(zone.shift, Duration[e]) <= m
          /\ \/ n <= zone.at
             \/ zone.at + zone.shift + Larger(zone.shift, Duration[e]) <= n
    BY DEF SkipsByDay
<1>7. Local(t) < n => Local(t) + Duration[e] < n
  <2>1. ASSUME m <= Local(t), Local(t) < n
        PROVE  Local(t) + Duration[e] < n
    <3>1. d = date
        BY <1>2, <1>3, <1>4, <2>1
    <3> QED
        BY <1>2, <3>1
  <2>2. m <= Local(t)
    <3> HIDE DEF m, n
    <3> QED
        BY <1>1, <1>3, <1>4, <1>6 DEF Local, Utc, Larger
  <2> QED
      BY <2>1, <2>2
<1> HIDE DEF m, n
<1>8. Local(t) < n
    BY <1>1, <1>3, <1>4, <1>6 DEF Local, Utc, Larger
<1>9. Utc(m) <= t
    BY <1>1, <1>3, <1>4, <1>6 DEF Utc, Larger
<1>10. Local(t) + Duration[e] < n
    BY <1>7, <1>8
<1>11. t + Duration[e] <= Utc(n)
  <2>1. CASE zone.shift <= 0
      BY <1>1, <1>3, <1>4, <2>1 DEF Utc, Larger
  <2>2. CASE zone.shift > 0 /\ n <= zone.at
      BY <1>1, <1>3, <1>4, <2>2 DEF Utc, Larger
  <2>3. CASE zone.shift > 0 /\ zone.at + zone.shift + Larger(zone.shift, Duration[e]) <= n
    <3>1. Utc(n) = n - zone.shift
        BY <1>3, <1>4, <2>3 DEF Utc, Larger
    <3>2. CASE t < zone.at
        BY <1>3, <1>4, <2>3, <3>1, <3>2 DEF Larger
    <3>3. CASE t >= zone.at
        BY <1>3, <1>4, <1>10, <3>1, <3>3 DEF Local
    <3> QED
        BY <1>4, <3>2, <3>3
  <2> QED
      BY <1>4, <1>6, <2>1, <2>2, <2>3
<1> QED
    BY <1>5, <1>9, <1>11

\* However the clocks change, it lies no further out than they are put forward.
LEMMA SlotNearDay ==
    ASSUME TypeOK, NEW e \in Types, NEW date \in Int, NEW t \in Candidates(e, date)
    PROVE  /\ DayBounds(date)[1] - Larger(zone.shift, 0) <= t
           /\ t + Duration[e] <= DayBounds(date)[2] + Larger(zone.shift, 0)
<1> DEFINE m == Midnight(date)
           n == Midnight(date + 1)
<1>1. PICK l \in Int : t = Utc(l) /\ m <= l /\ l + Duration[e] < n
    BY CandidateClock
<1>2. m \in Int /\ n \in Int
    BY Midnights
<1>3. /\ Duration[e] \in Nat \ {0} /\ zone.at \in Int /\ zone.shift \in Int
    BY CandidateClock, LocalTime
<1>4. DayBounds(date)[1] = Utc(m) /\ DayBounds(date)[2] = Utc(n)
    BY DEF DayBounds, Midnight
<1> HIDE DEF m, n
<1>5. Utc(m) - Larger(zone.shift, 0) <= t
    BY <1>1, <1>2, <1>3 DEF Utc, Larger
<1>6. t + Duration[e] <= Utc(n) + Larger(zone.shift, 0)
    BY <1>1, <1>2, <1>3 DEF Utc, Larger
<1> QED
    BY <1>4, <1>5, <1>6

\* The zones whose clocks never take an hour near midnight away.
ClocksSkipByDay == \A z \in Zones, e \in Types : SkipsByDay(z, e)

LEMMA GeneratedSlots ==
    ASSUME TypeOK, NEW e \in Types, NEW date \in Dates, NEW t \in GenerateSlots(e, date)
    PROVE  /\ date \in Int /\ t \in Int /\ t \in Candidates(e, date)
           /\ Duration[e] \in Nat \ {0} /\ Before[e] \in Nat /\ After[e] \in Nat
           /\ Pad(e) \in Int /\ Pad(e) >= Before[e] + After[e] + Duration[e] + Duration[e]
           /\ DayBounds(date)[1] \in Int /\ DayBounds(date)[2] \in Int
<1>1. date \in Int
    BY GridAssumption
<1>2. t \in Candidates(e, date)
    BY <1>1, OfferedIsLeft DEF Left
<1>3. /\ Duration[e] \in Nat \ {0} /\ Before[e] \in Nat /\ After[e] \in Nat
      /\ SlotStep \in Nat
    BY GridAssumption
<1>4. EffectiveStep(e) \in Int /\ EffectiveStep(e) >= Duration[e]
    BY <1>3 DEF EffectiveStep, Larger
<1>5. Midnight(date) \in Int /\ Midnight(date + 1) \in Int
    BY <1>1, Midnights
<1>6. DayBounds(date)[1] \in Int /\ DayBounds(date)[2] \in Int
    BY <1>5, LocalTime DEF DayBounds, Midnight
<1>7. t \in Int
    BY <1>1, <1>2, CandidateClock
<1> QED
    BY <1>1, <1>2, <1>3, <1>4, <1>6, <1>7 DEF Pad

\* What takes time in the calendar or a row lasts, and is known as instants.
LEMMA Busy ==
    ASSUME TypeOK
    PROVE  /\ \A i \in meetings : i[1] \in Int /\ i[2] \in Int /\ i[1] < i[2]
           /\ \A b \in bookings : /\ b.start \in Int /\ b.end \in Int /\ b.start < b.end
                                  /\ Interval(b)[1] = b.start /\ Interval(b)[2] = b.end
<1>1. \A i \in meetings : i[1] \in Int /\ i[2] \in Int /\ i[1] < i[2]
    BY GridAssumption DEF TypeOK, Intervals
<1>2. ASSUME NEW b \in bookings
      PROVE  b.start \in Int /\ b.end \in Int /\ b.start < b.end
  <2>1. /\ b.start \in Int /\ b.end \in Int /\ b.type \in Types
        /\ b.end = b.start + Duration[b.type]
      BY DEF TypeOK, Row
  <2>2. Duration[b.type] \in Nat \ {0}
      BY <2>1, GridAssumption
  <2> QED
      BY <2>1, <2>2
<1>3. \A b \in bookings : Interval(b)[1] = b.start /\ Interval(b)[2] = b.end
    BY DEF Interval
<1> QED
    BY <1>1, <1>2, <1>3

LEMMA BusyIntervals ==
    ASSUME TypeOK, NEW window, NEW i \in FreeBusy(window)
    PROVE  i[1] \in Int /\ i[2] \in Int /\ i[1] < i[2]
BY Busy DEF FreeBusy

\* "a start the grid offers is always a start the booking path accepts"
\* (availability.py:136-137), wherever the clocks do not go forward shortly
\* before or across midnight.  Where they do (America/Nuuk skips the hour up to
\* midnight) a start of the skipped hour is offered that lies on the next day,
\* without a look at the bookings there.
THEOREM ButtonsWork == ClocksSkipByDay => (Spec => []OfferedIsAccepted)
<1> SUFFICES ASSUME ClocksSkipByDay
             PROVE  Spec => []OfferedIsAccepted
    OBVIOUS
<1>1. TypeOK => OfferedIsAccepted
  <2> SUFFICES ASSUME TypeOK, NEW e \in Types, NEW date \in Dates,
                      NEW t \in GenerateSlots(e, date)
               PROVE  Accepts(e, t)
      BY DEF OfferedIsAccepted
  <2> DEFINE slot == Slot(e, t)
             day  == DayBounds(date)
  <2>1. /\ date \in Int /\ t \in Int /\ t \in Candidates(e, date)
        /\ Duration[e] \in Nat \ {0} /\ Before[e] \in Nat /\ After[e] \in Nat
        /\ Pad(e) \in Int /\ Pad(e) >= Before[e] + After[e] + Duration[e] + Duration[e]
        /\ day[1] \in Int /\ day[2] \in Int
      BY GeneratedSlots
  <2>2. SkipsByDay(zone, e)
      BY DEF ClocksSkipByDay, TypeOK
  <2>3. day[1] <= t /\ t + Duration[e] <= day[2]
      BY <2>1, <2>2, SlotInDay
  <2>4. slot[1] = t /\ slot[2] = t + Duration[e]
      BY DEF Slot
  <2>5. /\ Window(e, date)[1] = day[1] - Pad(e)
        /\ Window(e, date)[2] = day[2] + Pad(e)
      BY DEF Window
  <2>6. /\ IsSlotOnGrid(e, t)
        /\ \A i \in Blocked(e, Window(e, date)) \cup Taken(e, date) : ~Overlap(slot, i)
      BY <2>1, CandidatesAre
  <2> HIDE DEF slot, day
  <2>7. ~Clash(e, slot)
    <3> SUFFICES ASSUME NEW b \in LiveOf(e), Overlap(Interval(b), slot)
                 PROVE  FALSE
        BY DEF Clash
    <3>1. /\ b.start \in Int /\ b.end \in Int
          /\ Interval(b)[1] = b.start /\ Interval(b)[2] = b.end
        BY Busy DEF LiveOf
    <3>2. Overlap(Interval(b), day)
        BY <2>1, <2>3, <2>4, <3>1 DEF Overlap
    <3>3. Interval(b) \in Taken(e, date)
        BY <3>2 DEF Taken, day
    <3>4. ~Overlap(slot, Interval(b))
        BY <2>6, <3>3
    <3> QED
        BY <2>1, <2>4, <3>1, <3>4 DEF Overlap
  <2>8. ASSUME NEW i \in FreeBusy(slot)
        PROVE  i \in OwnedIntervals(e, slot)
    <3>1. i[1] \in Int /\ i[2] \in Int /\ i[1] < i[2] /\ Overlap(i, slot)
        BY <2>8, BusyIntervals DEF FreeBusy
    <3>2. i \in FreeBusy(Window(e, date))
      <4>1. Overlap(i, Window(e, date))
          BY <2>1, <2>3, <2>4, <2>5, <3>1 DEF Overlap
      <4> QED
          BY <2>8, <4>1 DEF FreeBusy
    <3>3. i \in OwnedIntervals(e, Window(e, date))
      <4> SUFFICES ASSUME i \notin OwnedIntervals(e, Window(e, date))
                   PROVE  FALSE
          OBVIOUS
      <4> DEFINE j == <<i[1] - Before[e], i[2] + After[e]>>
      <4>1. j \in Blocked(e, Window(e, date))
          BY <3>2 DEF Blocked
      <4>2. j[1] = i[1] - Before[e] /\ j[2] = i[2] + After[e]
          OBVIOUS
      <4> HIDE DEF j
      <4>3. ~Overlap(slot, j)
          BY <2>6, <4>1
      <4> QED
          BY <2>1, <2>4, <3>1, <4>2, <4>3 DEF Overlap
    <3> QED
        BY <3>1, <3>3 DEF OwnedIntervals
  <2>9. ASSUME NEW c \in ConferenceIntervals(slot)
        PROVE  FALSE
    <3>1. c \in conferences /\ Overlap(c, slot) /\ c[1] >= slot[1] - Day
        BY <2>9 DEF ConferenceIntervals
    <3>2. c[1] \in Int /\ c[2] \in Int /\ c[1] < c[2] /\ Day \in Nat
        BY <3>1, Conference, GridAssumption
    <3>3. c[1] >= Window(e, date)[1] - Day /\ Overlap(c, Window(e, date))
        BY <2>1, <2>3, <2>4, <2>5, <3>1, <3>2 DEF Overlap
    <3>4. c \in Blocked(e, Window(e, date))
        BY <3>1, <3>3 DEF ConferenceIntervals, Blocked
    <3>5. ~Overlap(slot, c)
        BY <2>6, <3>4
    <3> QED
        BY <2>1, <2>4, <3>1, <3>2, <3>5 DEF Overlap
  <2> QED
      BY <2>6, <2>7, <2>8, <2>9 DEF Accepts, slot
<1> QED
    BY <1>1, TypeCorrect, PTL

\* No change of the clocks is larger than the padding of the page's window
\* beyond the buffers.
SmallChanges == \A z \in Zones, e \in Types : z.shift <= Duration[e] + EffectiveStep(e)

\* No offered slot comes closer to a commitment than the buffers, also when the
\* commitment lies on another day or the clocks change between the two
\* (availability.py:268-290), at midnight too.
THEOREM BuffersAreKept == SmallChanges => (Spec => []BuffersKept)
<1> SUFFICES ASSUME SmallChanges
             PROVE  Spec => []BuffersKept
    OBVIOUS
<1>1. TypeOK => BuffersKept
  <2> SUFFICES ASSUME TypeOK, NEW e \in Types, NEW date \in Dates,
                      NEW t \in GenerateSlots(e, date), NEW i \in Commitments(e),
                      Overlap(Slot(e, t), <<i[1] - Before[e], i[2] + After[e]>>)
               PROVE  FALSE
      BY DEF BuffersKept, KeepsBuffers
  <2> DEFINE slot == Slot(e, t)
             day  == DayBounds(date)
             j    == <<i[1] - Before[e], i[2] + After[e]>>
  <2>1. /\ date \in Int /\ t \in Int /\ t \in Candidates(e, date)
        /\ Duration[e] \in Nat \ {0} /\ Before[e] \in Nat /\ After[e] \in Nat
        /\ Pad(e) \in Int
        /\ day[1] \in Int /\ day[2] \in Int
      BY GeneratedSlots
  <2>2. /\ day[1] - Larger(zone.shift, 0) <= t
        /\ t + Duration[e] <= day[2] + Larger(zone.shift, 0)
      BY <2>1, SlotNearDay
  <2>3. /\ Larger(zone.shift, 0) \in Int
        /\ Pad(e) >= Before[e] + After[e] + Larger(zone.shift, 0)
    <3>1. zone.shift \in Int /\ zone.shift <= Duration[e] + EffectiveStep(e)
        BY <2>1, LocalTime DEF SmallChanges, TypeOK
    <3>2. EffectiveStep(e) \in Nat
        BY GridAssumption DEF EffectiveStep, Larger
    <3> QED
        BY <2>1, <3>1, <3>2 DEF Pad, Larger
  <2>4. i[1] \in Int /\ i[2] \in Int /\ i[1] < i[2]
      BY Busy DEF Commitments
  <2>5. /\ slot[1] = t /\ slot[2] = t + Duration[e]
        /\ j[1] = i[1] - Before[e] /\ j[2] = i[2] + After[e]
      BY DEF Slot
  <2>6. /\ Window(e, date)[1] = day[1] - Pad(e)
        /\ Window(e, date)[2] = day[2] + Pad(e)
      BY DEF Window
  <2>7. \A k \in Blocked(e, Window(e, date)) : ~Overlap(slot, k)
      BY <2>1, CandidatesAre
  <2>8. Overlap(slot, j)
      OBVIOUS
  <2>9. i \notin OwnedIntervals(e, Window(e, date))
      BY DEF OwnedIntervals, Commitments
  <2>10. i \in FreeBusy(Window(e, date))
    <3> HIDE DEF slot, day, j
    <3>1. Overlap(i, Window(e, date))
        BY <2>1, <2>2, <2>3, <2>4, <2>5, <2>6, <2>8 DEF Overlap
    <3> QED
        BY <3>1 DEF FreeBusy, Commitments
  <2>11. j \in Blocked(e, Window(e, date))
      BY <2>9, <2>10 DEF Blocked
  <2> QED
      BY <2>7, <2>8, <2>11
<1> QED
    BY <1>1, TypeCorrect, PTL

=============================================================================
