-------------------------- MODULE RateLimitProofs --------------------------
(***************************************************************************)
(* Proofs about RateLimit, for every limit, window, clock resolution, set  *)
(* of callers and number of threads.                                       *)
(***************************************************************************)
EXTENDS RateLimit, FiniteSetTheorems, TLAPS

\* Rounding to seconds is upwards.
LEMMA CeilCovers ==
    ASSUME NEW x \in Int
    PROVE  /\ Ceil(x) \in Int
           /\ x <= Second * Ceil(x)
  BY RateLimitAssumption DEF Ceil

\* Rounding keeps the order.
LEMMA CeilMonotone ==
    ASSUME NEW x \in Int, NEW y \in Int, x <= y
    PROVE  Ceil(x) <= Ceil(y)
  BY RateLimitAssumption DEF Ceil

\* Whatever header a caller sends, client_ip finds the caller.
LEMMA CallerIsIdentified ==
    ASSUME NEW c \in Callers, NEW s \in Sent
    PROVE  ClientIp(Peer(c), Hops(c, s)) = c
<1> DEFINE d == TrustedProxyDepth
<1>1. /\ d \in Nat /\ d = Len(Proxies)
      /\ s \in Seq(Addresses) /\ c \in Addresses /\ Proxies \in Seq(Addresses)
  BY RateLimitAssumption DEF TrustedProxyDepth
<1>2. /\ Path(c) \in Seq(Addresses)
      /\ Len(Path(c)) = d + 1
      /\ Path(c)[1] = c
  BY <1>1 DEF Path
<1>3. CASE d = 0
  BY <1>2, <1>3 DEF ClientIp, Peer
<1>4. CASE d > 0
  <2> DEFINE own == SubSeq(Path(c), 1, d)
  <2>1. own \in Seq(Addresses) /\ Len(own) = d /\ own[1] = c
    BY <1>1, <1>2, <1>4
  <2>2. Len(Hops(c, s)) = Len(s) + d /\ Hops(c, s)[Len(s) + 1] = own[1]
    BY <1>1, <1>4, <2>1 DEF Hops
  <2> QED
    BY <1>1, <1>4, <2>1, <2>2 DEF ClientIp
<1> QED
  BY <1>1, <1>3, <1>4

----------------------------------------------------------------------------

\* No reading of the clock is older than MaxWait, and none is in the future.
Fresh ==
    \A t \in Requests :
        /\ thread[t].moment <= clock
        /\ clock - thread[t].moment <= MaxWait
        /\ thread[t].key = thread[t].caller

WindowsHaveBegun ==
    /\ DOMAIN hits \subseteq Callers
    /\ \A k \in DOMAIN hits : hits[k].start <= clock

TypeInv == TypeOK /\ Fresh /\ WindowsHaveBegun

\* A hit comes from a known caller, under its own key, by a fresh reading.
LEMMA HitIsFresh ==
    ASSUME TypeInv, NEW t \in Threads, Hit(t)
    PROVE  /\ thread[t].caller \in Callers /\ thread[t].key = thread[t].caller
           /\ thread[t].moment \in Nat /\ clock \in Nat
           /\ thread[t].moment <= clock /\ clock - thread[t].moment <= MaxWait
  BY DEF TypeInv, TypeOK, Fresh, Requests, Hit, Idle

\* Pruning forgets windows and changes none.
LEMMA PruneKeeps ==
    ASSUME TypeInv, NEW t \in Threads
    PROVE  /\ DOMAIN Table(t) \subseteq DOMAIN hits
           /\ \A k \in DOMAIN Table(t) : Table(t)[k] = hits[k]
           /\ \A k \in DOMAIN hits :
                /\ hits[k] \in [start : Nat, count : Nat \ {0}]
                /\ hits[k].start <= clock
  BY DEF TypeInv, TypeOK, WindowsHaveBegun, Table, Pruned

\* A hit lands in the live window of its caller or opens one.
LEMMA WhereItLands ==
    ASSUME TypeInv, NEW t \in Threads, Hit(t)
    PROVE  LET c == thread[t].caller
               m == thread[t].moment
           IN  \/ Landed(t) = [start |-> m, count |-> 1]
               \/ /\ c \in DOMAIN hits
                  /\ m - hits[c].start < Window
                  /\ Landed(t) = [start |-> hits[c].start,
                                  count |-> hits[c].count + 1]
<1> DEFINE c == thread[t].caller
           m == thread[t].moment
<1>1. thread[t].key = c /\ m \in Nat
  BY HitIsFresh
<1>2. CASE c \in DOMAIN Table(t) /\ m - Table(t)[c].start < Window
  <2>1. WindowOf(Table(t), c, m) = Table(t)[c]
    BY <1>2 DEF WindowOf
  <2>2. Table(t)[c] = hits[c] /\ hits[c] \in [start : Nat, count : Nat \ {0}]
    BY <1>2, PruneKeeps
  <2>3. Landed(t) = [hits[c] EXCEPT !.count = hits[c].count + 1]
    BY <1>1, <2>1, <2>2 DEF Landed, Counted
  <2>4. Landed(t) = [start |-> hits[c].start, count |-> hits[c].count + 1]
    BY <2>2, <2>3
  <2> QED
    BY <1>2, <2>2, <2>4, PruneKeeps
<1>3. CASE ~(c \in DOMAIN Table(t) /\ m - Table(t)[c].start < Window)
  <2>1. WindowOf(Table(t), c, m) = [start |-> m, count |-> 0]
    BY <1>3 DEF WindowOf
  <2>2. Landed(t) = [[start |-> m, count |-> 0] EXCEPT !.count = 0 + 1]
    BY <1>1, <2>1 DEF Landed, Counted
  <2>3. Landed(t) = [start |-> m, count |-> 1]
    BY <2>2
  <2> QED
    BY <2>3
<1> QED
  BY <1>2, <1>3

\* The same, in numbers.
LEMMA LandedFacts ==
    ASSUME TypeInv, NEW t \in Threads, Hit(t)
    PROVE  /\ Landed(t) \in [start : Nat, count : Nat \ {0}]
           /\ Landed(t).start <= clock
           /\ thread[t].moment - Landed(t).start < Window
           /\ Allowed(t) \in BOOLEAN
           /\ (IF Allowed(t) THEN 0 ELSE RetryAfter(thread[t].moment, Landed(t).start))
                 \in 0 .. Ceil(Window + MaxWait)
<1> DEFINE c == thread[t].caller
           m == thread[t].moment
           start == Landed(t).start
<1>1. /\ Landed(t) \in [start : Nat, count : Nat \ {0}]
      /\ start <= clock
      /\ m - start < Window
  BY HitIsFresh, PruneKeeps, WhereItLands, RateLimitAssumption
<1>2. Window - (m - start) \in Int /\ Window + MaxWait \in Int
      /\ Window - (m - start) <= Window + MaxWait
      /\ 1 <= Window + MaxWait
  BY <1>1, HitIsFresh, RateLimitAssumption
<1>3. Ceil(Window - (m - start)) \in Int /\ Ceil(Window + MaxWait) \in Int
      /\ Ceil(Window - (m - start)) <= Ceil(Window + MaxWait)
  BY <1>2, CeilCovers, CeilMonotone
<1>4. 1 <= Ceil(Window + MaxWait)
  <2>1. Ceil(1) \in Int /\ 1 <= Second * Ceil(1)
    BY CeilCovers
  <2>2. 1 <= Ceil(1)
    BY <2>1, RateLimitAssumption
  <2>3. Ceil(1) <= Ceil(Window + MaxWait)
    BY <1>2, CeilMonotone
  <2> QED
    BY <1>3, <2>1, <2>2, <2>3
<1>5. RetryAfter(m, start) \in 0 .. Ceil(Window + MaxWait)
  BY <1>3, <1>4 DEF RetryAfter
<1>6. 0 \in 0 .. Ceil(Window + MaxWait)
  BY <1>3, <1>4
<1>7. Allowed(t) \in BOOLEAN
  BY <1>1 DEF Allowed
<1> QED
  BY <1>1, <1>5, <1>6, <1>7

\* TypeOK and the freshness of readings are inductive together.
LEMMA TypeInvStep == TypeInv /\ [Next]_vars => TypeInv'
<1> SUFFICES ASSUME TypeInv, [Next]_vars
             PROVE  TypeInv'
  OBVIOUS
<1>1. ASSUME NEW t \in Threads, NEW c \in Callers, NEW s \in Sent,
             Arrive(t, c, s)
      PROVE  TypeInv'
  <2>1. ClientIp(Peer(c), Hops(c, s)) = c /\ c \in Keys
    BY CallerIsIdentified, RateLimitAssumption DEF Keys
  <2>2. thread' = [thread EXCEPT ![t] =
            [pc |-> "waiting", caller |-> c, moment |-> clock, key |-> c]]
    BY <1>1, <2>1 DEF Arrive
  <2>3. TypeOK'
    BY <1>1, <2>1, <2>2 DEF TypeInv, TypeOK, Arrive
  <2>4. Fresh'
    BY <1>1, <2>2, RateLimitAssumption DEF TypeInv, TypeOK, Fresh, Requests, Arrive
  <2>5. WindowsHaveBegun'
    BY <1>1 DEF TypeInv, WindowsHaveBegun, Arrive
  <2> QED
    BY <2>3, <2>4, <2>5 DEF TypeInv
<1>2. ASSUME NEW t \in Threads, Hit(t)
      PROVE  TypeInv'
  <2> DEFINE c == thread[t].caller
  <2>1. /\ c \in Callers /\ c \in Keys /\ thread[t].key = c
        /\ clock \in Nat /\ clock' = clock
    BY <1>2, HitIsFresh, RateLimitAssumption DEF Hit, Keys
  <2>2. hits' = [k \in DOMAIN Table(t) \cup {c} |->
                   IF k = c THEN Landed(t) ELSE Table(t)[k]]
    BY <1>2, <2>1 DEF Hit
  <2>3. DOMAIN hits' = DOMAIN Table(t) \cup {c}
    BY <2>2
  <2>4. DOMAIN hits' \subseteq Callers
    BY <2>1, <2>3, PruneKeeps DEF TypeInv, WindowsHaveBegun
  <2>5. \A k \in DOMAIN hits' : /\ hits'[k] \in [start : Nat, count : Nat \ {0}]
                                /\ hits'[k].start <= clock
    BY <1>2, <2>2, <2>3, PruneKeeps, LandedFacts
  <2>6. Answer(t) \in Entry
    <3>1. thread[t].moment \in Nat
      BY <1>2, HitIsFresh
    <3> QED
      BY <1>2, <2>1, <3>1, LandedFacts DEF Answer, Entry
  <2>7. log' \in [Callers -> Seq(Entry)]
    BY <1>2, <2>1, <2>6 DEF TypeInv, TypeOK, Hit
  <2>8. thread' = [thread EXCEPT ![t] = Idle]
    BY <1>2 DEF Hit
  <2>9. hits' \in [DOMAIN hits' -> [start : Nat, count : Nat \ {0}]]
    BY <2>2, <2>3, <2>5
  <2>10. TypeOK'
    BY <2>1, <2>4, <2>7, <2>8, <2>9, RateLimitAssumption
       DEF TypeInv, TypeOK, Keys
  <2>11. Fresh'
    BY <2>1, <2>8 DEF TypeInv, TypeOK, Fresh, Requests, Idle
  <2>12. WindowsHaveBegun'
    BY <2>1, <2>4, <2>5 DEF WindowsHaveBegun
  <2> QED
    BY <2>10, <2>11, <2>12 DEF TypeInv
<1>3. CASE Tick
  <2>1. clock \in Nat /\ clock' = clock + 1 /\ UNCHANGED <<hits, thread, log>>
    BY <1>3 DEF Tick, TypeInv, TypeOK
  <2>2. TypeOK'
    BY <2>1 DEF TypeInv, TypeOK
  <2>3. \A t \in Requests : thread[t].moment \in Nat
    BY DEF TypeInv, TypeOK, Requests, Idle
  <2>4. Fresh'
    BY <1>3, <2>1, <2>3, RateLimitAssumption
       DEF TypeInv, Fresh, Requests, Tick
  <2>5. WindowsHaveBegun'
    BY <2>1 DEF TypeInv, TypeOK, WindowsHaveBegun
  <2> QED
    BY <2>2, <2>4, <2>5 DEF TypeInv
<1>4. CASE UNCHANGED vars
  BY <1>4 DEF TypeInv, TypeOK, Fresh, WindowsHaveBegun, Requests, vars
<1> QED
  BY <1>1, <1>2, <1>3, <1>4 DEF Next

LEMMA TypeInvInit == Init => TypeInv
  BY RateLimitAssumption
     DEF Init, TypeInv, TypeOK, Fresh, WindowsHaveBegun, Requests, Idle

\* Every state is well typed; Retry-After exceeds the window by a wait for the
\* lock at most (rate_limit.py:102-105).
THEOREM LimiterIsTyped == Spec => []TypeOK
<1>1. TypeInv => TypeOK
  BY DEF TypeInv
<1> QED
  BY <1>1, TypeInvInit, TypeInvStep, PTL DEF Spec

\* Windows have begun, and no thread waits for the lock longer than MaxWait.
THEOREM TypeInvHolds == Spec => []TypeInv
  BY TypeInvInit, TypeInvStep, PTL DEF Spec

----------------------------------------------------------------------------

\* A hit appends its answer to the log of its caller.
LEMMA LogEffect ==
    ASSUME TypeInv, NEW t \in Threads, Hit(t)
    PROVE  LET c == thread[t].caller
               n == Len(log[c])
           IN  /\ n \in Nat /\ Len(log'[c]) = n + 1
               /\ log'[c][n + 1] = Answer(t)
               /\ \A i \in 1 .. n : log'[c][i] = log[c][i]
               /\ \A d \in Callers \ {c} : log'[d] = log[d]
<1> DEFINE c == thread[t].caller
<1>1. c \in Callers /\ log[c] \in Seq(Entry) /\ log \in [Callers -> Seq(Entry)]
  BY HitIsFresh DEF TypeInv, TypeOK
<1>2. log'[c] = Append(log[c], Answer(t))
      /\ \A d \in Callers \ {c} : log'[d] = log[d]
  BY <1>1 DEF Hit
<1> QED
  BY <1>1, <1>2

\* ... and changes the windows of others only by forgetting them.
LEMMA TableEffect ==
    ASSUME TypeInv, NEW t \in Threads, Hit(t)
    PROVE  LET c == thread[t].caller
           IN  /\ DOMAIN hits' \subseteq DOMAIN hits \cup {c}
               /\ hits'[c] = Landed(t)
               /\ \A k \in DOMAIN hits' \ {c} : hits'[k] = hits[k]
<1> DEFINE c == thread[t].caller
<1>1. hits' = [k \in DOMAIN Table(t) \cup {c} |->
                 IF k = c THEN Landed(t) ELSE Table(t)[k]]
  BY HitIsFresh DEF Hit
<1> QED
  BY <1>1, PruneKeeps

LEMMA EntryIsNumeric ==
    ASSUME NEW e \in Entry
    PROVE  e.at + Second * e.retry \in Int
<1>1. Ceil(Window + MaxWait) \in Int
  BY CeilCovers, RateLimitAssumption
<1>2. e.at \in Int /\ e.retry \in Int
  BY <1>1 DEF Entry
<1>3. \A x \in Int : Second * x \in Int
  BY RateLimitAssumption
<1> QED
  BY <1>2, <1>3

\* The wait told with the last refusal covers the rest of the window.
LastRefusalCovers ==
    \A c \in DOMAIN hits :
        LET last == log[c][Len(log[c])]
        IN  Len(log[c]) > 0 /\ ~last.allowed
            => hits[c].start + Window <= last.at + Second * last.retry

HonestInv == TypeInv /\ LastRefusalCovers /\ RetryIsHonest

LEMMA RetryCovers ==
    ASSUME TypeInv, NEW t \in Threads, Hit(t), ~Allowed(t)
    PROVE  Landed(t).start + Window
             <= clock + Second * RetryAfter(thread[t].moment, Landed(t).start)
<1> DEFINE m == thread[t].moment
           start == Landed(t).start
           left == Window - (m - start)
<1>1. /\ m \in Nat /\ clock \in Nat /\ m <= clock /\ start \in Nat
      /\ left \in Int /\ left > 0
  BY HitIsFresh, LandedFacts, RateLimitAssumption
<1>2. Ceil(left) \in Int /\ left <= Second * Ceil(left)
  BY <1>1, CeilCovers
<1>3. Ceil(left) >= 1
  BY <1>1, <1>2, RateLimitAssumption
<1>4. RetryAfter(m, start) = Ceil(left)
  BY <1>2, <1>3 DEF RetryAfter
<1> QED
  BY <1>1, <1>2, <1>4, RateLimitAssumption

LEMMA HonestStep == HonestInv /\ [Next]_vars => HonestInv'
<1> SUFFICES ASSUME HonestInv, [Next]_vars
             PROVE  HonestInv'
  OBVIOUS
<1>1. TypeInv /\ TypeInv'
  BY TypeInvStep DEF HonestInv
<1>2. ASSUME NEW t \in Threads, Hit(t)
      PROVE  LastRefusalCovers' /\ RetryIsHonest'
  <2> DEFINE c == thread[t].caller
             n == Len(log[c])
             m == thread[t].moment
  <2>1. /\ c \in Callers /\ m \in Nat /\ clock \in Nat /\ n \in Nat
    BY <1>1, <1>2, HitIsFresh, LogEffect
  <2>2. LastRefusalCovers'
    <3> SUFFICES ASSUME NEW d \in DOMAIN hits'
                 PROVE  LET last == log'[d][Len(log'[d])]
                        IN  Len(log'[d]) > 0 /\ ~last.allowed
                            => hits'[d].start + Window
                                 <= last.at + Second * last.retry
      BY DEF LastRefusalCovers
    <3>1. CASE d = c
      <4>1. log'[d][Len(log'[d])] = Answer(t)
        BY <1>1, <1>2, <3>1, LogEffect
      <4>2. hits'[d] = Landed(t)
        BY <1>1, <1>2, <3>1, TableEffect
      <4>3. CASE Allowed(t)
        BY <4>1, <4>3 DEF Answer
      <4>4. CASE ~Allowed(t)
        BY <1>1, <1>2, <4>1, <4>2, <4>4, RetryCovers DEF Answer
      <4> QED
        BY <4>3, <4>4
    <3>2. CASE d # c
      <4>1. d \in DOMAIN hits /\ hits'[d] = hits[d] /\ d \in Callers
        BY <1>1, <1>2, <3>2, TableEffect DEF TypeInv, WindowsHaveBegun
      <4>2. log'[d] = log[d]
        BY <1>1, <1>2, <3>2, <4>1, LogEffect
      <4> QED
        BY <4>1, <4>2 DEF HonestInv, LastRefusalCovers
    <3> QED
      BY <3>1, <3>2
  <2>3. RetryIsHonest'
    <3> SUFFICES ASSUME NEW d \in Callers, NEW i \in 1 .. Len(log'[d]) - 1,
                        ~log'[d][i].allowed,
                        log'[d][i + 1].moment
                          >= log'[d][i].at + Second * log'[d][i].retry
                 PROVE  log'[d][i + 1].allowed
      BY DEF RetryIsHonest
    <3>1. CASE d = c /\ i = n
      <4>1. log'[d][i + 1] = Answer(t) /\ log'[d][i] = log[c][n] /\ n > 0
        BY <1>1, <1>2, <2>1, <3>1, LogEffect
      <4>2. Answer(t).moment = m /\ Answer(t).allowed = Allowed(t)
        BY DEF Answer
      <4>3. c \in DOMAIN hits => m >= hits[c].start + Window
        <5> SUFFICES ASSUME c \in DOMAIN hits
                     PROVE  m >= hits[c].start + Window
          OBVIOUS
        <5>1. hits[c].start + Window <= log[c][n].at + Second * log[c][n].retry
          BY <4>1 DEF HonestInv, LastRefusalCovers
        <5>2. m >= log[c][n].at + Second * log[c][n].retry
          BY <4>1, <4>2
        <5>3. log[c][n] \in Entry /\ hits[c].start \in Nat
          BY <1>1, <2>1, <4>1 DEF TypeInv, TypeOK
        <5> DEFINE until == log[c][n].at + Second * log[c][n].retry
        <5>4. until \in Int
          BY <5>3, EntryIsNumeric
        <5>5. hits[c].start + Window <= until /\ m >= until
          BY <5>1, <5>2
        <5> HIDE DEF until
        <5> QED
          BY <2>1, <5>3, <5>4, <5>5, RateLimitAssumption
      <4>4. Landed(t) = [start |-> m, count |-> 1]
        <5>1. c \in DOMAIN hits => hits[c].start \in Nat
          BY <1>1 DEF TypeInv, TypeOK
        <5> QED
          BY <1>1, <1>2, <2>1, <4>3, <5>1, WhereItLands, RateLimitAssumption
      <4>5. Allowed(t)
        BY <4>4, RateLimitAssumption DEF Allowed
      <4> QED
        BY <4>1, <4>2, <4>5
    <3>2. CASE ~(d = c /\ i = n)
      <4>1. /\ i \in 1 .. Len(log[d]) - 1
            /\ log'[d][i] = log[d][i] /\ log'[d][i + 1] = log[d][i + 1]
        <5>1. CASE d = c
          <6>1. /\ n = Len(log[d]) /\ Len(log'[d]) = n + 1
                /\ \A j \in 1 .. n : log'[d][j] = log[d][j]
            BY <1>1, <1>2, <5>1, LogEffect
          <6>2. i \in 1 .. n - 1
            BY <2>1, <3>2, <5>1, <6>1
          <6>3. i \in 1 .. n /\ i + 1 \in 1 .. n
            BY <2>1, <6>2
          <6> QED
            BY <6>1, <6>2, <6>3
        <5>2. CASE d # c
          <6>1. log'[d] = log[d]
            BY <1>1, <1>2, <5>2, LogEffect
          <6> QED
            BY <6>1
        <5> QED
          BY <5>1, <5>2
      <4> QED
        BY <4>1 DEF HonestInv, RetryIsHonest
    <3> QED
      BY <3>1, <3>2
  <2> QED
    BY <2>2, <2>3
<1>3. CASE UNCHANGED <<hits, log>>
  BY <1>1, <1>3 DEF HonestInv, LastRefusalCovers, RetryIsHonest
<1>4. (\E t \in Threads : Hit(t)) \/ UNCHANGED <<hits, log>>
  BY DEF Next, Arrive, Tick, vars
<1> QED
  BY <1>1, <1>2, <1>3, <1>4 DEF HonestInv

\* A caller who waits as long as Retry-After says is let in: RetryIsHonest for
\* every limit, window and schedule of the threads.
THEOREM WaitingPaysOff == Spec => []RetryIsHonest
<1>1. Init => HonestInv
  BY TypeInvInit, RateLimitAssumption
     DEF Init, HonestInv, LastRefusalCovers, RetryIsHonest
<1>2. HonestInv => RetryIsHonest
  BY DEF HonestInv
<1> QED
  BY <1>1, <1>2, HonestStep, PTL DEF Spec

----------------------------------------------------------------------------

\* The hits a window counts are the last ones of its caller, and none of them
\* reached the table before the window began.
CountIsHonest ==
    \A c \in DOMAIN hits :
        /\ hits[c].count <= Len(log[c])
        /\ \A i \in 1 .. Len(log[c]) :
             i > Len(log[c]) - hits[c].count => log[c][i].at >= hits[c].start

CauseInv == TypeInv /\ CountIsHonest /\ RefusedForCause

LEMMA CauseStep == CauseInv /\ [Next]_vars => CauseInv'
<1> SUFFICES ASSUME CauseInv, [Next]_vars
             PROVE  CauseInv'
  OBVIOUS
<1>1. TypeInv /\ TypeInv'
  BY TypeInvStep DEF CauseInv
<1>2. ASSUME NEW t \in Threads, Hit(t)
      PROVE  CountIsHonest' /\ RefusedForCause'
  <2> DEFINE c == thread[t].caller
             n == Len(log[c])
             m == thread[t].moment
             start == Landed(t).start
             count == Landed(t).count
  <2>1. /\ c \in Callers /\ m \in Nat /\ clock \in Nat /\ n \in Nat
        /\ m <= clock /\ clock - m <= MaxWait
        /\ start \in Nat /\ count \in Nat \ {0} /\ start <= clock
        /\ m - start < Window
    BY <1>1, <1>2, HitIsFresh, LogEffect, LandedFacts
  <2>2. /\ Len(log'[c]) = n + 1 /\ log'[c][n + 1] = Answer(t)
        /\ \A i \in 1 .. n : log'[c][i] = log[c][i]
    BY <1>1, <1>2, LogEffect
  <2>3. Answer(t).at = clock /\ Answer(t).allowed = Allowed(t)
    BY DEF Answer
  <2>4. /\ count <= n + 1
        /\ \A i \in 1 .. n : i > n + 1 - count => log[c][i].at >= start
    <3>1. CASE Landed(t) = [start |-> m, count |-> 1]
      BY <2>1, <3>1
    <3>2. CASE /\ c \in DOMAIN hits
               /\ Landed(t) = [start |-> hits[c].start, count |-> hits[c].count + 1]
      <4>1. hits[c].count \in Nat /\ start = hits[c].start /\ count = hits[c].count + 1
        BY <1>1, <3>2 DEF TypeInv, TypeOK
      <4>2. /\ hits[c].count <= n
            /\ \A i \in 1 .. n : i > n - hits[c].count => log[c][i].at >= hits[c].start
        BY <3>2 DEF CauseInv, CountIsHonest
      <4> QED
        BY <2>1, <4>1, <4>2
    <3> QED
      BY <1>1, <1>2, <3>1, <3>2, WhereItLands
  <2>5. CountIsHonest'
    <3> SUFFICES ASSUME NEW d \in DOMAIN hits'
                 PROVE  /\ hits'[d].count <= Len(log'[d])
                        /\ \A i \in 1 .. Len(log'[d]) :
                             i > Len(log'[d]) - hits'[d].count
                               => log'[d][i].at >= hits'[d].start
      BY DEF CountIsHonest
    <3>1. CASE d = c
      <4>1. hits'[d].count = count /\ hits'[d].start = start
        BY <1>1, <1>2, <3>1, TableEffect
      <4>2. Len(log'[d]) = n + 1 /\ log'[d][n + 1].at = clock
            /\ \A i \in 1 .. n : log'[d][i] = log[c][i]
        BY <2>2, <2>3, <3>1
      <4>3. ASSUME NEW i \in 1 .. n + 1, i > n + 1 - count
            PROVE  log'[d][i].at >= start
        <5>1. CASE i = n + 1
          BY <2>1, <4>2, <5>1
        <5>2. CASE i # n + 1
          <6>1. i \in 1 .. n
            BY <2>1, <5>2
          <6> QED
            BY <2>4, <4>2, <4>3, <6>1
        <5> QED
          BY <5>1, <5>2
      <4>4. hits'[d].count <= Len(log'[d])
        BY <2>4, <4>1, <4>2
      <4>5. ASSUME NEW i \in 1 .. Len(log'[d]), i > Len(log'[d]) - hits'[d].count
            PROVE  log'[d][i].at >= hits'[d].start
        <5> DEFINE len == Len(log'[d])
                   cnt == hits'[d].count
        <5>1. len = n + 1 /\ cnt = count /\ n \in Nat /\ count \in Nat
          BY <2>1, <4>1, <4>2
        <5>2. len - cnt = n + 1 - count
          <6> HIDE DEF len, cnt, n, count
          <6> QED
            BY <5>1
        <5>3. i \in 1 .. n + 1 /\ i > n + 1 - count
          BY <4>5, <5>1, <5>2
        <5>4. log'[d][i].at >= start
          BY <4>3, <5>3
        <5> QED
          BY <4>1, <5>4
      <4> QED
        BY <4>4, <4>5
    <3>2. CASE d # c
      <4>1. d \in DOMAIN hits /\ hits'[d] = hits[d] /\ d \in Callers
        BY <1>1, <1>2, <3>2, TableEffect DEF TypeInv, WindowsHaveBegun
      <4>2. log'[d] = log[d]
        BY <1>1, <1>2, <3>2, <4>1, LogEffect
      <4> QED
        BY <4>1, <4>2 DEF CauseInv, CountIsHonest
    <3> QED
      BY <3>1, <3>2
  <2>6. RefusedForCause'
    <3> SUFFICES ASSUME NEW d \in Callers, NEW i \in DOMAIN log'[d],
                        ~log'[d][i].allowed
                 PROVE  /\ i > Limit
                        /\ log'[d][i - Limit].at > log'[d][i].at - Window - MaxWait
      BY DEF RefusedForCause
    <3>1. log[d] \in Seq(Entry) /\ log'[d] \in Seq(Entry)
      BY <1>1 DEF TypeInv, TypeOK
    <3>2. CASE d = c /\ i = n + 1
      <4>1. log'[d][i].at = clock /\ ~Allowed(t)
        BY <2>2, <2>3, <3>2
      <4>2. count > Limit
        BY <2>1, <4>1, RateLimitAssumption DEF Allowed
      <4>3. count <= n + 1 /\ n \in Nat /\ count \in Nat /\ i = n + 1
        BY <2>1, <2>4, <3>2
      <4>4. i > Limit /\ i - Limit \in 1 .. n /\ i - Limit > n + 1 - count
        <5> HIDE DEF n, count
        <5> QED
          BY <4>2, <4>3, RateLimitAssumption
      <4>5. log'[d][i - Limit] = log[c][i - Limit] /\ log[c][i - Limit].at >= start
        BY <2>2, <2>4, <3>2, <4>4
      <4>6. log'[d][i - Limit].at >= start
        BY <4>5
      <4>7. log'[d][i - Limit].at \in Int
        <5>1. i - Limit \in 1 .. Len(log'[d])
          BY <2>1, <2>2, <3>2, <4>4
        <5>2. log'[d][i - Limit] \in Entry
          BY <3>1, <5>1
        <5> QED
          BY <5>2 DEF Entry
      <4>8. start > clock - Window - MaxWait
        BY <2>1, RateLimitAssumption
      <4> DEFINE earlier == log'[d][i - Limit].at
      <4>9. earlier > clock - Window - MaxWait
        <5>1. earlier >= start /\ earlier \in Int /\ start \in Nat /\ clock \in Nat
          BY <2>1, <4>6, <4>7
        <5> HIDE DEF earlier, start
        <5> QED
          BY <4>8, <5>1, RateLimitAssumption
      <4> QED
        BY <4>1, <4>4, <4>9
    <3>3. CASE ~(d = c /\ i = n + 1)
      <4>1. i \in DOMAIN log[d] /\ \A j \in 1 .. i : log'[d][j] = log[d][j]
        <5>1. CASE d = c
          <6>1. n = Len(log[d]) /\ i \in 1 .. n + 1 /\ i # n + 1
            BY <2>2, <3>1, <3>3, <5>1
          <6>2. i \in 1 .. n /\ \A j \in 1 .. n : log'[d][j] = log[d][j]
            BY <2>1, <2>2, <5>1, <6>1
          <6> QED
            BY <2>1, <3>1, <6>1, <6>2
        <5>2. CASE d # c
          <6>1. log'[d] = log[d]
            BY <1>1, <1>2, <5>2, LogEffect
          <6> QED
            BY <6>1
        <5> QED
          BY <5>1, <5>2
      <4>2. i \in Nat /\ log'[d][i] = log[d][i]
        BY <3>1, <4>1
      <4>3. /\ i > Limit
            /\ log[d][i - Limit].at > log[d][i].at - Window - MaxWait
        BY <4>1, <4>2 DEF CauseInv, RefusedForCause
      <4>4. log'[d][i - Limit] = log[d][i - Limit]
        BY <4>1, <4>2, <4>3, RateLimitAssumption
      <4> QED
        BY <4>2, <4>3, <4>4
    <3> QED
      BY <3>2, <3>3
  <2> QED
    BY <2>5, <2>6
<1>3. CASE UNCHANGED <<hits, log>>
  BY <1>1, <1>3 DEF CauseInv, CountIsHonest, RefusedForCause
<1>4. (\E t \in Threads : Hit(t)) \/ UNCHANGED <<hits, log>>
  BY DEF Next, Arrive, Tick, vars
<1> QED
  BY <1>1, <1>2, <1>3, <1>4 DEF CauseInv

\* Nobody is refused for what others sent: RefusedForCause for every limit,
\* window, number of callers and schedule of the threads.
THEOREM RefusalsHaveCause == Spec => []RefusedForCause
<1>1. Init => CauseInv
  BY TypeInvInit, RateLimitAssumption
     DEF Init, CauseInv, CountIsHonest, RefusedForCause
<1>2. CauseInv => RefusedForCause
  BY DEF CauseInv
<1> QED
  BY <1>1, <1>2, CauseStep, PTL DEF Spec
----------------------------------------------------------------------------

\* Pruning forgets only windows that are over.
LEMMA PruneForgetsTheDead ==
    ASSUME NEW t \in Threads, NEW k \in DOMAIN hits \ DOMAIN Table(t)
    PROVE  ~(thread[t].moment - hits[k].start < Window)
  BY DEF Table, Pruned

\* A caller opens a window only when the last one is over.
LEMMA OneWindowAtATime ==
    ASSUME TypeInv, NEW t \in Threads, Hit(t), NEW c \in Callers, c = thread[t].caller
    PROVE  \/ /\ c \in DOMAIN hits /\ hits[c] \in [start : Nat, count : Nat \ {0}]
              /\ Landed(t) = [start |-> hits[c].start, count |-> hits[c].count + 1]
           \/ /\ Landed(t) = [start |-> thread[t].moment, count |-> 1]
              /\ c \in DOMAIN hits => ~(thread[t].moment - hits[c].start < Window)
<1> DEFINE m == thread[t].moment
<1>1. thread[t].key = c
  BY HitIsFresh
<1>2. CASE c \in DOMAIN Table(t) /\ m - Table(t)[c].start < Window
  <2>1. /\ c \in DOMAIN hits /\ hits[c] \in [start : Nat, count : Nat \ {0}]
        /\ WindowOf(Table(t), c, m) = hits[c]
    BY <1>2, PruneKeeps DEF WindowOf
  <2>2. Landed(t) = [hits[c] EXCEPT !.count = hits[c].count + 1]
    BY <1>1, <2>1 DEF Landed, Counted
  <2> QED
    BY <2>1, <2>2
<1>3. CASE ~(c \in DOMAIN Table(t) /\ m - Table(t)[c].start < Window)
  <2>1. WindowOf(Table(t), c, m) = [start |-> m, count |-> 0]
    BY <1>3 DEF WindowOf
  <2>2. Landed(t) = [[start |-> m, count |-> 0] EXCEPT !.count = 0 + 1]
    BY <1>1, <2>1 DEF Landed, Counted
  <2>3. c \in DOMAIN hits => ~(m - hits[c].start < Window)
    BY <1>3, PruneKeeps, PruneForgetsTheDead
  <2> QED
    BY <2>2, <2>3
<1> QED
  BY <1>2, <1>3

\* The answers to a caller from the i-th on that let it in, as they are counted.
Since(c, i) == Admitted(c, i, Len(log[c]))

LEMMA AdmittedIsFinite ==
    ASSUME NEW c, NEW i \in Int, NEW j \in Int
    PROVE  IsFiniteSet(Admitted(c, i, j)) /\ Cardinality(Admitted(c, i, j)) \in Nat
<1> DEFINE range == i .. j
           A == Admitted(c, i, j)
<1>1. IsFiniteSet(range) /\ A \subseteq range
  BY FS_Interval DEF Admitted
<1> HIDE DEF range, A
<1>2. IsFiniteSet(A)
  BY <1>1, FS_Subset
<1>3. Cardinality(A) \in Nat
  BY <1>2, FS_CardinalityType
<1> QED
  BY <1>2, <1>3 DEF A

\* A hit is one more answer to its caller, or one more admission.
LEMMA AdmissionsGrow ==
    ASSUME TypeInv, NEW t \in Threads, Hit(t), NEW c \in Callers, c = thread[t].caller,
           NEW n, n = Len(log[c])
    PROVE  /\ \A i \in 1 .. n, j \in 1 .. n : Admitted(c, i, j)' = Admitted(c, i, j)
           /\ \A i \in 1 .. n :
                 Cardinality(Since(c, i)') =
                    IF Allowed(t) THEN Cardinality(Since(c, i)) + 1
                    ELSE Cardinality(Since(c, i))
           /\ Cardinality(Since(c, n + 1)') = IF Allowed(t) THEN 1 ELSE 0
<1>1. /\ n \in Nat /\ Len(log'[c]) = n + 1
      /\ log'[c][n + 1] = Answer(t)
      /\ \A i \in 1 .. n : log'[c][i] = log[c][i]
  BY LogEffect
<1>2. Answer(t).allowed = Allowed(t)
  BY DEF Answer
<1>3. \A i \in 1 .. n, j \in 1 .. n : Admitted(c, i, j)' = Admitted(c, i, j)
  BY <1>1 DEF Admitted
<1>4. ASSUME NEW i \in 1 .. n
      PROVE  Cardinality(Since(c, i)') = IF Allowed(t) THEN Cardinality(Since(c, i)) + 1
                                         ELSE Cardinality(Since(c, i))
  <2> DEFINE S == Since(c, i)
  <2>1. IsFiniteSet(S) /\ n + 1 \notin S
    <3>1. i \in Int /\ n \in Int
      BY <1>1
    <3>2. IsFiniteSet(Admitted(c, i, n))
      BY <3>1, AdmittedIsFinite
    <3>3. S \subseteq i .. n
      BY DEF Since, Admitted
    <3>4. n + 1 \notin i .. n
      BY <3>1
    <3> QED
      BY <3>2, <3>3, <3>4 DEF Since
  <2>2. Since(c, i)' = IF Allowed(t) THEN S \cup {n + 1} ELSE S
    <3>1. Since(c, i)' = {k \in i .. n + 1 : log'[c][k].allowed}
      BY <1>1 DEF Since, Admitted
    <3>2. S = {k \in i .. n : log[c][k].allowed}
      BY DEF Since, Admitted
    <3>3. \A k \in i .. n : log'[c][k] = log[c][k]
      BY <1>1
    <3>4. i .. n + 1 = (i .. n) \cup {n + 1} /\ n + 1 \notin i .. n
      BY <1>1
    <3> DEFINE old == i .. n
               all == i .. n + 1
               last == n + 1
    <3>5. /\ Since(c, i)' = {k \in all : log'[c][k].allowed}
          /\ S = {k \in old : log[c][k].allowed}
          /\ all = old \cup {last} /\ log'[c][last].allowed = Allowed(t)
          /\ \A k \in old : log'[c][k] = log[c][k]
      BY <1>1, <1>2, <3>1, <3>2, <3>3, <3>4
    <3> HIDE DEF S, old, all, last
    <3>6. Since(c, i)' = IF Allowed(t) THEN S \cup {last} ELSE S
      BY <3>5
    <3> QED
      BY <3>6 DEF last
  <2> HIDE DEF S
  <2>3. Cardinality(S \cup {n + 1}) = Cardinality(S) + 1
    BY <2>1, FS_AddElement
  <2> QED
    BY <2>2, <2>3 DEF S
<1>5. Since(c, n + 1)' = IF Allowed(t) THEN {n + 1} ELSE {}
  <2>1. Since(c, n + 1)' = {k \in n + 1 .. n + 1 : log'[c][k].allowed}
    <3>1. Since(c, n + 1)' = {k \in n + 1 .. Len(log'[c]) : log'[c][k].allowed}
      BY DEF Since, Admitted
    <3> QED
      BY <1>1, <3>1
  <2>2. n + 1 .. n + 1 = {n + 1}
    BY <1>1
  <2> QED
    BY <1>1, <1>2, <2>1, <2>2
<1>6. Cardinality({n + 1}) = 1 /\ Cardinality({}) = 0
  BY FS_Singleton, FS_EmptySet
<1> QED
  BY <1>3, <1>4, <1>5, <1>6

\* How much of the limit the window of a caller has used up.
Used(count) == IF count < Limit THEN count ELSE Limit

AnswersArePast ==
    \A c \in Callers : \A i \in DOMAIN log[c] : log[c][i].at <= clock

\* What came before the last Used answers that let a caller in reached the
\* table before its window began, or just after; and what came a whole limit
\* before these, a window ago.
WindowsFollow ==
    \A c \in DOMAIN hits : \A i \in DOMAIN log[c] :
        LET admissions == Cardinality(Since(c, i))
            used       == Used(hits[c].count)
        IN  /\ admissions > used => log[c][i].at <= hits[c].start + MaxWait
            /\ admissions > used + Limit => log[c][i].at + Window - MaxWait <= clock

\* A forgotten caller has had its window.
ForgottenHadTheirWindow ==
    \A c \in Callers \ DOMAIN hits : \A i \in DOMAIN log[c] :
        Cardinality(Since(c, i)) > Limit => log[c][i].at + Window - MaxWait <= clock

BurstInv ==
    /\ TypeInv
    /\ AnswersArePast
    /\ WindowsFollow
    /\ ForgottenHadTheirWindow
    /\ BurstBounded

\* The quantities the invariant compares are natural numbers.
LEMMA AnswersAreNumbers ==
    ASSUME TypeInv, NEW c \in Callers, NEW i \in DOMAIN log[c]
    PROVE  /\ i \in 1 .. Len(log[c]) /\ Len(log[c]) \in Nat
           /\ log[c][i].at \in Nat
           /\ Cardinality(Since(c, i)) \in Nat
<1>1. log[c] \in Seq(Entry)
  BY DEF TypeInv, TypeOK
<1>2. i \in 1 .. Len(log[c]) /\ Len(log[c]) \in Nat /\ log[c][i] \in Entry
  BY <1>1
<1>3. Cardinality(Since(c, i)) \in Nat
  BY <1>2, AdmittedIsFinite DEF Since
<1> QED
  BY <1>2, <1>3 DEF Entry

\* What WindowsFollow says of the caller of a hit, after it.
LEMMA HitFollows ==
    ASSUME BurstInv, NEW t \in Threads, Hit(t), NEW c \in Callers, c = thread[t].caller,
           NEW n, n = Len(log[c]), NEW i \in 1 .. n + 1
    PROVE  LET admissions == Cardinality(Since(c, i)')
               used       == Used(Landed(t).count)
           IN  /\ admissions > used => log'[c][i].at <= Landed(t).start + MaxWait
               /\ admissions > used + Limit
                     => log'[c][i].at + Window - MaxWait <= clock
<1> DEFINE m == thread[t].moment
           new == Cardinality(Since(c, i)')
           old == Cardinality(Since(c, i))
           used == Used(Landed(t).count)
           at == log[c][i].at
<1>1. TypeInv
  BY DEF BurstInv
<1>2. /\ m \in Nat /\ clock \in Nat /\ n \in Nat /\ Limit \in Nat \ {0}
      /\ Window \in Nat /\ MaxWait \in Nat
      /\ m <= clock /\ clock - m <= MaxWait
  BY <1>1, HitIsFresh, LogEffect, RateLimitAssumption
<1>3. Landed(t) \in [start : Nat, count : Nat \ {0}] /\ Allowed(t) = (Landed(t).count <= Limit)
  BY <1>1, LandedFacts DEF Allowed
<1>4. used >= 1 /\ used \in Nat
  BY <1>2, <1>3 DEF Used
<1>5. CASE i = n + 1
  <2>1. new = IF Allowed(t) THEN 1 ELSE 0
    BY <1>1, <1>5, AdmissionsGrow
  <2> HIDE DEF new, used
  <2>2. ~(new > used) /\ ~(new > used + Limit)
    BY <1>2, <1>4, <2>1
  <2> QED
    BY <2>2 DEF new, used
<1>6. CASE i # n + 1
  <2>1. i \in 1 .. n
    BY <1>2, <1>6
  <2>2. new = IF Allowed(t) THEN old + 1 ELSE old
    BY <1>1, <2>1, AdmissionsGrow
  <2>3. /\ i \in DOMAIN log[c] /\ at \in Nat /\ old \in Nat /\ log'[c][i].at = at
    <3>1. log'[c][i] = log[c][i] /\ log[c] \in Seq(Entry)
      BY <1>1, <2>1, LogEffect DEF TypeInv, TypeOK
    <3>2. i \in DOMAIN log[c]
      BY <2>1, <3>1
    <3> QED
      BY <1>1, <3>1, <3>2, AnswersAreNumbers
  <2>4. at <= clock
    BY <2>3 DEF BurstInv, AnswersArePast
  <2>5. CASE /\ c \in DOMAIN hits /\ hits[c] \in [start : Nat, count : Nat \ {0}]
             /\ Landed(t) = [start |-> hits[c].start, count |-> hits[c].count + 1]
    <3> DEFINE start == hits[c].start
               count == hits[c].count
    <3>1. /\ old > Used(count) => at <= start + MaxWait
          /\ old > Used(count) + Limit => at + Window - MaxWait <= clock
      BY <2>3, <2>5 DEF BurstInv, WindowsFollow
    <3>2. Landed(t).start = start /\ Landed(t).count = count + 1
          /\ start \in Nat /\ count \in Nat \ {0}
      BY <2>5
    <3>3. /\ new > used => old > Used(count)
          /\ new > used + Limit => old > Used(count) + Limit
      <4>1. used = Used(count + 1) /\ (Allowed(t) <=> count + 1 <= Limit)
        BY <1>3, <3>2
      <4>2. CASE count + 1 <= Limit
        <5>1. new = old + 1
          BY <2>2, <4>1, <4>2
        <5>2. used = count + 1 /\ Used(count) = count
          BY <1>2, <3>2, <4>1, <4>2 DEF Used
        <5> HIDE DEF new, old, start, count, used
        <5> QED
          BY <1>2, <2>3, <3>2, <5>1, <5>2
      <4>3. CASE ~(count + 1 <= Limit)
        <5>1. new = old
          BY <2>2, <4>1, <4>3
        <5>2. used = Limit /\ Used(count) = Limit
          BY <1>2, <3>2, <4>1, <4>3 DEF Used
        <5> HIDE DEF new, old, start, count, used
        <5> QED
          BY <5>1, <5>2
      <4> QED
        BY <4>2, <4>3
    <3> QED
      BY <2>3, <3>1, <3>2, <3>3
  <2>6. CASE /\ Landed(t) = [start |-> m, count |-> 1]
             /\ c \in DOMAIN hits => ~(m - hits[c].start < Window)
    <3>1. Landed(t).start = m /\ Landed(t).count = 1
      BY <2>6
    <3>2. at <= m + MaxWait
      <4> HIDE DEF at, m
      <4> QED
        BY <1>2, <2>3, <2>4
    <3>3. old > Limit => at + Window - MaxWait <= clock
      <4>1. CASE c \in DOMAIN hits
        <5> DEFINE start == hits[c].start
                   before == Used(hits[c].count)
        <5>1. hits[c] \in [start : Nat, count : Nat \ {0}]
          BY <1>1, <4>1, PruneKeeps
        <5>2. before <= Limit /\ before \in Nat /\ start \in Nat
          BY <1>2, <5>1 DEF Used
        <5>3. old > before => at <= start + MaxWait
          BY <2>3, <4>1 DEF BurstInv, WindowsFollow
        <5>4. ~(m - start < Window)
          BY <2>6, <4>1
        <5> HIDE DEF old, before, start, at, m
        <5> QED
          BY <1>2, <2>3, <5>2, <5>3, <5>4
      <4>2. CASE c \notin DOMAIN hits
        BY <2>3, <4>2 DEF BurstInv, ForgottenHadTheirWindow
      <4> QED
        BY <4>1, <4>2
    <3>4. used = 1 /\ new = old + 1
      <4>1. Used(1) = 1 /\ 1 <= Limit
        BY <1>2 DEF Used
      <4> QED
        BY <1>3, <2>2, <3>1, <4>1
    <3>5. new > used + Limit => old > Limit
      <4> HIDE DEF new, old, used
      <4> QED
        BY <1>2, <2>3, <3>4
    <3> QED
      BY <2>3, <3>1, <3>2, <3>3, <3>5
  <2> QED
    BY <1>1, <2>5, <2>6, OneWindowAtATime
<1> QED
  BY <1>5, <1>6

\* No two windows' worth of admissions within a window, once a hit has landed.
LEMMA BurstStep == BurstInv /\ [Next]_vars => BurstInv'
<1> SUFFICES ASSUME BurstInv, [Next]_vars
             PROVE  BurstInv'
  OBVIOUS
<1>1. TypeInv /\ TypeInv'
  BY TypeInvStep DEF BurstInv
<1>2. clock \in Nat /\ clock' \in Nat /\ clock <= clock'
      /\ Window \in Nat \ {0} /\ MaxWait \in Nat /\ Limit \in Nat \ {0}
  <2>1. clock \in Nat /\ clock' \in {clock, clock + 1}
    BY <1>1 DEF TypeInv, TypeOK, Next, Arrive, Hit, Tick, vars
  <2> QED
    BY <2>1, RateLimitAssumption
<1>3. ASSUME NEW t \in Threads, Hit(t)
      PROVE  AnswersArePast' /\ WindowsFollow' /\ ForgottenHadTheirWindow' /\ BurstBounded'
  <2> DEFINE c == thread[t].caller
             m == thread[t].moment
  <2>1. PICK n : n = Len(log[c])
    OBVIOUS
  <2>2. /\ c \in Callers /\ n \in Nat /\ m \in Nat /\ m <= clock /\ clock' = clock
    BY <1>1, <1>3, <2>1, HitIsFresh, LogEffect DEF Hit
  <2>3. /\ Len(log'[c]) = n + 1 /\ log'[c][n + 1].at = clock
        /\ \A i \in 1 .. n : log'[c][i] = log[c][i]
        /\ \A d \in Callers \ {c} : log'[d] = log[d]
    <3>1. Answer(t).at = clock
      BY DEF Answer
    <3> QED
      BY <1>1, <1>3, <2>1, <3>1, LogEffect
  <2>4. /\ DOMAIN log[c] = 1 .. n /\ DOMAIN log'[c] = 1 .. n + 1
        /\ \A i \in 1 .. n : log[c][i].at \in Nat /\ log[c][i].at <= clock
    <3>1. log[c] \in Seq(Entry) /\ log'[c] \in Seq(Entry)
      BY <1>1, <2>2 DEF TypeInv, TypeOK
    <3>2. DOMAIN log[c] = 1 .. n /\ DOMAIN log'[c] = 1 .. n + 1
      BY <2>1, <2>3, <3>1
    <3> QED
      BY <1>1, <2>2, <3>2, AnswersAreNumbers DEF BurstInv, AnswersArePast
  <2>5. /\ c \in DOMAIN hits' /\ hits'[c] = Landed(t)
        /\ \A k \in DOMAIN hits' \ {c} : k \in DOMAIN hits /\ hits'[k] = hits[k]
        /\ \A k \in DOMAIN hits \ DOMAIN hits' : ~(m - hits[k].start < Window)
    <3>1. hits' = [k \in DOMAIN Table(t) \cup {c} |->
                     IF k = c THEN Landed(t) ELSE Table(t)[k]]
      BY <1>1, <1>3, HitIsFresh DEF Hit
    <3> QED
      BY <1>1, <3>1, PruneKeeps, PruneForgetsTheDead
  <2>6. ASSUME NEW d \in Callers \ {c}, NEW i
        PROVE  Since(d, i)' = Since(d, i)
    BY <2>3 DEF Since, Admitted
  <2>7. AnswersArePast'
    <3> SUFFICES ASSUME NEW d \in Callers, NEW i \in DOMAIN log'[d]
                 PROVE  log'[d][i].at <= clock'
      BY DEF AnswersArePast
    <3>1. CASE d # c
      BY <2>2, <2>3, <3>1 DEF BurstInv, AnswersArePast
    <3>2. CASE d = c
      <4>1. CASE i = n + 1
        BY <1>2, <2>2, <2>3, <3>2, <4>1
      <4>2. CASE i # n + 1
        BY <2>2, <2>3, <2>4, <3>2, <4>2
      <4> QED
        BY <4>1, <4>2
    <3> QED
      BY <3>1, <3>2
  <2>8. WindowsFollow'
    <3> SUFFICES ASSUME NEW d \in DOMAIN hits', NEW i \in DOMAIN log'[d]
                 PROVE  LET admissions == Cardinality(Since(d, i)')
                            used       == Used(hits'[d].count)
                        IN  /\ admissions > used
                                  => log'[d][i].at <= hits'[d].start + MaxWait
                            /\ admissions > used + Limit
                                  => log'[d][i].at + Window - MaxWait <= clock'
      BY DEF WindowsFollow, Used
    <3>1. CASE d = c
      <4>1. i \in 1 .. n + 1
        BY <2>4, <3>1
      <4> QED
        BY <1>3, <2>1, <2>2, <2>5, <3>1, <4>1, HitFollows
    <3>2. CASE d # c
      <4>1. d \in DOMAIN hits /\ hits'[d] = hits[d] /\ d \in Callers
        BY <1>1, <2>5, <3>2 DEF TypeInv, WindowsHaveBegun
      <4>2. log'[d] = log[d] /\ Since(d, i)' = Since(d, i)
        BY <2>3, <2>6, <3>2, <4>1
      <4> QED
        BY <2>2, <4>1, <4>2 DEF BurstInv, WindowsFollow
    <3> QED
      BY <3>1, <3>2
  <2>9. ForgottenHadTheirWindow'
    <3> SUFFICES ASSUME NEW d \in Callers \ DOMAIN hits', NEW i \in DOMAIN log'[d],
                        Cardinality(Since(d, i)') > Limit
                 PROVE  log'[d][i].at + Window - MaxWait <= clock'
      BY DEF ForgottenHadTheirWindow
    <3>1. d # c /\ log'[d] = log[d] /\ Since(d, i)' = Since(d, i)
      BY <2>3, <2>5, <2>6
    <3>2. CASE d \notin DOMAIN hits
      BY <2>2, <3>1, <3>2 DEF BurstInv, ForgottenHadTheirWindow
    <3>3. CASE d \in DOMAIN hits
      <4> DEFINE start == hits[d].start
                 used == Used(hits[d].count)
                 at == log[d][i].at
                 admissions == Cardinality(Since(d, i))
      <4>1. hits[d] \in [start : Nat, count : Nat \ {0}]
        BY <1>1, <3>3, PruneKeeps
      <4>2. start \in Nat /\ used \in Nat /\ used <= Limit
        BY <1>2, <4>1 DEF Used
      <4>3. at \in Nat /\ admissions \in Nat /\ i \in DOMAIN log[d]
        BY <1>1, <3>1, AnswersAreNumbers
      <4>4. admissions > used => at <= start + MaxWait
        BY <3>3, <4>3 DEF BurstInv, WindowsFollow
      <4>5. ~(m - start < Window)
        BY <2>5, <3>3
      <4>6. admissions > Limit
        BY <3>1
      <4> HIDE DEF start, used, at, admissions, m
      <4>7. at + Window - MaxWait <= clock
        BY <1>2, <2>2, <4>2, <4>3, <4>4, <4>5, <4>6
      <4> QED
        BY <2>2, <3>1, <4>7 DEF at
    <3> QED
      BY <3>2, <3>3
  <2>10. BurstBounded'
    <3> SUFFICES ASSUME NEW d \in Callers, NEW i \in DOMAIN log'[d], NEW j \in DOMAIN log'[d],
                        Cardinality(Admitted(d, i, j)') > 2 * Limit
                 PROVE  log'[d][j].at - log'[d][i].at >= Window - MaxWait
      BY DEF BurstBounded
    <3>1. CASE d # c
      <4>1. log'[d] = log[d] /\ Admitted(d, i, j)' = Admitted(d, i, j)
        BY <2>3, <3>1 DEF Admitted
      <4> QED
        BY <4>1 DEF BurstInv, BurstBounded
    <3>2. CASE d = c /\ i \in 1 .. n /\ j \in 1 .. n
      <4>1. Admitted(d, i, j)' = Admitted(d, i, j)
        BY <1>1, <1>3, <2>1, <2>2, <3>2, AdmissionsGrow
      <4>2. i \in DOMAIN log[d] /\ j \in DOMAIN log[d]
            /\ log'[d][i] = log[d][i] /\ log'[d][j] = log[d][j]
        BY <2>3, <2>4, <3>2
      <4> QED
        BY <4>1, <4>2 DEF BurstInv, BurstBounded
    <3>3. CASE d = c /\ j = n + 1
      <4> DEFINE used == Used(Landed(t).count)
                 admissions == Cardinality(Since(d, i)')
                 at == log'[d][i].at
      <4>1. i \in 1 .. n + 1
        BY <2>4, <3>3
      <4>2. admissions > used + Limit => at + Window - MaxWait <= clock
        BY <1>3, <2>1, <2>2, <3>3, <4>1, HitFollows
      <4>3. Since(d, i)' = Admitted(d, i, j)'
        BY <2>3, <3>3 DEF Since, Admitted
      <4>4. Landed(t) \in [start : Nat, count : Nat \ {0}]
        BY <1>1, <1>3, LandedFacts
      <4>5. used \in Nat /\ used <= Limit
        BY <1>2, <4>4 DEF Used
      <4>6. admissions \in Nat
        <5>1. i \in Int /\ n + 1 \in Int
          BY <2>2, <4>1
        <5>2. admissions \in {0, 1} \cup Nat
          <6>1. CASE i \in 1 .. n
            <7>1. i \in DOMAIN log[c]
              BY <2>4, <6>1
            <7>2. Cardinality(Since(c, i)) \in Nat
              BY <1>1, <2>2, <7>1, AnswersAreNumbers
            <7> QED
              BY <1>1, <1>3, <2>1, <2>2, <3>3, <6>1, <7>2, AdmissionsGrow
          <6>2. CASE i = n + 1
            BY <1>1, <1>3, <2>1, <2>2, <3>3, <6>2, AdmissionsGrow
          <6> QED
            BY <2>2, <4>1, <6>1, <6>2
        <5> QED
          BY <5>2
      <4>7. at \in Nat
        <5>1. CASE i \in 1 .. n
          BY <2>3, <2>4, <3>3, <5>1
        <5>2. CASE i = n + 1
          BY <1>2, <2>3, <3>3, <5>2
        <5> QED
          BY <2>2, <4>1, <5>1, <5>2
      <4>8. log'[d][j].at = clock /\ admissions > 2 * Limit
        BY <2>3, <3>3, <4>3
      <4> HIDE DEF used, admissions, at
      <4>9. clock - at >= Window - MaxWait
        BY <1>2, <4>2, <4>5, <4>6, <4>7, <4>8
      <4> QED
        BY <4>8, <4>9 DEF at
    <3>4. CASE d = c /\ i = n + 1 /\ j \in 1 .. n
      <4>1. i .. j = {}
        BY <2>2, <3>4
      <4>2. Admitted(d, i, j)' = {}
        BY <4>1 DEF Admitted
      <4>3. Cardinality(Admitted(d, i, j)') = 0
        BY <4>2, FS_EmptySet
      <4> QED
        BY <1>2, <4>3
    <3>5. d = c => i \in 1 .. n + 1 /\ j \in 1 .. n + 1
      BY <2>4
    <3> QED
      BY <2>2, <3>1, <3>2, <3>3, <3>4, <3>5
  <2> QED
    BY <2>7, <2>8, <2>9, <2>10
<1>4. CASE UNCHANGED <<hits, log>>
  <2>1. ASSUME NEW c, NEW i, NEW j
        PROVE  Since(c, i)' = Since(c, i) /\ Admitted(c, i, j)' = Admitted(c, i, j)
    BY <1>4 DEF Since, Admitted
  <2>2. hits' = hits /\ log' = log
    BY <1>4
  <2>3. ASSUME NEW c \in Callers, NEW i \in DOMAIN log[c]
        PROVE  log[c][i].at \in Nat /\ log[c][i].at + Window - MaxWait \in Int
    BY <1>1, <1>2, AnswersAreNumbers
  <2>4. AnswersArePast'
    BY <1>2, <2>2, <2>3 DEF BurstInv, AnswersArePast
  <2>5. WindowsFollow'
    <3> SUFFICES ASSUME NEW c \in DOMAIN hits, NEW i \in DOMAIN log[c]
                 PROVE  LET admissions == Cardinality(Since(c, i))
                            used       == Used(hits[c].count)
                        IN  /\ admissions > used => log[c][i].at <= hits[c].start + MaxWait
                            /\ admissions > used + Limit
                                  => log[c][i].at + Window - MaxWait <= clock'
      BY <2>1, <2>2 DEF WindowsFollow, Used
    <3>1. c \in Callers
      BY <1>1 DEF TypeInv, WindowsHaveBegun
    <3>2. log[c][i].at + Window - MaxWait \in Int
      BY <2>3, <3>1
    <3> QED
      BY <1>2, <3>2 DEF BurstInv, WindowsFollow
  <2>6. ForgottenHadTheirWindow'
    <3> SUFFICES ASSUME NEW c \in Callers \ DOMAIN hits, NEW i \in DOMAIN log[c],
                        Cardinality(Since(c, i)) > Limit
                 PROVE  log[c][i].at + Window - MaxWait <= clock'
      BY <2>1, <2>2 DEF ForgottenHadTheirWindow
    <3>1. log[c][i].at + Window - MaxWait \in Int
      BY <2>3
    <3> QED
      BY <1>2, <3>1 DEF BurstInv, ForgottenHadTheirWindow
  <2>7. BurstBounded'
    BY <2>1, <2>2 DEF BurstInv, BurstBounded
  <2> QED
    BY <1>1, <2>4, <2>5, <2>6, <2>7 DEF BurstInv
<1>5. (\E t \in Threads : Hit(t)) \/ UNCHANGED <<hits, log>>
  BY DEF Next, Arrive, Tick, vars
<1> QED
  BY <1>1, <1>3, <1>4, <1>5 DEF BurstInv

\* The burst of the docstring and no more: BurstBounded for every limit, window,
\* wait for the lock, pruning threshold, number of callers and schedule.
THEOREM BurstsAreBounded == Spec => []BurstBounded
<1>1. Init => BurstInv
  <2> SUFFICES ASSUME Init
               PROVE  BurstInv
    OBVIOUS
  <2>1. DOMAIN hits = {} /\ \A c \in Callers : DOMAIN log[c] = {}
    BY DEF Init
  <2> QED
    BY <2>1, TypeInvInit
       DEF BurstInv, AnswersArePast, WindowsFollow, ForgottenHadTheirWindow, BurstBounded
<1>2. BurstInv => BurstBounded
  BY DEF BurstInv
<1> QED
  BY <1>1, <1>2, BurstStep, PTL DEF Spec

=============================================================================
