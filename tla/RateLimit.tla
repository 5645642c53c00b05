----------------------------- MODULE RateLimit -----------------------------
(***************************************************************************)
(* One FixedWindowLimiter of app/rate_limit.py behind its dependency.  The *)
(* endpoints it guards run in a thread pool.  A thread reads the monotonic *)
(* clock first and takes the lock afterwards, so hits reach the table out  *)
(* of the order of their readings.  Time is in ticks, finer than the       *)
(* seconds of Retry-After.                                                 *)
(***************************************************************************)
EXTENDS Integers, Sequences, FiniteSets

CONSTANTS
    Addresses, \* network addresses
    Callers,   \* those of the callers
    Sent,      \* X-Forwarded-For headers callers send: sequences of addresses
    Proxies,   \* the trusted proxies a request passes, nearest to the caller first
    Threads,   \* the worker threads
    Limit,     \* limit
    Window,    \* window_seconds, in ticks
    Second,    \* ticks in a second
    PruneAt,   \* _PRUNE_AT
    MaxWait,   \* how long a thread waits for the lock
    MaxClock,  \* bound on the clock
    MaxHits    \* bound on the requests of each caller

ASSUME RateLimitAssumption ==
    /\ Callers \subseteq Addresses
    /\ Sent \subseteq Seq(Addresses)
    /\ Proxies \in Seq(Addresses)
    /\ Limit \in Nat \ {0}
    /\ Window \in Nat \ {0} /\ Second \in Nat \ {0}
    /\ PruneAt \in Nat /\ MaxWait \in Nat
    /\ MaxClock \in Nat /\ MaxHits \in [Callers -> Nat]

VARIABLES
    clock,
    hits,    \* _hits: key -> window start and hits so far
    thread,  \* threads between the reading of the clock and the lock
    log      \* for each caller, the answers it got, oldest first

vars == <<clock, hits, thread, log>>

----------------------------------------------------------------------------

TrustedProxyDepth == Len(Proxies)

\* The peer and the header of a request: every proxy appends the address it
\* was reached from, and the last one is the peer.
Path(caller) == <<caller>> \o Proxies
Peer(caller) == Path(caller)[TrustedProxyDepth + 1]
Hops(caller, sent) == sent \o SubSeq(Path(caller), 1, TrustedProxyDepth)

\* Faulty variant: the first entry of the header is believed.
FirstHop(peer, hops) == IF hops = << >> THEN peer ELSE hops[1]

\* client_ip: the entry TrustedProxyDepth from the right, or the peer.
ClientIp(peer, hops) ==
    IF TrustedProxyDepth = 0 \/ Len(hops) < TrustedProxyDepth
    THEN peer
    ELSE hops[Len(hops) - TrustedProxyDepth + 1]

\* Faulty variant: the wait is rounded down.
Floor(ticks) == ticks \div Second

\* math.ceil, from ticks to seconds.
Ceil(ticks) == (ticks + Second - 1) \div Second

Pruned(moment) ==
    IF Cardinality(DOMAIN hits) < PruneAt
    THEN hits
    ELSE [k \in {q \in DOMAIN hits : moment - hits[q].start < Window} |-> hits[k]]

\* Faulty variant: the count survives the end of its window.
WindowKeepsCount(table, key, moment) ==
    IF key \in DOMAIN table
    THEN IF moment - table[key].start < Window
         THEN table[key]
         ELSE [table[key] EXCEPT !.start = moment]
    ELSE [start |-> moment, count |-> 0]

\* The window a hit falls into, with the hits before it.
WindowOf(table, key, moment) ==
    IF key \in DOMAIN table /\ moment - table[key].start < Window
    THEN table[key]
    ELSE [start |-> moment, count |-> 0]

\* Faulty variant: the end of the window is told instead of the time to it.
RetryAtEnd(moment, start) == Ceil(Window + start)

\* How long a refused caller is told to wait.
RetryAfter(moment, start) ==
    LET seconds == Ceil(Window - (moment - start))
    IN  IF seconds < 1 THEN 1 ELSE seconds

Counted(window) == [window EXCEPT !.count = @ + 1]

----------------------------------------------------------------------------

Idle == [pc |-> "idle"]

Init ==
    /\ clock = 0
    /\ hits = << >>
    /\ thread = [t \in Threads |-> Idle]
    /\ log = [c \in Callers |-> << >>]

Requests == {t \in Threads : thread[t].pc = "waiting"}

Of(caller) == {t \in Requests : thread[t].caller = caller}

\* dependency, up to the reading of the clock in hit.
Arrive(t, caller, sent) ==
    /\ thread[t].pc = "idle"
    /\ Len(log[caller]) + Cardinality(Of(caller)) < MaxHits[caller]
    /\ thread' = [thread EXCEPT ![t] =
           [pc |-> "waiting", caller |-> caller, moment |-> clock,
            key |-> ClientIp(Peer(caller), Hops(caller, sent))]]
    /\ UNCHANGED <<clock, hits, log>>

\* What thread t finds and decides under the lock.
Table(t)  == Pruned(thread[t].moment)
Landed(t) == Counted(WindowOf(Table(t), thread[t].key, thread[t].moment))
Allowed(t) == Landed(t).count <= Limit

Answer(t) ==
    [moment |-> thread[t].moment, at |-> clock, allowed |-> Allowed(t),
     retry  |-> IF Allowed(t) THEN 0
                ELSE RetryAfter(thread[t].moment, Landed(t).start)]

\* hit under the lock, and the answer of dependency.
Hit(t) ==
    /\ thread[t].pc = "waiting"
    /\ hits' = [k \in DOMAIN Table(t) \cup {thread[t].key} |->
                  IF k = thread[t].key THEN Landed(t) ELSE Table(t)[k]]
    /\ log' = [log EXCEPT ![thread[t].caller] = Append(@, Answer(t))]
    /\ thread' = [thread EXCEPT ![t] = Idle]
    /\ UNCHANGED clock

\* Nobody waits for the lock longer than MaxWait.
Tick ==
    /\ clock < MaxClock
    /\ \A t \in Requests : clock - thread[t].moment < MaxWait
    /\ clock' = clock + 1
    /\ UNCHANGED <<hits, thread, log>>

Next ==
    \/ \E t \in Threads, c \in Callers, s \in Sent : Arrive(t, c, s)
    \/ \E t \in Threads : Hit(t)
    \/ Tick

Spec == Init /\ [][Next]_vars

----------------------------------------------------------------------------

Keys == Addresses

Entry == [moment : Nat, at : Nat, allowed : BOOLEAN,
          retry : 0 .. Ceil(Window + MaxWait)]

\* Types.  In particular Retry-After never exceeds the window by more than a
\* thread waits for the lock.  The comment at rate_limit.py:103-104 says "never
\* past the window", but a thread that read the clock before the one that
\* opened the window is told more.
TypeOK ==
    /\ clock \in Nat
    /\ DOMAIN hits \subseteq Keys
    /\ hits \in [DOMAIN hits -> [start : Nat, count : Nat \ {0}]]
    /\ thread \in [Threads -> {Idle} \cup
           [pc : {"waiting"}, caller : Callers, moment : Nat, key : Keys]]
    /\ log \in [Callers -> Seq(Entry)]

\* A caller who was refused, waits as long as Retry-After says and has sent
\* nothing else meanwhile is let in, whatever other callers do and however the
\* threads are scheduled (rate_limit.py:102-105).
RetryIsHonest ==
    \A c \in Callers : \A i \in 1 .. Len(log[c]) - 1 :
        LET refusal == log[c][i]
            retry   == log[c][i + 1]
        IN  ~refusal.allowed /\ retry.moment >= refusal.at + Second * refusal.retry
            => retry.allowed

\* Those of the i-th to the j-th answer to a caller that let it in.
Admitted(c, i, j) == {k \in i .. j : log[c][k].allowed}

\* The burst the docstring admits (rate_limit.py:32-34) and no more: a caller
\* gets at most twice the limit through in any stretch shorter than the window
\* by the wait of a thread for the lock.  It needs the table to keep a live
\* window when it is pruned, and a caller to be one key whatever it sends.
BurstBounded ==
    \A c \in Callers : \A i, j \in DOMAIN log[c] :
        Cardinality(Admitted(c, i, j)) > 2 * Limit
            => log[c][j].at - log[c][i].at >= Window - MaxWait

\* A caller is refused for its own requests only: as many as the limit reached
\* the table shortly before (rate_limit.py:13, 96-97).
RefusedForCause ==
    \A c \in Callers : \A i \in DOMAIN log[c] :
        log[c][i].allowed
        \/ /\ i > Limit
           /\ log[c][i - Limit].at > log[c][i].at - Window - MaxWait

============================================================================
