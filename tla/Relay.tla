------------------------------- MODULE Relay -------------------------------
(***************************************************************************)
(* The calendar as the application reaches it: through the relay of        *)
(* relay/, by app/adapters/calendar_relay.py, or directly, by              *)
(* app/adapters/calendar_google.py.  A call may fail before or after it    *)
(* took effect, and a request its caller has given up may arrive late.     *)
(* freebusy changes nothing and is left out.                               *)
(***************************************************************************)
EXTENDS Integers

CONSTANTS
    Refs,        \* one for every event the application asks for
    Threads,     \* of the application: requests, tasks, the sweeper
    Nobody,      \* the caller of a request that has been given up
    Deployments, \* settings.calendar_gateway: "relay", "google"
    Skews,       \* what the application's clock may be ahead of the relay's
    MaxSkew,     \* MAX_SKEW_SECONDS
    MaxClock     \* bound on the clock

ASSUME RelayAssumption ==
    /\ Nobody \notin Threads
    /\ Deployments \subseteq {"relay", "google"}
    /\ Skews \subseteq Int
    /\ MaxSkew \in Nat /\ MaxClock \in Nat

VARIABLES
    deployment,
    skew,
    clock,    \* of the relay
    event,    \* Google's calendar
    thread,   \* the call of each thread
    requests, \* requests on their way, to the relay or to Google
    asked,    \* for each event, the operations called
    told      \* and those of which a call has returned

vars == <<deployment, skew, clock, event, thread, requests, asked, told>>

Ops == {"create", "confirm", "release"}

Idle == [pc |-> "idle"]

Init ==
    /\ deployment \in Deployments /\ skew \in Skews /\ clock = 0
    /\ event = [r \in Refs |-> "none"]
    /\ thread = [t \in Threads |-> Idle]
    /\ requests = {}
    /\ asked = [r \in Refs |-> {}]
    /\ told = [r \in Refs |-> {}]

----------------------------------------------------------------------------
\* The application.

\* An event is created once, confirmed once by the task that finalizes its
\* booking, and released until the release returns; the id is known only when
\* the call that created it has returned.
MayAsk(op, r) ==
    \/ op = "create"  /\ "create" \notin asked[r]
    \/ op = "confirm" /\ "create" \in told[r] /\ "confirm" \notin asked[r]
    \/ op = "release" /\ "create" \in told[r] /\ "release" \notin told[r]

\* _request; only the relay checks a timestamp.
Send(t, op, r) ==
    /\ thread[t].pc = "idle"
    /\ MayAsk(op, r)
    /\ thread' = [thread EXCEPT ![t] = [pc |-> "waiting", op |-> op, ref |-> r]]
    /\ requests' = requests \cup
           {[by |-> t, op |-> op, ref |-> r, signed |-> clock + skew,
             passed |-> deployment = "google"]}
    /\ asked' = [asked EXCEPT ![r] = @ \cup {op}]
    /\ UNCHANGED <<deployment, skew, clock, event, told>>

\* The call returns or raises CalendarGatewayError.
Receive(t) ==
    /\ thread[t].pc = "answered"
    /\ told' = IF thread[t].returns
               THEN [told EXCEPT ![thread[t].ref] = @ \cup {thread[t].op}]
               ELSE told
    /\ thread' = [thread EXCEPT ![t] = Idle]
    /\ UNCHANGED <<deployment, skew, clock, event, requests, asked>>

\* Faulty variant: the late answer goes to the next call of the thread.
GiveUpOwned(t) ==
    /\ thread[t].pc \in {"waiting", "answered"}
    /\ thread' = [thread EXCEPT ![t] = Idle]
    /\ UNCHANGED <<deployment, skew, clock, event, requests, asked, told>>

\* A timeout or a lost connection: the request, if it is still on its way, is
\* lost or goes on without a caller.
GiveUp(t) ==
    LET own == {q \in requests : q.by = t}
    IN  /\ thread[t].pc \in {"waiting", "answered"}
        /\ thread' = [thread EXCEPT ![t] = Idle]
        /\ \E late \in SUBSET own :
               requests' = (requests \ own) \cup {[q EXCEPT !.by = Nobody] : q \in late}
        /\ UNCHANGED <<deployment, skew, clock, event, asked, told>>

----------------------------------------------------------------------------
\* The relay and Google.

Answer(q, returns) ==
    IF q.by = Nobody
    THEN thread
    ELSE [thread EXCEPT ![q.by] =
             [pc |-> "answered", op |-> q.op, ref |-> q.ref, returns |-> returns]]

\* Faulty variant: a skew of exactly the limit is too much.
FreshBelow(signed) == clock - signed < MaxSkew /\ signed - clock < MaxSkew

Fresh(signed) == clock - signed <= MaxSkew /\ signed - clock <= MaxSkew

\* require_relay_auth lets a request pass, or answers it with 401.
Admit(q) ==
    /\ ~q.passed /\ Fresh(q.signed)
    /\ requests' = (requests \ {q}) \cup {[q EXCEPT !.passed = TRUE]}
    /\ UNCHANGED <<deployment, skew, clock, event, thread, asked, told>>

Reject(q) ==
    /\ ~q.passed /\ ~Fresh(q.signed)
    /\ requests' = requests \ {q}
    /\ thread' = Answer(q, FALSE)
    /\ UNCHANGED <<deployment, skew, clock, event, asked, told>>

Up(state) == state \in {"hold", "confirmed"}

Outcome == [create |-> "hold", confirm |-> "confirmed", release |-> "gone"]

Effect(op, state) ==
    IF op = "create" \/ Up(state) THEN Outcome[op] ELSE state

\* An event that is gone has been deleted (410) or was forgotten (404), and
\* no call brings it back.
Statuses(op, state) ==
    IF op = "create" \/ Up(state) THEN {"ok", "failed"} ELSE {"404", "410", "failed"}

\* Faulty variant: a release counts as done whatever Google says.
AnswerDone(op, status) == IF op = "release" \/ status = "ok" THEN "ok" ELSE "502"

\* patch_event and delete_event take 404 for success, and nothing else.
RelayAnswer(op, status) ==
    IF status = "ok" \/ (op # "create" /\ status = "404") THEN "ok" ELSE "502"

RelayReturns(op, answer) == answer = "ok" \/ (op = "release" /\ answer = "404")

\* Faulty variant: a deleted event is no released one.
NotFoundOnly == {"404"}

ReleasedStatuses == {"404", "410"}

GoogleReturns(op, status) ==
    status = "ok" \/ (op = "release" /\ status \in ReleasedStatuses)

Returns(op, status) ==
    IF deployment = "relay"
    THEN RelayReturns(op, RelayAnswer(op, status))
    ELSE GoogleReturns(op, status)

\* Google carries a request out; "failed" is any failure, before the effect
\* or after it.
Execute(q, status, effective) ==
    /\ q.passed
    /\ status \in Statuses(q.op, event[q.ref])
    /\ status = "failed" \/ effective
    /\ event' = IF effective
                THEN [event EXCEPT ![q.ref] = Effect(q.op, @)]
                ELSE event
    /\ requests' = requests \ {q}
    /\ thread' = Answer(q, Returns(q.op, status))
    /\ UNCHANGED <<deployment, skew, clock, asked, told>>

\* The owner deletes the event by hand.
OwnerDeletes(r) ==
    /\ Up(event[r])
    /\ event' = [event EXCEPT ![r] = "gone"]
    /\ UNCHANGED <<deployment, skew, clock, thread, requests, asked, told>>

Tick ==
    /\ clock < MaxClock
    /\ clock' = clock + 1
    /\ UNCHANGED <<deployment, skew, event, thread, requests, asked, told>>

----------------------------------------------------------------------------

Next ==
    \/ \E t \in Threads :
          \/ \E op \in Ops, r \in Refs : Send(t, op, r)
          \/ Receive(t) \/ GiveUp(t)
    \/ \E q \in requests :
          \/ Admit(q) \/ Reject(q)
          \/ \E s \in {"ok", "failed", "404", "410"}, e \in BOOLEAN : Execute(q, s, e)
    \/ \E r \in Refs : OwnerDeletes(r)
    \/ Tick

Spec == Init /\ [][Next]_vars

\* The sweeper's calls of release, for one event.
Releases(r) ==
    {q \in requests : q.op = "release" /\ q.ref = r /\ q.by # Nobody}

\* Thread t has the answer that the event of r is released.
Released(t, r) ==
    thread[t] = [pc |-> "answered", op |-> "release", ref |-> r, returns |-> TRUE]

\* A call ends, by a timeout if nothing else.  The sweeper calls release again
\* until it returns (tasks.py:98-105), and neither the network nor the relay
\* nor Google fails for ever.  (A release by a request that fails or cancels is
\* not repeated; Booking has what follows from that.)
Fairness ==
    /\ \A t \in Threads : WF_vars(Receive(t) \/ GiveUp(t))
    /\ \A r \in Refs :
          /\ SF_vars(\E t \in Threads : "release" \in asked[r] /\ Send(t, "release", r))
          /\ SF_vars(\E q \in Releases(r) : Admit(q) \/ Reject(q))
          /\ SF_vars(\E q \in Releases(r), s \in {"ok", "404", "410"} : Execute(q, s, TRUE))
          /\ SF_vars(\E t \in Threads : Released(t, r) /\ Receive(t))

FairSpec == Spec /\ Fairness

----------------------------------------------------------------------------

Request ==
    [by : Threads \cup {Nobody}, op : Ops, ref : Refs, signed : Int, passed : BOOLEAN]

\* Types; and the answer to a request goes to the call that sent it.
TypeOK ==
    /\ deployment \in {"relay", "google"} /\ skew \in Int /\ clock \in Nat
    /\ event \in [Refs -> {"none", "hold", "confirmed", "gone"}]
    /\ thread \in [Threads -> {Idle}
           \cup [pc : {"waiting"}, op : Ops, ref : Refs]
           \cup [pc : {"answered"}, op : Ops, ref : Refs, returns : BOOLEAN]]
    /\ requests \subseteq Request
    /\ asked \in [Refs -> SUBSET Ops] /\ told \in [Refs -> SUBSET Ops]
    /\ \A q \in requests :
           q.by # Nobody => thread[q.by] = [pc |-> "waiting", op |-> q.op, ref |-> q.ref]

\* Either gateway keeps the promise of the port: in spite of late requests,
\* timeouts and an owner who deletes events, nothing that a call which has
\* returned did is undone or done again (app/ports/calendar.py:24-50).
Port == INSTANCE CalendarPort
ImplementsPort == Port!Spec

\* An event that the sweeper releases leaves the calendar, although calls
\* fail, time out and are refused for a clock ahead or behind (auth.py:64).
HoldsComeDown ==
    \A r \in Refs : "release" \in asked[r] ~> event[r] = "gone"

\* "release is idempotent ... release is retried, so turning it into an error
\* would make retries fail" (calendar_relay.py:9-10; relay/main.py:7-9): the
\* retries of a release end.  Without a relay they do, since an event that is
\* gone counts as released (calendar_google.py:189); through the relay they do
\* not, see the README.
DirectReleasesEnd ==
    deployment = "google" =>
        \A r \in Refs : "release" \in asked[r] ~> "release" \in told[r]

=============================================================================
