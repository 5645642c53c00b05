----------------------------- MODULE RelayProofs -----------------------------
(* Theorems about Relay: types, and that it implements CalendarPort. *)
EXTENDS Relay, TLAPS

\* A thread has one request on its way at most.
OneRequest ==
    \A p, q \in requests : p.by = q.by /\ p.by # Nobody => p = q

\* A request to create an event is the only one for its event, which does not
\* exist yet; nothing happens to an event before that.
CreatedOnce ==
    /\ \A q \in requests :
          IF q.op = "create"
          THEN "create" \in asked[q.ref] /\ event[q.ref] = "none"
          ELSE event[q.ref] # "none"
    /\ \A p, q \in requests :
          p.op = "create" /\ q.op = "create" /\ p.ref = q.ref => p = q
    /\ \A r \in Refs : "create" \notin asked[r] => event[r] = "none"

\* An answer that makes a call return is true, and stays so.
AnswersAreTrue ==
    \A t \in Threads :
        thread[t].pc = "answered" /\ thread[t].returns
        => event[thread[t].ref] \in Port!Effective[thread[t].op]

\* So is what the application has been told.
ToldIsTrue ==
    \A r \in Refs : \A op \in told[r] : event[r] \in Port!Effective[op]

Inv == TypeOK /\ OneRequest /\ CreatedOnce /\ AnswersAreTrue /\ ToldIsTrue

----------------------------------------------------------------------------

\* An event only moves forward, so what is true of it once stays true.
LEMMA EffectMovesOn ==
    ASSUME NEW op \in Ops, NEW o \in Ops,
           NEW state \in {"none", "hold", "confirmed", "gone"},
           op = "create" <=> state = "none",
           state \in Port!Effective[o]
    PROVE  Effect(op, state) \in Port!Effective[o]
BY DEF Effect, Outcome, Up, Ops, Port!Effective

\* A call that returns has taken effect.
LEMMA ReturnsAfterEffect ==
    ASSUME NEW op \in Ops, NEW state \in {"none", "hold", "confirmed", "gone"},
           NEW status \in Statuses(op, state), NEW effective \in BOOLEAN,
           deployment \in {"relay", "google"},
           op = "create" <=> state = "none",
           status = "failed" \/ effective,
           Returns(op, status)
    PROVE  (IF effective THEN Effect(op, state) ELSE state) \in Port!Effective[op]
<1>1. status # "failed"
  BY DEF Returns, RelayReturns, RelayAnswer, GoogleReturns, ReleasedStatuses
<1>2. effective
  BY <1>1
<1>3. CASE op = "create"
  BY <1>2, <1>3 DEF Effect, Outcome, Port!Effective
<1>4. CASE op = "confirm"
  <2>1. state \in {"hold", "confirmed", "gone"}
    BY <1>4
  <2> QED
    BY <1>2, <1>4, <2>1 DEF Effect, Outcome, Up, Port!Effective
<1>5. CASE op = "release"
  <2>1. state \in {"hold", "confirmed", "gone"}
    BY <1>5
  <2> QED
    BY <1>2, <1>5, <2>1 DEF Effect, Outcome, Up, Port!Effective
<1> QED
  BY <1>3, <1>4, <1>5 DEF Ops

\* A call that was not the first to create an event knows that it was created.
LEMMA AskedAfterCreation ==
    ASSUME Inv, NEW r \in Refs, NEW op \in Ops, op # "create", MayAsk(op, r)
    PROVE  event[r] # "none"
<1>1. "create" \in told[r]
  BY DEF MayAsk, Ops
<1>2. event[r] \in Port!Effective["create"]
  BY <1>1 DEF Inv, ToldIsTrue
<1> QED
  BY <1>2 DEF Port!Effective

\* The type of the thread after an answer, and what becomes of the others.
LEMMA AnswerIsTyped ==
    ASSUME Inv, NEW q \in requests, NEW returns \in BOOLEAN,
           thread' = Answer(q, returns)
    PROVE  /\ thread' \in [Threads -> {Idle}
                 \cup [pc : {"waiting"}, op : Ops, ref : Refs]
                 \cup [pc : {"answered"}, op : Ops, ref : Refs, returns : BOOLEAN]]
           /\ \A t \in Threads : t # q.by => thread'[t] = thread[t]
           /\ q.by # Nobody =>
                thread'[q.by] = [pc |-> "answered", op |-> q.op, ref |-> q.ref,
                                 returns |-> returns]
<1>1. q \in Request
  BY DEF Inv, TypeOK
<1>2. CASE q.by = Nobody
  BY <1>1, <1>2, RelayAssumption DEF Inv, TypeOK, Answer
<1>3. CASE q.by # Nobody
  <2>1. q.by \in Threads /\ q.op \in Ops /\ q.ref \in Refs
    BY <1>1, <1>3 DEF Request
  <2> QED
    BY <1>3, <2>1 DEF Inv, TypeOK, Answer
<1> QED
  BY <1>2, <1>3

----------------------------------------------------------------------------
\* One lemma per action.

LEMMA SendKeepsInv ==
    ASSUME Inv, NEW t \in Threads, NEW op \in Ops, NEW r \in Refs, Send(t, op, r)
    PROVE  Inv'
<1> DEFINE q == [by |-> t, op |-> op, ref |-> r, signed |-> clock + skew,
                 passed |-> deployment = "google"]
<1>1. q \in Request /\ requests' = requests \cup {q}
  BY DEF Send, Inv, TypeOK, Request
<1>2. thread[t].pc = "idle" /\ \A p \in requests : p.by # t
  <2>1. thread[t].pc = "idle"
    BY DEF Send
  <2>2. ASSUME NEW p \in requests, p.by = t PROVE FALSE
    <3>1. thread[t] = [pc |-> "waiting", op |-> p.op, ref |-> p.ref]
      BY <2>2, RelayAssumption DEF Inv, TypeOK
    <3> QED
      BY <2>1, <3>1
  <2> QED
    BY <2>1, <2>2
<1>3. /\ thread' = [thread EXCEPT ![t] = [pc |-> "waiting", op |-> op, ref |-> r]]
      /\ asked' = [asked EXCEPT ![r] = @ \cup {op}]
      /\ UNCHANGED <<deployment, skew, clock, event, told>>
  BY DEF Send
<1>4. /\ thread \in [Threads -> {Idle}
            \cup [pc : {"waiting"}, op : Ops, ref : Refs]
            \cup [pc : {"answered"}, op : Ops, ref : Refs, returns : BOOLEAN]]
      /\ asked \in [Refs -> SUBSET Ops]
  BY DEF Inv, TypeOK
<1>5. TypeOK'
  <2>1. \A p \in requests' :
           p.by # Nobody => thread'[p.by] = [pc |-> "waiting", op |-> p.op, ref |-> p.ref]
    BY <1>1, <1>2, <1>3, <1>4 DEF Inv, TypeOK, Request
  <2>2. thread' \in [Threads -> {Idle}
            \cup [pc : {"waiting"}, op : Ops, ref : Refs]
            \cup [pc : {"answered"}, op : Ops, ref : Refs, returns : BOOLEAN]]
    BY <1>3, <1>4
  <2>3. asked' \in [Refs -> SUBSET Ops] /\ requests' \subseteq Request
    BY <1>1, <1>3, <1>4 DEF Inv, TypeOK
  <2> QED
    BY <1>3, <2>1, <2>2, <2>3 DEF Inv, TypeOK
<1>6. OneRequest'
  BY <1>1, <1>2 DEF Inv, OneRequest
<1>7. CreatedOnce'
  <2>1. MayAsk(op, r)
    BY DEF Send
  <2>2. CASE op = "create"
    <3>1. "create" \notin asked[r]
      BY <2>1, <2>2 DEF MayAsk
    <3>2. event[r] = "none" /\ \A p \in requests : p.op = "create" => p.ref # r
      BY <3>1 DEF Inv, CreatedOnce
    <3> QED
      BY <1>1, <1>3, <1>4, <2>2, <3>2 DEF Inv, TypeOK, CreatedOnce, Request
  <2>3. CASE op # "create"
    <3>1. event[r] # "none"
      BY <2>1, <2>3, AskedAfterCreation
    <3> QED
      BY <1>1, <1>3, <1>4, <2>3, <3>1 DEF Inv, TypeOK, CreatedOnce, Request
  <2> QED
    BY <2>2, <2>3
<1>8. AnswersAreTrue' /\ ToldIsTrue'
  BY <1>3, <1>4 DEF Inv, AnswersAreTrue, ToldIsTrue, Port!Effective
<1> QED
  BY <1>5, <1>6, <1>7, <1>8 DEF Inv

LEMMA ReceiveKeepsInv ==
    ASSUME Inv, NEW t \in Threads, Receive(t)
    PROVE  Inv'
<1>1. /\ thread[t].pc = "answered"
      /\ thread' = [thread EXCEPT ![t] = Idle]
      /\ UNCHANGED <<deployment, skew, clock, event, requests, asked>>
  BY DEF Receive
<1>2. thread[t] \in [pc : {"answered"}, op : Ops, ref : Refs, returns : BOOLEAN]
  BY <1>1 DEF Inv, TypeOK, Idle
<1>3. ASSUME NEW q \in requests, q.by = t PROVE FALSE
  <2>1. thread[t] = [pc |-> "waiting", op |-> q.op, ref |-> q.ref]
    BY <1>3, RelayAssumption DEF Inv, TypeOK
  <2> QED
    BY <1>1, <2>1
<1>4. \/ /\ told' = [told EXCEPT ![thread[t].ref] = @ \cup {thread[t].op}]
         /\ thread[t].returns
      \/ told' = told
  BY <1>2 DEF Receive
<1>5. TypeOK'
  <2>1. told' \in [Refs -> SUBSET Ops]
    BY <1>2, <1>4 DEF Inv, TypeOK
  <2>2. thread' \in [Threads -> {Idle}
            \cup [pc : {"waiting"}, op : Ops, ref : Refs]
            \cup [pc : {"answered"}, op : Ops, ref : Refs, returns : BOOLEAN]]
    BY <1>1 DEF Inv, TypeOK
  <2>3. \A q \in requests' :
           q.by # Nobody => thread'[q.by] = [pc |-> "waiting", op |-> q.op, ref |-> q.ref]
    BY <1>1, <1>3 DEF Inv, TypeOK, Request
  <2> QED
    BY <1>1, <2>1, <2>2, <2>3 DEF Inv, TypeOK
<1>6. OneRequest' /\ CreatedOnce'
  BY <1>1 DEF Inv, OneRequest, CreatedOnce
<1>7. AnswersAreTrue'
  BY <1>1 DEF Inv, TypeOK, AnswersAreTrue, Idle, Port!Effective
<1>8. ToldIsTrue'
  <2>1. CASE told' = told
    BY <1>1, <2>1 DEF Inv, ToldIsTrue, Port!Effective
  <2>2. CASE /\ told' = [told EXCEPT ![thread[t].ref] = @ \cup {thread[t].op}]
             /\ thread[t].returns
    <3>1. event[thread[t].ref] \in Port!Effective[thread[t].op]
      BY <1>1, <2>2 DEF Inv, AnswersAreTrue
    <3>2. ASSUME NEW r \in Refs, NEW op \in told'[r]
          PROVE  op \in told[r] \/ (r = thread[t].ref /\ op = thread[t].op)
      BY <1>2, <2>2 DEF Inv, TypeOK
    <3> QED
      BY <1>1, <3>1, <3>2 DEF Inv, ToldIsTrue, Port!Effective
  <2> QED
    BY <1>4, <2>1, <2>2
<1> QED
  BY <1>5, <1>6, <1>7, <1>8 DEF Inv

LEMMA GiveUpKeepsInv ==
    ASSUME Inv, NEW t \in Threads, GiveUp(t)
    PROVE  Inv'
<1> DEFINE own == {q \in requests : q.by = t}
<1>1. PICK late \in SUBSET own :
         requests' = (requests \ own) \cup {[q EXCEPT !.by = Nobody] : q \in late}
  BY DEF GiveUp
<1>2. /\ thread' = [thread EXCEPT ![t] = Idle]
      /\ UNCHANGED <<deployment, skew, clock, event, asked, told>>
  BY DEF GiveUp
<1>3. \A q \in requests' :
        \/ q \in requests /\ q.by # t
        \/ /\ q.by = Nobody
           /\ \E p \in requests : /\ p.by = t /\ q = [p EXCEPT !.by = Nobody]
  <2> SUFFICES ASSUME NEW q \in requests'
               PROVE  \/ q \in requests /\ q.by # t
                      \/ /\ q.by = Nobody
                         /\ \E p \in requests :
                                p.by = t /\ q = [p EXCEPT !.by = Nobody]
    OBVIOUS
  <2>1. CASE q \in requests \ own
    BY <2>1
  <2>2. CASE q \in {[p EXCEPT !.by = Nobody] : p \in late}
    <3>1. PICK p \in late : q = [p EXCEPT !.by = Nobody]
      BY <2>2
    <3>2. p \in requests /\ p.by = t /\ p \in Request
      BY <3>1 DEF Inv, TypeOK
    <3>3. q.by = Nobody
      BY <3>1, <3>2 DEF Request
    <3> QED
      BY <3>1, <3>2, <3>3
  <2> QED
    BY <1>1, <2>1, <2>2
<1>4. requests \subseteq Request
  BY DEF Inv, TypeOK
<1>5. TypeOK'
  <2>1. requests' \subseteq Request
    BY <1>3, <1>4 DEF Request
  <2>2. thread' \in [Threads -> {Idle}
            \cup [pc : {"waiting"}, op : Ops, ref : Refs]
            \cup [pc : {"answered"}, op : Ops, ref : Refs, returns : BOOLEAN]]
    BY <1>2 DEF Inv, TypeOK
  <2>3. \A q \in requests' :
           q.by # Nobody => thread'[q.by] = [pc |-> "waiting", op |-> q.op, ref |-> q.ref]
    BY <1>2, <1>3 DEF Inv, TypeOK, Request
  <2> QED
    BY <1>2, <2>1, <2>2, <2>3 DEF Inv, TypeOK
<1>6. OneRequest'
  BY <1>3 DEF Inv, OneRequest
<1>7. CreatedOnce'
  <2>1. \A q \in requests' : \E p \in requests :
          /\ p.op = q.op /\ p.ref = q.ref
          /\ q = p \/ (p.by = t /\ q = [p EXCEPT !.by = Nobody])
    BY <1>3, <1>4 DEF Request
  <2>2. \A p, q \in requests' :
          p.op = "create" /\ q.op = "create" /\ p.ref = q.ref => p = q
    <3> SUFFICES ASSUME NEW p \in requests', NEW q \in requests',
                        p.op = "create", q.op = "create", p.ref = q.ref
                 PROVE  p = q
      OBVIOUS
    <3>1. PICK pp \in requests :
            /\ pp.op = p.op /\ pp.ref = p.ref
            /\ p = pp \/ (pp.by = t /\ p = [pp EXCEPT !.by = Nobody])
      BY <2>1
    <3>2. PICK qq \in requests :
            /\ qq.op = q.op /\ qq.ref = q.ref
            /\ q = qq \/ (qq.by = t /\ q = [qq EXCEPT !.by = Nobody])
      BY <2>1
    <3>3. pp = qq
      BY <3>1, <3>2 DEF Inv, CreatedOnce
    <3>4. pp.by = t => p # pp /\ q # pp
      BY <1>3, RelayAssumption
    <3> QED
      BY <3>1, <3>2, <3>3, <3>4
  <2> QED
    BY <1>2, <2>1, <2>2 DEF Inv, CreatedOnce
<1>8. AnswersAreTrue'
  BY <1>2 DEF Inv, TypeOK, AnswersAreTrue, Idle, Port!Effective
<1>9. ToldIsTrue'
  BY <1>2 DEF Inv, ToldIsTrue, Port!Effective
<1> QED
  BY <1>5, <1>6, <1>7, <1>8, <1>9 DEF Inv

\* What an answer does to the types and to the requests that are left.
LEMMA AnswerKeepsTypes ==
    ASSUME Inv, NEW q \in requests, NEW returns \in BOOLEAN,
           thread' = Answer(q, returns), requests' = requests \ {q},
           event' \in [Refs -> {"none", "hold", "confirmed", "gone"}],
           UNCHANGED <<deployment, skew, clock, asked, told>>
    PROVE  TypeOK' /\ OneRequest'
<1>1. /\ thread' \in [Threads -> {Idle}
            \cup [pc : {"waiting"}, op : Ops, ref : Refs]
            \cup [pc : {"answered"}, op : Ops, ref : Refs, returns : BOOLEAN]]
      /\ \A t \in Threads : t # q.by => thread'[t] = thread[t]
  BY AnswerIsTyped
<1>2. \A p \in requests' : /\ p \in requests /\ p \in Request
                           /\ p.by # Nobody => p.by \in Threads /\ p.by # q.by
  BY DEF Inv, TypeOK, OneRequest, Request
<1>3. \A p \in requests' :
         p.by # Nobody => thread'[p.by] = [pc |-> "waiting", op |-> p.op, ref |-> p.ref]
  BY <1>1, <1>2 DEF Inv, TypeOK
<1>4. TypeOK'
  BY <1>1, <1>2, <1>3 DEF Inv, TypeOK
<1>5. OneRequest'
  BY <1>2 DEF Inv, OneRequest
<1> QED
  BY <1>4, <1>5

LEMMA AdmitKeepsInv ==
    ASSUME Inv, NEW q \in requests, Admit(q)
    PROVE  Inv'
<1> DEFINE admitted == [q EXCEPT !.passed = TRUE]
<1>1. /\ requests' = (requests \ {q}) \cup {admitted}
      /\ UNCHANGED <<deployment, skew, clock, event, thread, asked, told>>
  BY DEF Admit
<1>2. q \in Request
  BY DEF Inv, TypeOK
<1>3. /\ admitted \in Request
      /\ admitted.by = q.by /\ admitted.op = q.op /\ admitted.ref = q.ref
  BY <1>2 DEF Request
<1> HIDE DEF admitted
<1>4. TypeOK'
  <2>1. requests' \subseteq Request
    BY <1>1, <1>3 DEF Inv, TypeOK
  <2>2. \A p \in requests' :
           p.by # Nobody => thread'[p.by] = [pc |-> "waiting", op |-> p.op, ref |-> p.ref]
    BY <1>1, <1>3 DEF Inv, TypeOK
  <2> QED
    BY <1>1, <2>1, <2>2 DEF Inv, TypeOK
<1>5. OneRequest' /\ CreatedOnce'
  BY <1>1, <1>3 DEF Inv, OneRequest, CreatedOnce
<1>6. AnswersAreTrue' /\ ToldIsTrue'
  BY <1>1 DEF Inv, AnswersAreTrue, ToldIsTrue, Port!Effective
<1> QED
  BY <1>4, <1>5, <1>6 DEF Inv

LEMMA RejectKeepsInv ==
    ASSUME Inv, NEW q \in requests, Reject(q)
    PROVE  Inv'
<1>1. /\ thread' = Answer(q, FALSE) /\ requests' = requests \ {q}
      /\ UNCHANGED <<deployment, skew, clock, event, asked, told>>
  BY DEF Reject
<1>2. TypeOK' /\ OneRequest'
  <2>1. event' \in [Refs -> {"none", "hold", "confirmed", "gone"}]
    BY <1>1 DEF Inv, TypeOK
  <2> QED
    BY <1>1, <2>1, AnswerKeepsTypes
<1>3. CreatedOnce' /\ ToldIsTrue'
  BY <1>1 DEF Inv, CreatedOnce, ToldIsTrue, Port!Effective
<1>4. AnswersAreTrue'
  <2>1. /\ \A t \in Threads : t # q.by => thread'[t] = thread[t]
        /\ q.by # Nobody =>
             thread'[q.by] = [pc |-> "answered", op |-> q.op, ref |-> q.ref,
                              returns |-> FALSE]
    BY <1>1, AnswerIsTyped
  <2>2. ASSUME NEW t \in Threads, thread'[t].pc = "answered", thread'[t].returns
        PROVE  event[thread'[t].ref] \in Port!Effective[thread'[t].op]
    <3>1. t # q.by
      BY <2>1, <2>2, RelayAssumption
    <3> QED
      BY <2>1, <2>2, <3>1 DEF Inv, AnswersAreTrue
  <2> QED
    BY <1>1, <2>2 DEF AnswersAreTrue, Port!Effective
<1> QED
  BY <1>2, <1>3, <1>4 DEF Inv

\* Where the event of an executed request is before and after.
LEMMA ExecuteMovesOn ==
    ASSUME Inv, NEW q \in requests, NEW status, NEW effective \in BOOLEAN,
           Execute(q, status, effective)
    PROVE  /\ q.op \in Ops /\ q.ref \in Refs /\ q.passed
           /\ event[q.ref] \in {"none", "hold", "confirmed", "gone"}
           /\ q.op = "create" <=> event[q.ref] = "none"
           /\ status \in Statuses(q.op, event[q.ref])
           /\ status = "failed" \/ effective
           /\ event' = [event EXCEPT ![q.ref] =
                           IF effective THEN Effect(q.op, event[q.ref]) ELSE event[q.ref]]
           /\ event' \in [Refs -> {"none", "hold", "confirmed", "gone"}]
           /\ event[q.ref] # "none" => event'[q.ref] # "none"
<1>1. q \in Request
  BY DEF Inv, TypeOK
<1>2. q.op \in Ops /\ q.ref \in Refs
  BY <1>1 DEF Request
<1>3. event \in [Refs -> {"none", "hold", "confirmed", "gone"}]
  BY DEF Inv, TypeOK
<1>4. q.op = "create" <=> event[q.ref] = "none"
  BY DEF Inv, CreatedOnce
<1>5. /\ q.passed /\ status \in Statuses(q.op, event[q.ref])
      /\ status = "failed" \/ effective
      /\ event' = IF effective
                  THEN [event EXCEPT ![q.ref] = Effect(q.op, event[q.ref])]
                  ELSE event
  BY DEF Execute
<1>6. Effect(q.op, event[q.ref]) \in {"hold", "confirmed", "gone"}
  BY <1>2, <1>3, <1>4 DEF Effect, Outcome, Up, Ops
<1>7. event' = [event EXCEPT ![q.ref] =
                  IF effective THEN Effect(q.op, event[q.ref]) ELSE event[q.ref]]
  BY <1>2, <1>3, <1>5
<1> QED
  BY <1>2, <1>3, <1>4, <1>5, <1>6, <1>7

LEMMA ExecuteKeepsInv ==
    ASSUME Inv, NEW q \in requests, NEW status, NEW effective \in BOOLEAN,
           Execute(q, status, effective)
    PROVE  Inv'
<1> DEFINE after == IF effective THEN Effect(q.op, event[q.ref]) ELSE event[q.ref]
           returns == Returns(q.op, status)
<1>1. /\ thread' = Answer(q, returns) /\ requests' = requests \ {q}
      /\ UNCHANGED <<deployment, skew, clock, asked, told>>
  BY DEF Execute
<1>2. /\ q.op \in Ops /\ q.ref \in Refs
      /\ event[q.ref] \in {"none", "hold", "confirmed", "gone"}
      /\ q.op = "create" <=> event[q.ref] = "none"
      /\ status \in Statuses(q.op, event[q.ref])
      /\ status = "failed" \/ effective
      /\ event' = [event EXCEPT ![q.ref] = after]
      /\ event' \in [Refs -> {"none", "hold", "confirmed", "gone"}]
      /\ event[q.ref] # "none" => event'[q.ref] # "none"
  BY ExecuteMovesOn
<1>3. event \in [Refs -> {"none", "hold", "confirmed", "gone"}]
      /\ deployment \in {"relay", "google"}
  BY DEF Inv, TypeOK
<1>4. returns \in BOOLEAN
  BY DEF Returns, RelayReturns, GoogleReturns
<1>5. \A o \in Ops : event[q.ref] \in Port!Effective[o] => after \in Port!Effective[o]
  BY <1>2, EffectMovesOn
<1>6. returns => after \in Port!Effective[q.op]
  BY <1>2, <1>3, ReturnsAfterEffect
<1> HIDE DEF after, returns
<1>7. TypeOK' /\ OneRequest'
  BY <1>1, <1>2, <1>4, AnswerKeepsTypes
<1>8. \A r \in Refs : \A o \in Ops :
         event[r] \in Port!Effective[o] => event'[r] \in Port!Effective[o]
  BY <1>2, <1>3, <1>5
<1>9. CreatedOnce'
  <2>1. CASE q.op = "create"
    <3>1. \A p \in requests' : p \in requests /\ p.ref # q.ref
      BY <1>1, <1>2, <2>1 DEF Inv, CreatedOnce
    <3>2. "create" \in asked[q.ref]
      BY <2>1 DEF Inv, CreatedOnce
    <3>3. \A p \in requests' : event'[p.ref] = event[p.ref]
      BY <1>2, <1>3, <3>1 DEF Inv, TypeOK, Request
    <3> QED
      BY <1>1, <1>2, <1>3, <3>1, <3>2, <3>3 DEF Inv, CreatedOnce
  <2>2. CASE q.op # "create"
    <3>1. \A r \in Refs : event'[r] = "none" <=> event[r] = "none"
      BY <1>2, <1>3, <2>2
    <3>2. \A p \in requests : p.ref \in Refs
      BY DEF Inv, TypeOK, Request
    <3> QED
      BY <1>1, <3>1, <3>2 DEF Inv, CreatedOnce
  <2> QED
    BY <2>1, <2>2
<1>10. AnswersAreTrue'
  <2>1. /\ \A t \in Threads : t # q.by => thread'[t] = thread[t]
        /\ q.by # Nobody =>
             thread'[q.by] = [pc |-> "answered", op |-> q.op, ref |-> q.ref,
                              returns |-> returns]
    BY <1>1, <1>4, AnswerIsTyped
  <2> SUFFICES ASSUME NEW t \in Threads, thread'[t].pc = "answered", thread'[t].returns
               PROVE  event'[thread'[t].ref] \in Port!Effective[thread'[t].op]
    BY DEF AnswersAreTrue, Port!Effective
  <2>2. CASE t = q.by
    <3>1. thread'[t].op = q.op /\ thread'[t].ref = q.ref /\ returns
      BY <2>1, <2>2, RelayAssumption
    <3> QED
      BY <1>2, <1>3, <1>6, <3>1
  <2>3. CASE t # q.by
    <3>1. thread'[t] = thread[t]
      BY <2>1, <2>3
    <3>2. thread[t].ref \in Refs /\ thread[t].op \in Ops
      BY <3>1 DEF Inv, TypeOK, Idle
    <3>3. event[thread[t].ref] \in Port!Effective[thread[t].op]
      BY <3>1 DEF Inv, AnswersAreTrue
    <3> QED
      BY <1>8, <3>1, <3>2, <3>3
  <2> QED
    BY <2>2, <2>3
<1>11. ToldIsTrue'
  <2>1. \A r \in Refs : told[r] \subseteq Ops
    BY DEF Inv, TypeOK
  <2> QED
    BY <1>1, <1>8, <2>1 DEF Inv, ToldIsTrue, Port!Effective
<1> QED
  BY <1>7, <1>9, <1>10, <1>11 DEF Inv

LEMMA OwnerDeletesKeepsInv ==
    ASSUME Inv, NEW r \in Refs, OwnerDeletes(r)
    PROVE  Inv'
<1>1. /\ event[r] \in {"hold", "confirmed"}
      /\ event' = [event EXCEPT ![r] = "gone"]
      /\ UNCHANGED <<deployment, skew, clock, thread, requests, asked, told>>
  BY DEF OwnerDeletes, Up
<1>2. event \in [Refs -> {"none", "hold", "confirmed", "gone"}]
  BY DEF Inv, TypeOK
<1>3. \A s \in Refs : event'[s] = "none" <=> event[s] = "none"
  BY <1>1, <1>2
<1>4. \A s \in Refs : \A o \in Ops :
         event[s] \in Port!Effective[o] => event'[s] \in Port!Effective[o]
  BY <1>1, <1>2 DEF Port!Effective, Ops
<1>5. TypeOK' /\ OneRequest'
  BY <1>1 DEF Inv, TypeOK, OneRequest
<1>6. CreatedOnce'
  <2>1. \A p \in requests : p.ref \in Refs
    BY DEF Inv, TypeOK, Request
  <2> QED
    BY <1>1, <1>3, <2>1 DEF Inv, CreatedOnce
<1>7. AnswersAreTrue'
  <2>1. \A t \in Threads : thread[t].pc = "answered" =>
           thread[t].ref \in Refs /\ thread[t].op \in Ops
    BY DEF Inv, TypeOK, Idle
  <2> QED
    BY <1>1, <1>4, <2>1 DEF Inv, AnswersAreTrue, Port!Effective
<1>8. ToldIsTrue'
  <2>1. \A s \in Refs : told[s] \subseteq Ops
    BY DEF Inv, TypeOK
  <2> QED
    BY <1>1, <1>4, <2>1 DEF Inv, ToldIsTrue, Port!Effective
<1> QED
  BY <1>5, <1>6, <1>7, <1>8 DEF Inv

LEMMA TickKeepsInv ==
    ASSUME Inv, Tick
    PROVE  Inv'
BY DEF Tick, Inv, TypeOK, OneRequest, CreatedOnce, AnswersAreTrue, ToldIsTrue,
       Port!Effective

----------------------------------------------------------------------------
\* The theorems.

LEMMA InitHasInv == Init => Inv
<1> SUFFICES ASSUME Init PROVE Inv
  OBVIOUS
<1>1. TypeOK
  BY RelayAssumption DEF Init, TypeOK, Request
<1>2. OneRequest /\ CreatedOnce
  BY DEF Init, OneRequest, CreatedOnce
<1>3. AnswersAreTrue /\ ToldIsTrue
  BY DEF Init, AnswersAreTrue, ToldIsTrue, Idle
<1> QED
  BY <1>1, <1>2, <1>3 DEF Inv

LEMMA NextKeepsInv == Inv /\ [Next]_vars => Inv'
<1> SUFFICES ASSUME Inv, [Next]_vars PROVE Inv'
  OBVIOUS
<1>1. ASSUME NEW t \in Threads, NEW op \in Ops, NEW r \in Refs, Send(t, op, r)
      PROVE  Inv'
  BY <1>1, SendKeepsInv
<1>2. ASSUME NEW t \in Threads, Receive(t) PROVE Inv'
  BY <1>2, ReceiveKeepsInv
<1>3. ASSUME NEW t \in Threads, GiveUp(t) PROVE Inv'
  BY <1>3, GiveUpKeepsInv
<1>4. ASSUME NEW q \in requests, Admit(q) PROVE Inv'
  BY <1>4, AdmitKeepsInv
<1>5. ASSUME NEW q \in requests, Reject(q) PROVE Inv'
  BY <1>5, RejectKeepsInv
<1>6. ASSUME NEW q \in requests, NEW s, NEW e \in BOOLEAN, Execute(q, s, e)
      PROVE  Inv'
  BY <1>6, ExecuteKeepsInv
<1>7. ASSUME NEW r \in Refs, OwnerDeletes(r) PROVE Inv'
  BY <1>7, OwnerDeletesKeepsInv
<1>8. CASE Tick
  BY <1>8, TickKeepsInv
<1>9. CASE UNCHANGED vars
  BY <1>9 DEF vars, Inv, TypeOK, OneRequest, CreatedOnce, AnswersAreTrue, ToldIsTrue,
              Port!Effective
<1> QED
  BY <1>1, <1>2, <1>3, <1>4, <1>5, <1>6, <1>7, <1>8, <1>9 DEF Next

LEMMA InvAlways == Spec => []Inv
<1> QED
  BY InitHasInv, NextKeepsInv, PTL DEF Spec

\* Whatever fails or comes late, an answer reaches the call that asked for it
\* and no later one (calendar_relay.py:97-124).
THEOREM RelayIsTyped == Spec => []TypeOK
<1>1. Inv => TypeOK
  BY DEF Inv
<1> QED
  BY <1>1, InvAlways, PTL

\* A step of a gateway is a step of the port, or changes nothing there.
LEMMA StepsOfThePort == Inv /\ [Next]_vars => [Port!Next]_<<event, told>>
<1> SUFFICES ASSUME Inv, Next PROVE Port!Next \/ UNCHANGED <<event, told>>
  BY DEF vars
<1>1. ASSUME NEW t \in Threads, Receive(t)
      PROVE  Port!Next \/ UNCHANGED <<event, told>>
  <2>1. CASE ~thread[t].returns
    BY <1>1, <2>1 DEF Receive
  <2>2. CASE thread[t].returns
    <3>1. /\ thread[t].pc = "answered" /\ UNCHANGED event
          /\ told' = [told EXCEPT ![thread[t].ref] = @ \cup {thread[t].op}]
      BY <1>1, <2>2 DEF Receive
    <3>2. thread[t].ref \in Refs /\ thread[t].op \in Ops
      BY <3>1 DEF Inv, TypeOK, Idle
    <3>3. event[thread[t].ref] \in Port!Effective[thread[t].op]
      BY <2>2, <3>1 DEF Inv, AnswersAreTrue
    <3>4. Port!Return(thread[t].ref, thread[t].op)
      BY <3>1, <3>3 DEF Port!Return
    <3> QED
      BY <3>2, <3>4 DEF Port!Next, Ops
  <2> QED
    BY <2>1, <2>2
<1>2. ASSUME NEW q \in requests, NEW s, NEW e \in BOOLEAN, Execute(q, s, e)
      PROVE  Port!Next \/ UNCHANGED <<event, told>>
  <2>1. /\ q.op \in Ops /\ q.ref \in Refs
        /\ event[q.ref] \in {"none", "hold", "confirmed", "gone"}
        /\ q.op = "create" <=> event[q.ref] = "none"
        /\ event' = [event EXCEPT ![q.ref] =
                        IF e THEN Effect(q.op, event[q.ref]) ELSE event[q.ref]]
    BY <1>2, ExecuteMovesOn
  <2>2. event \in [Refs -> {"none", "hold", "confirmed", "gone"}] /\ UNCHANGED told
    BY <1>2 DEF Inv, TypeOK, Execute
  <2>3. CASE ~e
    BY <2>1, <2>2, <2>3
  <2>4. CASE e /\ q.op = "create"
    <3>1. Port!Create(q.ref)
      BY <2>1, <2>2, <2>4 DEF Port!Create, Effect, Outcome
    <3> QED
      BY <2>1, <3>1 DEF Port!Next
  <2>5. CASE e /\ q.op # "create" /\ ~Up(event[q.ref])
    BY <2>1, <2>2, <2>5 DEF Effect
  <2>6. CASE e /\ q.op = "confirm" /\ Up(event[q.ref])
    <3>1. event' = [event EXCEPT ![q.ref] = "confirmed"]
      BY <2>1, <2>6 DEF Effect, Outcome
    <3>2. CASE event[q.ref] = "hold"
      <4>1. Port!Confirm(q.ref)
        BY <2>2, <3>1, <3>2 DEF Port!Confirm
      <4> QED
        BY <2>1, <4>1 DEF Port!Next
    <3>3. CASE event[q.ref] = "confirmed"
      BY <2>2, <3>1, <3>3
    <3> QED
      BY <2>6, <3>2, <3>3 DEF Up
  <2>7. CASE e /\ q.op = "release" /\ Up(event[q.ref])
    <3>1. Port!Delete(q.ref)
      BY <2>1, <2>2, <2>7 DEF Port!Delete, Effect, Outcome, Up
    <3> QED
      BY <2>1, <3>1 DEF Port!Next
  <2> QED
    BY <2>1, <2>3, <2>4, <2>5, <2>6, <2>7 DEF Ops
<1>3. ASSUME NEW r \in Refs, OwnerDeletes(r)
      PROVE  Port!Next \/ UNCHANGED <<event, told>>
  <2>1. Port!Delete(r)
    BY <1>3 DEF OwnerDeletes, Up, Port!Delete
  <2> QED
    BY <2>1 DEF Port!Next
<1>4. ASSUME NEW t \in Threads, NEW op \in Ops, NEW r \in Refs, Send(t, op, r)
      PROVE  UNCHANGED <<event, told>>
  BY <1>4 DEF Send
<1>5. ASSUME NEW t \in Threads, GiveUp(t) PROVE UNCHANGED <<event, told>>
  BY <1>5 DEF GiveUp
<1>6. ASSUME NEW q \in requests, Admit(q) \/ Reject(q)
      PROVE  UNCHANGED <<event, told>>
  BY <1>6 DEF Admit, Reject
<1>7. CASE Tick
  BY <1>7 DEF Tick
<1> QED
  BY <1>1, <1>2, <1>3, <1>4, <1>5, <1>6, <1>7 DEF Next

\* Either gateway implements the port: an event is created, confirmed and
\* deleted at most once each, and a call returns only after its effect
\* (app/ports/calendar.py:24-50).
THEOREM RelayImplementsPort == Spec => ImplementsPort
<1>1. Init => Port!Init
  BY DEF Init, Port!Init
<1> QED
  BY <1>1, InvAlways, StepsOfThePort, PTL DEF Spec, ImplementsPort, Port!Spec

=============================================================================
