--------------------------- MODULE BrowserProofs ---------------------------
(***************************************************************************)
(* Theorems about Browser: the form and the payment page in one tab, for   *)
(* any number of choices, lists and polls in flight, and any clock.        *)
(***************************************************************************)
EXTENDS Browser, TLAPS

(***************************************************************************)
(* The form.  Whatever the tab does, the form makes one of these steps.    *)
(***************************************************************************)

FormStep ==
    \/ FlowStep \/ PostAnswered("created") \/ Accepted \/ FlowGone
    \/ UNCHANGED <<front, flowVars>>

LEMMA FormSteps == [Next]_vars => FormStep
BY DEF FormStep, Next, vars, CreateOrder, LeaveFlow, Arrive, Flow, Page, Order

\* On the site something is chosen at all times and a submission was made from
\* a choice, and a tab that has left the form has neither lists nor a
\* submission.
FormIsOpen ==
    /\ front = "site" => choice \in Choices
    /\ front = "site" /\ post.pc # "idle" => post.at \in Choices
    /\ front = "none" => /\ list = NoChoice /\ selected = NoChoice
                         /\ loads = NoLoads /\ post.pc = "idle"

LEMMA Loading ==
    ASSUME FlowTypeOK, NEW c \in Choices \cup {NoChoice}, LoadSlots(c)
    PROVE  /\ list' = NoChoice /\ selected' = NoChoice
           /\ loads' \in [Choices -> 0 .. MaxLoads]
           /\ LoadsUnderWay' \subseteq LoadsUnderWay \cup {c}
           /\ overlapped' = (overlapped \/ LoadsUnderWay # {})
           /\ overlapped' \in BOOLEAN
<1>1. /\ \/ UNCHANGED loads
         \/ /\ c \in Choices /\ loads[c] < MaxLoads
            /\ loads' = [loads EXCEPT ![c] = loads[c] + 1]
      /\ loads \in [Choices -> 0 .. MaxLoads] /\ MaxLoads \in Nat
    BY BookingFlowAssumption DEF LoadSlots, FlowTypeOK
<1>2. loads' \in [Choices -> 0 .. MaxLoads]
    BY <1>1
<1>3. LoadsUnderWay' \subseteq LoadsUnderWay \cup {c}
    BY <1>1 DEF LoadsUnderWay
<1> QED
    BY <1>2, <1>3 DEF LoadSlots, FlowTypeOK

LEMMA Loaded ==
    ASSUME FlowTypeOK, NEW c \in Choices, LoadArrives(c)
    PROVE  /\ c \in LoadsUnderWay /\ LoadsUnderWay' \subseteq LoadsUnderWay
           /\ loads' \in [Choices -> 0 .. MaxLoads]
           /\ list' \in {c, NoChoice}
           /\ post' = NoPost \/ post' = post
           /\ UNCHANGED <<front, choice, selected, overlapped, strayed>>
<1>1. /\ loads' = [loads EXCEPT ![c] = loads[c] - 1] /\ loads[c] > 0
      /\ loads \in [Choices -> 0 .. MaxLoads] /\ MaxLoads \in Nat
    BY BookingFlowAssumption DEF LoadArrives, FlowTypeOK
<1>2. loads' \in [Choices -> 0 .. MaxLoads]
    BY <1>1
<1>3. c \in LoadsUnderWay /\ LoadsUnderWay' \subseteq LoadsUnderWay
    BY <1>1 DEF LoadsUnderWay
<1> QED
    BY <1>2, <1>3 DEF LoadArrives, Listed

\* A refusal is dealt with by loading a list, or by nothing but a message.
LEMMA Refusing ==
    ASSUME FlowTypeOK, FormIsOpen, Refused
    PROVE  /\ UNCHANGED <<front, choice, strayed>>
           /\ post.pc # "idle" /\ front # "none"
           /\ \/ front = "page" /\ LoadSlots(choice) /\ post' = NoPost
              \/ /\ front = "site" /\ LoadSlots(post.at)
                 /\ post' = [post EXCEPT !.pc = "reloading"]
              \/ post' = NoPost /\ UNCHANGED <<list, selected, loads, overlapped>>
BY DEF Refused, PageReloads, SiteReloads, FormIsOpen

LEMMA FormStays ==
    ASSUME FlowTypeOK, FormIsOpen, FormStep
    PROVE  FlowTypeOK' /\ FormIsOpen'
<1> DEFINE Chosen == Choices \cup {NoChoice}
           Posts  == [pc : {"idle", "sent", "created", "taken", "invalid", "failed",
                            "reloading"}, at : Chosen, slot : Chosen]
<1>0. /\ NoPost \in Posts /\ NoPost.pc = "idle"
      /\ NoLoads \in [Choices -> 0 .. MaxLoads]
    BY BookingFlowAssumption DEF NoPost, NoLoads
<1>1. ASSUME NEW c \in Choices \cup {NoChoice}, Choose(c)
      PROVE  FlowTypeOK' /\ FormIsOpen'
  <2>1. LoadSlots(c) /\ choice' = c /\ UNCHANGED <<front, post>>
        /\ \/ front = "page"
           \/ front = "site" /\ c # NoChoice
        /\ strayed' \in BOOLEAN
      BY <1>1 DEF Choose, FlowTypeOK
  <2> QED
      BY <2>1, Loading DEF FlowTypeOK, FormIsOpen
<1>2. ASSUME NEW c \in Choices, LoadArrives(c)
      PROVE  FlowTypeOK' /\ FormIsOpen'
  <2>1. front # "none"
      BY <1>2, Loaded DEF FormIsOpen, LoadsUnderWay, NoLoads
  <2> QED
      BY <1>0, <1>2, <2>1, Loaded DEF FlowTypeOK, FormIsOpen
<1>3. CASE Select
    BY <1>3 DEF Select, FlowTypeOK, FormIsOpen
<1>4. CASE Submit
  <2>1. front # "none"
      BY <1>4 DEF Submit, FormIsOpen
  <2> QED
      BY <1>4, <2>1 DEF Submit, FlowTypeOK, FormIsOpen
<1>5. ASSUME NEW pc \in Refusals \cup {"created"}, PostAnswered(pc)
      PROVE  FlowTypeOK' /\ FormIsOpen'
  <2>1. /\ post' = [post EXCEPT !.pc = pc] /\ post.pc = "sent" /\ post \in Posts
        /\ pc \in {"created", "taken", "invalid", "failed"}
        /\ UNCHANGED <<front, choice, list, selected, loads, overlapped, strayed>>
      BY <1>5 DEF PostAnswered, Refusals, FlowTypeOK
  <2>2. post' \in Posts /\ post'.at = post.at
      BY <2>1
  <2> QED
      BY <2>1, <2>2 DEF FlowTypeOK, FormIsOpen
<1>6. CASE Refused
  <2>1. /\ UNCHANGED <<front, choice, strayed>> /\ post.pc # "idle" /\ front # "none"
        /\ front = "site" => choice \in Choices /\ post.at \in Choices
        /\ choice \in Choices \cup {NoChoice}
      BY <1>6, Refusing DEF FormIsOpen, FlowTypeOK
  <2>2. CASE LoadSlots(choice) /\ post' = NoPost
      BY <1>0, <2>1, <2>2, Loading DEF FlowTypeOK, FormIsOpen
  <2>3. CASE /\ front = "site" /\ LoadSlots(post.at)
             /\ post' = [post EXCEPT !.pc = "reloading"]
    <3>1. post' \in Posts /\ post'.at = post.at
        BY <2>3 DEF FlowTypeOK
    <3> QED
        BY <2>1, <2>3, <3>1, Loading DEF FlowTypeOK, FormIsOpen
  <2>4. CASE post' = NoPost /\ UNCHANGED <<list, selected, loads, overlapped>>
      BY <1>0, <2>1, <2>4 DEF FlowTypeOK, FormIsOpen
  <2> QED
      BY <1>6, <2>2, <2>3, <2>4, Refusing
<1>7. CASE Accepted
    BY <1>0, <1>7 DEF Accepted, FlowTypeOK, FormIsOpen
<1>8. CASE FlowGone
    BY <1>0, <1>8 DEF FlowGone, FlowTypeOK, FormIsOpen
<1>9. CASE UNCHANGED <<front, flowVars>>
    BY <1>9 DEF flowVars, FlowTypeOK, FormIsOpen
<1> QED
    BY <1>1, <1>2, <1>3, <1>4, <1>5, <1>6, <1>7, <1>8, <1>9 DEF FormStep, FlowStep

(***************************************************************************)
(* What the form shows and sends.                                          *)
(***************************************************************************)

\* A submission that nothing was chosen during is of the present choice; where
\* the property speaks, a list under way is one of the present choice too.
ChoiceInv ==
    /\ ~strayed /\ post.pc # "idle" => post.at = choice
    /\ ~overlapped /\ ~(front = "site" /\ strayed) => LoadsUnderWay \subseteq {choice}
    /\ ChoiceIsKept

LEMMA ChoiceStays ==
    ASSUME FlowTypeOK, FormIsOpen, ChoiceInv, FormStep
    PROVE  ChoiceInv'
<1>0. NoPost.pc = "idle"
    BY DEF NoPost
<1>1. ASSUME NEW c \in Choices \cup {NoChoice}, Choose(c)
      PROVE  ChoiceInv'
  <2>1. /\ LoadSlots(c) /\ choice' = c /\ UNCHANGED <<front, post>>
        /\ strayed' = (strayed \/ post.pc # "idle")
      BY <1>1 DEF Choose
  <2> QED
      BY <2>1, Loading DEF ChoiceInv, ChoiceIsKept
<1>2. ASSUME NEW c \in Choices, LoadArrives(c)
      PROVE  ChoiceInv'
    BY <1>0, <1>2, Loaded DEF ChoiceInv, ChoiceIsKept
<1>3. CASE Select
    BY <1>3 DEF Select, ChoiceInv, ChoiceIsKept, LoadsUnderWay
<1>4. CASE Submit
  <2>1. /\ front = "conference" \/ selected # NoChoice
        /\ post'.at = choice /\ post'.slot = selected
        /\ UNCHANGED <<front, choice, list, selected, loads, overlapped, strayed>>
      BY <1>4 DEF Submit
  <2> QED
      BY <2>1 DEF ChoiceInv, ChoiceIsKept, LoadsUnderWay
<1>5. ASSUME NEW pc \in Refusals \cup {"created"}, PostAnswered(pc)
      PROVE  ChoiceInv'
  <2>1. /\ post'.at = post.at /\ post'.slot = post.slot /\ post.pc # "idle"
        /\ UNCHANGED <<front, choice, list, selected, loads, overlapped, strayed>>
      BY <1>5 DEF PostAnswered, FlowTypeOK
  <2> QED
      BY <2>1 DEF ChoiceInv, ChoiceIsKept, LoadsUnderWay
<1>6. CASE Refused
  <2>1. /\ UNCHANGED <<front, choice, strayed>> /\ post.pc # "idle" /\ front # "none"
        /\ front = "site" => choice \in Choices /\ post.at \in Choices
        /\ choice \in Choices \cup {NoChoice}
      BY <1>6, Refusing DEF FormIsOpen, FlowTypeOK
  <2>2. CASE LoadSlots(choice) /\ post' = NoPost
      BY <1>0, <2>1, <2>2, Loading DEF ChoiceInv, ChoiceIsKept
  <2>3. CASE front = "site" /\ LoadSlots(post.at) /\ post' = [post EXCEPT !.pc = "reloading"]
    <3>1. post'.at = post.at /\ post'.slot = post.slot
        BY <2>3 DEF FlowTypeOK
    <3> QED
        BY <2>1, <2>3, <3>1, Loading DEF ChoiceInv, ChoiceIsKept
  <2>4. CASE post' = NoPost /\ UNCHANGED <<list, selected, loads, overlapped>>
      BY <1>0, <2>1, <2>4 DEF ChoiceInv, ChoiceIsKept, LoadsUnderWay
  <2> QED
      BY <1>6, <2>2, <2>3, <2>4, Refusing
<1>7. CASE Accepted
    BY <1>0, <1>7 DEF Accepted, ChoiceInv, ChoiceIsKept, LoadsUnderWay
<1>8. CASE FlowGone
    BY <1>0, <1>8 DEF FlowGone, ChoiceInv, ChoiceIsKept, LoadsUnderWay, NoLoads
<1>9. CASE UNCHANGED <<front, flowVars>>
    BY <1>9 DEF flowVars, ChoiceInv, ChoiceIsKept, LoadsUnderWay
<1> QED
    BY <1>1, <1>2, <1>3, <1>4, <1>5, <1>6, <1>7, <1>8, <1>9 DEF FormStep, FlowStep
(***************************************************************************)
(* The payment page.                                                       *)
(***************************************************************************)

PageMove == PageStep \/ Reload

Answers == {"unread"} \cup Verdicts
Docs    == [shown : {"none"} \cup Verdicts, link : BOOLEAN,
            scripted : BOOLEAN, timers : BOOLEAN]

LEMMA Applying ==
    ASSUME NEW d \in Docs, NEW s \in {"paid", "dead"}
    PROVE  /\ ApplyState(d, s) \in Docs
           /\ ApplyState(d, s).shown = s
           /\ ApplyState(d, s).link = d.link /\ ApplyState(d, s).scripted = d.scripted
           /\ ApplyState(d, s).timers => d.timers
BY DEF ApplyState, Docs, Verdicts

\* What the tab shows once the page that was rendered has started.
LEMMA Starting ==
    ASSUME PageTypeOK, Start
    PROVE  /\ loading \in Verdicts /\ loading' = "no" /\ polls' = NoPolls
           /\ doc' \in Docs
           /\ \/ doc'.shown = loading
              \/ doc'.shown = "dead" /\ loading = "pending" /\ PastDeadline
           /\ doc'.link => loading = "paid"
           /\ loading = "paid" => ~doc'.timers /\ ~doc'.scripted
<1>1. loading \in Verdicts /\ loading' = "no" /\ polls' = NoPolls
    BY DEF Start
<1>2. Rendered \in Docs /\ Rendered.shown = loading /\ ~Rendered.timers
      /\ Rendered.link = (kind = "ticket" /\ loading = "paid")
      /\ Rendered.scripted = (loading = "pending")
    BY <1>1 DEF Rendered, Docs
<1>3. CASE loading # "pending"
    BY <1>1, <1>2, <1>3 DEF Start
<1>4. CASE loading = "pending"
  <2> DEFINE d == IF PastDeadline THEN ApplyState(Rendered, "dead") ELSE Rendered
  <2>1. doc' = [d EXCEPT !.timers = TRUE]
      BY <1>4 DEF Start
  <2>2. /\ d \in Docs /\ d.link = Rendered.link
        /\ d.shown = IF PastDeadline THEN "dead" ELSE loading
      BY <1>2, Applying
  <2> HIDE DEF d
  <2>3. doc' \in Docs /\ doc'.shown = d.shown /\ doc'.link = d.link
      BY <2>1, <2>2 DEF Docs
  <2> QED
      BY <1>1, <1>2, <1>4, <2>2, <2>3
<1> QED
    BY <1>3, <1>4

\* The polls in flight, after one more was sent, read, lost or has come in.
PollsOK(p) == /\ p \in [Answers -> 0 .. MaxPolls]
              /\ p["unread"] + p["pending"] + p["paid"] + p["dead"] <= MaxPolls

LEMMA PollsChange ==
    ASSUME PollsOK(polls)
    PROVE  /\ PollsOK(NoPolls)
           /\ InFlight < MaxPolls =>
                  /\ PollsOK(Polled)
                  /\ \A v \in Verdicts : Polled[v] = polls[v]
           /\ \A a \in Answers : polls[a] > 0 =>
                  LET p == [polls EXCEPT ![a] = @ - 1]
                  IN  PollsOK(p) /\ \A b \in Answers : p[b] > 0 => polls[b] > 0
<1>0. MaxPolls \in Nat /\ polls \in [Answers -> 0 .. MaxPolls]
      /\ Answers = {"unread", "pending", "paid", "dead"}
    BY StatusPageAssumption DEF PollsOK, Answers, Verdicts
<1>1. PollsOK(NoPolls)
  <2>1. NoPolls = [a \in Answers |-> 0]
      BY DEF NoPolls, Answers
  <2> QED
      BY <1>0, <2>1 DEF PollsOK
<1>2. ASSUME InFlight < MaxPolls
      PROVE  PollsOK(Polled) /\ \A v \in Verdicts : Polled[v] = polls[v]
  <2>1. /\ polls["unread"] \in Nat /\ polls["pending"] \in Nat
        /\ polls["paid"] \in Nat /\ polls["dead"] \in Nat
        /\ polls["unread"] + polls["pending"] + polls["paid"] + polls["dead"] < MaxPolls
      BY <1>0, <1>2 DEF InFlight
  <2>2. Polled = [polls EXCEPT !["unread"] = polls["unread"] + 1]
      BY DEF Polled
  <2> QED
      BY <1>0, <2>1, <2>2 DEF PollsOK, Verdicts
<1>3. ASSUME NEW a \in Answers, polls[a] > 0
      PROVE  LET p == [polls EXCEPT ![a] = @ - 1]
             IN  PollsOK(p) /\ \A b \in Answers : p[b] > 0 => polls[b] > 0
  <2> DEFINE p == [polls EXCEPT ![a] = polls[a] - 1]
  <2>1. polls["unread"] + polls["pending"] + polls["paid"] + polls["dead"] <= MaxPolls
      BY DEF PollsOK
  <2>2. p \in [Answers -> 0 .. MaxPolls] /\ p[a] = polls[a] - 1
        /\ \A b \in Answers \ {a} : p[b] = polls[b]
      BY <1>0, <1>3
  <2> HIDE DEF p
  <2>3. PollsOK(p) /\ \A b \in Answers : p[b] > 0 => polls[b] > 0
      BY <1>0, <1>3, <2>1, <2>2 DEF PollsOK
  <2> QED
      BY <2>3 DEF p
<1> QED
    BY <1>1, <1>2, <1>3

\* The row is read for a poll: an unread one becomes one with the verdict.
LEMMA PollReads ==
    ASSUME PollsOK(polls), PollRead
    PROVE  /\ PollsOK(polls')
           /\ \A v \in Verdicts : polls'[v] > 0 => polls[v] > 0 \/ v = Verdict
           /\ UNCHANGED <<order, kind, skew, loading, doc, hidden>>
<1>0. MaxPolls \in Nat /\ polls \in [Answers -> 0 .. MaxPolls]
      /\ Answers = {"unread", "pending", "paid", "dead"}
    BY StatusPageAssumption DEF PollsOK, Answers, Verdicts
<1>1. Verdict \in {"pending", "paid", "dead"} /\ polls["unread"] > 0
    BY DEF Verdict, PollRead
<1>2. polls["unread"] + polls["pending"] + polls["paid"] + polls["dead"] <= MaxPolls
    BY DEF PollsOK
<1>3. /\ polls'["unread"] = polls["unread"] - 1
      /\ polls'[Verdict] = polls[Verdict] + 1
      /\ \A v \in Verdicts \ {Verdict} : polls'[v] = polls[v]
      /\ DOMAIN polls' = Answers
      /\ polls' = [a \in Answers |-> polls'[a]]
    BY <1>0, <1>1 DEF PollRead, Verdicts
<1>4. /\ polls["unread"] \in Nat /\ polls["pending"] \in Nat
      /\ polls["paid"] \in Nat /\ polls["dead"] \in Nat
    BY <1>0
<1>5. PollsOK(polls')
  <2>1. \A a \in Answers : polls'[a] \in 0 .. MaxPolls
      BY <1>0, <1>1, <1>2, <1>3, <1>4 DEF Verdicts
  <2>2. polls'["unread"] + polls'["pending"] + polls'["paid"] + polls'["dead"] <= MaxPolls
      BY <1>0, <1>1, <1>2, <1>3, <1>4 DEF Verdicts
  <2> QED
      BY <1>3, <2>1, <2>2 DEF PollsOK
<1> QED
    BY <1>1, <1>3, <1>5 DEF PollRead, Verdicts

LEMMA PageTypes ==
    ASSUME PageTypeOK, PollsOK(polls), PageMove
    PROVE  /\ PageTypeOK' /\ PollsOK(polls')
           /\ UNCHANGED <<order, kind, skew>>
<1>0. /\ loading \in {"no", "asked"} \cup Verdicts /\ doc \in Docs /\ hidden \in BOOLEAN
      /\ Blank \in Docs /\ {"paid", "dead", "pending"} = Verdicts
    BY DEF PageTypeOK, Docs, Blank, Verdicts
<1> SUFFICES /\ PollsOK(polls') /\ loading' \in {"no", "asked"} \cup Verdicts
             /\ doc' \in Docs /\ hidden' \in BOOLEAN
             /\ UNCHANGED <<order, kind, skew>>
    BY DEF PageTypeOK, PollsOK, order, Docs, Answers
<1>1. CASE Render
    BY <1>0, <1>1 DEF Render, PageState, Verdict
<1>2. CASE Start
    BY <1>0, <1>2, Starting, PollsChange DEF Start
<1>3. CASE LoadFails
    BY <1>0, <1>3, PollsChange DEF LoadFails
<1>4. CASE Poll
    BY <1>0, <1>4, PollsChange DEF Poll
<1>5. CASE PollRead
    BY <1>0, <1>5, PollReads
<1>6. ASSUME NEW a \in Verdicts, PollArrive(a)
      PROVE  /\ PollsOK(polls') /\ loading' \in {"no", "asked"} \cup Verdicts
             /\ doc' \in Docs /\ hidden' \in BOOLEAN
             /\ UNCHANGED <<order, kind, skew>>
  <2>1. PollsOK(polls')
      BY <1>6, PollsChange DEF PollArrive, Answers
  <2>2. doc' \in {doc, ApplyState(doc, "paid"), ApplyState(doc, "dead")}
        /\ loading' \in {loading, "asked"}
      BY <1>6 DEF PollArrive, ShowPaid
  <2>3. doc' \in Docs
      BY <1>0, <2>2, Applying
  <2> QED
      BY <1>0, <1>6, <2>1, <2>2, <2>3 DEF PollArrive
<1>7. ASSUME NEW a \in Answers, PollLost(a)
      PROVE  PollsOK(polls') /\ UNCHANGED <<order, kind, skew, loading, doc, hidden>>
    BY <1>7, PollsChange DEF PollLost
<1>8. CASE Countdown
    BY <1>0, <1>8, Applying DEF Countdown
<1>9. CASE Hide
    BY <1>0, <1>9 DEF Hide, Docs
<1>10. CASE Reveal
    BY <1>0, <1>10, PollsChange DEF Reveal, Docs
<1>11. CASE Reload
    BY <1>11 DEF Reload, PageTypeOK, Docs
<1> QED
    BY <1>0, <1>1, <1>2, <1>3, <1>4, <1>5, <1>6, <1>7, <1>8, <1>9, <1>10, <1>11
    DEF PageMove, PageStep, Answers

\* What a row is, it has been.
RowsArePast ==
    /\ status = "paid" => "paid" \in past
    /\ status \in {"expired", "cancelled"} => "dead" \in past

\* An answer to a poll, and a page on its way, says what the row was when it
\* was read.
AnswersWereTrue ==
    /\ \A v \in {"paid", "dead"} : polls[v] > 0 => v \in past
    /\ loading = "paid" => "paid" \in past
    /\ loading = "dead" => "dead" \in past \/ expiresAt <= now

\* A ticket's page that says "paid" came so from the server: it runs no script
\* and waits for no answer.
PaidTicketsAreStill ==
    kind = "ticket" /\ doc.shown = "paid" =>
        ~doc.timers /\ ~doc.scripted /\ polls = NoPolls

LEMMA NoneInFlight == \A v \in Answers : ~(NoPolls[v] > 0)
BY DEF NoPolls, Answers

LEMMA AnswersStayTrue ==
    ASSUME PageTypeOK, PollsOK(polls), RowsArePast, AnswersWereTrue, PageMove
    PROVE  RowsArePast' /\ AnswersWereTrue'
<1>0. UNCHANGED <<now, status, expiresAt, paid, past>>
    BY PageTypes DEF order
<1>1. SUFFICES AnswersWereTrue'
    BY <1>0 DEF RowsArePast
<1>2. ASSUME polls'["paid"] > 0 => polls["paid"] > 0,
             polls'["dead"] > 0 => polls["dead"] > 0,
             loading' \in {loading, "no", "asked"}
      PROVE  AnswersWereTrue'
    BY <1>0, <1>2 DEF AnswersWereTrue
<1>3. CASE Render
  <2>1. loading' = PageState /\ UNCHANGED polls
      BY <1>3 DEF Render
  <2> QED
      BY <1>0, <2>1 DEF PageState, Verdict, RowsArePast, AnswersWereTrue
<1>4. CASE Start \/ LoadFails
  <2>1. polls' = NoPolls /\ loading' = "no"
      BY <1>4 DEF Start, LoadFails
  <2> QED
      BY <1>2, <2>1, NoneInFlight DEF Answers, Verdicts
<1>5. CASE Poll \/ Reveal
  <2>1. polls' = polls \/ (polls' = Polled /\ InFlight < MaxPolls)
      BY <1>5 DEF Poll, Reveal
  <2>2. loading' = loading
      BY <1>5 DEF Poll, Reveal
  <2> QED
      BY <1>2, <2>1, <2>2, PollsChange DEF Verdicts
<1>6. CASE PollRead
  <2>1. \A v \in Verdicts : polls'[v] > 0 => polls[v] > 0 \/ v = Verdict
      BY <1>6, PollReads
  <2>2. Verdict \in {"paid", "dead"} => Verdict \in past
      BY DEF Verdict, RowsArePast
  <2>3. loading' = loading
      BY <1>6 DEF PollRead
  <2>4. ASSUME NEW v \in {"paid", "dead"}, polls'[v] > 0
        PROVE  v \in past
    <3>1. polls[v] > 0 \/ v = Verdict
        BY <2>1, <2>4 DEF Verdicts
    <3> QED
        BY <2>2, <3>1 DEF AnswersWereTrue
  <2> QED
      BY <1>0, <2>3, <2>4 DEF AnswersWereTrue
<1>7. ASSUME NEW a \in Answers, polls[a] > 0, polls' = [polls EXCEPT ![a] = @ - 1],
             loading' \in {loading, "no", "asked"}
      PROVE  AnswersWereTrue'
    BY <1>2, <1>7, PollsChange DEF Answers, Verdicts
<1>8. ASSUME NEW a \in Answers, (a \in Verdicts /\ PollArrive(a)) \/ PollLost(a)
      PROVE  AnswersWereTrue'
    BY <1>7, <1>8 DEF PollArrive, PollLost, ShowPaid
<1>9. CASE Countdown \/ Hide \/ Reload
    BY <1>2, <1>9 DEF Countdown, Hide, Reload
<1> QED
    BY <1>3, <1>4, <1>5, <1>6, <1>8, <1>9 DEF PageMove, PageStep, Answers

LEMMA ShownStaysTrue ==
    ASSUME PageTypeOK, PollsOK(polls), AnswersWereTrue, ShownIsTrue, PageMove
    PROVE  ShownIsTrue'
<1>0. UNCHANGED <<now, status, expiresAt, paid, past, skew, kind>> /\ doc \in Docs
    BY PageTypes DEF order, PageTypeOK, Docs
<1>1. CASE Start
    BY <1>0, <1>1, Starting DEF AnswersWereTrue, ShownIsTrue, PastDeadline
<1>2. CASE LoadFails
    BY <1>2 DEF LoadFails, Blank, ShownIsTrue
<1>3. ASSUME doc'.shown = doc.shown, doc'.link = doc.link
      PROVE  ShownIsTrue'
    BY <1>0, <1>3 DEF ShownIsTrue, PastDeadline
<1>4. CASE Hide \/ Reveal
    BY <1>0, <1>3, <1>4 DEF Hide, Reveal, Docs
<1>5. ASSUME doc' = ApplyState(doc, "dead"), "dead" \in past \/ PastDeadline
      PROVE  ShownIsTrue'
    BY <1>0, <1>5, Applying DEF ShownIsTrue, PastDeadline
<1>6. ASSUME NEW a \in Verdicts, PollArrive(a)
      PROVE  ShownIsTrue'
  <2>1. CASE a = "paid" /\ ShowPaid
    <3>1. "paid" \in past
        BY <1>6, <2>1 DEF PollArrive, AnswersWereTrue
    <3> QED
        BY <1>0, <1>3, <2>1, <3>1, Applying DEF ShowPaid, ShownIsTrue
  <2>2. CASE (a = "dead" \/ (a = "pending" /\ PastDeadline)) /\ doc' = ApplyState(doc, "dead")
    <3>1. "dead" \in past \/ PastDeadline
        BY <1>6, <2>2 DEF PollArrive, AnswersWereTrue
    <3> QED
        BY <1>5, <2>2, <3>1
  <2>3. CASE UNCHANGED doc
      BY <1>3, <2>3
  <2> QED
      BY <1>6, <2>1, <2>2, <2>3 DEF PollArrive
<1>7. CASE Countdown
    BY <1>5, <1>7 DEF Countdown
<1>8. CASE UNCHANGED doc
    BY <1>3, <1>8
<1> QED
    BY <1>1, <1>2, <1>4, <1>6, <1>7, <1>8
    DEF PageMove, PageStep, Render, Poll, PollRead, PollLost, Reload

\* The page of a paid ticket is changed by a page load only.
LEMMA PaidTicketIsReplaced ==
    ASSUME PageTypeOK, PaidTicketsAreStill, PageMove, kind = "ticket", doc.shown = "paid"
    PROVE  \/ doc' = doc /\ polls' = polls
           \/ (doc'.timers = FALSE /\ doc'.shown = "paid" /\ doc'.scripted = FALSE
               /\ polls' = polls)
           \/ loading # "no" /\ (Start \/ LoadFails)
<1>1. ~doc.timers /\ ~doc.scripted /\ polls = NoPolls /\ doc \in Docs
    BY DEF PaidTicketsAreStill, PageTypeOK, Docs
<1>2. ~Poll /\ ~Countdown
    BY <1>1 DEF Poll, Countdown
<1>3. ~PollRead /\ \A a \in Answers : ~PollLost(a) /\ ~PollArrive(a)
    BY <1>1, NoneInFlight DEF PollRead, PollLost, PollArrive, Answers
<1>4. CASE Start \/ LoadFails
    BY <1>4 DEF Start, LoadFails, Verdicts
<1>5. CASE Render \/ Reload \/ Reveal
    BY <1>1, <1>5 DEF Render, Reload, Reveal
<1>6. CASE Hide
    BY <1>1, <1>6 DEF Hide, Docs
<1> QED
    BY <1>2, <1>3, <1>4, <1>5, <1>6 DEF PageMove, PageStep, Answers

LEMMA TicketsStayStill ==
    ASSUME PageTypeOK, PollsOK(polls), PaidTicketsAreStill, PageMove
    PROVE  PaidTicketsAreStill'
<1>0. UNCHANGED kind /\ doc \in Docs
    BY PageTypes DEF PageTypeOK, Docs
<1>1. CASE Start
    BY <1>1, Starting DEF PaidTicketsAreStill
<1>2. CASE LoadFails
    BY <1>2 DEF LoadFails, Blank, PaidTicketsAreStill
<1>3. CASE kind # "ticket"
    BY <1>0, <1>3 DEF PaidTicketsAreStill
<1>4. CASE kind = "ticket" /\ doc.shown = "paid"
    BY <1>0, <1>1, <1>2, <1>4, PaidTicketIsReplaced DEF PaidTicketsAreStill
<1>5. CASE kind = "ticket" /\ doc.shown # "paid" /\ ~Start /\ ~LoadFails
  <2>1. doc'.shown # "paid"
    <3>1. doc' \in {doc, ApplyState(doc, "dead")} \/ Hide \/ Reveal
        BY <1>5 DEF PageMove, PageStep, Render, Poll, PollRead, PollLost, PollArrive,
           ShowPaid, Countdown, Reload
    <3>2. CASE Hide \/ Reveal
        BY <1>0, <1>5, <3>2 DEF Hide, Reveal, Docs
    <3> QED
        BY <1>0, <1>5, <3>1, <3>2, Applying
  <2> QED
      BY <2>1 DEF PaidTicketsAreStill
<1> QED
    BY <1>1, <1>2, <1>3, <1>4, <1>5

(***************************************************************************)
(* The order, and the tab as a whole.                                      *)
(***************************************************************************)

\* There is no payment page, and none on its way, before there is an order.
OrderComesFirst ==
    status = "none" => /\ doc = Blank /\ loading = "no" /\ polls = NoPolls
                       /\ post.pc # "created" /\ front # "none"

TabInv == /\ TypeOK /\ FormIsOpen /\ PollsOK(polls)
          /\ OrderComesFirst /\ RowsArePast /\ AnswersWereTrue
          /\ ShownIsTrue /\ PaidTicketsAreStill

\* What a step of the tab is to the payment page and to the order.
LEMMA TabSteps ==
    ASSUME [Next]_vars
    PROVE  \/ /\ PageMove /\ (front = "none" \/ loading # "no")
              /\ UNCHANGED order
           \/ Order
           \/ CreateOrder
           \/ /\ post.pc = "created" /\ loading' = "asked"
              /\ UNCHANGED <<order, kind, skew, doc, hidden, polls, front>>
           \/ UNCHANGED <<order, kind, skew, pageVars>>
<1>1. CASE Page
  <2>1. Render => UNCHANGED order /\ loading # "no"
      BY DEF Render
  <2>2. PageMove => UNCHANGED order
      BY DEF PageMove, PageStep, Render, Start, LoadFails, Poll, PollRead, PollLost,
         PollArrive, Countdown, Hide, Reveal, Reload
  <2> QED
      BY <1>1, <2>1, <2>2 DEF Page, PageMove, PageStep
<1>2. CASE Arrive
    BY <1>2 DEF Arrive, PageMove, PageStep, Start, LoadFails, Verdicts
<1>3. CASE LeaveFlow
    BY <1>3 DEF LeaveFlow, Accepted
<1>4. CASE Flow \/ UNCHANGED vars
    BY <1>4 DEF Flow, vars
<1> QED
    BY <1>1, <1>2, <1>3, <1>4 DEF Next

LEMMA OrderTypes ==
    ASSUME PageTypeOK, CreateOrder \/ Order
    PROVE  /\ PageTypeOK' /\ UNCHANGED <<kind, skew, pageVars>>
           /\ now' >= now /\ past \subseteq past'
           /\ status = "none" \/ expiresAt' = expiresAt
           /\ status = "none" => CreateOrder \/ status' = "none"
           /\ status' # "none" \/ status = "none"
<1>0. /\ now \in Nat /\ expiresAt \in Nat /\ paid \in BOOLEAN /\ HoldMinutes \in Nat
      /\ status \in {"none", "pending_payment", "paid", "expired", "cancelled"}
      /\ past \subseteq Verdicts
    BY StatusPageAssumption DEF PageTypeOK
<1>1. UNCHANGED <<kind, skew, pageVars>>
    BY DEF CreateOrder, Order
<1>2. past' \subseteq Verdicts /\ past \subseteq past'
    BY <1>0 DEF CreateOrder, Order, Verdict, Verdicts
<1>3. /\ now' \in Nat /\ now' >= now /\ expiresAt' \in Nat /\ paid' \in BOOLEAN
      /\ status' \in {"none", "pending_payment", "paid", "expired", "cancelled"}
      /\ status = "none" \/ expiresAt' = expiresAt
      /\ status = "none" => CreateOrder \/ status' = "none"
      /\ status' # "none" \/ status = "none"
  <2>1. CASE CreateOrder
      BY <1>0, <2>1 DEF CreateOrder, Life!Create
  <2>2. CASE Order
    <3>1. Life!Pay \/ Life!Settle \/ Life!Lapse \/ Life!Cancel \/ Life!Tick
        BY <2>2 DEF Order
    <3>2. /\ now' \in Nat /\ now' >= now /\ expiresAt' = expiresAt
          /\ status = "none" => status' = "none"
      <4>1. CASE Life!Tick
          BY <1>0, <4>1 DEF Life!Tick
      <4>2. CASE Life!Pay \/ Life!Settle \/ Life!Lapse \/ Life!Cancel
          BY <1>0, <4>2 DEF Life!Pay, Life!Settle, Life!Lapse, Life!Cancel
      <4> QED
          BY <3>1, <4>1, <4>2
    <3>3. /\ paid' \in BOOLEAN
          /\ status' \in {status, "paid", "expired", "cancelled"}
        BY <1>0, <3>1 DEF Life!Pay, Life!Settle, Life!Lapse, Life!Cancel, Life!Tick
    <3> QED
        BY <1>0, <3>2, <3>3
  <2> QED
      BY <2>1, <2>2
<1> QED
    BY <1>1, <1>2, <1>3 DEF PageTypeOK, pageVars

LEMMA PastStaysPast ==
    ASSUME NEW deadline \in Int, NEW t \in Int, NEW u \in Int, NEW ahead \in Int,
           u >= t, deadline <= t + ahead
    PROVE  deadline <= u + ahead
OBVIOUS

LEMMA OrderMoves ==
    ASSUME TabInv, CreateOrder \/ Order
    PROVE  RowsArePast' /\ AnswersWereTrue' /\ ShownIsTrue' /\ PaidTicketsAreStill'
<1>1. /\ PageTypeOK /\ PageTypeOK' /\ UNCHANGED <<kind, skew, pageVars>>
      /\ now' >= now /\ past \subseteq past'
      /\ status = "none" \/ expiresAt' = expiresAt
    BY OrderTypes DEF TabInv, TypeOK
<1>2. RowsArePast'
  <2>1. CASE CreateOrder
      BY <2>1 DEF CreateOrder, Life!Create, RowsArePast
  <2>2. CASE Order
      BY <2>2 DEF Order, Verdict, RowsArePast
  <2> QED
      BY <2>1, <2>2
<1>3. PaidTicketsAreStill'
    BY <1>1 DEF TabInv, PaidTicketsAreStill, pageVars
<1>4. CASE status = "none"
  <2>1. doc' = Blank /\ loading' = "no" /\ polls' = NoPolls
      BY <1>1, <1>4 DEF TabInv, OrderComesFirst, pageVars
  <2>2. AnswersWereTrue'
      BY <2>1, NoneInFlight DEF AnswersWereTrue, Answers, Verdicts
  <2>3. ShownIsTrue'
      BY <2>1 DEF ShownIsTrue, Blank
  <2> QED
      BY <1>2, <1>3, <2>2, <2>3
<1>5. CASE status # "none"
  <2>1. /\ expiresAt' = expiresAt /\ UNCHANGED <<loading, doc, polls, skew>>
        /\ now \in Int /\ now' \in Int /\ expiresAt \in Int /\ skew \in Int
      BY <1>1, <1>5, StatusPageAssumption DEF PageTypeOK, pageVars
  <2>2. AnswersWereTrue'
      BY <1>1, <2>1 DEF TabInv, AnswersWereTrue
  <2>3. ShownIsTrue'
    <3>1. PastDeadline => PastDeadline'
      <4>1. /\ expiresAt' = expiresAt /\ skew' = skew /\ now' >= now
            /\ now \in Int /\ now' \in Int /\ expiresAt \in Int /\ skew \in Int
          BY <1>1, <2>1
      <4>2. expiresAt <= now + skew => expiresAt <= now' + skew
          BY <4>1, PastStaysPast
      <4> QED
          BY <4>1, <4>2 DEF PastDeadline
    <3>2. expiresAt <= now => expiresAt' <= now'
        BY <1>1, <2>1
    <3>3. ShownIsTrue /\ UNCHANGED doc /\ past \subseteq past'
        BY <1>1, <2>1 DEF TabInv
    <3> QED
        BY <3>1, <3>2, <3>3 DEF ShownIsTrue
  <2> QED
      BY <1>2, <1>3, <2>2, <2>3
<1> QED
    BY <1>4, <1>5

LEMMA TabStep == TabInv /\ [Next]_vars => TabInv'
<1> SUFFICES ASSUME TabInv, [Next]_vars
             PROVE  TabInv'
    OBVIOUS
<1>0. /\ FlowTypeOK /\ PageTypeOK /\ FormIsOpen /\ PollsOK(polls) /\ OrderComesFirst
      /\ RowsArePast /\ AnswersWereTrue /\ ShownIsTrue /\ PaidTicketsAreStill
    BY DEF TabInv, TypeOK
<1>1. FlowTypeOK' /\ FormIsOpen'
    BY <1>0, FormSteps, FormStays
<1>2. CASE PageMove /\ (front = "none" \/ loading # "no") /\ UNCHANGED order
  <2>1. PageTypeOK' /\ PollsOK(polls')
      BY <1>0, <1>2, PageTypes
  <2>2. OrderComesFirst'
      BY <1>0, <1>2 DEF OrderComesFirst, order
  <2> QED
      BY <1>0, <1>1, <1>2, <2>1, <2>2, AnswersStayTrue, ShownStaysTrue, TicketsStayStill
      DEF TabInv, TypeOK
<1>3. CASE CreateOrder \/ Order
  <2>1. /\ PageTypeOK' /\ UNCHANGED <<kind, skew, pageVars>>
        /\ status = "none" => CreateOrder \/ status' = "none"
        /\ status' # "none" \/ status = "none"
      BY <1>0, <1>3, OrderTypes
  <2>2. OrderComesFirst'
    <3>1. CASE CreateOrder
        BY <3>1 DEF CreateOrder, Life!Create, OrderComesFirst
    <3>2. CASE Order
        BY <1>0, <2>1, <3>2 DEF Order, OrderComesFirst, pageVars, flowVars
    <3> QED
        BY <1>3, <3>1, <3>2
  <2>3. PollsOK(polls')
      BY <1>0, <2>1 DEF pageVars
  <2> QED
      BY <1>1, <1>3, <2>1, <2>2, <2>3, OrderMoves DEF TabInv, TypeOK
<1>4. CASE /\ post.pc = "created" /\ loading' = "asked"
           /\ UNCHANGED <<order, kind, skew, doc, hidden, polls, front>>
  <2>1. PageTypeOK' /\ PollsOK(polls')
      BY <1>0, <1>4 DEF PageTypeOK, order
  <2>2. OrderComesFirst'
      BY <1>0, <1>4 DEF OrderComesFirst, order
  <2>3. RowsArePast' /\ AnswersWereTrue' /\ ShownIsTrue' /\ PaidTicketsAreStill'
      BY <1>0, <1>4 DEF RowsArePast, AnswersWereTrue, ShownIsTrue, PaidTicketsAreStill,
         PastDeadline, order
  <2> QED
      BY <1>1, <2>1, <2>2, <2>3 DEF TabInv, TypeOK
<1>5. CASE UNCHANGED <<order, kind, skew, pageVars>>
  <2>1. PageTypeOK' /\ PollsOK(polls')
      BY <1>0, <1>5 DEF PageTypeOK, order, pageVars
  <2>2. OrderComesFirst'
    <3>1. CASE status # "none"
        BY <1>5, <3>1 DEF OrderComesFirst, order
    <3>2. CASE status = "none"
      <4>1. doc = Blank /\ loading = "no" /\ polls = NoPolls
            /\ post.pc # "created" /\ front # "none"
          BY <1>0, <3>2 DEF OrderComesFirst
      <4>2. post'.pc # "created" /\ front' # "none"
        <5>1. FlowStep \/ UNCHANGED <<front, flowVars>>
          <6>1. ~Arrive /\ ~LeaveFlow
              BY <4>1 DEF Arrive, Start, LoadFails, Verdicts, LeaveFlow, Accepted
          <6>2. ~CreateOrder
              BY <1>5, <3>2 DEF CreateOrder, Life!Create, order
          <6> QED
              BY <6>1, <6>2 DEF Next, Flow, Page, Order, vars
        <5>2. front' = front
            BY <5>1 DEF FlowStep, Choose, LoadArrives, Select, Submit, Refused, PostAnswered
        <5>3. NoPost.pc = "idle" /\ post \in [pc : {"idle", "sent", "created", "taken",
                  "invalid", "failed", "reloading"},
                  at : Choices \cup {NoChoice}, slot : Choices \cup {NoChoice}]
            BY <1>0 DEF NoPost, FlowTypeOK
        <5>4. CASE FlowStep
          <6>1. \/ post' \in {post, NoPost}
                \/ post'.pc = "sent"
                \/ \E pc \in Refusals \cup {"reloading"} : post' = [post EXCEPT !.pc = pc]
              BY <5>4 DEF FlowStep, Choose, LoadArrives, Select, Submit, Refused,
                 PageReloads, SiteReloads, PostAnswered
          <6> QED
              BY <4>1, <5>2, <5>3, <6>1 DEF Refusals
        <5> QED
            BY <4>1, <5>1, <5>2, <5>4 DEF flowVars
      <4> QED
          BY <1>5, <4>1, <4>2 DEF OrderComesFirst, pageVars
    <3> QED
        BY <3>1, <3>2
  <2>3. RowsArePast' /\ AnswersWereTrue' /\ ShownIsTrue' /\ PaidTicketsAreStill'
      BY <1>0, <1>5 DEF RowsArePast, AnswersWereTrue, ShownIsTrue, PaidTicketsAreStill,
         PastDeadline, order, pageVars
  <2> QED
      BY <1>1, <2>1, <2>2, <2>3 DEF TabInv, TypeOK
<1> QED
    BY <1>2, <1>3, <1>4, <1>5, TabSteps

LEMMA TabInit == Init => TabInv /\ ChoiceInv
<1> SUFFICES ASSUME Init
             PROVE  TabInv /\ ChoiceInv
    OBVIOUS
<1>1. NoPost.pc = "idle" /\ NoLoads \in [Choices -> 0 .. MaxLoads]
      /\ NoPost \in [pc : {"idle", "sent", "created", "taken", "invalid", "failed",
                       "reloading"},
                     at : Choices \cup {NoChoice}, slot : Choices \cup {NoChoice}]
    BY BookingFlowAssumption DEF NoPost, NoLoads
<1>2. loads \in [Choices -> 0 .. MaxLoads] /\ LoadsUnderWay \subseteq {choice}
    BY <1>1, BookingFlowAssumption DEF Init, FlowInit, NoLoads, LoadsUnderWay
<1>3. FlowTypeOK /\ FormIsOpen /\ ChoiceInv
    BY <1>1, <1>2 DEF Init, FlowInit, FlowTypeOK, FormIsOpen, ChoiceInv, ChoiceIsKept,
       Fronts
<1>4. NoPolls \in [Answers -> 0 .. MaxPolls] /\ PollsOK(NoPolls) /\ Blank \in Docs
    BY StatusPageAssumption DEF NoPolls, Answers, Verdicts, PollsOK, Blank, Docs
<1>5. PageTypeOK /\ PollsOK(polls)
    BY <1>4 DEF Init, PageInit, PageTypeOK, Life!Init, Answers, Docs
<1>6. OrderComesFirst /\ RowsArePast /\ AnswersWereTrue /\ ShownIsTrue /\ PaidTicketsAreStill
    BY <1>1, NoneInFlight DEF Init, PageInit, FlowInit, Life!Init, OrderComesFirst, RowsArePast,
       AnswersWereTrue, ShownIsTrue, PaidTicketsAreStill, Blank, Fronts, Answers, Verdicts
<1> QED
    BY <1>3, <1>5, <1>6 DEF TabInv, TypeOK

\* The form, the page and the polls in flight keep their shape, and no verdict
\* on the screen, in an answer or in a page on its way is ahead of the row.
THEOREM TabIsConsistent == Spec => []TabInv
<1>1. Init => TabInv
    BY TabInit
<1> QED
    BY <1>1, TabStep, PTL DEF Spec

\* Types.
THEOREM TypeCorrect == Spec => []TypeOK
<1>1. TabInv => TypeOK
    BY DEF TabInv
<1> QED
    BY <1>1, TabIsConsistent, PTL

\* The payment page (book_status.html, ticket.html) claims nothing that never
\* was, whatever answers come late and whatever the browser's clock.
THEOREM PageTellsTheTruth == Spec => []ShownIsTrue
<1>1. TabInv => ShownIsTrue
    BY DEF TabInv
<1> QED
    BY <1>1, TabIsConsistent, PTL

\* What the customer sees and sends belongs to what the form shows as chosen
\* (booking.html, booking-flow.tsx), as long as the form is left alone while a
\* list is on its way and, on the site, while it is being submitted.
THEOREM FormSendsItsChoice == Spec => []ChoiceIsKept
<1>1. TypeOK /\ FormIsOpen /\ ChoiceInv /\ [Next]_vars => ChoiceInv'
    BY FormSteps, ChoiceStays DEF TypeOK
<1>2. TabInv => TypeOK /\ FormIsOpen
    BY DEF TabInv
<1>3. ChoiceInv => ChoiceIsKept
    BY DEF ChoiceInv
<1>4. Init => ChoiceInv
    BY TabInit
<1> QED
    BY <1>1, <1>2, <1>3, <1>4, TabIsConsistent, PTL DEF Spec

\* A ticket shown as paid is taken back by no late answer, no countdown and no
\* change of tabs (ticket.html): only a page load changes it.
THEOREM PaidTicketsStand == Spec => TicketVerdictStands
<1>1. TabInv /\ [Next]_vars =>
          [kind = "ticket" /\ doc.shown = "paid" /\ doc'.shown # "paid"
               => loading # "no"]_vars
  <2> SUFFICES ASSUME TabInv, [Next]_vars, kind = "ticket", doc.shown = "paid",
                      doc'.shown # "paid"
               PROVE  loading # "no"
      OBVIOUS
  <2>1. CASE PageMove
      BY <2>1, PaidTicketIsReplaced DEF TabInv, TypeOK
  <2>2. CASE CreateOrder \/ Order
      BY <2>2, OrderTypes DEF TabInv, TypeOK, pageVars
  <2>3. CASE UNCHANGED doc
      BY <2>3
  <2> QED
      BY <2>1, <2>2, <2>3, TabSteps DEF pageVars
<1> QED
    BY <1>1, TabIsConsistent, PTL DEF Spec, TicketVerdictStands

=============================================================================
