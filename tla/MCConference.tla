--------------------------- MODULE MCConference ---------------------------
(* Values of Conference's constants for TLC. *)
EXTENDS Conference, TLC

CONSTANTS r1, r2, r3, h1

\* r1 and r2 are interchangeable.
Symmetry == Permutations({r1, r2})

\* The requests that are under way, tasks and cancel_event not counted.
InFlight ==
    Cardinality({r \in Refs : buyer[r].pc # "idle"})
    + Cardinality({r \in Refs : canceller[r] # "idle"})
    + Cardinality({h \in Handlers : notifier[h].pc # "idle"})
    + (IF updater.pc = "idle" THEN 0 ELSE 1)

\* A bound: r1 and r2 do everything.  r3 makes them outnumber every capacity; it
\* comes after them, while the conference is on, nothing has crashed and no
\* ticket was mailed, and with no more than two requests at a time.
ThirdComesLast ==
    \/ buyer[r3].pc = "idle" /\ order[r3] = "none"
    \/ /\ \A r \in {r1, r2} : order[r] # "none" \/ buyer[r].pc # "idle"
       /\ crashes = 0 /\ ~cancelled /\ closer.pc = "idle"
       /\ \A r \in Refs : tickets[r] = 0 /\ finalizer[r] \in {"idle", "queued"}
       /\ InFlight <= 2

============================================================================
