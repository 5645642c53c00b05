----------------------------- MODULE MCBooking -----------------------------
(* Values of Booking's constants for TLC. *)
EXTENDS Booking, TLC

CONSTANTS r1, r2, r3, h1, h2

\* Every request asks for the same slot.
OneSlot   == [type |-> "call", start |-> 0, end |-> 2]
OneSlots  == {OneSlot}
OneSlotOf == [r \in Refs |-> OneSlot]

\* Requests and handlers are interchangeable.
Symmetry == Permutations(Refs) \cup Permutations(Handlers)

\* Two event types.  r1 and r2 ask for the same call; r3 asks for a review
\* that overlaps it and is longer.
Call       == [type |-> "call", start |-> 0, end |-> 2]
Review     == [type |-> "review", start |-> 1, end |-> 4]
TwoSlots   == {Call, Review}
TwoSlotsOf == [r \in Refs |-> IF r = r3 THEN Review ELSE Call]

\* An owner's meeting over part of a review, a conference over part of a call.
Lunch      == [start |-> 3, end |-> 5]
Conference == [start |-> 1, end |-> 2]
OneMeeting    == {Lunch}
OneConference == {Conference}

\* Where r3 is a stranger's or asks for something else.
RequestSymmetry == Permutations({r1, r2}) \cup Permutations(Handlers)

============================================================================
