------------------------------ MODULE MCRelay ------------------------------
(* Values of Relay's constants for TLC. *)
EXTENDS Relay

CONSTANTS r1, t1, t2

MCSkews == {-1, 1}

============================================================================
