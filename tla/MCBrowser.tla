----------------------------- MODULE MCBrowser -----------------------------
(***************************************************************************)
(* Browser for TLC: two choices, a hold of one tick, a browser whose clock *)
(* is right, or a tick behind or ahead, two polls in flight.                          *)
(***************************************************************************)
EXTENDS Browser

MCSkews == {-1, 0, 1}

=============================================================================
