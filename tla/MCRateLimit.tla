---------------------------- MODULE MCRateLimit ----------------------------
(* Values of RateLimit's constants for TLC. *)
EXTENDS RateLimit, TLC

CONSTANTS alice, bob, proxy, t1, t2

\* Callers send no header, or one that names somebody.
MCSent    == {<< >>, <<bob>>, <<proxy>>}
MCProxies == <<proxy>>
MCMaxHits == (alice :> 6 @@ bob :> 1)

Symmetry == Permutations(Threads)

============================================================================
