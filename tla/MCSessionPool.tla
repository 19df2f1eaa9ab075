--------------------------- MODULE MCSessionPool ---------------------------
(***************************************************************************)
(* SessionPool for TLC: the symmetry of the threads, the session names and *)
(* the channels, none of which the pool tells apart.  Runs that check      *)
(* liveness do without it.                                                 *)
(***************************************************************************)
EXTENDS SessionPool, TLC

Symmetry == Permutations(Threads) \cup Permutations(Sessions)
              \cup Permutations(Channels)
=============================================================================
