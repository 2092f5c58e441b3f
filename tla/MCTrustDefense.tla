--------------------------- MODULE MCTrustDefense ---------------------------
(* Instances of TrustDefense for TLC.  The unit of time is the sweep       *)
(* interval; the timers keep the order of the defaults: jitter < HELLO     *)
(* interval < awaiting period < TC interval.                               *)
EXTENDS TrustDefense

CONSTANTS n1, n2, u1

Monitoring(conducts, loss) ==
  [conduct : conducts, lossy : {loss}, defence : {"monitor"}]

\* One neighbour that forwards everything beside one that forwards nothing.
GoodAndBad ==
  Monitoring({[n \in {n1, n2} |-> IF n = n1 THEN {"tc", "data"} ELSE {}]}, FALSE)

\* One neighbour that drops data and re-floods TCs, like the black hole that
\* RouteInput implements.
BlackHole == Monitoring([{n1} -> {{"tc"}}], FALSE)
=============================================================================
