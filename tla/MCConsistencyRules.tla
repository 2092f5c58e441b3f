-------------------------- MODULE MCConsistencyRules --------------------------
(***************************************************************************)
(* One neighbour of TrustDefense that forwards everything or nothing, on a *)
(* channel that may lose what it carries; or one that is judged by the     *)
(* consistency rules, which do not ask what it forwards, on a channel that *)
(* loses nothing.                                                          *)
(***************************************************************************)
EXTENDS ConsistencyRules

CONSTANTS n1, u1

GoodOrBad ==
  [conduct : [{n1} -> {{"tc", "data"}, {}}], lossy : {TRUE}, defence : {"monitor"}]
    \cup [conduct : [{n1} -> {{}}], lossy : {FALSE}, defence : {"rules"}]
=============================================================================
