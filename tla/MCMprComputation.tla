-------------------------- MODULE MCMprComputation --------------------------
(* Instance of MprComputation for TLC: three neighbours and three remote   *)
(* addresses.  x, y and z may each be provided by two different neighbours *)
(* and y by all three, so the greedy loop may need two iterations; one     *)
(* tuple has the node itself and one a neighbour as its 2-hop address.     *)
EXTENDS MprComputation

CONSTANTS n1, n2, n3, x, y, z

MCTwoHopTuples ==
  ({n1, n2} \X {x}) \cup ({n1, n2, n3} \X {y}) \cup ({n1, n3} \X {z})
    \cup {<<n1, Self>>, <<n2, n1>>}
=============================================================================
