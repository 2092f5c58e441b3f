--------------------------- MODULE MCNeighborhood ---------------------------
(* Instance of Neighborhood for TLC: two willing neighbours that may hear  *)
(* each other, and one remote node.                                        *)
EXTENDS Neighborhood, TLC

CONSTANTS a, b, x

Says(s, o) == [symNeigh |-> s, notNeigh |-> o]

MCWill == [n \in {a, b} |-> 3]
MCContents ==
  [n \in {a, b} |-> {Says({}, {}), Says({x}, {}), Says({}, {x}), Says({a, b, x} \ {n}, {})}]
MCSymmetry == Permutations({a, b})

\* The ANSN is read by no action; states that differ in it only are one.
MCView == <<now, link, timer, nb, twoHop, mprSet, selectors, firstTime>>
=============================================================================
