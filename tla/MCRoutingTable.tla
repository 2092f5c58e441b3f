--------------------------- MODULE MCRoutingTable ---------------------------
(* Instance of RoutingTable for TLC: a is a symmetric neighbour of some     *)
(* kind, b of any kind or none, c a neighbour or none, d none; they may be *)
(* mistrusted.  Recorded links lead up to five hops away, back to the node *)
(* itself and round in circles.                                            *)
EXTENDS RoutingTable

CONSTANTS a, b, c, d

\* A node as a neighbour: whether its tuple is symmetric, whether its link
\* has not expired, whether it is willing, whether it is mistrusted.
Kind(sym, linked, willing, mistrusted) ==
  [sym |-> sym, linked |-> linked, willing |-> willing, mistrusted |-> mistrusted]
Good     == Kind(TRUE, TRUE, TRUE, FALSE)
Suspect  == Kind(TRUE, TRUE, TRUE, TRUE)
Lazy     == Kind(TRUE, TRUE, FALSE, FALSE)
Expiring == Kind(TRUE, FALSE, TRUE, FALSE)
Lost     == Kind(FALSE, TRUE, TRUE, FALSE)
LostSuspect == Kind(FALSE, TRUE, TRUE, TRUE)
None     == Kind(FALSE, FALSE, FALSE, FALSE)
Blamed   == Kind(FALSE, FALSE, FALSE, TRUE)

Kinds == {k \in [Others -> {Good, Suspect, Lazy, Expiring, Lost, LostSuspect, None, Blamed}] :
            /\ k[a] \in {Good, Suspect, Lazy, Expiring}
            /\ k[c] \in {Good, None, Blamed}
            /\ k[d] = None}

TwoHopTuples == {<<a, b>>, <<b, c>>, <<a, c>>, <<b, d>>}
TopologyTuples == {<<b, c>>, <<c, d>>, <<d, b>>, <<c, Self>>, <<b, d>>, <<a, c>>}

MCRepositories ==
  {[self |-> Self,
    sym |-> {n \in Others : k[n].sym},
    linked |-> {n \in Others : k[n].linked},
    willing |-> {n \in Others : k[n].willing},
    mistrusted |-> {n \in Others : k[n].mistrusted},
    twoHop |-> {t \in near : k[t[1]] \notin {None, Blamed}},
    topology |-> far] :
     k \in Kinds,
     near \in SUBSET TwoHopTuples,
     far \in {T \in SUBSET TopologyTuples : Cardinality(T) <= 3}}

MCOldTables == {<<>>, [n \in {b, d} |-> [next |-> b, distance |-> 1]]}
=============================================================================
