----------------------------- MODULE MCFlooding -----------------------------
(* Instance of Flooding for TLC: the networks over five nodes in which     *)
(* every node is linked.  Nodes other than the originator n1 are           *)
(* interchangeable: only the networks are taken that name the neighbours   *)
(* of n1 first, and those of the same kind by falling degree.              *)
EXTENDS Flooding, Sequences

CONSTANTS n1, n2, n3, n4, n5

Links == {{m, n} : m \in Nodes, n \in Nodes} \ {{n} : n \in Nodes}
NearOf(L) == [n \in Nodes |-> {m \in Nodes : {m, n} \in L}]

Named == <<n2, n3, n4, n5>>
Rank(net, n) == Cardinality(net[n]) + IF n1 \in net[n] THEN 5 ELSE 0
Ordered(net) == \A i \in 1 .. 3 : Rank(net, Named[i]) >= Rank(net, Named[i + 1])

MCNetworks == {net \in {NearOf(L) : L \in SUBSET Links} :
                 Ordered(net) /\ \A n \in Nodes : net[n] # {}}
=============================================================================
