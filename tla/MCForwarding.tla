---------------------------- MODULE MCForwarding ----------------------------
(* Instance of Forwarding for TLC: networks over five nodes in which every *)
(* node is linked.  Nodes other than the source n1 and the suspect n5 are  *)
(* interchangeable: only the networks are taken that name the neighbours   *)
(* of n1 first, then those of n5, and nodes of the same kind by falling    *)
(* degree; with more than two neighbours n1 has no long way to go.         *)
EXTENDS Forwarding

CONSTANTS n1, n2, n3, n4, n5

Links == {{m, n} : m \in Nodes, n \in Nodes} \ {{n} : n \in Nodes}
NearOf(L) == [n \in Nodes |-> {m \in Nodes : {m, n} \in L}]

Rank(net, n) == Cardinality(net[n]) + (IF n1 \in net[n] THEN 10 ELSE 0)
                  + (IF n5 \in net[n] THEN 5 ELSE 0)

MCNetworks == {net \in {NearOf(L) : L \in SUBSET Links} :
                 /\ Rank(net, n2) >= Rank(net, n3)
                 /\ Rank(net, n3) >= Rank(net, n4)
                 /\ \A n \in Nodes : net[n] # {}
                 /\ Cardinality(net[n1]) <= 2}
=============================================================================
