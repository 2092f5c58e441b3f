----------------------------- MODULE Forwarding -----------------------------
(***************************************************************************)
(* One data packet on its way through a network whose nodes run OLSR: each *)
(* node chooses its relays (MprComputation), relays announce the nodes     *)
(* that chose them (SendTc), every node computes its routing table from    *)
(* what it was told (RoutingTableComputation) and hands the packet to the  *)
(* next hop of its own table (RouteOutput, RouteInput).  No node knows the *)
(* network: beyond two hops only links to relays are known.                *)
(*                                                                         *)
(* The links are stable and known to their ends, HELLOs and TCs have been  *)
(* received wherever flooding takes them, and all nodes agree on whom they *)
(* mistrust: the verdict is recent, so that links of mistrusted nodes are  *)
(* still recorded.  Relays may be chosen anew at any time.  What may be    *)
(* chosen and computed is taken from the contracts MprRules and            *)
(* RouteRules.  Nodes have one interface and none drops data on purpose.   *)
(***************************************************************************)
EXTENDS MprRules, FiniteSets

Routes == INSTANCE RouteRules

CONSTANTS Nodes,
          Source,    \* the node the packet comes from
          Networks,  \* networks to look at: the symmetric neighbours of each node
          Levels,    \* willingness values the nodes may have
          Suspects   \* nodes that may be mistrusted

ASSUME ForwardingAssumption ==
  /\ IsFiniteSet(Nodes)
  /\ Source \in Nodes
  /\ Networks \subseteq [Nodes -> SUBSET Nodes]
  /\ \A net \in Networks : \A m, n \in Nodes : m \in net[n] => n \in net[m] /\ m # n
  /\ Levels \subseteq Willingness
  /\ Suspects \subseteq Nodes \ {Source}

VARIABLES near,        \* near[n]: the symmetric neighbours of n
          will,        \* will[n]: the willingness n announces
          mistrusted,  \* the addresses IsMalicious answers true for, at all nodes
          mprSet,      \* mprSet[n]: the relays n has chosen
          packet       \* where it goes, where it is, how far it has come

vars == <<near, will, mistrusted, mprSet, packet>>
network == <<near, will, mistrusted>>

-----------------------------------------------------------------------------
\* The nodes that pass on what others send.
Relaying == {n \in Nodes : will[n] # NEVER} \ mistrusted

\* The nodes that a flooded packet reaches within K hops of s when the willing,
\* trusted nodes pass it on: what Flooding achieves step by step, by distance.
Within(s, K) ==
  LET within[k \in 0 .. K] ==
        IF k = 0 THEN {s}
        ELSE LET nearer == within[k - 1]
             IN  nearer \cup UNION {near[m] : m \in nearer \cap (Relaying \cup {s})}
  IN  within[K]

Reaches(s, d) == d \in Within(s, Cardinality(Nodes))
Distance(s, d) == CHOOSE k \in 0 .. Cardinality(Nodes) :
                    /\ d \in Within(s, k)
                    /\ k > 0 => d \notin Within(s, k - 1)

-----------------------------------------------------------------------------
\* The 2-hop set of n: what its neighbours list in their HELLOs.
TwoHop(n) == UNION {{m} \X (near[m] \ {n}) : m \in near[n]}

\* Mutant: relays may be mistrusted.
RelayChoicesOfAll(n) == MprChoices(near[n], will, StrictTwoHop(near[n], will, TwoHop(n), n))

\* The relay sets n may choose.
RelayChoices(n) ==
  LET N == near[n] \ mistrusted
  IN  MprChoices(N, will, StrictTwoHop(N, will, TwoHop(n), n))

\* The topology set of n: the selectors of the relays whose TCs reach n.
Topology(n) ==
  {t \in Nodes \X Nodes : /\ t[1] \in mprSet[t[2]]
                          /\ t[1] # n
                          /\ t[1] \notin mistrusted
                          /\ Reaches(t[1], n)}

\* Mutant: takes every neighbour to be willing.
RepositoriesAllWilling(n) ==
  [self |-> n,
   sym |-> near[n],
   linked |-> near[n],
   willing |-> near[n],
   mistrusted |-> mistrusted,
   twoHop |-> TwoHop(n),
   topology |-> Topology(n)]

\* What n knows when it computes its routing table.
Repositories(n) ==
  [self |-> n,
   sym |-> near[n],
   linked |-> near[n],
   willing |-> {m \in near[n] : will[m] # NEVER},
   mistrusted |-> mistrusted,
   twoHop |-> TwoHop(n),
   topology |-> Topology(n)]

\* The next hops for d that the routing table of n may hold.
NextHops(n, d) ==
  {e[2] : e \in {x \in Routes!EntriesWithin(Repositories(n), Cardinality(Nodes)) : x[1] = d}}

Init ==
  /\ near \in Networks
  /\ will \in [Nodes -> Levels]
  /\ mistrusted \in {{}} \cup {{n} : n \in Suspects}
  /\ mprSet = [n \in Nodes |-> LET N == near[n] \ mistrusted
                               IN  Candidates(N, will, StrictTwoHop(N, will, TwoHop(n), n))]
  /\ packet \in [to : Nodes \ ({Source} \cup mistrusted), at : {Source},
                 hops : {0}, status : {"new"}]

\* A HELLO or a loss makes n choose its relays; those chosen say so in TCs.
MprComputation(n) ==
  /\ \E M \in RelayChoices(n) : mprSet' = [mprSet EXCEPT ![n] = M]
  /\ UNCHANGED <<network, packet>>

\* The packet goes to the next hop in the table; it is dropped when there is
\* none, or when it is one of those refused.
HandOn(hops, refused) ==
  LET dropped == [packet EXCEPT !.status = "dropped"]
  IN  packet' \in IF hops = {} THEN {dropped}
                  ELSE {IF m \in refused THEN dropped
                        ELSE [packet EXCEPT !.at = m, !.hops = @ + 1, !.status = "moving"] :
                        m \in hops}

\* RouteOutput at the source: the verdict on the next hop is not asked.
RouteOutput ==
  /\ packet.status = "new"
  /\ HandOn(NextHops(packet.at, packet.to), {})
  /\ UNCHANGED <<network, mprSet>>

\* Mutant: counts the delivery as a hop.
DeliverCounted ==
  /\ packet.status = "moving"
  /\ packet.at = packet.to
  /\ packet' = [packet EXCEPT !.hops = @ + 1, !.status = "delivered"]
  /\ UNCHANGED <<network, mprSet>>

\* RouteInput, local delivery.
Deliver ==
  /\ packet.status = "moving"
  /\ packet.at = packet.to
  /\ packet' = [packet EXCEPT !.status = "delivered"]
  /\ UNCHANGED <<network, mprSet>>

\* RouteInput at a node on the way: the source consumes what comes back to it,
\* and a packet is dropped when its next hop is mistrusted.
RouteInput ==
  /\ packet.status = "moving"
  /\ packet.at # packet.to
  /\ HandOn(IF packet.at = Source THEN {} ELSE NextHops(packet.at, packet.to), mistrusted)
  /\ UNCHANGED <<network, mprSet>>

Next ==
  \/ \E n \in Nodes : MprComputation(n)
  \/ RouteOutput
  \/ RouteInput
  \/ Deliver

Spec == Init /\ [][Next]_vars

-----------------------------------------------------------------------------
\* Type correctness; a packet makes fewer hops than there are nodes.
TypeOK ==
  /\ near \in [Nodes -> SUBSET Nodes]
  /\ will \in [Nodes -> Levels]
  /\ mistrusted \subseteq Suspects
  /\ mprSet \in [Nodes -> SUBSET Nodes]
  /\ packet \in [to : Nodes \ mistrusted, at : Nodes \ mistrusted,
                 hops : 0 .. Cardinality(Nodes) - 1,
                 status : {"new", "moving", "delivered", "dropped"}]

\* A packet is dropped only if no path of willing, trusted nodes leads to its
\* destination: the relays chosen by others and announced in TCs are all a
\* node needs to know of the network.
NeverStranded == packet.status = "dropped" => ~ Reaches(Source, packet.to)

\* Every hop brings the packet nearer by one, over a shortest path, although
\* each node looks into its own table only and relays change on the way: no
\* loop and no detour.
OnShortestPath ==
  packet.status \in {"moving", "delivered"} =>
    /\ Reaches(Source, packet.to)
    /\ packet.hops + Distance(packet.at, packet.to) = Distance(Source, packet.to)
=============================================================================
