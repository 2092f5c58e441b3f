------------------------------ MODULE HnaTable ------------------------------
(***************************************************************************)
(* The association tuples of Announcements and the HNA routing table that  *)
(* RoutingTableComputation, step 5, makes of them at the end of every      *)
(* RecvOlsr and in NeighborLoss.  The table is an Ipv4StaticRouting: a     *)
(* list to which routes are appended.  The loop that clears it counts its  *)
(* index up while RemoveRoute(0) counts the routes down, so that it leaves *)
(* the later half of them.                                                 *)
(*                                                                         *)
(* All networks are those of one gateway.  Steps 1 to 4 are RoutingTable:  *)
(* here each computation may find any distance for the gateway, or, with   *)
(* NoEntry, no entry for it or a verdict against it.  The next hop of a    *)
(* route changes with the table as its metric does and is left out.        *)
(***************************************************************************)
EXTENDS Announcements, Sequences

CONSTANTS Locals,     \* what m_state.GetAssociations of the receiver may hold
          Distances   \* distances the gateway may have

ASSUME HnaTableAssumption ==
  /\ IsFiniteSet(Items)
  /\ Locals \subseteq SUBSET Items
  /\ Distances \subseteq Nat \ {0}

VARIABLES local,  \* the networks the receiver announces itself
          hna     \* m_hnaRoutingTable, each route with its weight: 1, and twice
                  \* as much with every computation that it outlives

hnaVars == <<vars, local, hna>>

NoEntry == 0

HnaInit ==
  /\ Init
  /\ local \in IF kind = "hna" THEN Locals ELSE {{}}
  /\ hna = <<>>

\* Mutant: the last route is removed instead of the first.
HalfClearedFromEnd ==
  LET n == Len(hna) \div 2
  IN  [i \in 1 .. n |-> [hna[i] EXCEPT !.weight = 2 * @]]

\* The routes the clearing loop leaves.
HalfCleared ==
  LET n == Len(hna) \div 2
  IN  [i \in 1 .. n |-> [hna[Len(hna) - n + i] EXCEPT !.weight = 2 * @]]

\* The association tuples that are looked at, and those that get a route.
Associations == IF kind = "hna" THEN Recorded' \ local ELSE {}
Routed(net, routes) == \E i \in DOMAIN routes : routes[i].net = net
Outranked(net, routes, distance) ==
  \E i \in DOMAIN routes : routes[i].net = net /\ routes[i].metric > distance
ToRoute(routes, distance) ==
  {net \in Associations : ~ Routed(net, routes) \/ Outranked(net, routes, distance)}

\* The routes left when those to nets are removed.
Without(routes, nets) ==
  LET stay == {i \in DOMAIN routes : routes[i].net \notin nets}
  IN  {[k \in 1 .. Cardinality(stay) |-> routes[pick[k]]] : pick \in
         {p \in [1 .. Cardinality(stay) -> stay] : \A j, k \in DOMAIN p : j < k => p[j] < p[k]}}

\* The tuples are kept in the order they arrived in: any order.
InAnyOrder(nets) ==
  {s \in [1 .. Cardinality(nets) -> nets] : {s[i] : i \in DOMAIN s} = nets}

\* Step 5, the gateway being found at a distance.
RoutingTableComputation ==
  \E distance \in {NoEntry} \cup Distances :
    IF distance = NoEntry THEN hna' = HalfCleared
    ELSE LET new == ToRoute(HalfCleared, distance)
         IN  \E kept \in Without(HalfCleared, new), s \in InAnyOrder(new) :
               hna' = kept \o [i \in DOMAIN s |->
                                 [net |-> s[i], metric |-> distance, weight |-> 1]]

\* RecvOlsr with a TC or HNA message of the originator in the packet, with
\* others only, and NeighborLoss.  Without HNA messages the table stays empty.
RecvAnnouncement == Receive /\ RoutingTableComputation /\ UNCHANGED local
Recompute == kind = "hna" /\ Quiet /\ UNCHANGED vars /\ RoutingTableComputation /\ UNCHANGED local

HnaNext ==
  \/ RecvAnnouncement
  \/ Recompute
  \/ Change /\ UNCHANGED <<local, hna>>
  \/ RunEvent /\ UNCHANGED <<local, hna>>

HnaSpec == HnaInit /\ [][HnaNext]_hnaVars /\ Fairness

-----------------------------------------------------------------------------
\* A network has one route at most, and a route that is not made anew, to a
\* network that is no longer announced or over a gateway that is lost or has
\* moved away, is gone after as many computations as the number of networks can
\* be halved: routes that survive the clearing stand before those that are added.
StaleRoutesFade ==
  /\ \A i, j \in DOMAIN hna : hna[i].net = hna[j].net => i = j
  /\ \A i \in DOMAIN hna : hna[i].weight <= Cardinality(Items)

=============================================================================
