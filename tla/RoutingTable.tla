---------------------------- MODULE RoutingTable ----------------------------
(***************************************************************************)
(* RoutingProtocol::RoutingTableComputation, steps 1 to 3, tuple by tuple: *)
(* the table is cleared, the symmetric neighbours are entered, then the    *)
(* 2-hop tuples are looked at once, then the topology tuples once for each *)
(* distance, until a round adds nothing.                                   *)
(*                                                                         *)
(* The repositories do not change while the function runs: Init chooses    *)
(* them, and what an earlier computation left in the table.  The tuples    *)
(* are kept in lists in the order they arrived in; here the next one is    *)
(* any that has not been looked at.  Nodes have one interface, so a        *)
(* neighbour's main address is the address of its link, the interface of   *)
(* an entry is always the same and step 4 adds nothing.  Step 5 keeps a    *)
(* table of its own and is left out.                                       *)
(***************************************************************************)
EXTENDS RouteRules, FiniteSets

CONSTANTS Nodes,         \* main addresses
          Self,          \* m_mainAddress
          Repositories,  \* what the repositories may hold
          OldTables      \* what the table may hold when the function is called

Others == Nodes \ {Self}
Entry == [next : Others, distance : Nat \ {0}]
IsTable(T) == /\ T = [d \in DOMAIN T |-> T[d]]
              /\ DOMAIN T \subseteq Nodes
              /\ \A d \in DOMAIN T : T[d] \in Entry

ASSUME RoutingAssumption ==
  /\ IsFiniteSet(Nodes)
  /\ Self \in Nodes
  /\ Repositories \subseteq
       [self : {Self}, sym : SUBSET Others, linked : SUBSET Others,
        willing : SUBSET Others, mistrusted : SUBSET Others,
        twoHop : SUBSET (Others \X Others), topology : SUBSET (Others \X Nodes)]
  /\ \A T \in OldTables : IsTable(T)

VARIABLES repo,   \* the repositories
          table,  \* m_table: entries by destination
          pc,     \* the next part of the computation
          todo,   \* tuples the present loop has still to look at
          h,      \* the distance the loop over the topology set has reached
          added   \* whether this round has added an entry

vars == <<repo, table, pc, todo, h, added>>

-----------------------------------------------------------------------------
\* m_table[d] = entry, which replaces an entry for d.
AddEntry(d, entry) ==
  table' = [x \in DOMAIN table \cup {d} |-> IF x = d THEN entry ELSE table[x]]

HasEntry(d) == d \in DOMAIN table

Init ==
  /\ repo \in Repositories
  /\ table \in OldTables
  /\ pc = "neighbors"
  /\ todo = {}
  /\ h = 2
  /\ added = FALSE

\* Mutant: counts the hops that lie between.
AddNeighborsBetween ==
  /\ pc = "neighbors"
  /\ table' = [n \in FirstHops(repo) |-> [next |-> n, distance |-> 0]]
  /\ todo' = repo.twoHop
  /\ pc' = "twoHop"
  /\ UNCHANGED <<repo, h, added>>

\* Mutant: does not clear the table.
AddNeighborsOnly ==
  /\ pc = "neighbors"
  /\ table' = [n \in FirstHops(repo) \cup DOMAIN table |->
                 IF n \in FirstHops(repo) THEN [next |-> n, distance |-> 1] ELSE table[n]]
  /\ todo' = repo.twoHop
  /\ pc' = "twoHop"
  /\ UNCHANGED <<repo, h, added>>

\* Steps 1 and 2: Clear and the symmetric neighbours.
AddNeighbors ==
  /\ pc = "neighbors"
  /\ table' = [n \in FirstHops(repo) |-> [next |-> n, distance |-> 1]]
  /\ todo' = repo.twoHop
  /\ pc' = "twoHop"
  /\ UNCHANGED <<repo, h, added>>

\* Mutant: 2-hop addresses that are neighbours are not skipped.
LookAtAnyTwoHop(t) ==
  /\ pc = "twoHop"
  /\ todo' = todo \ {t}
  /\ IF t[1] \in repo.willing /\ HasEntry(t[1])
     THEN AddEntry(t[2], [next |-> table[t[1]].next, distance |-> 2])
     ELSE UNCHANGED table
  /\ UNCHANGED <<repo, pc, h, added>>

\* Mutant: counts on from the neighbour's entry.
LookAtTwoHopFarther(t) ==
  /\ pc = "twoHop"
  /\ todo' = todo \ {t}
  /\ IF t \in TwoHopLinks(repo) /\ HasEntry(t[1])
     THEN AddEntry(t[2], [next |-> table[t[1]].next, distance |-> table[t[1]].distance + 1])
     ELSE UNCHANGED table
  /\ UNCHANGED <<repo, pc, h, added>>

\* Step 3: one 2-hop tuple.
LookAtTwoHop(t) ==
  /\ pc = "twoHop"
  /\ todo' = todo \ {t}
  /\ IF t \in TwoHopLinks(repo) /\ HasEntry(t[1])
     THEN AddEntry(t[2], [next |-> table[t[1]].next, distance |-> 2])
     ELSE UNCHANGED table
  /\ UNCHANGED <<repo, pc, h, added>>

\* The first round of the loop over the distances.
StartRounds ==
  /\ pc = "twoHop"
  /\ todo = {}
  /\ todo' = repo.topology
  /\ pc' = "topology"
  /\ UNCHANGED <<repo, table, h, added>>

\* Mutant: continues from entries that this round has added.
LookAtTopologyAhead(t) ==
  /\ pc = "topology"
  /\ todo' = todo \ {t}
  /\ IF /\ t \in FarLinks(repo)
        /\ HasEntry(t[1]) /\ table[t[1]].distance >= h
        /\ ~ HasEntry(t[2])
     THEN /\ AddEntry(t[2], [next |-> table[t[1]].next, distance |-> h + 1])
          /\ added' = TRUE
     ELSE UNCHANGED <<table, added>>
  /\ UNCHANGED <<repo, pc, h>>

\* Mutant: does not look whether the destination has an entry.
LookAtTopologyAgain(t) ==
  /\ pc = "topology"
  /\ todo' = todo \ {t}
  /\ IF t \in FarLinks(repo) /\ HasEntry(t[1]) /\ table[t[1]].distance = h
     THEN /\ AddEntry(t[2], [next |-> table[t[1]].next, distance |-> h + 1])
          /\ added' = TRUE
     ELSE UNCHANGED <<table, added>>
  /\ UNCHANGED <<repo, pc, h>>

\* One topology tuple in the round of distance h.
LookAtTopology(t) ==
  /\ pc = "topology"
  /\ todo' = todo \ {t}
  /\ IF /\ t \in FarLinks(repo)
        /\ HasEntry(t[1]) /\ table[t[1]].distance = h
        /\ ~ HasEntry(t[2])
     THEN /\ AddEntry(t[2], [next |-> table[t[1]].next, distance |-> h + 1])
          /\ added' = TRUE
     ELSE UNCHANGED <<table, added>>
  /\ UNCHANGED <<repo, pc, h>>

\* The next round, if this one has added an entry.
NextRound ==
  /\ pc = "topology"
  /\ todo = {}
  /\ added
  /\ todo' = repo.topology
  /\ h' = h + 1
  /\ added' = FALSE
  /\ UNCHANGED <<repo, table, pc>>

\* Mutant: ends after the first round.
FinishEarly ==
  /\ pc = "topology"
  /\ todo = {}
  /\ pc' = "done"
  /\ UNCHANGED <<repo, table, todo, h, added>>

\* The loop ends with a round that adds nothing.
Finish ==
  /\ pc = "topology"
  /\ todo = {}
  /\ ~ added
  /\ pc' = "done"
  /\ UNCHANGED <<repo, table, todo, h, added>>

Next ==
  \/ AddNeighbors
  \/ \E t \in todo : LookAtTwoHop(t) \/ LookAtTopology(t)
  \/ StartRounds
  \/ NextRound
  \/ Finish

Spec == Init /\ [][Next]_vars

-----------------------------------------------------------------------------
\* Type correctness of the table and of the loop's variables.
TypeOK ==
  /\ IsTable(table)
  /\ pc \in {"neighbors", "twoHop", "topology", "done"}
  /\ todo \subseteq repo.twoHop \cup repo.topology
  /\ h \in Nat /\ h >= 2
  /\ added \in BOOLEAN

\* FindSendEntry (lines 3262 to 3273) follows next hops until an entry is its
\* own next hop: at every moment of the computation the next hop of an entry
\* is a trusted neighbour with an entry of distance 1, so that it neither
\* misses an entry, which is fatal, nor runs in circles.
SendEntryIsFound ==
  pc # "neighbors" =>
    \A d \in DOMAIN table :
      LET n == table[d].next
      IN  /\ n \in FirstHops(repo)
          /\ HasEntry(n)
          /\ table[n] = [next |-> n, distance |-> 1]

\* Every entry beyond two hops continues another by one link from a node that
\* is not mistrusted, with the same next hop, and the nodes along the
\* recorded path come nearer and nearer.
EntriesContinue ==
  pc \in {"topology", "done"} =>
    \A d \in DOMAIN table : table[d].distance > 2 =>
      \E t \in FarLinks(repo) :
        /\ t[2] = d
        /\ HasEntry(t[1])
        /\ table[t[1]] = [table[d] EXCEPT !.distance = @ - 1]

\* The 2-hop tuples of a neighbour are erased when it is lost, not as soon as
\* its link is reported lost; until then they may name a neighbour that is
\* not symmetric.
TwoHopIsFresh == \A t \in repo.twoHop : t[1] \in repo.sym

\* The table holds the destinations that the recorded links reach, each at its
\* least distance and with the next hop of a shortest path, as a
\* breadth-first search that does not pass through mistrusted nodes finds
\* them; nothing is left of the table before.  Holds when the 2-hop tuples
\* are those of symmetric neighbours.
BreadthFirst ==
  pc = "done" /\ TwoHopIsFresh =>
    LET entries == EntriesWithin(repo, Cardinality(Nodes))
    IN  /\ DOMAIN table = {e[1] : e \in entries}
        /\ \A d \in DOMAIN table : <<d, table[d].next, table[d].distance>> \in entries

\* When they are not, no destination is missed or taken to be farther than the
\* search finds it: step 3 takes what lies behind a lost neighbour to be two
\* hops away if that neighbour has become a 2-hop destination itself, and only
\* what lies there, or farther on, is taken to be nearer than it is.
LostNeighborsOnlyShorten ==
  pc = "done" =>
    LET entries == EntriesWithin(repo, Cardinality(Nodes))
    IN  /\ \A e \in entries : HasEntry(e[1]) /\ table[e[1]].distance <= e[3]
        /\ \A d \in DOMAIN table :
             table[d].distance = 2 /\ <<d, table[d].next, 2>> \notin entries =>
               \E t \in TwoHopLinks(repo) : t[2] = d /\ t[1] \notin repo.sym

\* When the loop over the distances ends, no recorded link from an entry of
\* distance two or more leads to a destination that is missing or could be
\* nearer.
NothingNearerMissed ==
  pc = "done" =>
    \A t \in FarLinks(repo) :
      HasEntry(t[1]) /\ table[t[1]].distance >= 2 =>
        HasEntry(t[2]) /\ table[t[2]].distance <= table[t[1]].distance + 1

\* The loop over the distances, which has no bound of its own, ends: it cannot
\* reach a distance greater than the number of entries.
RoundsEnd == h = 2 \/ h <= Cardinality(DOMAIN table)
=============================================================================
