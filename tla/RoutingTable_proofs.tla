------------------------ MODULE RoutingTable_proofs -------------------------
(***************************************************************************)
(* Proofs about RoutingTable: whatever the repositories hold, in whatever  *)
(* order their tuples are kept and whatever an earlier computation left,   *)
(* the entries continue one another along recorded links, the search       *)
(* misses nothing, the loop over the distances ends, and the table is what *)
(* a breadth-first search over the recorded links finds.                   *)
(***************************************************************************)
EXTENDS RoutingTable, FiniteSetTheorems, WellFoundedInduction, TLAPS

-----------------------------------------------------------------------------
\* What each part of the computation may rely on.
Phase ==
  /\ pc \in {"neighbors", "twoHop"} => h = 2 /\ ~ added
  /\ pc = "twoHop" =>
       /\ todo \subseteq repo.twoHop
       /\ \A d \in DOMAIN table : table[d].distance <= 2
  /\ pc \in {"topology", "done"} =>
       /\ todo \subseteq repo.topology
       /\ \A d \in DOMAIN table : table[d].distance <= h + 1
       /\ ~ added => \A d \in DOMAIN table : table[d].distance <= h
  /\ pc = "done" => todo = {} /\ ~ added

\* Links from entries that have been passed lead nowhere new.
Closed ==
  pc \in {"topology", "done"} =>
    \A t \in FarLinks(repo) :
      (/\ HasEntry(t[1])
       /\ table[t[1]].distance >= 2
       /\ table[t[1]].distance <= h
       /\ t \in todo => table[t[1]].distance < h)
      => HasEntry(t[2]) /\ table[t[2]].distance <= table[t[1]].distance + 1

\* There is an entry at every distance up to that of the round.
NoGap ==
  pc \in {"topology", "done"} =>
    /\ h > 2 => \A k \in 1 .. h : \E d \in DOMAIN table : table[d].distance = k
    /\ added => \E d \in DOMAIN table : table[d].distance = h + 1

IInv ==
  /\ repo \in Repositories
  /\ TypeOK
  /\ SendEntryIsFound
  /\ EntriesContinue
  /\ Phase
  /\ Closed
  /\ NoGap

-----------------------------------------------------------------------------
\* What the fields of a repository are made of.
LEMMA Fields ==
  ASSUME repo \in Repositories
  PROVE  /\ FirstHops(repo) \subseteq Others /\ FirstHops(repo) \subseteq repo.sym
         /\ repo.twoHop \subseteq Others \X Others
         /\ repo.topology \subseteq Others \X Nodes
         /\ TwoHopLinks(repo) \subseteq repo.twoHop
         /\ FarLinks(repo) \subseteq repo.topology
         /\ repo.self = Self
  BY RoutingAssumption DEF FirstHops, TwoHopLinks, FarLinks

\* m_table[d] = entry changes the entry of d only.
LEMMA AddEntryEffect ==
  ASSUME IsTable(table), NEW d \in Nodes, NEW e \in Entry, AddEntry(d, e)
  PROVE  /\ IsTable(table')
         /\ DOMAIN table' = DOMAIN table \cup {d}
         /\ table'[d] = e
         /\ \A x \in DOMAIN table : x # d => table'[x] = table[x]
  BY DEF AddEntry, IsTable

\* Entries of a table are entries.
LEMMA EntryOf ==
  ASSUME IsTable(table), NEW d \in DOMAIN table
  PROVE  /\ d \in Nodes /\ table[d] \in Entry
         /\ table[d].next \in Others
         /\ table[d].distance \in Nat /\ table[d].distance >= 1
         /\ table[d] = [next |-> table[d].next, distance |-> table[d].distance]
  BY DEF IsTable, Entry

\* The invariant holds before the function starts.
LEMMA InitIInv == Init => IInv
<1> SUFFICES ASSUME Init PROVE IInv
  OBVIOUS
<1>1. TypeOK
  <2>1. added \in BOOLEAN
    BY DEF Init
  <2>2. IsTable(table)
    BY RoutingAssumption DEF Init
  <2>3. h \in Nat /\ h >= 2 /\ todo \subseteq repo.twoHop \cup repo.topology
    BY DEF Init
  <2> QED BY <2>1, <2>2, <2>3 DEF Init, TypeOK
<1>2. SendEntryIsFound /\ EntriesContinue /\ Phase /\ Closed /\ NoGap
  BY DEF Init, SendEntryIsFound, EntriesContinue, Phase, Closed, NoGap
<1> QED BY <1>1, <1>2 DEF Init, IInv

\* The cleared table with the neighbours is as the invariant says.
LEMMA AddNeighborsIInv == IInv /\ AddNeighbors => IInv'
<1> SUFFICES ASSUME IInv, AddNeighbors PROVE IInv'
  OBVIOUS
<1> USE DEF IInv
<1>1. /\ DOMAIN table' = FirstHops(repo)
      /\ \A n \in DOMAIN table' : table'[n] = [next |-> n, distance |-> 1]
  BY DEF AddNeighbors
<1>2. /\ repo' = repo /\ pc' = "twoHop" /\ todo' = repo.twoHop
      /\ h' = h /\ added' = added /\ pc = "neighbors"
  BY DEF AddNeighbors
<1>3. TypeOK'
  <2>1. \A n \in DOMAIN table' : n \in Others /\ table'[n] \in Entry
    BY <1>1, Fields DEF Entry
  <2>2. table' = [n \in DOMAIN table' |-> table'[n]]
    BY <1>1 DEF AddNeighbors
  <2> QED BY <1>2, <2>1, <2>2 DEF TypeOK, IsTable, Others
<1>4. SendEntryIsFound'
  BY <1>1, <1>2 DEF SendEntryIsFound, HasEntry
<1>5. EntriesContinue' /\ Closed' /\ NoGap'
  BY <1>2 DEF EntriesContinue, Closed, NoGap
<1>6. Phase'
  BY <1>1, <1>2 DEF Phase
<1> QED BY <1>2, <1>3, <1>4, <1>5, <1>6

\* A 2-hop tuple adds or replaces an entry of distance two.
LEMMA LookAtTwoHopIInv ==
  ASSUME IInv, NEW t \in todo, LookAtTwoHop(t)
  PROVE  IInv'
<1> USE DEF IInv
<1>1. /\ repo' = repo /\ pc' = "twoHop" /\ todo' \subseteq todo
      /\ h' = h /\ added' = added /\ pc = "twoHop"
  BY DEF LookAtTwoHop
<1>2. EntriesContinue' /\ Closed' /\ NoGap'
  BY <1>1 DEF EntriesContinue, Closed, NoGap
<1>3. CASE ~ (t \in TwoHopLinks(repo) /\ HasEntry(t[1]))
  <2>1. table' = table
    BY <1>3 DEF LookAtTwoHop
  <2> QED BY <1>1, <1>2, <2>1
          DEF TypeOK, SendEntryIsFound, Phase, HasEntry
<1>4. CASE t \in TwoHopLinks(repo) /\ HasEntry(t[1])
  <2> DEFINE e == [next |-> table[t[1]].next, distance |-> 2]
  <2>1. t[2] \in Others /\ t[2] \notin repo.sym /\ t[1] \in DOMAIN table
    BY <1>4, Fields DEF TwoHopLinks, HasEntry
  <2>2. e \in Entry
    BY <2>1, EntryOf DEF TypeOK, Entry
  <2>3. /\ IsTable(table')
        /\ DOMAIN table' = DOMAIN table \cup {t[2]}
        /\ table'[t[2]] = e
        /\ \A x \in DOMAIN table : x # t[2] => table'[x] = table[x]
    <3>1. AddEntry(t[2], e)
      BY <1>4 DEF LookAtTwoHop
    <3> HIDE DEF e
    <3> QED BY <2>1, <2>2, <3>1, AddEntryEffect DEF TypeOK, Others
  <2>4. SendEntryIsFound'
    <3> SUFFICES ASSUME NEW d \in DOMAIN table'
                 PROVE  LET n == table'[d].next
                        IN  /\ n \in FirstHops(repo)
                            /\ n \in DOMAIN table'
                            /\ table'[n] = [next |-> n, distance |-> 1]
      BY <1>1 DEF SendEntryIsFound, HasEntry
    <3>1. PICK x \in DOMAIN table : table'[d].next = table[x].next
      BY <2>1, <2>3
    <3>2. /\ table[x].next \in FirstHops(repo)
          /\ table[x].next \in DOMAIN table
          /\ table[table[x].next] = [next |-> table[x].next, distance |-> 1]
      BY <1>1 DEF SendEntryIsFound, HasEntry
    <3>3. table[x].next # t[2]
      BY <2>1, <3>2, Fields
    <3> QED BY <2>3, <3>1, <3>2, <3>3
  <2>5. Phase'
    BY <1>1, <2>3 DEF Phase
  <2>6. TypeOK'
    BY <1>1, <2>3 DEF TypeOK
  <2> QED BY <1>1, <1>2, <2>4, <2>5, <2>6
<1> QED BY <1>3, <1>4

\* The first round starts.
LEMMA StartRoundsIInv == IInv /\ StartRounds => IInv'
<1> SUFFICES ASSUME IInv, StartRounds PROVE IInv'
  OBVIOUS
<1> USE DEF IInv
<1>1. /\ repo' = repo /\ table' = table /\ pc' = "topology"
      /\ todo' = repo.topology /\ h' = 2 /\ h = 2 /\ ~ added' /\ ~ added
      /\ pc = "twoHop"
  BY DEF StartRounds, Phase
<1>2. \A d \in DOMAIN table : table[d].distance <= 2 /\ table[d].distance \in Nat
  BY <1>1, EntryOf DEF Phase, TypeOK
<1>3. TypeOK' /\ SendEntryIsFound'
  <2>1. added' \in BOOLEAN
    BY DEF StartRounds, TypeOK
  <2>2. IsTable(table)' /\ todo' \subseteq repo.topology
    BY <1>1 DEF TypeOK, IsTable
  <2>3. TypeOK'
    BY <1>1, <2>1, <2>2 DEF TypeOK
  <2>4. SendEntryIsFound'
    BY <1>1 DEF SendEntryIsFound, HasEntry
  <2> QED BY <2>3, <2>4
<1>4. EntriesContinue'
  BY <1>1, <1>2 DEF EntriesContinue
<1>5. Phase' /\ NoGap'
  BY <1>1, <1>2 DEF Phase, NoGap
<1>6. Closed'
  <2>1. FarLinks(repo') \subseteq todo'
    BY <1>1, Fields
  <2>2. \A t \in FarLinks(repo') :
          ~ (HasEntry(t[1])' /\ table'[t[1]].distance >= 2 /\ table'[t[1]].distance < h')
    BY <1>1, <1>2 DEF HasEntry
  <2>3. \A t \in FarLinks(repo') :
          ~ (/\ HasEntry(t[1])' /\ table'[t[1]].distance >= 2
             /\ t \in todo' => table'[t[1]].distance < h')
    BY <2>1, <2>2
  <2> QED BY <2>3 DEF Closed
<1> QED BY <1>1, <1>3, <1>4, <1>5, <1>6

\* A topology tuple adds an entry one link farther than that of its last
\* address, or shows that there is nothing to add.
LEMMA LookAtTopologyIInv ==
  ASSUME IInv, NEW t \in todo, LookAtTopology(t)
  PROVE  IInv'
<1> USE DEF IInv
<1>1. /\ repo' = repo /\ pc' = "topology" /\ todo' = todo \ {t}
      /\ h' = h /\ pc = "topology" /\ h \in Nat /\ h >= 2
  BY DEF LookAtTopology, TypeOK
<1>2. \A d \in DOMAIN table : table[d].distance \in Nat
  BY EntryOf DEF TypeOK
<1>3. CASE ~ (/\ t \in FarLinks(repo)
              /\ HasEntry(t[1]) /\ table[t[1]].distance = h
              /\ ~ HasEntry(t[2]))
  <2>1. table' = table /\ added' = added
    BY <1>3 DEF LookAtTopology
  <2>2. TypeOK' /\ SendEntryIsFound' /\ EntriesContinue' /\ NoGap'
    BY <1>1, <2>1 DEF TypeOK, SendEntryIsFound, EntriesContinue, NoGap, HasEntry
  <2>3. Phase'
    BY <1>1, <2>1 DEF Phase
  <2>4. Closed'
    <3> SUFFICES ASSUME NEW u \in FarLinks(repo),
                        HasEntry(u[1]), table[u[1]].distance >= 2, table[u[1]].distance <= h,
                        u \in todo' => table[u[1]].distance < h
                 PROVE  HasEntry(u[2]) /\ table[u[2]].distance <= table[u[1]].distance + 1
      BY <1>1, <2>1 DEF Closed, HasEntry
    <3>1. CASE u # t \/ table[u[1]].distance < h
      BY <1>1, <3>1 DEF Closed
    <3>2. CASE u = t /\ table[u[1]].distance = h
      BY <1>1, <1>2, <1>3, <3>2 DEF Phase, HasEntry
    <3> QED BY <1>1, <1>2, <3>1, <3>2 DEF HasEntry
  <2> QED BY <1>1, <2>2, <2>3, <2>4
<1>4. CASE /\ t \in FarLinks(repo)
           /\ HasEntry(t[1]) /\ table[t[1]].distance = h
           /\ ~ HasEntry(t[2])
  <2> DEFINE e == [next |-> table[t[1]].next, distance |-> h + 1]
  <2>1. t[2] \in Nodes /\ t[1] \in DOMAIN table /\ t[2] \notin DOMAIN table
    BY <1>4, Fields DEF HasEntry
  <2>2. e \in Entry
    BY <1>1, <2>1, EntryOf DEF TypeOK, Entry
  <2>3. /\ IsTable(table')
        /\ DOMAIN table' = DOMAIN table \cup {t[2]}
        /\ table'[t[2]] = e
        /\ \A x \in DOMAIN table : table'[x] = table[x]
    <3>1. AddEntry(t[2], e)
      BY <1>4 DEF LookAtTopology
    <3> HIDE DEF e
    <3> QED BY <2>1, <2>2, <3>1, AddEntryEffect DEF TypeOK
  <2>4. added'
    BY <1>4 DEF LookAtTopology
  <2>5. TypeOK'
    BY <1>1, <2>3, <2>4 DEF TypeOK
  <2>6. SendEntryIsFound'
    <3> SUFFICES ASSUME NEW d \in DOMAIN table'
                 PROVE  LET n == table'[d].next
                        IN  /\ n \in FirstHops(repo)
                            /\ n \in DOMAIN table'
                            /\ table'[n] = [next |-> n, distance |-> 1]
      BY <1>1 DEF SendEntryIsFound, HasEntry
    <3>1. PICK x \in DOMAIN table : table'[d].next = table[x].next
      BY <2>1, <2>3
    <3> QED BY <1>1, <2>3, <3>1 DEF SendEntryIsFound, HasEntry
  <2>7. EntriesContinue'
    <3> SUFFICES ASSUME NEW d \in DOMAIN table', table'[d].distance > 2
                 PROVE  \E u \in FarLinks(repo) :
                          /\ u[2] = d
                          /\ u[1] \in DOMAIN table'
                          /\ table'[u[1]] = [table'[d] EXCEPT !.distance = @ - 1]
      BY <1>1 DEF EntriesContinue, HasEntry
    <3>1. CASE d \in DOMAIN table
      BY <1>1, <2>3, <3>1 DEF EntriesContinue, HasEntry
    <3>2. CASE d = t[2]
      <4>1. table[t[1]] = [next |-> table[t[1]].next, distance |-> h]
        BY <1>4, <2>1, EntryOf DEF TypeOK
      <4> QED BY <1>1, <1>4, <2>1, <2>3, <3>2, <4>1
    <3> QED BY <2>3, <3>1, <3>2
  <2>8. Phase'
    BY <1>1, <2>3, <2>4 DEF Phase
  <2>9. Closed'
    <3> SUFFICES ASSUME NEW u \in FarLinks(repo),
                        u[1] \in DOMAIN table',
                        table'[u[1]].distance >= 2, table'[u[1]].distance <= h,
                        u \in todo' => table'[u[1]].distance < h
                 PROVE  /\ u[2] \in DOMAIN table'
                        /\ table'[u[2]].distance <= table'[u[1]].distance + 1
      BY <1>1 DEF Closed, HasEntry
    <3>1. u[1] \in DOMAIN table /\ table'[u[1]] = table[u[1]]
      BY <1>1, <2>3
    <3>2. CASE u # t \/ table[u[1]].distance < h
      BY <1>1, <2>3, <3>1, <3>2 DEF Closed, HasEntry
    <3>3. CASE u = t /\ table[u[1]].distance = h
      BY <1>1, <2>2, <2>3, <3>1, <3>3
    <3> QED BY <1>1, <1>2, <3>1, <3>2, <3>3
  <2>10. NoGap'
    BY <1>1, <2>3, <2>4 DEF NoGap
  <2> QED BY <1>1, <2>5, <2>6, <2>7, <2>8, <2>9, <2>10
<1> QED BY <1>3, <1>4

\* A round that has added an entry is followed by one for the next distance.
LEMMA NextRoundIInv == IInv /\ NextRound => IInv'
<1> SUFFICES ASSUME IInv, NextRound PROVE IInv'
  OBVIOUS
<1> USE DEF IInv
<1>1. /\ repo' = repo /\ table' = table /\ pc' = pc /\ pc = "topology"
      /\ todo = {} /\ todo' = repo.topology
      /\ h \in Nat /\ h >= 2 /\ h' = h + 1 /\ added /\ ~ added'
  BY DEF NextRound, TypeOK
<1>2. \A d \in DOMAIN table : table[d].distance \in Nat
  BY EntryOf DEF TypeOK
<1>3. TypeOK' /\ SendEntryIsFound' /\ EntriesContinue'
  <2>1. added' \in BOOLEAN
    BY DEF NextRound, TypeOK
  <2>2. IsTable(table)' /\ todo' \subseteq repo.topology
    BY <1>1 DEF TypeOK, IsTable
  <2>3. TypeOK'
    BY <1>1, <2>1, <2>2 DEF TypeOK
  <2>4. SendEntryIsFound' /\ EntriesContinue'
    BY <1>1 DEF SendEntryIsFound, EntriesContinue, HasEntry
  <2> QED BY <2>3, <2>4
<1>4. Phase'
  BY <1>1, <1>2 DEF Phase
<1>5. Closed'
  <2>1. FarLinks(repo) \subseteq todo'
    BY <1>1, Fields
  <2> SUFFICES ASSUME NEW u \in FarLinks(repo),
                      HasEntry(u[1]), table[u[1]].distance >= 2,
                      table[u[1]].distance < h + 1
               PROVE  HasEntry(u[2]) /\ table[u[2]].distance <= table[u[1]].distance + 1
    BY <1>1, <2>1 DEF Closed, HasEntry
  <2>2. table[u[1]].distance <= h
    BY <1>1, <1>2 DEF HasEntry
  <2> QED BY <1>1, <2>2 DEF Closed
<1>6. NoGap'
  <2>1. PICK d \in DOMAIN table : table[d].distance = h + 1
    BY <1>1 DEF NoGap
  <2>2. PICK m \in DOMAIN table : table[m].distance = h
    <3>1. table[d].distance > 2
      BY <1>1, <2>1
    <3>2. PICK u \in FarLinks(repo) :
            HasEntry(u[1]) /\ table[u[1]] = [table[d] EXCEPT !.distance = @ - 1]
      BY <1>1, <3>1 DEF EntriesContinue
    <3>3. table[d] = [next |-> table[d].next, distance |-> h + 1]
      BY <2>1, EntryOf DEF TypeOK
    <3>4. table[u[1]].distance = h
      BY <1>1, <3>2, <3>3
    <3> QED BY <3>2, <3>4 DEF HasEntry
  <2>3. \E n \in DOMAIN table : table[n].distance = 1
    <3>1. /\ table[d].next \in DOMAIN table
          /\ table[table[d].next] = [next |-> table[d].next, distance |-> 1]
      BY <1>1 DEF SendEntryIsFound, HasEntry
    <3> QED BY <3>1
  <2>4. \A k \in 1 .. h + 1 : \E x \in DOMAIN table : table[x].distance = k
    BY <1>1, <2>1, <2>2, <2>3 DEF NoGap
  <2> QED BY <1>1, <2>4 DEF NoGap
<1> QED BY <1>1, <1>3, <1>4, <1>5, <1>6

\* Every step of the function preserves the invariant.
LEMMA NextIInv == IInv /\ [Next]_vars => IInv'
<1> SUFFICES ASSUME IInv, [Next]_vars PROVE IInv'
  OBVIOUS
<1>1. CASE AddNeighbors
  BY <1>1, AddNeighborsIInv
<1>2. ASSUME NEW t \in todo, LookAtTwoHop(t) PROVE IInv'
  BY <1>2, LookAtTwoHopIInv
<1>3. ASSUME NEW t \in todo, LookAtTopology(t) PROVE IInv'
  BY <1>3, LookAtTopologyIInv
<1>4. CASE StartRounds
  BY <1>4, StartRoundsIInv
<1>5. CASE NextRound
  BY <1>5, NextRoundIInv
<1>6. CASE Finish
  <2>1. /\ UNCHANGED <<repo, table, todo, h, added>> /\ pc = "topology" /\ pc' = "done"
        /\ todo = {} /\ ~ added
    BY <1>6 DEF Finish
  <2> QED BY <2>1 DEF IInv, TypeOK, SendEntryIsFound, EntriesContinue, Phase, Closed,
                      NoGap, HasEntry
<1>7. CASE UNCHANGED vars
  BY <1>7 DEF vars, IInv, TypeOK, SendEntryIsFound, EntriesContinue, Phase, Closed,
              NoGap, HasEntry
<1> QED BY <1>1, <1>2, <1>3, <1>4, <1>5, <1>6, <1>7 DEF Next

-----------------------------------------------------------------------------
\* The inductive invariant holds in every reachable state.
THEOREM Invariance == Spec => []IInv
<1> QED BY InitIInv, NextIInv, PTL DEF Spec

\* The routing table and the loop variables of RoutingTableComputation stay
\* well typed.
THEOREM TypeCorrect == Spec => []TypeOK
<1>1. IInv => TypeOK
  BY DEF IInv
<1> QED BY <1>1, Invariance, PTL

\* FindSendEntry ends after one step at most and never fails.
THEOREM SendEntries == Spec => []SendEntryIsFound
<1>1. IInv => SendEntryIsFound
  BY DEF IInv
<1> QED BY <1>1, Invariance, PTL

\* Entries continue one another along recorded links from trusted nodes.
THEOREM Continuation == Spec => []EntriesContinue
<1>1. IInv => EntriesContinue
  BY DEF IInv
<1> QED BY <1>1, Invariance, PTL

\* The search of RoutingTableComputation is complete and nearest first.
THEOREM Completeness == Spec => []NothingNearerMissed
<1>1. ASSUME IInv PROVE NothingNearerMissed
  <2> SUFFICES ASSUME pc = "done", NEW t \in FarLinks(repo),
                      HasEntry(t[1]), table[t[1]].distance >= 2
               PROVE  HasEntry(t[2]) /\ table[t[2]].distance <= table[t[1]].distance + 1
    BY DEF NothingNearerMissed
  <2>1. todo = {} /\ table[t[1]].distance <= h
    BY <1>1 DEF IInv, Phase, HasEntry
  <2> QED BY <1>1, <2>1 DEF IInv, Closed
<1> QED BY <1>1, Invariance, PTL

\* The loop over the distances makes fewer rounds than the table has entries.
THEOREM Termination == Spec => []RoundsEnd
<1>1. ASSUME IInv, h # 2 PROVE h <= Cardinality(DOMAIN table)
  <2>1. h \in Nat /\ h > 2 /\ pc \in {"topology", "done"}
    BY <1>1 DEF IInv, TypeOK, Phase
  <2>2. \A k \in 1 .. h : \E d \in DOMAIN table : table[d].distance = k
    BY <1>1, <2>1 DEF IInv, NoGap
  <2> DEFINE far == [k \in 1 .. h |-> CHOOSE d \in DOMAIN table : table[d].distance = k]
  <2>3. far \in [1 .. h -> DOMAIN table] /\ \A k \in 1 .. h : table[far[k]].distance = k
    BY <2>2
  <2>4. far \in Injection(1 .. h, DOMAIN table)
    BY <2>3 DEF Injection, IsInjective
  <2>5. IsFiniteSet(DOMAIN table)
    BY <1>1, RoutingAssumption, FS_Subset DEF IInv, TypeOK, IsTable
  <2>6. Cardinality(1 .. h) <= Cardinality(DOMAIN table)
    BY <2>4, <2>5, FS_Injection
  <2> QED BY <2>1, <2>6, FS_Interval
<1>2. IInv => RoundsEnd
  BY <1>1 DEF RoundsEnd
<1> QED BY <1>2, Invariance, PTL

-----------------------------------------------------------------------------
\* What the computation has still to do: the parts left; the destinations that
\* have no entry yet, and one more for a round that has added some; the tuples
\* of the present loop.
PartsLeft == IF pc = "neighbors" THEN 3
             ELSE IF pc = "twoHop" THEN 2 ELSE IF pc = "topology" THEN 1 ELSE 0
RoundsLeft == Cardinality(Nodes \ DOMAIN table) + IF added THEN 1 ELSE 0
TuplesLeft == Cardinality(todo)

LEMMA Finite ==
  ASSUME IInv
  PROVE  /\ IsFiniteSet(Nodes \ DOMAIN table) /\ IsFiniteSet(todo)
         /\ RoundsLeft \in Nat /\ TuplesLeft \in Nat /\ PartsLeft \in Nat
<1>1. IsFiniteSet(Nodes \ DOMAIN table)
  BY RoutingAssumption, FS_Subset
<1>2. IsFiniteSet(Nodes \X Nodes)
  BY RoutingAssumption, FS_Product
<1>3. repo.twoHop \subseteq Nodes \X Nodes /\ repo.topology \subseteq Nodes \X Nodes
  BY Fields DEF IInv, Others
<1>4. IsFiniteSet(todo)
  BY <1>2, <1>3, FS_Subset DEF IInv, TypeOK
<1>5. Cardinality(Nodes \ DOMAIN table) \in Nat /\ Cardinality(todo) \in Nat
  BY <1>1, <1>4, FS_CardinalityType
<1>6. RoundsLeft \in Nat
  BY <1>5 DEF RoundsLeft
<1> QED BY <1>1, <1>4, <1>5, <1>6 DEF TuplesLeft, PartsLeft

\* A tuple that has been looked at is not looked at again in this loop.
LEMMA OneTupleLess ==
  ASSUME IInv, NEW t \in todo, todo' = todo \ {t}
  PROVE  TuplesLeft' < TuplesLeft /\ TuplesLeft' \in Nat
<1>1. IsFiniteSet(todo) /\ Cardinality(todo) \in Nat
  BY Finite, FS_CardinalityType
<1>2. IsFiniteSet(todo \ {t}) /\ Cardinality(todo \ {t}) = Cardinality(todo) - 1
  BY <1>1, FS_RemoveElement
<1>3. Cardinality(todo \ {t}) \in Nat
  BY <1>2, FS_CardinalityType
<1> QED BY <1>1, <1>2, <1>3 DEF TuplesLeft

\* An entry more leaves a destination less.
LEMMA EntriesLeft ==
  ASSUME IInv, NEW d \in Nodes, NEW e, AddEntry(d, e)
  PROVE  LET left == Cardinality(Nodes \ DOMAIN table)
             left2 == Cardinality(Nodes \ DOMAIN table')
         IN  /\ left \in Nat /\ left2 \in Nat /\ left2 <= left
             /\ ~ HasEntry(d) => left2 + 1 = left
<1>1. DOMAIN table' = DOMAIN table \cup {d}
  BY DEF AddEntry
<1>2. Nodes \ DOMAIN table' = (Nodes \ DOMAIN table) \ {d}
  BY <1>1
<1>3. IsFiniteSet(Nodes \ DOMAIN table) /\ Cardinality(Nodes \ DOMAIN table) \in Nat
  BY Finite, FS_CardinalityType
<1>4. CASE HasEntry(d)
  BY <1>2, <1>3, <1>4 DEF HasEntry
<1>5. CASE ~ HasEntry(d)
  <2>1. d \in Nodes \ DOMAIN table
    BY <1>5 DEF HasEntry
  <2>2. /\ IsFiniteSet((Nodes \ DOMAIN table) \ {d})
        /\ Cardinality((Nodes \ DOMAIN table) \ {d}) = Cardinality(Nodes \ DOMAIN table) - 1
    BY <1>3, <2>1, FS_RemoveElement
  <2>3. Cardinality((Nodes \ DOMAIN table) \ {d}) \in Nat
    BY <2>2, FS_CardinalityType
  <2> QED BY <1>2, <1>3, <2>2, <2>3
<1> QED BY <1>4, <1>5

\* Every step leaves less to be done in this order: the parts, the rounds, the
\* tuples.  So the computation ends, the loop over the distances included,
\* which has no bound of its own.
LessToDo ==
  \/ PartsLeft' < PartsLeft
  \/ /\ PartsLeft' = PartsLeft
     /\ \/ RoundsLeft' < RoundsLeft
        \/ RoundsLeft' = RoundsLeft /\ TuplesLeft' < TuplesLeft
EveryStepCounts == [][LessToDo]_vars

THEOREM ComputationEnds ==
  Spec => /\ [](PartsLeft \in Nat /\ RoundsLeft \in Nat /\ TuplesLeft \in Nat)
          /\ EveryStepCounts
<1>1. IInv => PartsLeft \in Nat /\ RoundsLeft \in Nat /\ TuplesLeft \in Nat
  BY Finite
<1>2. IInv /\ [Next]_vars => [LessToDo]_vars
  <2> SUFFICES ASSUME IInv, Next PROVE LessToDo
    OBVIOUS
  <2>1. CASE AddNeighbors \/ StartRounds \/ Finish
    BY <2>1 DEF AddNeighbors, StartRounds, Finish, LessToDo, PartsLeft
  <2>2. ASSUME NEW t \in todo, LookAtTwoHop(t) PROVE LessToDo
    <3>1. TuplesLeft' < TuplesLeft /\ PartsLeft' = PartsLeft /\ added' = added
      BY <2>2, OneTupleLess DEF LookAtTwoHop, PartsLeft
    <3>2. RoundsLeft' <= RoundsLeft /\ RoundsLeft \in Nat /\ RoundsLeft' \in Nat
      <4>1. CASE table' = table
        BY <3>1, <4>1, Finite DEF RoundsLeft
      <4>2. CASE table' # table
        <5>1. t[2] \in Nodes /\ AddEntry(t[2], [next |-> table[t[1]].next, distance |-> 2])
          BY <2>2, <4>2, Fields DEF LookAtTwoHop, IInv, Others
        <5> DEFINE left == Cardinality(Nodes \ DOMAIN table)
        <5>2. left \in Nat /\ left' \in Nat /\ left' <= left
          BY <5>1, EntriesLeft
        <5> QED BY <3>1, <5>2 DEF RoundsLeft, IInv, TypeOK
      <4> QED BY <4>1, <4>2
    <3> QED BY <3>1, <3>2 DEF LessToDo
  <2>3. ASSUME NEW t \in todo, LookAtTopology(t) PROVE LessToDo
    <3>1. TuplesLeft' < TuplesLeft /\ PartsLeft' = PartsLeft
      BY <2>3, OneTupleLess DEF LookAtTopology, PartsLeft
    <3>2. RoundsLeft' <= RoundsLeft /\ RoundsLeft \in Nat /\ RoundsLeft' \in Nat
      <4>1. CASE UNCHANGED <<table, added>>
        BY <4>1, Finite DEF RoundsLeft
      <4>2. CASE ~ UNCHANGED <<table, added>>
        <5>1. /\ t[2] \in Nodes /\ ~ HasEntry(t[2]) /\ added' = TRUE
              /\ AddEntry(t[2], [next |-> table[t[1]].next, distance |-> h + 1])
          BY <2>3, <4>2, Fields DEF LookAtTopology, IInv
        <5> DEFINE left == Cardinality(Nodes \ DOMAIN table)
        <5>2. left \in Nat /\ left' \in Nat /\ left' + 1 = left
          BY <5>1, EntriesLeft
        <5> QED BY <5>1, <5>2 DEF RoundsLeft
      <4> QED BY <4>1, <4>2
    <3> QED BY <3>1, <3>2 DEF LessToDo
  <2>4. CASE NextRound
    <3>1. PartsLeft' = PartsLeft /\ added /\ ~ added' /\ table' = table
      BY <2>4 DEF NextRound, PartsLeft
    <3> QED BY <3>1, Finite, FS_CardinalityType DEF LessToDo, RoundsLeft
  <2> QED BY <2>1, <2>2, <2>3, <2>4 DEF Next
<1> QED BY <1>1, <1>2, Invariance, PTL DEF Spec, EveryStepCounts

-----------------------------------------------------------------------------
\* A set of naturals has a least element: what fails for some distance fails
\* for a first one.
LEMMA LeastOf ==
  ASSUME NEW S \in SUBSET Nat, S # {}
  PROVE  \E x \in S : \A y \in S : x <= y
<1> DEFINE T == {1 .. x : x \in S}
<1>1. T \subseteq FiniteSubsetsOf(Nat) /\ T # {}
  <2>1. \A x \in S : IsFiniteSet(1 .. x) /\ 1 .. x \in SUBSET Nat
    BY FS_Interval
  <2>2. PICK x \in S : TRUE
    OBVIOUS
  <2>3. 1 .. x \in T
    OBVIOUS
  <2>4. ASSUME NEW V \in T PROVE V \in FiniteSubsetsOf(Nat)
    BY <2>1 DEF FiniteSubsetsOf
  <2> QED BY <2>3, <2>4
<1>2. PICK U \in T : \A V \in T : <<V, U>> \notin StrictSubsetOrdering(Nat)
  BY <1>1, FS_StrictSubsetOrderingWellFounded, WFMin
<1>3. PICK x \in S : U = 1 .. x
  BY <1>2
<1>4. ASSUME NEW y \in S, ~ x <= y PROVE FALSE
  <2>1. 1 .. y \subseteq 1 .. x /\ x \in 1 .. x /\ x \notin 1 .. y
    BY <1>4
  <2>2. <<1 .. y, 1 .. x>> \in StrictSubsetOrdering(Nat)
    BY <2>1 DEF StrictSubsetOrdering
  <2> QED BY <1>2, <1>3, <2>2
<1> QED BY <1>4

\* One step of the search EntriesWithin describes: from the entries S up to
\* distance k - 1 to those up to distance k.
First(r) == {<<n, n, 1>> : n \in FirstHops(r)}
Second(r) == {<<t[2], t[1], 2>> : t \in {u \in TwoHopLinks(r) : u[1] \in FirstHops(r)}}
Farther(r, S, k) ==
  UNION {{<<t[2], e[2], k>> : e \in {d \in S : d[1] = t[1] /\ d[3] = k - 1}} :
           t \in {u \in FarLinks(r) : u[2] \notin {e[1] : e \in S}}}
More(r, S, k) == S \cup IF k = 2 THEN Second(r) ELSE Farther(r, S, k)

IsSearch(f, r, H) ==
  f = [k \in 1 .. H |-> IF k = 1 THEN First(r) ELSE More(r, f[k - 1], k)]

LEMMA WithinIsSearch ==
  ASSUME NEW r, NEW H \in Nat, NEW f, IsSearch(f, r, H),
         \A g : IsSearch(g, r, H) => g = f
  PROVE  EntriesWithin(r, H) = f[H]
<1> DEFINE within[k \in 1 .. H] ==
        IF k = 1 THEN {<<n, n, 1>> : n \in FirstHops(r)}
        ELSE LET nearer == within[k - 1]
                 found == {e[1] : e \in nearer}
             IN  nearer \cup
                   IF k = 2
                   THEN {<<t[2], t[1], 2>> : t \in {u \in TwoHopLinks(r) : u[1] \in FirstHops(r)}}
                   ELSE UNION {{<<t[2], e[2], k>> :
                                  e \in {d \in nearer : d[1] = t[1] /\ d[3] = k - 1}} :
                               t \in {u \in FarLinks(r) : u[2] \notin found}}
<1>1. within = CHOOSE g : g = [k \in 1 .. H |-> IF k = 1 THEN First(r) ELSE More(r, g[k - 1], k)]
  BY DEF First, Second, Farther, More
<1>2. IsSearch(within, r, H)
  <2> HIDE DEF within
  <2> QED BY <1>1 DEF IsSearch
<1>3. EntriesWithin(r, H) = within[H]
  BY DEF EntriesWithin
<1> QED BY <1>2, <1>3

\* Searches up to different distances agree as far as both go.
LEMMA SearchesAgree ==
  ASSUME NEW r, NEW H \in Nat, NEW L \in Nat, NEW f, NEW g,
         IsSearch(f, r, H), IsSearch(g, r, L), NEW k \in Nat, 1 <= k, k <= H, k <= L
  PROVE  f[k] = g[k]
<1> DEFINE Bad == {j \in Nat : 1 <= j /\ j <= H /\ j <= L /\ f[j] # g[j]}
<1>1. ASSUME Bad # {} PROVE FALSE
  <2>1. PICK j \in Bad : \A i \in Bad : j <= i
    BY <1>1, LeastOf
  <2>2. CASE j = 1
    BY <2>1, <2>2 DEF IsSearch
  <2>3. CASE j # 1
    <3>1. /\ j - 1 \in Nat /\ j \in 1 .. H /\ j \in 1 .. L /\ ~ j <= j - 1
          /\ 1 <= j - 1 /\ j - 1 <= H /\ j - 1 <= L
      BY <2>1, <2>3
    <3>2. f[j - 1] = g[j - 1]
      BY <2>1, <3>1
    <3>3. f[j] = More(r, f[j - 1], j)
      BY <2>3, <3>1 DEF IsSearch
    <3>4. g[j] = More(r, g[j - 1], j)
      BY <2>3, <3>1 DEF IsSearch
    <3> QED BY <2>1, <3>2, <3>3, <3>4
  <2> QED BY <2>2, <2>3
<1> QED BY <1>1

\* A search up to one distance more is one up to the last and a step.
LEMMA SearchExists ==
  ASSUME NEW r, NEW H \in Nat
  PROVE  \E f : IsSearch(f, r, H)
<1> DEFINE Bad == {j \in Nat : ~ \E f : IsSearch(f, r, j)}
<1>1. ASSUME Bad # {} PROVE FALSE
  <2>1. PICK j \in Bad : \A i \in Bad : j <= i
    BY <1>1, LeastOf
  <2>2. CASE j = 0
    <3>1. IsSearch([k \in 1 .. 0 |-> {}], r, 0)
      BY DEF IsSearch
    <3> QED BY <2>1, <2>2, <3>1
  <2>3. CASE j # 0
    <3>1. j - 1 \in Nat /\ ~ j <= j - 1
      BY <2>1, <2>3
    <3>2. PICK f : IsSearch(f, r, j - 1)
      BY <2>1, <3>1
    <3> DEFINE last == IF j = 1 THEN First(r) ELSE More(r, f[j - 1], j)
               g == [k \in 1 .. j |-> IF k = j THEN last ELSE f[k]]
    <3>3. IsSearch(g, r, j)
      <4>1. SUFFICES ASSUME NEW k \in 1 .. j
                     PROVE  g[k] = IF k = 1 THEN First(r) ELSE More(r, g[k - 1], k)
        BY DEF IsSearch
      <4>2. CASE k = j
        BY <4>2, <3>1
      <4>3. CASE k # j /\ k # 1
        <5>1. k \in 1 .. j - 1 /\ k - 1 \in 1 .. j /\ k - 1 # j
          BY <4>3
        <5> QED BY <5>1, <4>3, <3>2 DEF IsSearch
      <4>4. CASE k = 1 /\ k # j
        <5>1. k \in 1 .. j - 1
          BY <4>4, <3>1
        <5> QED BY <5>1, <4>4, <3>2 DEF IsSearch
      <4> QED BY <4>2, <4>3, <4>4
    <3> QED BY <2>1, <3>3
  <2> QED BY <2>2, <2>3
<1> QED BY <1>1

\* EntriesWithin, one distance at a time.
LEMMA EntriesUnfold ==
  ASSUME NEW r
  PROVE  /\ EntriesWithin(r, 1) = First(r)
         /\ \A k \in Nat \ {0} : EntriesWithin(r, k + 1) = More(r, EntriesWithin(r, k), k + 1)
<1>1. ASSUME NEW H \in Nat, NEW f, IsSearch(f, r, H) PROVE EntriesWithin(r, H) = f[H]
  <2>1. ASSUME NEW g, IsSearch(g, r, H) PROVE g = f
    <3>1. \A k \in 1 .. H : f[k] = g[k]
      BY <1>1, <2>1, SearchesAgree
    <3>2. f = [k \in 1 .. H |-> f[k]] /\ g = [k \in 1 .. H |-> g[k]]
      BY <1>1, <2>1 DEF IsSearch
    <3> QED BY <3>1, <3>2
  <2> QED BY <1>1, <2>1, WithinIsSearch
<1>2. EntriesWithin(r, 1) = First(r)
  <2>1. PICK f : IsSearch(f, r, 1)
    BY SearchExists
  <2>2. f[1] = First(r)
    BY <2>1 DEF IsSearch
  <2> QED BY <1>1, <2>1, <2>2
<1>3. ASSUME NEW k \in Nat \ {0}
      PROVE  EntriesWithin(r, k + 1) = More(r, EntriesWithin(r, k), k + 1)
  <2>1. PICK f : IsSearch(f, r, k + 1)
    BY SearchExists
  <2>2. PICK g : IsSearch(g, r, k)
    BY SearchExists
  <2>3. f[k + 1] = More(r, f[k], k + 1)
    BY <2>1 DEF IsSearch
  <2>4. f[k] = g[k]
    BY <2>1, <2>2, SearchesAgree
  <2> QED BY <1>1, <2>1, <2>2, <2>3, <2>4
<1> QED BY <1>2, <1>3

-----------------------------------------------------------------------------
\* What the entries of distance one and two are: links that the loop has still
\* to look at apart, what the first two rounds of the search find, and what
\* lies behind neighbours that are lost.
NearInv ==
  pc # "neighbors" =>
    /\ \A n \in FirstHops(repo) : HasEntry(n) /\ table[n] = [next |-> n, distance |-> 1]
    /\ \A d \in DOMAIN table : table[d].distance = 1 => d \in FirstHops(repo)
    /\ pc = "twoHop" => \A d \in DOMAIN table : d \in repo.sym => d \in FirstHops(repo)
    /\ \A d \in DOMAIN table : table[d].distance = 2 =>
         \E t \in TwoHopLinks(repo) :
           /\ t[2] = d
           /\ (t[1] \in FirstHops(repo) /\ table[d].next = t[1]) \/ t[1] \notin repo.sym
    /\ \A t \in TwoHopLinks(repo) :
         t[1] \in FirstHops(repo) /\ (pc = "twoHop" => t \notin todo) =>
           HasEntry(t[2]) /\ table[t[2]].distance = 2

\* A step that changes no entry, adds only distant ones and leaves nothing of
\* the 2-hop tuples to look at.
LEMMA NearKept ==
  ASSUME NearInv, pc \in {"twoHop", "topology", "done"}, pc' \in {"topology", "done"},
         repo' = repo, pc = "twoHop" => todo = {},
         \A d \in DOMAIN table : d \in DOMAIN table' /\ table'[d] = table[d],
         \A d \in DOMAIN table' : d \in DOMAIN table \/ table'[d].distance \notin {1, 2}
  PROVE  NearInv'
<1>1. \A n \in FirstHops(repo) : n \in DOMAIN table' /\ table'[n] = [next |-> n, distance |-> 1]
  BY DEF NearInv, HasEntry
<1>2. \A d \in DOMAIN table' : table'[d].distance = 1 => d \in FirstHops(repo)
  BY DEF NearInv
<1>3. \A d \in DOMAIN table' : table'[d].distance = 2 =>
        \E t \in TwoHopLinks(repo) :
          /\ t[2] = d
          /\ (t[1] \in FirstHops(repo) /\ table'[d].next = t[1]) \/ t[1] \notin repo.sym
  BY DEF NearInv
<1>4. \A t \in TwoHopLinks(repo) :
        t[1] \in FirstHops(repo) => t[2] \in DOMAIN table' /\ table'[t[2]].distance = 2
  BY DEF NearInv, HasEntry
<1> QED BY <1>1, <1>2, <1>3, <1>4 DEF NearInv, HasEntry

\* A 2-hop tuple yields what the search finds, or its neighbour is lost.
LEMMA LookAtTwoHopNear ==
  ASSUME IInv, NearInv, NEW t \in todo, LookAtTwoHop(t)
  PROVE  NearInv'
<1>1. /\ repo' = repo /\ pc' = "twoHop" /\ todo' = todo \ {t} /\ pc = "twoHop"
  BY DEF LookAtTwoHop
<1>2. \A n \in FirstHops(repo) : n \in repo.sym
  BY <1>1, Fields DEF IInv
<1>3. CASE ~ (t \in TwoHopLinks(repo) /\ HasEntry(t[1]))
  <2>1. table' = table
    BY <1>3 DEF LookAtTwoHop
  <2>2. t \in TwoHopLinks(repo) => t[1] \notin FirstHops(repo)
    BY <1>1, <1>3 DEF NearInv
  <2> QED BY <1>1, <2>1, <2>2 DEF NearInv, HasEntry
<1>4. CASE t \in TwoHopLinks(repo) /\ HasEntry(t[1])
  <2> DEFINE e == [next |-> table[t[1]].next, distance |-> 2]
  <2>1. t[2] \in Others /\ t[2] \notin repo.sym /\ t[1] \in DOMAIN table
    BY <1>4, Fields DEF TwoHopLinks, HasEntry, IInv
  <2>2. e \in Entry /\ e.distance = 2 /\ e.next = table[t[1]].next
    BY <2>1, EntryOf DEF IInv, TypeOK, Entry
  <2>3. ASSUME t[1] \in repo.sym PROVE t[1] \in FirstHops(repo) /\ table[t[1]].next = t[1]
    <3>1. t[1] \in FirstHops(repo)
      BY <1>1, <2>1, <2>3 DEF NearInv
    <3>2. table[t[1]] = [next |-> t[1], distance |-> 1]
      BY <1>1, <3>1 DEF NearInv
    <3> QED BY <3>1, <3>2
  <2>4. /\ DOMAIN table' = DOMAIN table \cup {t[2]}
        /\ table'[t[2]].next = table[t[1]].next /\ table'[t[2]].distance = 2
        /\ \A x \in DOMAIN table : x # t[2] => table'[x] = table[x]
    <3>1. AddEntry(t[2], e)
      BY <1>4 DEF LookAtTwoHop
    <3> HIDE DEF e
    <3> QED BY <2>1, <2>2, <3>1, AddEntryEffect DEF IInv, TypeOK, Others
  <2>5. \A n \in FirstHops(repo) : n \in DOMAIN table' /\ table'[n] = [next |-> n, distance |-> 1]
    BY <1>1, <1>2, <2>1, <2>4 DEF NearInv, HasEntry
  <2>6. \A d \in DOMAIN table' : table'[d].distance = 1 => d \in FirstHops(repo)
    BY <1>1, <2>4 DEF NearInv
  <2>7. \A d \in DOMAIN table' : d \in repo.sym => d \in FirstHops(repo)
    BY <1>1, <2>1, <2>4 DEF NearInv
  <2>8. ASSUME NEW d \in DOMAIN table', table'[d].distance = 2
        PROVE  \E u \in TwoHopLinks(repo) :
                 /\ u[2] = d
                 /\ (u[1] \in FirstHops(repo) /\ table'[d].next = u[1]) \/ u[1] \notin repo.sym
    <3>1. CASE d = t[2]
      BY <1>4, <2>3, <2>4, <3>1
    <3>2. CASE d # t[2]
      BY <1>1, <2>4, <2>8, <3>2 DEF NearInv
    <3> QED BY <3>1, <3>2
  <2>9. ASSUME NEW u \in TwoHopLinks(repo), u[1] \in FirstHops(repo), u \notin todo \ {t}
        PROVE  u[2] \in DOMAIN table' /\ table'[u[2]].distance = 2
    <3>1. CASE u[2] = t[2]
      BY <2>4, <3>1
    <3>2. CASE u[2] # t[2]
      BY <1>1, <2>4, <2>9, <3>2 DEF NearInv, HasEntry
    <3> QED BY <3>1, <3>2
  <2> QED BY <1>1, <2>5, <2>6, <2>7, <2>8, <2>9 DEF NearInv, HasEntry
<1> QED BY <1>3, <1>4

\* Every step preserves what is said of the near entries.
LEMMA NextNear == IInv /\ NearInv /\ [Next]_vars => NearInv'
<1> SUFFICES ASSUME IInv, NearInv, [Next]_vars PROVE NearInv'
  OBVIOUS
<1>1. CASE AddNeighbors
  <2>1. /\ DOMAIN table' = FirstHops(repo)
        /\ \A n \in DOMAIN table' : table'[n] = [next |-> n, distance |-> 1]
        /\ repo' = repo /\ pc' = "twoHop" /\ todo' = repo.twoHop
    BY <1>1 DEF AddNeighbors
  <2>2. TwoHopLinks(repo) \subseteq todo'
    BY <2>1, Fields DEF IInv
  <2> QED BY <2>1, <2>2 DEF NearInv, HasEntry
<1>2. ASSUME NEW t \in todo, LookAtTwoHop(t) PROVE NearInv'
  BY <1>2, LookAtTwoHopNear
<1>3. ASSUME NEW t \in todo, LookAtTopology(t) PROVE NearInv'
  <2>1. /\ repo' = repo /\ pc = "topology" /\ pc' = "topology" /\ h \in Nat /\ h >= 2
    BY <1>3 DEF LookAtTopology, IInv, TypeOK
  <2>2. CASE table' = table
    BY <2>1, <2>2, NearKept
  <2>3. CASE table' # table
    <3> DEFINE e == [next |-> table[t[1]].next, distance |-> h + 1]
    <3>1. t \in FarLinks(repo) /\ HasEntry(t[1]) /\ ~ HasEntry(t[2]) /\ AddEntry(t[2], e)
      BY <1>3, <2>3 DEF LookAtTopology
    <3>2. t[2] \in Nodes /\ e \in Entry
      BY <2>1, <3>1, Fields, EntryOf DEF IInv, TypeOK, HasEntry, Entry
    <3>3. e.distance = h + 1
      OBVIOUS
    <3>4. /\ DOMAIN table' = DOMAIN table \cup {t[2]}
          /\ table'[t[2]].distance = h + 1
          /\ \A x \in DOMAIN table : table'[x] = table[x]
      <4> HIDE DEF e
      <4> QED BY <3>1, <3>2, <3>3, AddEntryEffect DEF IInv, TypeOK, HasEntry
    <3> QED BY <2>1, <3>4, NearKept
  <2> QED BY <2>2, <2>3
<1>4. CASE StartRounds
  BY <1>4, NearKept DEF StartRounds
<1>5. CASE NextRound
  BY <1>5, NearKept DEF NextRound
<1>6. CASE Finish
  BY <1>6, NearKept DEF Finish
<1>7. CASE UNCHANGED vars
  BY <1>7 DEF vars, NearInv, HasEntry
<1> QED BY <1>1, <1>2, <1>3, <1>4, <1>5, <1>6, <1>7 DEF Next

\* The near entries stay what the first two rounds of the search find.
THEOREM NearInvariance == Spec => []NearInv
<1>1. Init => NearInv /\ IInv
  BY InitIInv DEF Init, NearInv
<1> QED BY <1>1, NextIInv, NextNear, PTL DEF Spec

\* What the search finds within k steps are the entries of the table within
\* distance k.
AgreeUpTo(k) ==
  LET S == EntriesWithin(repo, k)
  IN  /\ \A e \in S : e[3] <= k /\ HasEntry(e[1]) /\ table[e[1]].distance = e[3]
      /\ \A d \in DOMAIN table : table[d].distance <= k =>
           <<d, table[d].next, table[d].distance>> \in S

LEMMA AgreeFirst ==
  ASSUME IInv, NearInv, pc = "done", TwoHopIsFresh
  PROVE  AgreeUpTo(1)
<1> DEFINE S == EntriesWithin(repo, 1)
<1>1. S = First(repo)
  BY EntriesUnfold
<1>2. ASSUME NEW e \in S PROVE e[3] <= 1 /\ HasEntry(e[1]) /\ table[e[1]].distance = e[3]
  <2>1. PICK n \in FirstHops(repo) : e = <<n, n, 1>>
    BY <1>1, <1>2 DEF First
  <2>2. HasEntry(n) /\ table[n] = [next |-> n, distance |-> 1]
    BY DEF NearInv
  <2> QED BY <2>1, <2>2
<1>3. ASSUME NEW d \in DOMAIN table, table[d].distance <= 1
      PROVE  <<d, table[d].next, table[d].distance>> \in S
  <2>1. table[d].distance = 1
    BY <1>3, EntryOf DEF IInv, TypeOK
  <2>2. d \in FirstHops(repo) /\ table[d] = [next |-> d, distance |-> 1]
    BY <2>1 DEF NearInv
  <2> QED BY <1>1, <2>2 DEF First
<1> QED BY <1>2, <1>3 DEF AgreeUpTo

LEMMA AgreeSecond ==
  ASSUME IInv, NearInv, pc = "done", TwoHopIsFresh
  PROVE  AgreeUpTo(2)
<1> DEFINE S == EntriesWithin(repo, 2)
           R == EntriesWithin(repo, 1)
<1>1. S = R \cup Second(repo)
  BY EntriesUnfold DEF More
<1>2. AgreeUpTo(1)
  BY AgreeFirst
<1>3. ASSUME NEW e \in S PROVE e[3] <= 2 /\ HasEntry(e[1]) /\ table[e[1]].distance = e[3]
  <2>1. CASE e \in R
    BY <1>2, <2>1, EntryOf DEF AgreeUpTo, IInv, TypeOK, HasEntry
  <2>2. CASE e \in Second(repo)
    <3>1. PICK t \in TwoHopLinks(repo) : t[1] \in FirstHops(repo) /\ e = <<t[2], t[1], 2>>
      BY <2>2 DEF Second
    <3>2. HasEntry(t[2]) /\ table[t[2]].distance = 2
      BY <3>1 DEF NearInv
    <3> QED BY <3>1, <3>2
  <2> QED BY <1>1, <2>1, <2>2
<1>4. ASSUME NEW d \in DOMAIN table, table[d].distance <= 2
      PROVE  <<d, table[d].next, table[d].distance>> \in S
  <2>1. CASE table[d].distance <= 1
    BY <1>1, <1>2, <2>1 DEF AgreeUpTo
  <2>2. CASE ~ table[d].distance <= 1
    <3>1. table[d].distance = 2
      BY <1>4, <2>2, EntryOf DEF IInv, TypeOK
    <3>2. PICK t \in TwoHopLinks(repo) :
            t[1] \in FirstHops(repo) /\ t[2] = d /\ table[d].next = t[1]
      BY <3>1 DEF NearInv, TwoHopIsFresh, TwoHopLinks
    <3>3. <<d, table[d].next, table[d].distance>> = <<t[2], t[1], 2>>
      BY <3>1, <3>2
    <3> QED BY <1>1, <3>2, <3>3 DEF Second
  <2> QED BY <2>1, <2>2
<1> HIDE DEF S
<1> QED BY <1>3, <1>4 DEF AgreeUpTo, S

LEMMA AgreeFarther ==
  ASSUME IInv, NearInv, pc = "done", TwoHopIsFresh, NEW k \in Nat, k >= 2, AgreeUpTo(k)
  PROVE  AgreeUpTo(k + 1)
<1> DEFINE S == EntriesWithin(repo, k + 1)
           R == EntriesWithin(repo, k)
<1>1. S = R \cup Farther(repo, R, k + 1)
  BY EntriesUnfold DEF More
<1>2. \A t \in FarLinks(repo) :
        HasEntry(t[1]) /\ table[t[1]].distance >= 2 =>
          HasEntry(t[2]) /\ table[t[2]].distance <= table[t[1]].distance + 1
  <2>1. todo = {} /\ \A d \in DOMAIN table : table[d].distance <= h
    BY DEF IInv, Phase
  <2> QED BY <2>1 DEF IInv, Closed, HasEntry
<1>3. ASSUME NEW e \in S PROVE e[3] <= k + 1 /\ HasEntry(e[1]) /\ table[e[1]].distance = e[3]
  <2>1. CASE e \in R
    BY <2>1, EntryOf DEF AgreeUpTo, IInv, TypeOK, HasEntry
  <2>2. CASE e \in Farther(repo, R, k + 1)
    <3>1. PICK t \in FarLinks(repo) :
            /\ t[2] \notin {x[1] : x \in R}
            /\ e \in {<<t[2], x[2], k + 1>> : x \in {y \in R : y[1] = t[1] /\ y[3] = k + 1 - 1}}
      BY <2>2 DEF Farther
    <3>2. PICK x \in R : x[1] = t[1] /\ x[3] = k /\ e = <<t[2], x[2], k + 1>>
      BY <3>1
    <3>3. HasEntry(t[1]) /\ table[t[1]].distance = k
      BY <3>2 DEF AgreeUpTo
    <3>4. HasEntry(t[2]) /\ table[t[2]].distance <= k + 1
      BY <1>2, <3>3
    <3>5. ~ table[t[2]].distance <= k
      <4>1. ASSUME table[t[2]].distance <= k PROVE FALSE
        <5>1. <<t[2], table[t[2]].next, table[t[2]].distance>> \in R
          BY <3>4, <4>1 DEF AgreeUpTo, HasEntry
        <5> QED BY <3>1, <5>1
      <4> QED BY <4>1
    <3>6. table[t[2]].distance = k + 1
      BY <3>4, <3>5, EntryOf DEF IInv, TypeOK, HasEntry
    <3> QED BY <3>2, <3>4, <3>6
  <2> QED BY <1>1, <2>1, <2>2
<1>4. ASSUME NEW d \in DOMAIN table, table[d].distance <= k + 1
      PROVE  <<d, table[d].next, table[d].distance>> \in S
  <2>1. CASE table[d].distance <= k
    BY <1>1, <2>1 DEF AgreeUpTo
  <2>2. CASE ~ table[d].distance <= k
    <3>1. table[d] = [next |-> table[d].next, distance |-> k + 1]
      BY <1>4, <2>2, EntryOf DEF IInv, TypeOK
    <3>2. PICK t \in FarLinks(repo) :
            t[2] = d /\ HasEntry(t[1]) /\ table[t[1]] = [table[d] EXCEPT !.distance = @ - 1]
      BY <3>1 DEF IInv, EntriesContinue
    <3>3. table[t[1]].next = table[d].next /\ table[t[1]].distance = k
      BY <3>1, <3>2
    <3>4. <<t[1], table[d].next, k>> \in R
      <4>1. t[1] \in DOMAIN table /\ table[t[1]].distance <= k
        BY <3>2, <3>3 DEF HasEntry
      <4>2. <<t[1], table[t[1]].next, table[t[1]].distance>> \in R
        BY <4>1 DEF AgreeUpTo
      <4> HIDE DEF R
      <4> QED BY <3>3, <4>2
    <3>5. d \notin {x[1] : x \in R}
      BY <2>2 DEF AgreeUpTo
    <3>6. <<d, table[d].next, k + 1>> \in Farther(repo, R, k + 1)
      <4> DEFINE x == <<t[1], table[d].next, k>>
      <4>1. x[1] = t[1] /\ x[2] = table[d].next /\ x[3] = k + 1 - 1 /\ x \in R
        BY <3>4
      <4> HIDE DEF x
      <4> QED BY <3>2, <3>5, <4>1 DEF Farther
    <3> QED BY <1>1, <3>1, <3>6
  <2> QED BY <2>1, <2>2
<1> HIDE DEF S
<1> QED BY <1>3, <1>4 DEF AgreeUpTo, S

\* The search and the table agree at every distance.
LEMMA AgreeAlways ==
  ASSUME IInv, NearInv, pc = "done", TwoHopIsFresh, NEW k \in Nat \ {0}
  PROVE  AgreeUpTo(k)
<1> DEFINE Bad == {j \in Nat \ {0} : ~ AgreeUpTo(j)}
<1>1. ASSUME Bad # {} PROVE FALSE
  <2>1. PICK j \in Bad : \A i \in Bad : j <= i
    BY <1>1, LeastOf
  <2>2. j # 1 /\ j # 2
    BY <2>1, AgreeFirst, AgreeSecond
  <2>3. j - 1 \in Nat \ {0} /\ j - 1 >= 2 /\ ~ j <= j - 1 /\ (j - 1) + 1 = j
    BY <2>1, <2>2
  <2>4. AgreeUpTo(j - 1)
    BY <2>1, <2>3
  <2>5. AgreeUpTo((j - 1) + 1)
    BY <2>3, <2>4, AgreeFarther
  <2> QED BY <2>1, <2>3, <2>5
<1> QED BY <1>1

\* No entry is farther than there are nodes.
LEMMA NoFartherThanNodes ==
  ASSUME IInv, RoundsEnd, pc = "done", NEW d \in DOMAIN table
  PROVE  table[d].distance <= Cardinality(Nodes)
<1>1. h \in Nat /\ table[d].distance \in Nat /\ table[d].distance <= h /\ d \in Nodes
  BY EntryOf DEF IInv, TypeOK, Phase
<1>2. IsFiniteSet(DOMAIN table) /\ Cardinality(DOMAIN table) <= Cardinality(Nodes)
  BY RoutingAssumption, FS_Subset DEF IInv, TypeOK, IsTable
<1>3. Cardinality(Nodes) \in Nat /\ Cardinality(DOMAIN table) \in Nat
  BY <1>2, RoutingAssumption, FS_CardinalityType
<1>4. Cardinality(Nodes) >= 2
  <2>1. table[d].next \in Others /\ Self \notin Others /\ Self \in Nodes
    BY EntryOf, RoutingAssumption DEF IInv, TypeOK, Others
  <2>2. {Self, table[d].next} \in SUBSET Nodes /\ Self # table[d].next
    BY <2>1 DEF Others
  <2>3. IsFiniteSet({Self}) /\ Cardinality({Self}) = 1
    BY FS_Singleton
  <2>4. Cardinality({Self} \cup {table[d].next}) = 2
    <3>1. table[d].next \notin {Self}
      BY <2>2
    <3> QED BY <2>3, <3>1, FS_AddElement
  <2>5. {Self} \cup {table[d].next} = {Self, table[d].next}
    OBVIOUS
  <2>6. Cardinality({Self, table[d].next}) <= Cardinality(Nodes)
    BY <2>2, RoutingAssumption, FS_Subset
  <2> QED BY <1>3, <2>4, <2>5, <2>6
<1> QED BY <1>1, <1>2, <1>3, <1>4 DEF RoundsEnd

\* RoutingTableComputation finds what a breadth-first search finds, although
\* it fills one table in place, tuple by tuple, in any order of the tuples.
THEOREM SearchesBreadthFirst == Spec => []BreadthFirst
<1>1. ASSUME IInv, NearInv, RoundsEnd PROVE BreadthFirst
  <2> SUFFICES ASSUME pc = "done", TwoHopIsFresh
               PROVE  LET entries == EntriesWithin(repo, Cardinality(Nodes))
                      IN  /\ DOMAIN table = {e[1] : e \in entries}
                          /\ \A d \in DOMAIN table :
                               <<d, table[d].next, table[d].distance>> \in entries
    BY DEF BreadthFirst
  <2> DEFINE K == Cardinality(Nodes)
             S == EntriesWithin(repo, K)
  <2>1. K \in Nat \ {0}
    BY RoutingAssumption, FS_CardinalityType, FS_EmptySet
  <2>2. AgreeUpTo(K)
    BY <1>1, <2>1, AgreeAlways
  <2>3. \A d \in DOMAIN table : <<d, table[d].next, table[d].distance>> \in S
    BY <1>1, <2>2, NoFartherThanNodes DEF AgreeUpTo
  <2>4. \A e \in S : e[1] \in DOMAIN table
    BY <2>2 DEF AgreeUpTo, HasEntry
  <2>5. DOMAIN table \subseteq {e[1] : e \in S}
    <3> SUFFICES ASSUME NEW d \in DOMAIN table PROVE d \in {e[1] : e \in S}
      OBVIOUS
    <3> HIDE DEF S
    <3>1. <<d, table[d].next, table[d].distance>>[1] = d
      OBVIOUS
    <3> QED BY <2>3, <3>1
  <2> QED BY <2>3, <2>4, <2>5
<1> QED BY <1>1, NearInvariance, Invariance, Termination, PTL
-----------------------------------------------------------------------------
\* What the search finds within k steps is in the table, no farther.
NoFarther(k) ==
  LET S == EntriesWithin(repo, k)
  IN  /\ First(repo) \subseteq S
      /\ k >= 2 => Second(repo) \subseteq S
      /\ \A e \in S : /\ e[3] \in 1 .. k
                      /\ HasEntry(e[1]) /\ table[e[1]].distance <= e[3]
                      /\ e[1] \in FirstHops(repo) => e[3] = 1

LEMMA NoFartherFirst ==
  ASSUME IInv, NearInv, pc = "done"
  PROVE  NoFarther(1)
<1> DEFINE S == EntriesWithin(repo, 1)
<1>1. S = First(repo)
  BY EntriesUnfold
<1>2. ASSUME NEW e \in S
      PROVE  /\ e[3] = 1
             /\ HasEntry(e[1]) /\ table[e[1]].distance <= 1
  <2>1. PICK n \in FirstHops(repo) : e = <<n, n, 1>>
    BY <1>1, <1>2 DEF First
  <2>2. HasEntry(n) /\ table[n] = [next |-> n, distance |-> 1]
    BY DEF NearInv
  <2> QED BY <2>1, <2>2
<1> HIDE DEF S
<1> QED BY <1>1, <1>2 DEF NoFarther, S

LEMMA NoFartherSecond ==
  ASSUME IInv, NearInv, pc = "done"
  PROVE  NoFarther(2)
<1> DEFINE S == EntriesWithin(repo, 2)
           R == EntriesWithin(repo, 1)
<1>1. S = R \cup Second(repo)
  BY EntriesUnfold DEF More
<1>2. NoFarther(1)
  BY NoFartherFirst
<1>3. ASSUME NEW e \in S
      PROVE  /\ e[3] \in 1 .. 2
             /\ HasEntry(e[1]) /\ table[e[1]].distance <= e[3]
             /\ e[1] \in FirstHops(repo) => e[3] = 1
  <2>1. CASE e \in R
    BY <1>2, <2>1 DEF NoFarther
  <2>2. CASE e \in Second(repo)
    <3>1. PICK t \in TwoHopLinks(repo) : t[1] \in FirstHops(repo) /\ e = <<t[2], t[1], 2>>
      BY <2>2 DEF Second
    <3>2. HasEntry(t[2]) /\ table[t[2]].distance = 2
      BY <3>1 DEF NearInv
    <3>3. t[2] \notin FirstHops(repo)
      BY <3>1 DEF TwoHopLinks, FirstHops
    <3> QED BY <3>1, <3>2, <3>3
  <2> QED BY <1>1, <2>1, <2>2
<1> HIDE DEF S
<1>4. First(repo) \subseteq S /\ Second(repo) \subseteq S
  BY <1>1, <1>2 DEF NoFarther
<1> QED BY <1>3, <1>4 DEF NoFarther, S

LEMMA NoFartherNext ==
  ASSUME IInv, NearInv, pc = "done", NEW k \in Nat, k >= 2, NoFarther(k)
  PROVE  NoFarther(k + 1)
<1> DEFINE S == EntriesWithin(repo, k + 1)
           R == EntriesWithin(repo, k)
<1>1. S = R \cup Farther(repo, R, k + 1)
  BY EntriesUnfold DEF More
<1>2. \A t \in FarLinks(repo) :
        HasEntry(t[1]) /\ table[t[1]].distance >= 2 =>
          HasEntry(t[2]) /\ table[t[2]].distance <= table[t[1]].distance + 1
  <2>1. todo = {} /\ \A d \in DOMAIN table : table[d].distance <= h
    BY DEF IInv, Phase
  <2> QED BY <2>1 DEF IInv, Closed, HasEntry
<1>3. ASSUME NEW e \in S
      PROVE  /\ e[3] \in 1 .. k + 1
             /\ HasEntry(e[1]) /\ table[e[1]].distance <= e[3]
             /\ e[1] \in FirstHops(repo) => e[3] = 1
  <2>1. CASE e \in R
    BY <2>1 DEF NoFarther
  <2>2. CASE e \in Farther(repo, R, k + 1)
    <3>1. PICK t \in FarLinks(repo) :
            /\ t[2] \notin {x[1] : x \in R}
            /\ e \in {<<t[2], x[2], k + 1>> : x \in {y \in R : y[1] = t[1] /\ y[3] = k + 1 - 1}}
      BY <2>2 DEF Farther
    <3>2. PICK x \in R : x[1] = t[1] /\ x[3] = k /\ e = <<t[2], x[2], k + 1>>
      BY <3>1
    <3>3. HasEntry(t[1]) /\ table[t[1]].distance <= k /\ t[1] \notin FirstHops(repo)
      BY <3>2 DEF NoFarther
    <3>4. table[t[1]].distance \in Nat /\ table[t[1]].distance >= 2
      <4>1. table[t[1]].distance # 1
        BY <3>3 DEF NearInv, HasEntry
      <4> QED BY <3>3, <4>1, EntryOf DEF IInv, TypeOK, HasEntry
    <3>5. HasEntry(t[2]) /\ table[t[2]].distance <= table[t[1]].distance + 1
      BY <1>2, <3>3, <3>4
    <3>6. table[t[2]].distance \in Nat
      BY <3>5, EntryOf DEF IInv, TypeOK, HasEntry
    <3>7. t[2] \notin FirstHops(repo)
      <4>1. ASSUME t[2] \in FirstHops(repo) PROVE FALSE
        <5>1. <<t[2], t[2], 1>> \in R
          BY <4>1 DEF NoFarther, First
        <5> QED BY <3>1, <5>1
      <4> QED BY <4>1
    <3> QED BY <3>2, <3>3, <3>4, <3>5, <3>6, <3>7
  <2> QED BY <1>1, <2>1, <2>2
<1> HIDE DEF S
<1>4. First(repo) \subseteq S /\ Second(repo) \subseteq S
  BY <1>1 DEF NoFarther
<1> QED BY <1>3, <1>4 DEF NoFarther, S

LEMMA NoFartherAlways ==
  ASSUME IInv, NearInv, pc = "done", NEW k \in Nat \ {0}
  PROVE  NoFarther(k)
<1> DEFINE Bad == {j \in Nat \ {0} : ~ NoFarther(j)}
<1>1. ASSUME Bad # {} PROVE FALSE
  <2>1. PICK j \in Bad : \A i \in Bad : j <= i
    BY <1>1, LeastOf
  <2>2. j # 1 /\ j # 2
    BY <2>1, NoFartherFirst, NoFartherSecond
  <2>3. j - 1 \in Nat \ {0} /\ j - 1 >= 2 /\ ~ j <= j - 1 /\ (j - 1) + 1 = j
    BY <2>1, <2>2
  <2>4. NoFarther(j - 1)
    BY <2>1, <2>3
  <2>5. NoFarther((j - 1) + 1)
    BY <2>3, <2>4, NoFartherNext
  <2> QED BY <2>1, <2>3, <2>5
<1> QED BY <1>1

\* 2-hop tuples of lost neighbours hide no destination and lengthen no way;
\* they may only make destinations behind those neighbours look nearer.
THEOREM StaleTwoHopsOnlyShorten == Spec => []LostNeighborsOnlyShorten
<1>1. ASSUME IInv, NearInv, RoundsEnd PROVE LostNeighborsOnlyShorten
  <2> SUFFICES ASSUME pc = "done"
               PROVE  LET entries == EntriesWithin(repo, Cardinality(Nodes))
                      IN  /\ \A e \in entries : HasEntry(e[1]) /\ table[e[1]].distance <= e[3]
                          /\ \A d \in DOMAIN table :
                               table[d].distance = 2 /\ <<d, table[d].next, 2>> \notin entries =>
                                 \E t \in TwoHopLinks(repo) : t[2] = d /\ t[1] \notin repo.sym
    BY DEF LostNeighborsOnlyShorten
  <2> DEFINE K == Cardinality(Nodes)
             S == EntriesWithin(repo, K)
  <2>1. K \in Nat \ {0}
    BY RoutingAssumption, FS_CardinalityType, FS_EmptySet
  <2>2. NoFarther(K)
    BY <1>1, <2>1, NoFartherAlways
  <2>3. ASSUME NEW d \in DOMAIN table, table[d].distance = 2, <<d, table[d].next, 2>> \notin S
        PROVE  \E t \in TwoHopLinks(repo) : t[2] = d /\ t[1] \notin repo.sym
    <3>1. PICK t \in TwoHopLinks(repo) :
            /\ t[2] = d
            /\ (t[1] \in FirstHops(repo) /\ table[d].next = t[1]) \/ t[1] \notin repo.sym
      BY <1>1, <2>3 DEF NearInv
    <3>2. K >= 2
      BY <1>1, <2>3, NoFartherThanNodes
    <3>3. ~ (t[1] \in FirstHops(repo) /\ table[d].next = t[1])
      <4>1. ASSUME t[1] \in FirstHops(repo), table[d].next = t[1] PROVE FALSE
        <5>1. <<t[2], t[1], 2>> \in Second(repo)
          BY <4>1 DEF Second
        <5>2. Second(repo) \subseteq S
          BY <2>2, <3>2 DEF NoFarther
        <5> QED BY <2>3, <3>1, <4>1, <5>1, <5>2
      <4> QED BY <4>1
    <3> QED BY <3>1, <3>3
  <2>4. \A e \in S : HasEntry(e[1]) /\ table[e[1]].distance <= e[3]
    BY <2>2 DEF NoFarther
  <2> QED BY <2>3, <2>4
<1> QED BY <1>1, NearInvariance, Invariance, Termination, PTL
=============================================================================
