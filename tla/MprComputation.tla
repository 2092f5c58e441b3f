--------------------------- MODULE MprComputation ---------------------------
(***************************************************************************)
(* RoutingProtocol::MprComputation, the greedy heuristic that chooses the  *)
(* multipoint relays of one node, step by step: the always willing         *)
(* neighbours, then the neighbours that are the only provider of some      *)
(* 2-hop address, then one greedy choice at a time, then SetMprSet.        *)
(*                                                                         *)
(* The repositories it reads (neighbour tuples, 2-hop tuples, the defence  *)
(* strategy's verdicts) do not change while it runs: Init chooses them.    *)
(* The neighbour list is ordered in the code and the first of several      *)
(* equally good neighbours wins; the order is abstracted to a choice.      *)
(***************************************************************************)
EXTENDS Integers, FiniteSets

CONSTANTS Neighbors,     \* main addresses a neighbour tuple may have
          Addresses,     \* addresses a 2-hop tuple may have
          TwoHopTuples,  \* tuples <<neighbour, 2-hop address>> that may be recorded
          Levels,        \* willingness values the neighbours may announce
          Suspects,      \* neighbours the defence strategy may mistrust
          Self           \* this node's main address

ASSUME MprAssumption ==
  /\ IsFiniteSet(TwoHopTuples)
  /\ TwoHopTuples \subseteq Neighbors \X Addresses
  /\ Levels \subseteq 0 .. 7
  /\ Suspects \subseteq Neighbors
  /\ Self \notin Neighbors

VARIABLES sym,         \* neighbours whose tuple has STATUS_SYM
          mistrusted,  \* neighbours IsMalicious answers true for
          will,        \* willingness in each neighbour tuple
          twoHop,      \* the 2-hop neighbour set
          N2,          \* the tuples still to be covered (local variable N2)
          mprSet,      \* the relays chosen so far (local variable mprSet)
          pc,          \* the next part of the computation
          result       \* OlsrState::m_mprSet

inputs == <<sym, mistrusted, will, twoHop>>
vars == <<sym, mistrusted, will, twoHop, N2, mprSet, pc, result>>

\* The selection contract this computation is meant to honour.
Contract == INSTANCE MprSelection
              WITH usable <- sym \ mistrusted, published <- (pc = "done")

-----------------------------------------------------------------------------
\* The set N: symmetric neighbours the defence strategy does not mistrust.
N == sym \ mistrusted

\* Mutant: forgets to leave out the neighbours that announced NEVER.
N2InitOfUnwilling ==
  {p \in twoHop : /\ p[1] \notin mistrusted
                  /\ p[2] # Self
                  /\ p[1] \in N
                  /\ p[2] \notin N}

\* The set N2 as it is first built from the 2-hop neighbour set.
N2Init ==
  {p \in twoHop : /\ p[1] \notin mistrusted
                  /\ p[2] # Self
                  /\ p[1] \in N /\ will[p[1]] # Contract!NEVER
                  /\ p[2] \notin N}

\* Mutant: erases the tuples of the relay instead of those of its addresses.
CoverOwnTuples(M, S) == {p \in S : p[1] \notin M}

\* CoverTwoHopNeighbors for every neighbour in M: whole addresses go.
CoverTwoHopNeighbors(M, S) == {p \in S : ~ \E m \in M : <<m, p[2]>> \in S}

\* Degree: counts a 2-hop tuple of n when n itself has no neighbour tuple.
Degree(n) ==
  Cardinality({p \in twoHop : p[1] = n /\ p[1] \notin Neighbors})

\* The number of tuples of n that are still to be covered.
Reachability(n) == Cardinality({p \in N2 : p[1] = n})

\* Neighbours that alone provide reachability to some address of N2.
OnlyProviders ==
  {n \in N : \E p \in N2 : /\ p[1] = n
                           /\ \A q \in N2 : q[2] = p[2] => q[1] = n}

\* m is at least as good a choice as n: willingness, reachability, degree.
AtLeastAsGood(m, n) ==
  \/ will[m] > will[n]
  \/ will[m] = will[n] /\ Reachability(m) > Reachability(n)
  \/ /\ will[m] = will[n]
     /\ Reachability(m) = Reachability(n)
     /\ Degree(m) >= Degree(n)

\* Mutant: compares with neighbours that provide nothing as well.
BestOfAll == {m \in N : Reachability(m) > 0 /\ \A n \in N : AtLeastAsGood(m, n)}

\* The neighbours the loop over the reachability classes may end up with.
Best == {m \in N : /\ Reachability(m) > 0
                   /\ \A n \in N : Reachability(n) > 0 => AtLeastAsGood(m, n)}

-----------------------------------------------------------------------------
Init ==
  /\ sym \in SUBSET Neighbors
  /\ mistrusted \in SUBSET Suspects
  /\ will \in [Neighbors -> Levels]
  /\ twoHop \in SUBSET TwoHopTuples
  /\ N2 = N2Init
  /\ mprSet = {}
  /\ pc = "always"
  /\ result = {}

\* Mutant: adds the always willing neighbours that are mistrusted, too.
SelectAlwaysMistrusted ==
  /\ pc = "always"
  /\ LET always == {n \in sym : will[n] = Contract!ALWAYS}
     IN  /\ mprSet' = mprSet \cup always
         /\ N2' = CoverTwoHopNeighbors(always, N2)
  /\ pc' = "only"
  /\ UNCHANGED <<inputs, result>>

\* Mutant: adds the always willing neighbours only if they provide something.
SelectAlwaysUseful ==
  /\ pc = "always"
  /\ LET always == {n \in N : will[n] = Contract!ALWAYS /\ Reachability(n) > 0}
     IN  /\ mprSet' = mprSet \cup always
         /\ N2' = CoverTwoHopNeighbors(always, N2)
  /\ pc' = "only"
  /\ UNCHANGED <<inputs, result>>

\* Step 1: the members of N with willingness ALWAYS.
SelectAlways ==
  /\ pc = "always"
  /\ LET always == {n \in N : will[n] = Contract!ALWAYS}
     IN  /\ mprSet' = mprSet \cup always
         /\ N2' = CoverTwoHopNeighbors(always, N2)
  /\ pc' = "only"
  /\ UNCHANGED <<inputs, result>>

\* Step 3: the only providers, and the removal of all that they cover.
SelectOnlyProviders ==
  /\ pc = "only"
  /\ mprSet' = mprSet \cup OnlyProviders
  /\ N2' = CoverTwoHopNeighbors(OnlyProviders, N2)
  /\ pc' = "greedy"
  /\ UNCHANGED <<inputs, result>>

\* Mutant: does not erase what the chosen neighbour covers.
SelectBestUncovered ==
  /\ pc = "greedy"
  /\ N2 # {}
  /\ \E m \in Best : mprSet' = mprSet \cup {m}
  /\ UNCHANGED <<inputs, N2, pc, result>>

\* Step 4: one iteration of the loop that runs while N2 is not empty.
SelectBest ==
  /\ pc = "greedy"
  /\ N2 # {}
  /\ \E m \in Best : /\ mprSet' = mprSet \cup {m}
                     /\ N2' = CoverTwoHopNeighbors({m}, N2)
  /\ UNCHANGED <<inputs, pc, result>>

\* Mutant: publishes after at most one iteration of the loop.
SetMprSetEarly ==
  /\ pc = "greedy"
  /\ result' = mprSet
  /\ pc' = "done"
  /\ UNCHANGED <<inputs, N2, mprSet>>

\* OlsrState::SetMprSet.
SetMprSet ==
  /\ pc = "greedy"
  /\ N2 = {}
  /\ result' = mprSet
  /\ pc' = "done"
  /\ UNCHANGED <<inputs, N2, mprSet>>

Next == SelectAlways \/ SelectOnlyProviders \/ SelectBest \/ SetMprSet

\* The function runs to its end once it is called.
Spec == Init /\ [][Next]_vars /\ WF_vars(Next)

-----------------------------------------------------------------------------
\* Type correctness of the computation's variables.
TypeOK ==
  /\ sym \subseteq Neighbors
  /\ mistrusted \subseteq Suspects
  /\ will \in [Neighbors -> Levels]
  /\ twoHop \subseteq TwoHopTuples
  /\ N2 \subseteq twoHop
  /\ mprSet \subseteq N
  /\ pc \in {"always", "only", "greedy", "done"}
  /\ result \subseteq N

\* What is left in N2 is exactly what the relays chosen so far do not cover.
\* CoverTwoHopNeighbors and the loop of step 3 erase by 2-hop address, so an
\* address must never be erased that no chosen relay reaches, nor kept.
RemainingIsUncovered ==
  N2 = {p \in N2Init : ~ \E m \in mprSet : <<m, p[2]>> \in N2Init}

\* The published set reaches every strict 2-hop address (RFC 3626, 8.3.1),
\* although mistrusted and unwilling neighbours were left out of it.
PublishedCovers ==
  pc = "done" => Contract!Covers(result, N2Init)

\* A relay is never a neighbour the strategy mistrusts, never one that
\* announced NEVER, and, unless it announced ALWAYS, it provides some strict
\* 2-hop address that no relay chosen with it in an earlier part covers.
RelaysAreJustified ==
  \A m \in mprSet :
    /\ m \in sym \ mistrusted
    /\ will[m] # Contract!NEVER
    /\ will[m] # Contract!ALWAYS =>
         \E p \in N2Init : /\ p[1] = m
                           /\ \A a \in N : will[a] = Contract!ALWAYS
                                             => <<a, p[2]>> \notin N2Init

\* The while loop always finds a neighbour to add: it cannot spin.
LoopNeverStuck == pc = "greedy" /\ N2 # {} => Best # {}

\* The computation ends: every iteration shrinks N2.
Terminates == <>(pc = "done")

\* The algorithm implements the selection contract.
ImplementsContract == Contract!Spec

\* The tie-break of the loop's comment (lines 1022 to 1024): of two
\* neighbours with the same willingness and reachability the chosen one has
\* the greater D(y), the number of 2-hop neighbours it provides that are not
\* this node's own neighbours.
DegreeOf(n) == Cardinality({p \in twoHop : p[1] = n /\ p[2] \notin sym \cup {Self}})
GreaterDegreeWins ==
  [][\A m \in mprSet' \ mprSet, n \in N :
       (/\ pc = "greedy"
        /\ will[m] = will[n]
        /\ Reachability(m) = Reachability(n)) => DegreeOf(m) >= DegreeOf(n)]_vars
=============================================================================
