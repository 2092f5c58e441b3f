------------------------ MODULE MprComputation_proofs ------------------------
(***************************************************************************)
(* Proofs about MprComputation: for every neighbourhood, willingness and   *)
(* verdict of the defence strategy the greedy heuristic keeps its books    *)
(* right, publishes a covering set and implements MprSelection.            *)
(***************************************************************************)
EXTENDS MprComputation, FiniteSetTheorems, WellFoundedInduction, TLAPS

-----------------------------------------------------------------------------
\* Covering what A left uncovered with M is covering with both: erasing by
\* 2-hop address loses nothing and keeps nothing.
LEMMA CoverUnion ==
  ASSUME NEW S, NEW A, NEW M
  PROVE  CoverTwoHopNeighbors(M, CoverTwoHopNeighbors(A, S))
           = CoverTwoHopNeighbors(A \cup M, S)
<1>1. ASSUME NEW p \in S, ~ \E m \in A : <<m, p[2]>> \in S, NEW m
      PROVE  <<m, p[2]>> \in CoverTwoHopNeighbors(A, S) <=> <<m, p[2]>> \in S
  <2>1. <<m, p[2]>>[2] = p[2]
    OBVIOUS
  <2> QED BY <1>1, <2>1 DEF CoverTwoHopNeighbors
<1> QED BY <1>1 DEF CoverTwoHopNeighbors

\* The set N2 of the code is the set of strict 2-hop tuples of the contract.
LEMMA N2InitIsStrict ==
  N2Init = Contract!StrictTwoHop(sym \ mistrusted, will, twoHop, Self)
BY DEF N2Init, N, Contract!StrictTwoHop, Contract!NEVER

-----------------------------------------------------------------------------
\* Where the relays chosen so far come from, and what each part has achieved.
\* PublishedCovers, RelaysAreJustified and the refinement follow from it.
Always == {n \in N : will[n] = Contract!ALWAYS}
Providers == {p[1] : p \in N2Init}

ChosenSoFar ==
  /\ pc = "always" => mprSet = {}
  /\ pc # "always" => Always \subseteq mprSet
  /\ \A m \in mprSet : m \in Always \/
       \E p \in N2Init : p[1] = m /\ \A a \in Always : <<a, p[2]>> \notin N2Init
  /\ pc = "done" => N2 = {} /\ result = mprSet

IInv == TypeOK /\ RemainingIsUncovered /\ ChosenSoFar

LEMMA Unchosen ==
  ASSUME IInv, pc # "always", NEW p \in N2
  PROVE  p \in N2Init /\ \A a \in Always : <<a, p[2]>> \notin N2Init
BY DEF IInv, RemainingIsUncovered, ChosenSoFar

LEMMA InitIInv == Init => IInv
<1> SUFFICES ASSUME Init PROVE IInv
  OBVIOUS
<1>1. N2Init \subseteq twoHop
  BY DEF N2Init
<1>2. TypeOK
  BY <1>1, MprAssumption DEF Init, TypeOK
<1>3. RemainingIsUncovered
  BY DEF Init, RemainingIsUncovered
<1>4. ChosenSoFar
  BY DEF Init, ChosenSoFar
<1> QED BY <1>2, <1>3, <1>4 DEF IInv

\* What a step that adds the relays M and erases what they cover preserves.
LEMMA ChooseRelays ==
  ASSUME IInv, UNCHANGED <<inputs, result>>, NEW M \in SUBSET N,
         mprSet' = mprSet \cup M, N2' = CoverTwoHopNeighbors(M, N2),
         pc' \in {"only", "greedy"}
  PROVE  TypeOK' /\ RemainingIsUncovered'
<1>1. N' = N /\ N2Init' = N2Init
  BY DEF inputs, N, N2Init
<1>2. TypeOK'
  BY <1>1 DEF IInv, TypeOK, inputs, CoverTwoHopNeighbors
<1>3. N2 = CoverTwoHopNeighbors(mprSet, N2Init)
  BY DEF IInv, RemainingIsUncovered, CoverTwoHopNeighbors
<1>4. N2' = CoverTwoHopNeighbors(mprSet \cup M, N2Init)
  BY <1>3, CoverUnion
<1>5. RemainingIsUncovered'
  BY <1>1, <1>4 DEF RemainingIsUncovered, CoverTwoHopNeighbors
<1> QED BY <1>2, <1>5

LEMMA NextIInv == IInv /\ [Next]_vars => IInv'
<1> SUFFICES ASSUME IInv, [Next]_vars PROVE IInv'
  OBVIOUS
<1>1. CASE SelectAlways
  <2>0. N' = N /\ N2Init' = N2Init /\ Always' = Always
    BY <1>1 DEF SelectAlways, inputs, N, N2Init, Always
  <2>1. TypeOK' /\ RemainingIsUncovered'
    <3>1. Always \subseteq N
      BY DEF Always
    <3> QED BY <1>1, <3>1, ChooseRelays DEF SelectAlways, Always
  <2>2. mprSet' = Always /\ pc' = "only"
    BY <1>1 DEF SelectAlways, Always, IInv, ChosenSoFar
  <2>3. ChosenSoFar'
    BY <2>0, <2>2 DEF ChosenSoFar
  <2> QED BY <2>1, <2>3 DEF IInv
<1>2. CASE SelectOnlyProviders
  <2>0. N' = N /\ N2Init' = N2Init /\ Always' = Always
    BY <1>2 DEF SelectOnlyProviders, inputs, N, N2Init, Always
  <2>1. TypeOK' /\ RemainingIsUncovered'
    <3>1. OnlyProviders \subseteq N
      BY DEF OnlyProviders
    <3> QED BY <1>2, <3>1, ChooseRelays DEF SelectOnlyProviders
  <2>2. \A m \in OnlyProviders : \E p \in N2 : p[1] = m
    BY DEF OnlyProviders
  <2>3. ChosenSoFar'
    BY <1>2, <2>0, <2>2, Unchosen DEF SelectOnlyProviders, IInv, ChosenSoFar
  <2> QED BY <2>1, <2>3 DEF IInv
<1>3. CASE SelectBest
  <2>0. N' = N /\ N2Init' = N2Init /\ Always' = Always
    BY <1>3 DEF SelectBest, inputs, N, N2Init, Always
  <2>1. PICK m \in Best : mprSet' = mprSet \cup {m} /\ N2' = CoverTwoHopNeighbors({m}, N2)
    BY <1>3 DEF SelectBest
  <2>2. TypeOK' /\ RemainingIsUncovered'
    <3>1. {m} \subseteq N
      BY <2>1 DEF Best
    <3> QED BY <1>3, <2>1, <3>1, ChooseRelays DEF SelectBest
  <2>3. \E p \in N2 : p[1] = m
    <3>1. Reachability(m) > 0
      BY <2>1 DEF Best
    <3>2. {p \in N2 : p[1] = m} # {}
      BY <3>1, FS_EmptySet DEF Reachability
    <3> QED BY <3>2
  <2>4. ChosenSoFar'
    BY <1>3, <2>0, <2>1, <2>3, Unchosen DEF SelectBest, IInv, ChosenSoFar
  <2> QED BY <2>2, <2>4 DEF IInv
<1>4. CASE SetMprSet
  BY <1>4 DEF SetMprSet, inputs, IInv, TypeOK, RemainingIsUncovered, ChosenSoFar,
              N, N2Init, Always
<1>5. CASE UNCHANGED vars
  BY <1>5 DEF vars, inputs, IInv, TypeOK, RemainingIsUncovered, ChosenSoFar,
              N, N2Init, Always
<1> QED BY <1>1, <1>2, <1>3, <1>4, <1>5 DEF Next

\* The inductive invariant holds of every run of the computation.
THEOREM Invariance == Spec => []IInv
BY InitIInv, NextIInv, PTL DEF Spec

-----------------------------------------------------------------------------
\* Relays are usable neighbours and the tuples left to cover are recorded ones.
THEOREM TypeCorrect == Spec => []TypeOK
<1>1. IInv => TypeOK
  BY DEF IInv
<1> QED BY <1>1, Invariance, PTL

\* N2 holds exactly the tuples whose address no chosen relay reaches.
THEOREM BooksAreRight == Spec => []RemainingIsUncovered
<1>1. IInv => RemainingIsUncovered
  BY DEF IInv
<1> QED BY <1>1, Invariance, PTL

\* With N2 empty, the relays cover every strict 2-hop address.
LEMMA NothingLeftMeansCovered ==
  ASSUME IInv, N2 = {}
  PROVE  Contract!Covers(mprSet, N2Init)
<1> SUFFICES ASSUME NEW p \in N2Init
             PROVE  \E q \in N2Init : q[1] \in mprSet /\ q[2] = p[2]
  BY DEF Contract!Covers
<1>1. PICK m \in mprSet : <<m, p[2]>> \in N2Init
  BY DEF IInv, RemainingIsUncovered
<1>2. <<m, p[2]>>[1] = m /\ <<m, p[2]>>[2] = p[2]
  OBVIOUS
<1> QED BY <1>1, <1>2

\* The published MPR set reaches every strict 2-hop address (RFC 3626, 8.3.1).
THEOREM Covering == Spec => []PublishedCovers
<1>1. IInv => PublishedCovers
  BY NothingLeftMeansCovered DEF IInv, ChosenSoFar, PublishedCovers
<1> QED BY <1>1, Invariance, PTL

\* No relay is mistrusted, unwilling or superfluous beside the always willing.
THEOREM Justified == Spec => []RelaysAreJustified
<1>1. IInv => RelaysAreJustified
  <2> SUFFICES ASSUME IInv, NEW m \in mprSet
               PROVE  /\ m \in sym \ mistrusted
                      /\ will[m] # Contract!NEVER
                      /\ will[m] # Contract!ALWAYS =>
                           \E p \in N2Init : /\ p[1] = m
                                             /\ \A a \in N : will[a] = Contract!ALWAYS
                                                  => <<a, p[2]>> \notin N2Init
    BY DEF RelaysAreJustified
  <2>1. m \in sym \ mistrusted
    BY DEF IInv, TypeOK, N
  <2>2. CASE m \in Always
    BY <2>1, <2>2 DEF Always, Contract!ALWAYS, Contract!NEVER
  <2>3. CASE m \notin Always
    <3>1. PICK p \in N2Init : p[1] = m /\ \A a \in Always : <<a, p[2]>> \notin N2Init
      BY <2>3 DEF IInv, ChosenSoFar
    <3>2. will[m] # Contract!NEVER
      BY <3>1 DEF N2Init
    <3> QED BY <2>1, <3>1, <3>2 DEF Always
  <2> QED BY <2>2, <2>3
<1> QED BY <1>1, Invariance, PTL

-----------------------------------------------------------------------------
\* A set of naturals has a least element, and a greatest one if it is bounded.
LEMMA LeastOf ==
  ASSUME NEW S \in SUBSET Nat, S # {}
  PROVE  \E x \in S : \A y \in S : x <= y
<1> DEFINE T == {1 .. x : x \in S}
<1>1. T \subseteq FiniteSubsetsOf(Nat) /\ T # {}
  <2>1. \A x \in S : IsFiniteSet(1 .. x) /\ 1 .. x \in SUBSET Nat
    BY FS_Interval
  <2>2. PICK x \in S : TRUE
    OBVIOUS
  <2>3. 1 .. x \in T
    OBVIOUS
  <2>4. ASSUME NEW V \in T PROVE V \in FiniteSubsetsOf(Nat)
    BY <2>1 DEF FiniteSubsetsOf
  <2> QED BY <2>3, <2>4
<1>2. PICK U \in T : \A V \in T : <<V, U>> \notin StrictSubsetOrdering(Nat)
  BY <1>1, FS_StrictSubsetOrderingWellFounded, WFMin
<1>3. PICK x \in S : U = 1 .. x
  BY <1>2
<1>4. ASSUME NEW y \in S, ~ x <= y PROVE FALSE
  <2>1. 1 .. y \subseteq 1 .. x /\ x \in 1 .. x /\ x \notin 1 .. y
    BY <1>4
  <2>2. <<1 .. y, 1 .. x>> \in StrictSubsetOrdering(Nat)
    BY <2>1 DEF StrictSubsetOrdering
  <2> QED BY <1>2, <1>3, <2>2
<1> QED BY <1>4

LEMMA GreatestOf ==
  ASSUME NEW S \in SUBSET Nat, S # {}, NEW b \in Nat, \A x \in S : x <= b
  PROVE  \E x \in S : \A y \in S : y <= x
<1> DEFINE T == {b - x : x \in S}
<1>1. T \in SUBSET Nat /\ T # {}
  <2>1. \A x \in S : b - x \in Nat
    OBVIOUS
  <2>2. PICK x \in S : TRUE
    OBVIOUS
  <2>3. b - x \in T
    OBVIOUS
  <2> QED BY <2>1, <2>3
<1>2. PICK t \in T : \A u \in T : t <= u
  <2> HIDE DEF T
  <2> QED BY <1>1, LeastOf
<1>3. PICK x \in S : t = b - x
  BY <1>2
<1>4. ASSUME NEW y \in S PROVE y <= x
  <2>1. b - y \in T
    OBVIOUS
  <2> QED BY <1>2, <1>3, <2>1
<1> QED BY <1>4

\* No neighbour has a degree: the function looks the neighbour itself up.
LEMMA DegreeIsZero ==
  ASSUME TypeOK, NEW n
  PROVE  Degree(n) = 0
<1>1. {p \in twoHop : p[1] = n /\ p[1] \notin Neighbors} = {}
  BY MprAssumption DEF TypeOK
<1> QED BY <1>1, FS_EmptySet DEF Degree

\* The greedy loop always finds a neighbour to add, so the while over N2 cannot
\* spin: what is left in N2 has usable providers, and among them there are
\* greatest ones by willingness and then by reachability.
THEOREM LoopGoesOn == Spec => []LoopNeverStuck
<1>1. ASSUME IInv, N2 # {} PROVE Best # {}
  <2> DEFINE R == {n \in N : Reachability(n) > 0}
             W == {will[n] : n \in R}
  <2>1. IsFiniteSet(N2)
    BY <1>1, MprAssumption, FS_Subset DEF IInv, TypeOK
  <2>2. \A n : Reachability(n) \in Nat /\ Reachability(n) <= Cardinality(N2)
    <3> SUFFICES ASSUME NEW n
                 PROVE  Reachability(n) \in Nat /\ Reachability(n) <= Cardinality(N2)
      OBVIOUS
    <3>1. {p \in N2 : p[1] = n} \in SUBSET N2
      OBVIOUS
    <3>2. IsFiniteSet({p \in N2 : p[1] = n})
      BY <2>1, <3>1, FS_Subset
    <3> QED BY <2>1, <3>1, <3>2, FS_Subset, FS_CardinalityType DEF Reachability
  <2>3. \A n \in N : will[n] \in Nat /\ will[n] <= 7
    <3>1. \A n \in N : will[n] \in Levels
      BY <1>1 DEF IInv, TypeOK, N
    <3>2. \A l \in Levels : l \in Nat /\ l <= 7
      BY MprAssumption
    <3> QED BY <3>1, <3>2
  <2>4. R # {}
    <3>1. PICK p \in N2 : TRUE
      BY <1>1
    <3>2. p[1] \in N
      BY <1>1, <3>1 DEF IInv, RemainingIsUncovered, N2Init
    <3>3. Reachability(p[1]) # 0
      <4>1. {q \in N2 : q[1] = p[1]} # {} /\ {q \in N2 : q[1] = p[1]} \in SUBSET N2
        BY <3>1
      <4>2. IsFiniteSet({q \in N2 : q[1] = p[1]})
        BY <2>1, <4>1, FS_Subset
      <4> QED BY <4>1, <4>2, FS_EmptySet DEF Reachability
    <3> QED BY <2>2, <3>2, <3>3
  <2>5. PICK w \in W : \A v \in W : v <= w
    <3>1. W # {}
      BY <2>4
    <3>2. \A v \in W : v \in Nat /\ v <= 7
      BY <2>3
    <3> HIDE DEF W
    <3> QED BY <3>1, <3>2, GreatestOf
  <2> DEFINE Q == {n \in R : will[n] = w}
             C == {Reachability(n) : n \in Q}
  <2>6. PICK c \in C : \A d \in C : d <= c
    <3>1. C # {}
      BY <2>5
    <3>2. C \in SUBSET Nat /\ \A d \in C : d <= Cardinality(N2)
      BY <2>2
    <3>3. Cardinality(N2) \in Nat
      BY <2>1, FS_CardinalityType
    <3> HIDE DEF C
    <3> QED BY <3>1, <3>2, <3>3, GreatestOf
  <2>7. PICK m \in Q : c = Reachability(m)
    BY <2>6
  <2>8. ASSUME NEW n \in N, Reachability(n) > 0 PROVE AtLeastAsGood(m, n)
    <3>1. n \in R /\ will[n] \in W
      BY <2>8
    <3>2. will[n] <= w /\ will[m] = w
      BY <2>5, <2>7, <3>1
    <3>3. CASE will[n] < w
      BY <2>3, <2>7, <3>2, <3>3 DEF AtLeastAsGood
    <3>4. CASE will[n] = w
      <4>1. Reachability(n) <= Reachability(m)
        BY <2>6, <2>7, <3>1, <3>4
      <4>2. Degree(m) = 0 /\ Degree(n) = 0
        BY <1>1, DegreeIsZero DEF IInv
      <4> QED BY <2>2, <3>2, <3>4, <4>1, <4>2 DEF AtLeastAsGood
    <3> QED BY <2>3, <2>7, <3>2, <3>3, <3>4
  <2> QED BY <2>7, <2>8 DEF Best
<1>2. IInv => LoopNeverStuck
  BY <1>1 DEF LoopNeverStuck
<1> QED BY <1>2, Invariance, PTL

-----------------------------------------------------------------------------
\* What SetMprSet publishes is one of the choices the contract allows.
LEMMA PublishedIsAllowed ==
  ASSUME IInv, SetMprSet
  PROVE  result' \in Contract!MprChoices(sym \ mistrusted, will,
                       Contract!StrictTwoHop(sym \ mistrusted, will, twoHop, Self))
<1>1. result' = mprSet /\ N2 = {} /\ pc # "always"
  BY DEF SetMprSet
<1>2. mprSet \subseteq Contract!Candidates(sym \ mistrusted, will, N2Init)
  <2> SUFFICES ASSUME NEW m \in mprSet, m \notin Always
               PROVE  m \in {p[1] : p \in N2Init}
    BY DEF Contract!Candidates, Always, N
  <2>1. PICK p \in N2Init : p[1] = m
    BY DEF IInv, ChosenSoFar
  <2> QED BY <2>1
<1>3. Contract!Covers(mprSet, N2Init)
  BY <1>1, NothingLeftMeansCovered
<1>4. \A n \in sym \ mistrusted : will[n] = Contract!ALWAYS => n \in mprSet
  BY <1>1 DEF IInv, ChosenSoFar, Always, N
<1> QED BY <1>1, <1>2, <1>3, <1>4, N2InitIsStrict DEF Contract!MprChoices

LEMMA InitRefines == Init => Contract!Init
<1> SUFFICES ASSUME Init PROVE Contract!Init
  OBVIOUS
<1>1. will \in [Neighbors -> Contract!Willingness]
  BY MprAssumption DEF Init, Contract!Willingness, Contract!NEVER, Contract!ALWAYS
<1>2. twoHop \in SUBSET (Neighbors \X Addresses)
  BY MprAssumption DEF Init
<1>3. (pc = "done") = FALSE
  BY DEF Init
<1> QED BY <1>1, <1>2, <1>3 DEF Init, Contract!Init

LEMMA StepRefines ==
  IInv /\ [Next]_vars
    => [Contract!Publish]_<<sym \ mistrusted, will, twoHop, pc = "done", result>>
<1> SUFFICES ASSUME IInv, [Next]_vars
             PROVE  [Contract!Publish]_<<sym \ mistrusted, will, twoHop, pc = "done", result>>
  OBVIOUS
<1>1. CASE SelectAlways
  BY <1>1 DEF SelectAlways, inputs
<1>2. CASE SelectOnlyProviders
  BY <1>2 DEF SelectOnlyProviders, inputs
<1>3. CASE SelectBest
  BY <1>3 DEF SelectBest, inputs
<1>4. CASE SetMprSet
  BY <1>4, PublishedIsAllowed DEF SetMprSet, inputs, Contract!Publish
<1>5. CASE UNCHANGED vars
  BY <1>5 DEF vars, inputs
<1> QED BY <1>1, <1>2, <1>3, <1>4, <1>5 DEF Next

\* The heuristic implements the selection contract, for every neighbourhood.
THEOREM Refinement == Spec => ImplementsContract
BY InitRefines, StepRefines, Invariance, PTL DEF Spec, ImplementsContract, Contract!Spec

-----------------------------------------------------------------------------
\* How many steps the computation has left at most: one for each part, and one
\* iteration of the loop for each tuple still to be covered.
PartsLeft == IF pc = "always" THEN 3
             ELSE IF pc = "only" THEN 2 ELSE IF pc = "greedy" THEN 1 ELSE 0
StepsLeft == PartsLeft + Cardinality(N2)

LEMMA StepsLeftType ==
  ASSUME TypeOK
  PROVE  IsFiniteSet(N2) /\ Cardinality(N2) \in Nat /\ PartsLeft \in Nat /\ StepsLeft \in Nat
<1>1. IsFiniteSet(N2)
  BY MprAssumption, FS_Subset DEF TypeOK
<1>2. Cardinality(N2) \in Nat
  BY <1>1, FS_CardinalityType
<1> QED BY <1>1, <1>2 DEF PartsLeft, StepsLeft

\* What is erased from N2 makes it smaller.
LEMMA LessToCover ==
  ASSUME TypeOK, NEW S \in SUBSET N2
  PROVE  /\ Cardinality(S) \in Nat /\ Cardinality(S) <= Cardinality(N2)
         /\ S # N2 => Cardinality(S) < Cardinality(N2)
<1>1. IsFiniteSet(S) /\ Cardinality(S) <= Cardinality(N2) /\ (Cardinality(N2) = Cardinality(S) => N2 = S)
  BY StepsLeftType, FS_Subset
<1>2. Cardinality(S) \in Nat /\ Cardinality(N2) \in Nat
  BY <1>1, StepsLeftType, FS_CardinalityType
<1> QED BY <1>1, <1>2

\* The chosen neighbour is the neighbour of a tuple, which is erased.
LEMMA BestShrinks ==
  ASSUME TypeOK, NEW m \in Best
  PROVE  CoverTwoHopNeighbors({m}, N2) # N2
<1>1. Reachability(m) > 0
  BY DEF Best
<1>2. PICK p \in N2 : p[1] = m
  BY <1>1, FS_EmptySet DEF Reachability
<1>3. p = <<m, p[2]>>
  BY <1>2, MprAssumption DEF TypeOK
<1>4. p \notin CoverTwoHopNeighbors({m}, N2)
  BY <1>2, <1>3 DEF CoverTwoHopNeighbors
<1> QED BY <1>2, <1>4

\* Every step of the computation leaves fewer to be made, so that it ends after
\* as many as there are 2-hop tuples, and three more, at the latest; LoopGoesOn
\* says that it does not stop before it is done.
EveryStepCounts == [][StepsLeft' \in Nat /\ StepsLeft' < StepsLeft]_vars

THEOREM ComputationEnds == Spec => EveryStepCounts
<1>1. IInv /\ [Next]_vars => [StepsLeft' \in Nat /\ StepsLeft' < StepsLeft]_vars
  <2> SUFFICES ASSUME IInv, Next PROVE StepsLeft' \in Nat /\ StepsLeft' < StepsLeft
    OBVIOUS
  <2>1. Cardinality(N2) \in Nat /\ \A S \in SUBSET N2 : Cardinality(S) \in Nat
    BY StepsLeftType, LessToCover DEF IInv
  <2>2. CASE SelectAlways
    <3>1. N2' \subseteq N2 /\ pc = "always" /\ pc' = "only"
      BY <2>2 DEF SelectAlways, CoverTwoHopNeighbors
    <3> QED BY <2>1, <3>1, LessToCover DEF IInv, StepsLeft, PartsLeft
  <2>3. CASE SelectOnlyProviders
    <3>1. N2' \subseteq N2 /\ pc = "only" /\ pc' = "greedy"
      BY <2>3 DEF SelectOnlyProviders, CoverTwoHopNeighbors
    <3> QED BY <2>1, <3>1, LessToCover DEF IInv, StepsLeft, PartsLeft
  <2>4. CASE SelectBest
    <3>1. N2' \subseteq N2 /\ N2' # N2 /\ pc = "greedy" /\ pc' = pc
      BY <2>4, BestShrinks DEF IInv, SelectBest, CoverTwoHopNeighbors
    <3> QED BY <2>1, <3>1, LessToCover DEF IInv, StepsLeft, PartsLeft
  <2>5. CASE SetMprSet
    <3>1. N2' = N2 /\ pc = "greedy" /\ pc' = "done"
      BY <2>5 DEF SetMprSet
    <3> QED BY <2>1, <3>1 DEF StepsLeft, PartsLeft
  <2> QED BY <2>2, <2>3, <2>4, <2>5 DEF Next
<1> QED BY <1>1, Invariance, PTL DEF Spec, EveryStepCounts
=============================================================================
