-------------------------- MODULE Forwarding_proofs --------------------------
(***************************************************************************)
(* Proofs about Forwarding: in every network and whatever relays the nodes *)
(* choose, a packet that can be carried by willing and trusted nodes is    *)
(* carried, over a shortest path, although no node knows the network       *)
(* beyond its 2-hop neighbourhood and the links to relays that TCs tell    *)
(* of.  The heart is RelayOnTheWay: if a node is two hops away or farther, *)
(* one of the relays it has chosen is one hop nearer, because they cover   *)
(* its strict 2-hop neighbourhood.  And the packet gets somewhere in a     *)
(* bounded number of steps.                                                *)
(***************************************************************************)
EXTENDS Forwarding, FiniteSetTheorems, WellFoundedInduction, TLAPS

-----------------------------------------------------------------------------
\* A set of naturals has a least element: what fails for some distance fails
\* for a first one.
LEMMA LeastOf ==
  ASSUME NEW S \in SUBSET Nat, S # {}
  PROVE  \E x \in S : \A y \in S : x <= y
<1> DEFINE T == {1 .. x : x \in S}
<1>1. T \subseteq FiniteSubsetsOf(Nat) /\ T # {}
  <2>1. \A x \in S : IsFiniteSet(1 .. x) /\ 1 .. x \in SUBSET Nat
    BY FS_Interval
  <2>2. PICK x \in S : TRUE
    OBVIOUS
  <2>3. 1 .. x \in T
    OBVIOUS
  <2>4. ASSUME NEW V \in T PROVE V \in FiniteSubsetsOf(Nat)
    BY <2>1 DEF FiniteSubsetsOf
  <2> QED BY <2>3, <2>4
<1>2. PICK U \in T : \A V \in T : <<V, U>> \notin StrictSubsetOrdering(Nat)
  BY <1>1, FS_StrictSubsetOrderingWellFounded, WFMin
<1>3. PICK x \in S : U = 1 .. x
  BY <1>2
<1>4. ASSUME NEW y \in S, ~ x <= y PROVE FALSE
  <2>1. 1 .. y \subseteq 1 .. x /\ x \in 1 .. x /\ x \notin 1 .. y
    BY <1>4
  <2>2. <<1 .. y, 1 .. x>> \in StrictSubsetOrdering(Nat)
    BY <2>1 DEF StrictSubsetOrdering
  <2> QED BY <1>2, <1>3, <2>2
<1> QED BY <1>4

\* One step of the search EntriesWithin describes: from the entries S up to
\* distance k - 1 to those up to distance k.
First(r) == {<<n, n, 1>> : n \in Routes!FirstHops(r)}
Second(r) == {<<t[2], t[1], 2>> : t \in {u \in Routes!TwoHopLinks(r) : u[1] \in Routes!FirstHops(r)}}
Farther(r, S, k) ==
  UNION {{<<t[2], e[2], k>> : e \in {d \in S : d[1] = t[1] /\ d[3] = k - 1}} :
           t \in {u \in Routes!FarLinks(r) : u[2] \notin {e[1] : e \in S}}}
More(r, S, k) == S \cup IF k = 2 THEN Second(r) ELSE Farther(r, S, k)

IsSearch(f, r, H) ==
  f = [k \in 1 .. H |-> IF k = 1 THEN First(r) ELSE More(r, f[k - 1], k)]

LEMMA WithinIsSearch ==
  ASSUME NEW r, NEW H \in Nat, NEW f, IsSearch(f, r, H),
         \A g : IsSearch(g, r, H) => g = f
  PROVE  Routes!EntriesWithin(r, H) = f[H]
<1> DEFINE within[k \in 1 .. H] ==
        IF k = 1 THEN {<<n, n, 1>> : n \in Routes!FirstHops(r)}
        ELSE LET nearer == within[k - 1]
                 found == {e[1] : e \in nearer}
             IN  nearer \cup
                   IF k = 2
                   THEN {<<t[2], t[1], 2>> : t \in {u \in Routes!TwoHopLinks(r) : u[1] \in Routes!FirstHops(r)}}
                   ELSE UNION {{<<t[2], e[2], k>> :
                                  e \in {d \in nearer : d[1] = t[1] /\ d[3] = k - 1}} :
                               t \in {u \in Routes!FarLinks(r) : u[2] \notin found}}
<1>1. within = CHOOSE g : g = [k \in 1 .. H |-> IF k = 1 THEN First(r) ELSE More(r, g[k - 1], k)]
  BY DEF First, Second, Farther, More
<1>2. IsSearch(within, r, H)
  <2> HIDE DEF within
  <2> QED BY <1>1 DEF IsSearch
<1>3. Routes!EntriesWithin(r, H) = within[H]
  BY DEF Routes!EntriesWithin
<1> QED BY <1>2, <1>3

\* Searches up to different distances agree as far as both go.
LEMMA SearchesAgree ==
  ASSUME NEW r, NEW H \in Nat, NEW L \in Nat, NEW f, NEW g,
         IsSearch(f, r, H), IsSearch(g, r, L), NEW k \in Nat, 1 <= k, k <= H, k <= L
  PROVE  f[k] = g[k]
<1> DEFINE Bad == {j \in Nat : 1 <= j /\ j <= H /\ j <= L /\ f[j] # g[j]}
<1>1. ASSUME Bad # {} PROVE FALSE
  <2>1. PICK j \in Bad : \A i \in Bad : j <= i
    BY <1>1, LeastOf
  <2>2. CASE j = 1
    BY <2>1, <2>2 DEF IsSearch
  <2>3. CASE j # 1
    <3>1. /\ j - 1 \in Nat /\ j \in 1 .. H /\ j \in 1 .. L /\ ~ j <= j - 1
          /\ 1 <= j - 1 /\ j - 1 <= H /\ j - 1 <= L
      BY <2>1, <2>3
    <3>2. f[j - 1] = g[j - 1]
      BY <2>1, <3>1
    <3>3. f[j] = More(r, f[j - 1], j)
      BY <2>3, <3>1 DEF IsSearch
    <3>4. g[j] = More(r, g[j - 1], j)
      BY <2>3, <3>1 DEF IsSearch
    <3> QED BY <2>1, <3>2, <3>3, <3>4
  <2> QED BY <2>2, <2>3
<1> QED BY <1>1

\* A search up to one distance more is one up to the last and a step.
LEMMA SearchExists ==
  ASSUME NEW r, NEW H \in Nat
  PROVE  \E f : IsSearch(f, r, H)
<1> DEFINE Bad == {j \in Nat : ~ \E f : IsSearch(f, r, j)}
<1>1. ASSUME Bad # {} PROVE FALSE
  <2>1. PICK j \in Bad : \A i \in Bad : j <= i
    BY <1>1, LeastOf
  <2>2. CASE j = 0
    <3>1. IsSearch([k \in 1 .. 0 |-> {}], r, 0)
      BY DEF IsSearch
    <3> QED BY <2>1, <2>2, <3>1
  <2>3. CASE j # 0
    <3>1. j - 1 \in Nat /\ ~ j <= j - 1
      BY <2>1, <2>3
    <3>2. PICK f : IsSearch(f, r, j - 1)
      BY <2>1, <3>1
    <3> DEFINE last == IF j = 1 THEN First(r) ELSE More(r, f[j - 1], j)
               g == [k \in 1 .. j |-> IF k = j THEN last ELSE f[k]]
    <3>3. IsSearch(g, r, j)
      <4>1. SUFFICES ASSUME NEW k \in 1 .. j
                     PROVE  g[k] = IF k = 1 THEN First(r) ELSE More(r, g[k - 1], k)
        BY DEF IsSearch
      <4>2. CASE k = j
        BY <4>2, <3>1
      <4>3. CASE k # j /\ k # 1
        <5>1. k \in 1 .. j - 1 /\ k - 1 \in 1 .. j /\ k - 1 # j
          BY <4>3
        <5> QED BY <5>1, <4>3, <3>2 DEF IsSearch
      <4>4. CASE k = 1 /\ k # j
        <5>1. k \in 1 .. j - 1
          BY <4>4, <3>1
        <5> QED BY <5>1, <4>4, <3>2 DEF IsSearch
      <4> QED BY <4>2, <4>3, <4>4
    <3> QED BY <2>1, <3>3
  <2> QED BY <2>2, <2>3
<1> QED BY <1>1

\* EntriesWithin, one distance at a time.
LEMMA EntriesUnfold ==
  ASSUME NEW r
  PROVE  /\ Routes!EntriesWithin(r, 1) = First(r)
         /\ \A k \in Nat \ {0} : Routes!EntriesWithin(r, k + 1) = More(r, Routes!EntriesWithin(r, k), k + 1)
<1>1. ASSUME NEW H \in Nat, NEW f, IsSearch(f, r, H) PROVE Routes!EntriesWithin(r, H) = f[H]
  <2>1. ASSUME NEW g, IsSearch(g, r, H) PROVE g = f
    <3>1. \A k \in 1 .. H : f[k] = g[k]
      BY <1>1, <2>1, SearchesAgree
    <3>2. f = [k \in 1 .. H |-> f[k]] /\ g = [k \in 1 .. H |-> g[k]]
      BY <1>1, <2>1 DEF IsSearch
    <3> QED BY <3>1, <3>2
  <2> QED BY <1>1, <2>1, WithinIsSearch
<1>2. Routes!EntriesWithin(r, 1) = First(r)
  <2>1. PICK f : IsSearch(f, r, 1)
    BY SearchExists
  <2>2. f[1] = First(r)
    BY <2>1 DEF IsSearch
  <2> QED BY <1>1, <2>1, <2>2
<1>3. ASSUME NEW k \in Nat \ {0}
      PROVE  Routes!EntriesWithin(r, k + 1) = More(r, Routes!EntriesWithin(r, k), k + 1)
  <2>1. PICK f : IsSearch(f, r, k + 1)
    BY SearchExists
  <2>2. PICK g : IsSearch(g, r, k)
    BY SearchExists
  <2>3. f[k + 1] = More(r, f[k], k + 1)
    BY <2>1 DEF IsSearch
  <2>4. f[k] = g[k]
    BY <2>1, <2>2, SearchesAgree
  <2> QED BY <1>1, <2>1, <2>2, <2>3, <2>4
<1> QED BY <1>2, <1>3

-----------------------------------------------------------------------------
\* One hop more: from the nodes S within some hops of s to those within one
\* more.
Further(s, S) == S \cup UNION {near[m] : m \in S \cap (Relaying \cup {s})}

IsWalk(f, s, K) ==
  f = [k \in 0 .. K |-> IF k = 0 THEN {s} ELSE Further(s, f[k - 1])]

LEMMA WithinIsAWalk ==
  ASSUME NEW s, NEW K \in Nat, NEW f, IsWalk(f, s, K),
         \A g : IsWalk(g, s, K) => g = f
  PROVE  Within(s, K) = f[K]
<1> DEFINE within[k \in 0 .. K] ==
        IF k = 0 THEN {s}
        ELSE LET nearer == within[k - 1]
             IN  nearer \cup UNION {near[m] : m \in nearer \cap (Relaying \cup {s})}
<1>1. within = CHOOSE g : g = [k \in 0 .. K |-> IF k = 0 THEN {s} ELSE Further(s, g[k - 1])]
  BY DEF Further
<1>2. IsWalk(within, s, K)
  <2> HIDE DEF within
  <2> QED BY <1>1 DEF IsWalk
<1>3. Within(s, K) = within[K]
  BY DEF Within
<1> QED BY <1>2, <1>3

LEMMA WalksAgree ==
  ASSUME NEW s, NEW K \in Nat, NEW L \in Nat, NEW f, NEW g,
         IsWalk(f, s, K), IsWalk(g, s, L), NEW k \in Nat, k <= K, k <= L
  PROVE  f[k] = g[k]
<1> DEFINE Bad == {j \in Nat : j <= K /\ j <= L /\ f[j] # g[j]}
<1>1. ASSUME Bad # {} PROVE FALSE
  <2>1. PICK j \in Bad : \A i \in Bad : j <= i
    BY <1>1, LeastOf
  <2>2. CASE j = 0
    BY <2>1, <2>2 DEF IsWalk
  <2>3. CASE j # 0
    <3>1. j - 1 \in Nat /\ j \in 0 .. K /\ j \in 0 .. L /\ ~ j <= j - 1 /\ j - 1 <= K /\ j - 1 <= L
      BY <2>1, <2>3
    <3>2. f[j - 1] = g[j - 1]
      BY <2>1, <3>1
    <3>3. f[j] = Further(s, f[j - 1])
      BY <2>3, <3>1 DEF IsWalk
    <3>4. g[j] = Further(s, g[j - 1])
      BY <2>3, <3>1 DEF IsWalk
    <3> QED BY <2>1, <3>2, <3>3, <3>4
  <2> QED BY <2>2, <2>3
<1> QED BY <1>1

LEMMA WalkExists ==
  ASSUME NEW s, NEW K \in Nat
  PROVE  \E f : IsWalk(f, s, K)
<1> DEFINE Bad == {j \in Nat : ~ \E f : IsWalk(f, s, j)}
<1>1. ASSUME Bad # {} PROVE FALSE
  <2>1. PICK j \in Bad : \A i \in Bad : j <= i
    BY <1>1, LeastOf
  <2>2. CASE j = 0
    <3>1. IsWalk([k \in 0 .. 0 |-> {s}], s, 0)
      BY DEF IsWalk
    <3> QED BY <2>1, <2>2, <3>1
  <2>3. CASE j # 0
    <3>1. j - 1 \in Nat /\ ~ j <= j - 1
      BY <2>1, <2>3
    <3>2. PICK f : IsWalk(f, s, j - 1)
      BY <2>1, <3>1
    <3> DEFINE g == [k \in 0 .. j |-> IF k = j THEN Further(s, f[j - 1]) ELSE f[k]]
    <3>3. IsWalk(g, s, j)
      <4>1. SUFFICES ASSUME NEW k \in 0 .. j
                     PROVE  g[k] = IF k = 0 THEN {s} ELSE Further(s, g[k - 1])
        BY DEF IsWalk
      <4>2. CASE k = j
        BY <4>2, <3>1
      <4>3. CASE k # j /\ k # 0
        <5>1. k \in 0 .. j - 1 /\ k - 1 \in 0 .. j /\ k - 1 # j
          BY <4>3
        <5> QED BY <5>1, <4>3, <3>2 DEF IsWalk
      <4>4. CASE k = 0 /\ k # j
        <5>1. k \in 0 .. j - 1
          BY <4>4, <3>1
        <5> QED BY <5>1, <4>4, <3>2 DEF IsWalk
      <4> QED BY <4>2, <4>3, <4>4
    <3> QED BY <2>1, <3>3
  <2> QED BY <2>2, <2>3
<1> QED BY <1>1

LEMMA WithinUnfold ==
  ASSUME NEW s
  PROVE  /\ Within(s, 0) = {s}
         /\ \A k \in Nat : Within(s, k + 1) = Further(s, Within(s, k))
<1>1. \A K \in Nat : \A f : IsWalk(f, s, K) => Within(s, K) = f[K]
  <2> SUFFICES ASSUME NEW K \in Nat, NEW f, IsWalk(f, s, K) PROVE Within(s, K) = f[K]
    OBVIOUS
  <2>1. \A g : IsWalk(g, s, K) => g = f
    <3> SUFFICES ASSUME NEW g, IsWalk(g, s, K) PROVE g = f
      OBVIOUS
    <3>1. \A k \in 0 .. K : f[k] = g[k]
      BY WalksAgree
    <3>2. f = [k \in 0 .. K |-> f[k]] /\ g = [k \in 0 .. K |-> g[k]]
      BY DEF IsWalk
    <3> QED BY <3>1, <3>2
  <2> QED BY <2>1, WithinIsAWalk
<1>2. Within(s, 0) = {s}
  <2>1. PICK f : IsWalk(f, s, 0)
    BY WalkExists
  <2>2. f[0] = {s}
    BY <2>1 DEF IsWalk
  <2> QED BY <1>1, <2>1, <2>2
<1>3. ASSUME NEW k \in Nat PROVE Within(s, k + 1) = Further(s, Within(s, k))
  <2>1. PICK f : IsWalk(f, s, k + 1)
    BY WalkExists
  <2>2. PICK g : IsWalk(g, s, k)
    BY WalkExists
  <2>3. f[k + 1] = Further(s, f[k])
    BY <2>1 DEF IsWalk
  <2>4. f[k] = g[k]
    BY <2>1, <2>2, WalksAgree
  <2> QED BY <1>1, <2>1, <2>2, <2>3, <2>4
<1> QED BY <1>2, <1>3

-----------------------------------------------------------------------------
\* The links are those of one of the networks; nobody mistrusts the source.
NetInv ==
  /\ near \in Networks
  /\ will \in [Nodes -> Levels]
  /\ mistrusted \subseteq Suspects

LEMMA Links ==
  ASSUME NetInv
  PROVE  /\ near \in [Nodes -> SUBSET Nodes]
         /\ \A m, n \in Nodes : m \in near[n] => n \in near[m] /\ m # n
         /\ Source \in Nodes \ mistrusted
         /\ Relaying \subseteq Nodes \ mistrusted
BY ForwardingAssumption DEF NetInv, Relaying

\* One hop, in the words of Within.
LEMMA OneHopMore ==
  ASSUME NEW s, NEW k \in Nat
  PROVE  /\ Within(s, 0) = {s}
         /\ Within(s, k) \subseteq Within(s, k + 1)
         /\ \A x \in Within(s, k) : x \in Relaying \cup {s} =>
              \A d \in near[x] : d \in Within(s, k + 1)
         /\ \A d \in Within(s, k + 1) : d \in Within(s, k) \/
              \E x \in Within(s, k) : x \in Relaying \cup {s} /\ d \in near[x]
<1>1. Within(s, 0) = {s} /\ Within(s, k + 1) = Further(s, Within(s, k))
  BY WithinUnfold
<1> QED BY <1>1 DEF Further

\* What can be done within fewer hops can be done within more.
LEMMA Monotone ==
  ASSUME NEW s, NEW j \in Nat, NEW k \in Nat, j <= k
  PROVE  Within(s, j) \subseteq Within(s, k)
<1> DEFINE Bad == {i \in Nat : j <= i /\ ~ (Within(s, j) \subseteq Within(s, i))}
<1>1. ASSUME Bad # {} PROVE FALSE
  <2>1. PICK i \in Bad : \A l \in Bad : i <= l
    BY <1>1, LeastOf
  <2>2. i # j
    BY <2>1
  <2>3. i - 1 \in Nat /\ j <= i - 1 /\ ~ i <= i - 1 /\ (i - 1) + 1 = i
    BY <2>1, <2>2
  <2>4. Within(s, j) \subseteq Within(s, i - 1)
    BY <2>1, <2>3
  <2>5. Within(s, i - 1) \subseteq Within(s, (i - 1) + 1)
    BY <2>3, OneHopMore
  <2> QED BY <2>1, <2>3, <2>4, <2>5
<1> QED BY <1>1

LEMMA WithinNodes ==
  ASSUME NetInv, NEW s \in Nodes, NEW k \in Nat
  PROVE  Within(s, k) \subseteq Nodes /\ IsFiniteSet(Within(s, k))
<1> DEFINE Bad == {i \in Nat : ~ (Within(s, i) \subseteq Nodes)}
<1>1. ASSUME Bad # {} PROVE FALSE
  <2>1. PICK i \in Bad : \A l \in Bad : i <= l
    BY <1>1, LeastOf
  <2>2. i # 0
    BY <2>1, OneHopMore
  <2>3. i - 1 \in Nat /\ ~ i <= i - 1 /\ (i - 1) + 1 = i
    BY <2>1, <2>2
  <2>4. Within(s, i - 1) \subseteq Nodes
    BY <2>1, <2>3
  <2>5. Within(s, (i - 1) + 1) \subseteq Nodes
    <3> SUFFICES ASSUME NEW d \in Within(s, (i - 1) + 1) PROVE d \in Nodes
      OBVIOUS
    <3>1. d \in Within(s, i - 1) \/ \E x \in Within(s, i - 1) : d \in near[x]
      BY <2>3, OneHopMore
    <3> QED BY <2>4, <3>1, Links
  <2> QED BY <2>1, <2>3, <2>5
<1>2. Within(s, k) \subseteq Nodes
  BY <1>1
<1> QED BY <1>2, ForwardingAssumption, FS_Subset

\* d is k hops from s, by a shortest way.
At(s, d, k) == d \in Within(s, k) /\ (k > 0 => d \notin Within(s, k - 1))

LEMMA AtMost ==
  ASSUME NEW s, NEW d, NEW k \in Nat, d \in Within(s, k)
  PROVE  \E j \in 0 .. k : At(s, d, j)
<1> DEFINE S == {j \in Nat : d \in Within(s, j)}
<1>1. PICK j \in S : \A i \in S : j <= i
  BY LeastOf
<1>2. j <= k
  BY <1>1
<1>3. ASSUME j > 0 PROVE d \notin Within(s, j - 1)
  <2>1. j - 1 \in Nat /\ ~ j <= j - 1
    BY <1>3
  <2> QED BY <1>1, <2>1
<1> QED BY <1>1, <1>2, <1>3 DEF At

LEMMA AtUnique ==
  ASSUME NEW s, NEW d, NEW j \in Nat, NEW k \in Nat, At(s, d, j), d \in Within(s, k)
  PROVE  j <= k
<1>1. ASSUME ~ j <= k PROVE FALSE
  <2>1. j > 0 /\ j - 1 \in Nat /\ k <= j - 1
    BY <1>1
  <2>2. Within(s, k) \subseteq Within(s, j - 1)
    BY <2>1, Monotone
  <2> QED BY <2>1, <2>2 DEF At
<1> QED BY <1>1

LEMMA AtOne ==
  ASSUME NEW s, NEW d, NEW j \in Nat, NEW k \in Nat, At(s, d, j), At(s, d, k)
  PROVE  j = k
<1>1. j <= k /\ k <= j
  BY AtUnique DEF At
<1> QED BY <1>1

LEMMA AtZero ==
  ASSUME NEW s, NEW d
  PROVE  At(s, d, 0) <=> d = s
BY OneHopMore DEF At

\* The neighbours are one hop away.
LEMMA AtNeighbor ==
  ASSUME NetInv, NEW s \in Nodes, NEW d
  PROVE  At(s, d, 1) <=> d \in near[s]
<1>1. Within(s, 0) = {s} /\ Within(s, 1) = Further(s, {s})
  <2>1. Within(s, 0 + 1) = Further(s, Within(s, 0)) /\ Within(s, 0) = {s}
    BY WithinUnfold
  <2> QED BY <2>1
<1>2. Within(s, 1) = {s} \cup near[s]
  BY <1>1 DEF Further
<1>3. s \notin near[s]
  BY Links
<1> QED BY <1>1, <1>2, <1>3 DEF At

\* On a shortest way the last hop is made by a willing, trusted node.
LEMMA LastHop ==
  ASSUME NetInv, NEW s \in Nodes, NEW d \in Nodes, NEW k \in Nat, At(s, d, k + 1)
  PROVE  \E x \in Nodes : At(s, x, k) /\ d \in near[x] /\ x \in Relaying \cup {s}
                          /\ (k > 0 => x \in Relaying)
<1>1. d \in Within(s, k + 1) /\ d \notin Within(s, k)
  BY DEF At
<1>2. PICK x \in Within(s, k) : x \in Relaying \cup {s} /\ d \in near[x]
  BY <1>1, OneHopMore
<1>3. x \in Nodes
  BY <1>2, WithinNodes
<1>4. At(s, x, k)
  <2>1. ASSUME k > 0, x \in Within(s, k - 1) PROVE FALSE
    <3>1. k - 1 \in Nat /\ (k - 1) + 1 = k
      BY <2>1
    <3>2. d \in Within(s, (k - 1) + 1)
      BY <1>2, <2>1, <3>1, OneHopMore
    <3> QED BY <1>1, <3>1, <3>2
  <2> QED BY <1>2, <2>1 DEF At
<1>5. ASSUME k > 0 PROVE x \in Relaying
  <2>1. x # s
    <3>1. At(s, s, 0)
      BY AtZero
    <3> QED BY <1>4, <1>5, <3>1, AtOne
  <2> QED BY <1>2, <2>1
<1> QED BY <1>2, <1>3, <1>4, <1>5

\* A way may be lengthened at its beginning, by a willing, trusted node.
LEMMA Prepend ==
  ASSUME NetInv, NEW s \in Nodes, NEW m \in near[s], m \in Relaying,
         NEW k \in Nat, NEW d \in Within(m, k)
  PROVE  d \in Within(s, k + 1)
<1> DEFINE Bad == {i \in Nat : ~ (Within(m, i) \subseteq Within(s, i + 1))}
<1>1. ASSUME Bad # {} PROVE FALSE
  <2>1. PICK i \in Bad : \A l \in Bad : i <= l
    BY <1>1, LeastOf
  <2>2. CASE i = 0
    <3>1. m \in Within(s, 0 + 1)
      BY OneHopMore
    <3> QED BY <2>1, <2>2, <3>1, OneHopMore
  <2>3. CASE i # 0
    <3>1. i - 1 \in Nat /\ ~ i <= i - 1 /\ (i - 1) + 1 = i
      BY <2>1, <2>3
    <3>2. Within(m, i - 1) \subseteq Within(s, i)
      BY <2>1, <3>1
    <3> SUFFICES ASSUME NEW e \in Within(m, i) PROVE e \in Within(s, i + 1)
      BY <2>1
    <3>3. CASE e \in Within(m, i - 1)
      BY <2>1, <3>2, <3>3, OneHopMore
    <3>4. CASE e \notin Within(m, i - 1)
      <4>1. PICK x \in Within(m, i - 1) : x \in Relaying \cup {m} /\ e \in near[x]
        BY <3>1, <3>4, OneHopMore
      <4>2. x \in Within(s, i) /\ x \in Relaying
        BY <3>2, <4>1
      <4> QED BY <2>1, <4>1, <4>2, OneHopMore
    <3> QED BY <3>3, <3>4
  <2> QED BY <2>2, <2>3
<1>2. Within(m, k) \subseteq Within(s, k + 1)
  BY <1>1
<1> QED BY <1>2

\* A way may be gone backwards.
LEMMA Backwards ==
  ASSUME NetInv, NEW k \in Nat, NEW s \in Nodes, NEW d \in Nodes, d \in Within(s, k)
  PROVE  s \in Within(d, k)
<1> DEFINE P(i) == \A e \in Nodes : e \in Within(s, i) => s \in Within(e, i)
           Bad == {i \in Nat : ~ P(i)}
<1>1. ASSUME Bad # {} PROVE FALSE
  <2>1. PICK i \in Bad : \A l \in Bad : i <= l
    BY <1>1, LeastOf
  <2>2. CASE i = 0
    BY <2>1, <2>2, OneHopMore
  <2>3. CASE i # 0
    <3>1. i - 1 \in Nat /\ ~ i <= i - 1 /\ (i - 1) + 1 = i /\ 1 <= i
      BY <2>1, <2>3
    <3>2. P(i - 1)
      BY <2>1, <3>1
    <3> SUFFICES ASSUME NEW e \in Nodes, e \in Within(s, i) PROVE s \in Within(e, i)
      BY <2>1
    <3>3. CASE e \in Within(s, i - 1)
      <4>1. s \in Within(e, i - 1)
        BY <3>2, <3>3
      <4> QED BY <3>1, <4>1, OneHopMore
    <3>4. CASE e \notin Within(s, i - 1)
      <4>1. PICK x \in Within(s, i - 1) : x \in Relaying \cup {s} /\ e \in near[x]
        BY <3>1, <3>4, OneHopMore
      <4>2. x \in Nodes
        BY <3>1, <4>1, WithinNodes
      <4>3. x \in near[e]
        BY <4>1, <4>2, Links
      <4>4. CASE x = s
        <5>1. At(e, s, 1)
          BY <4>3, <4>4, AtNeighbor
        <5>2. Within(e, 1) \subseteq Within(e, i)
          BY <2>1, <3>1, Monotone
        <5> QED BY <5>1, <5>2 DEF At
      <4>5. CASE x \in Relaying
        <5>1. s \in Within(x, i - 1)
          BY <3>2, <4>1, <4>2
        <5>2. s \in Within(e, (i - 1) + 1)
          BY <3>1, <4>3, <4>5, <5>1, Prepend
        <5> QED BY <3>1, <5>2
      <4> QED BY <4>1, <4>4, <4>5
    <3> QED BY <3>3, <3>4
  <2> QED BY <2>2, <2>3
<1>2. P(k)
  BY <1>1
<1> QED BY <1>2

\* No node is as many hops away as there are nodes.
LEMMA FewHops ==
  ASSUME NetInv, NEW s \in Nodes, NEW d \in Nodes, NEW k \in Nat, At(s, d, k)
  PROVE  k < Cardinality(Nodes)
<1> DEFINE P(i) == \A e \in Nodes : At(s, e, i) => i + 1 <= Cardinality(Within(s, i))
           Bad == {i \in Nat : ~ P(i)}
<1>1. ASSUME Bad # {} PROVE FALSE
  <2>1. PICK i \in Bad : \A l \in Bad : i <= l
    BY <1>1, LeastOf
  <2>2. CASE i = 0
    <3>1. Cardinality(Within(s, 0)) = 1
      BY OneHopMore, FS_Singleton
    <3> QED BY <2>1, <2>2, <3>1
  <2>3. CASE i # 0
    <3>1. i - 1 \in Nat /\ ~ i <= i - 1 /\ (i - 1) + 1 = i
      BY <2>1, <2>3
    <3>2. P(i - 1)
      BY <2>1, <3>1
    <3> SUFFICES ASSUME NEW e \in Nodes, At(s, e, i) PROVE i + 1 <= Cardinality(Within(s, i))
      BY <2>1
    <3>3. PICK x \in Nodes : At(s, x, i - 1)
      BY <3>1, LastHop
    <3>4. i <= Cardinality(Within(s, i - 1))
      BY <3>1, <3>2, <3>3
    <3>5. e \in Within(s, i) /\ e \notin Within(s, i - 1)
      BY <3>1 DEF At
    <3>6. IsFiniteSet(Within(s, i - 1)) /\ IsFiniteSet(Within(s, i))
      BY <2>1, <3>1, WithinNodes
    <3>7. Within(s, i - 1) \cup {e} \in SUBSET Within(s, i)
      BY <3>1, <3>5, OneHopMore
    <3>8. Cardinality(Within(s, i - 1) \cup {e}) = Cardinality(Within(s, i - 1)) + 1
      BY <3>5, <3>6, FS_AddElement
    <3>9. Cardinality(Within(s, i - 1) \cup {e}) <= Cardinality(Within(s, i))
      BY <3>6, <3>7, FS_Subset
    <3>10. Cardinality(Within(s, i - 1)) \in Nat /\ Cardinality(Within(s, i)) \in Nat
      BY <3>6, FS_CardinalityType
    <3> QED BY <2>1, <3>4, <3>8, <3>9, <3>10
  <2> QED BY <2>2, <2>3
<1>2. k + 1 <= Cardinality(Within(s, k))
  BY <1>1
<1>3. Cardinality(Within(s, k)) <= Cardinality(Nodes)
  BY WithinNodes, ForwardingAssumption, FS_Subset
<1>4. Cardinality(Within(s, k)) \in Nat /\ Cardinality(Nodes) \in Nat
  BY WithinNodes, ForwardingAssumption, FS_CardinalityType
<1> QED BY <1>2, <1>3, <1>4

\* Reaches and Distance, in terms of At.
LEMMA DistanceIs ==
  ASSUME NetInv, NEW s \in Nodes, NEW d \in Nodes
  PROVE  /\ Reaches(s, d) <=> \E k \in Nat : At(s, d, k)
         /\ \A k \in Nat : At(s, d, k) => Distance(s, d) = k
<1> DEFINE K == Cardinality(Nodes)
<1>1. K \in Nat
  BY ForwardingAssumption, FS_CardinalityType
<1>2. ASSUME Reaches(s, d) PROVE \E k \in Nat : At(s, d, k)
  BY <1>1, <1>2, AtMost DEF Reaches
<1>3. ASSUME NEW k \in Nat, At(s, d, k) PROVE Reaches(s, d) /\ Distance(s, d) = k
  <2>1. k < K
    BY <1>3, FewHops
  <2>2. Within(s, k) \subseteq Within(s, K)
    BY <1>1, <2>1, Monotone
  <2>3. Reaches(s, d)
    BY <1>3, <2>2 DEF Reaches, At
  <2>4. \A j \in 0 .. K : (d \in Within(s, j) /\ (j > 0 => d \notin Within(s, j - 1))) <=> j = k
    <3> SUFFICES ASSUME NEW j \in 0 .. K PROVE At(s, d, j) <=> j = k
      BY DEF At
    <3> QED BY <1>3, AtOne
  <2>5. k \in 0 .. K
    BY <1>1, <2>1
  <2> QED BY <2>3, <2>4, <2>5 DEF Distance
<1> QED BY <1>2, <1>3

-----------------------------------------------------------------------------
\* Every node has chosen relays as MprComputation may choose them.
MprInv ==
  /\ mprSet \in [Nodes -> SUBSET Nodes]
  /\ \A n \in Nodes : mprSet[n] \in RelayChoices(n)

LEMMA RelaysRelay ==
  ASSUME NetInv, MprInv, NEW d \in Nodes, NEW x \in mprSet[d]
  PROVE  x \in Relaying /\ x \in near[d] /\ x \in Nodes /\ d \in near[x]
<1> DEFINE N == near[d] \ mistrusted
           S == StrictTwoHop(N, will, TwoHop(d), d)
<1>1. x \in Candidates(N, will, S)
  BY DEF MprInv, RelayChoices, MprChoices
<1>2. x \in N /\ will[x] # NEVER
  <2>1. CASE x \in {n \in N : will[n] = ALWAYS}
    BY <2>1 DEF ALWAYS, NEVER
  <2>2. CASE x \in {p[1] : p \in S}
    BY <2>2 DEF StrictTwoHop
  <2> QED BY <1>1, <2>1, <2>2 DEF Candidates
<1>3. x \in Nodes
  BY <1>2, Links
<1> QED BY <1>2, <1>3, Links DEF Relaying

\* Whoever is two hops away or farther has chosen a relay that is one hop
\* nearer: the relays cover the strict 2-hop neighbourhood, to which the last
\* but one node of a shortest way belongs.
LEMMA RelayOnTheWay ==
  ASSUME NetInv, MprInv, NEW a \in Nodes, NEW d \in Nodes, NEW k \in Nat, k >= 1,
         At(a, d, k + 1)
  PROVE  \E x \in mprSet[d] : At(a, x, k)
<1> DEFINE N == near[d] \ mistrusted
           S == StrictTwoHop(N, will, TwoHop(d), d)
<1>1. PICK y \in Nodes : At(a, y, k) /\ d \in near[y] /\ y \in Relaying
  BY LastHop
<1>2. k - 1 \in Nat /\ (k - 1) + 1 = k
  OBVIOUS
<1>3. PICK z \in Nodes : At(a, z, k - 1) /\ y \in near[z] /\ z \in Relaying \cup {a}
  BY <1>1, <1>2, LastHop
<1>4. d \notin Within(a, k) /\ z \in Within(a, k - 1)
  BY <1>3 DEF At
<1>5. z # d /\ z \notin near[d]
  <2>1. ASSUME z \in near[d] PROVE FALSE
    <3>1. d \in near[z]
      BY <2>1, Links
    <3>2. d \in Within(a, (k - 1) + 1)
      BY <1>2, <1>3, <1>4, <3>1, OneHopMore
    <3> QED BY <1>2, <1>4, <3>2
  <2>2. z \in Within(a, k)
    BY <1>2, <1>4, OneHopMore
  <2> QED BY <1>4, <2>1, <2>2
<1>6. <<y, z>> \in S
  <2>1. y \in near[d] /\ z \in near[y]
    BY <1>1, <1>3, Links
  <2>2. <<y, z>> \in TwoHop(d)
    BY <1>5, <2>1 DEF TwoHop
  <2>3. y \in N /\ will[y] # NEVER
    BY <1>1, <2>1 DEF Relaying
  <2> QED BY <1>5, <2>2, <2>3 DEF StrictTwoHop
<1>7. PICK q \in S : q[1] \in mprSet[d] /\ q[2] = z
  <2>1. Covers(mprSet[d], S)
    BY DEF MprInv, RelayChoices, MprChoices
  <2>2. <<y, z>>[2] = z
    OBVIOUS
  <2> HIDE DEF S
  <2> QED BY <1>6, <2>1, <2>2 DEF Covers
<1> DEFINE x == q[1]
<1>8. x \in Relaying /\ x \in Nodes /\ d \in near[x]
  BY <1>7, RelaysRelay
<1>9. z \in near[x]
  BY <1>7 DEF StrictTwoHop, TwoHop
<1>10. x \in Within(a, k)
  <2>1. x \in near[z]
    BY <1>8, <1>9, Links
  <2>2. x \in Within(a, (k - 1) + 1)
    BY <1>2, <1>3, <1>4, <2>1, OneHopMore
  <2> QED BY <1>2, <2>2
<1>11. ASSUME k > 0 PROVE x \notin Within(a, k - 1)
  <2>1. ASSUME x \in Within(a, k - 1) PROVE d \in Within(a, (k - 1) + 1)
    BY <1>2, <1>8, <2>1, OneHopMore
  <2> QED BY <1>2, <1>4, <2>1
<1> QED BY <1>7, <1>10, <1>11 DEF At

-----------------------------------------------------------------------------
\* What the table of a may hold up to distance k: for destinations that are
\* trusted, entries of the least distance over a next hop that is one hop
\* nearer, and an entry for each that can be reached.
Entries(a, k) == Routes!EntriesWithin(Repositories(a), k)

Sound(a, e, k) ==
  /\ e[1] \in Nodes /\ e[3] \in 1 .. k
  /\ e[1] \notin mistrusted /\ e[1] # a =>
       /\ At(a, e[1], e[3])
       /\ e[2] \in Nodes \ mistrusted /\ e[2] \in near[a]
       /\ At(e[2], e[1], e[3] - 1)
       /\ e[3] >= 2 => e[2] \in Relaying

TableInv(a, k) ==
  /\ \A e \in Entries(a, k) : Sound(a, e, k)
  /\ \A d \in Nodes \ mistrusted, j \in 1 .. k :
       d # a /\ At(a, d, j) => \E m : <<d, m, j>> \in Entries(a, k)

LEMMA TableFields ==
  ASSUME NetInv, NEW a \in Nodes
  PROVE  /\ Routes!FirstHops(Repositories(a)) = near[a] \ mistrusted
         /\ \A t : t \in Routes!TwoHopLinks(Repositories(a)) <=>
              /\ t \in TwoHop(a) /\ t[1] \in near[a] /\ will[t[1]] # NEVER
              /\ t[2] \notin near[a] \cup {a}
         /\ \A t : t \in Routes!FarLinks(Repositories(a)) <=> t \in Topology(a)
<1>1. \A t \in Topology(a) : t[1] \notin mistrusted
  BY DEF Topology
<1> QED BY <1>1 DEF Repositories, Routes!FirstHops, Routes!TwoHopLinks, Routes!FarLinks

LEMMA TableFirst ==
  ASSUME NetInv, NEW a \in Nodes
  PROVE  TableInv(a, 1)
<1>1. Entries(a, 1) = {<<n, n, 1>> : n \in near[a] \ mistrusted}
  BY EntriesUnfold, TableFields DEF First, Entries
<1>2. ASSUME NEW e \in Entries(a, 1) PROVE Sound(a, e, 1)
  <2>1. PICK n \in near[a] \ mistrusted : e = <<n, n, 1>>
    BY <1>1
  <2>2. n \in Nodes /\ At(a, n, 1) /\ At(n, n, 0)
    BY Links, AtNeighbor, AtZero
  <2> QED BY <2>1, <2>2 DEF Sound
<1>3. ASSUME NEW d \in Nodes \ mistrusted, NEW j \in 1 .. 1, At(a, d, j)
      PROVE  \E m : <<d, m, j>> \in Entries(a, 1)
  <2>1. j = 1 /\ d \in near[a]
    BY <1>3, AtNeighbor
  <2> QED BY <1>1, <2>1
<1> QED BY <1>2, <1>3 DEF TableInv

LEMMA TableSecond ==
  ASSUME NetInv, NEW a \in Nodes
  PROVE  TableInv(a, 2)
<1>1. Entries(a, 2) = Entries(a, 1) \cup Second(Repositories(a))
  <2>1. Entries(a, 1 + 1) = More(Repositories(a), Entries(a, 1), 1 + 1)
    BY EntriesUnfold DEF Entries
  <2> QED BY <2>1 DEF More
<1>2. TableInv(a, 1)
  BY TableFirst
<1>3. ASSUME NEW e \in Entries(a, 2) PROVE Sound(a, e, 2)
  <2>1. CASE e \in Entries(a, 1)
    BY <1>2, <2>1 DEF TableInv, Sound
  <2>2. CASE e \in Second(Repositories(a))
    <3>1. PICK t \in Routes!TwoHopLinks(Repositories(a)) :
            t[1] \in Routes!FirstHops(Repositories(a)) /\ e = <<t[2], t[1], 2>>
      BY <2>2 DEF Second
    <3>2. /\ t \in TwoHop(a) /\ t[1] \in near[a] \ mistrusted /\ will[t[1]] # NEVER
          /\ t[2] \notin near[a] /\ t[2] # a
      BY <3>1, TableFields
    <3>3. t[2] \in near[t[1]]
      BY <3>2 DEF TwoHop
    <3>4. t[1] \in Nodes /\ t[2] \in Nodes /\ t[1] \in Relaying
      BY <3>2, <3>3, Links DEF Relaying
    <3>5. At(a, t[1], 1) /\ At(t[1], t[2], 1) /\ ~ At(a, t[2], 1) /\ ~ At(a, t[2], 0)
      BY <3>2, <3>3, <3>4, AtNeighbor, AtZero
    <3>6. t[2] \in Within(a, 1 + 1)
      BY <3>3, <3>4, <3>5, OneHopMore DEF At
    <3>7. t[2] \notin Within(a, 1)
      BY <3>5 DEF At
    <3>8. At(a, t[2], 2)
      BY <3>6, <3>7 DEF At
    <3> QED BY <3>1, <3>2, <3>4, <3>5, <3>8 DEF Sound
  <2> QED BY <1>1, <2>1, <2>2
<1>4. ASSUME NEW d \in Nodes \ mistrusted, NEW j \in 1 .. 2, d # a, At(a, d, j)
      PROVE  \E m : <<d, m, j>> \in Entries(a, 2)
  <2>1. CASE j = 1
    <3>1. j \in 1 .. 1
      BY <2>1
    <3>2. \E m : <<d, m, j>> \in Entries(a, 1)
      BY <1>2, <1>4, <3>1 DEF TableInv
    <3> QED BY <1>1, <3>2
  <2>2. CASE j = 2
    <3>1. At(a, d, 1 + 1)
      BY <1>4, <2>2
    <3>2. PICK x \in Nodes : At(a, x, 1) /\ d \in near[x] /\ x \in Relaying
      BY <3>1, LastHop
    <3>3. x \in near[a]
      BY <3>2, AtNeighbor
    <3>4. <<x, d>> \in TwoHop(a)
      BY <1>4, <3>2, <3>3 DEF TwoHop
    <3>5. d \notin near[a]
      <4>1. ~ At(a, d, 1)
        BY <1>4, <2>2, AtOne
      <4> QED BY <4>1, AtNeighbor
    <3> DEFINE t == <<x, d>>
    <3>6. t \in Routes!TwoHopLinks(Repositories(a)) /\ t[1] \in Routes!FirstHops(Repositories(a))
      BY <1>4, <3>2, <3>3, <3>4, <3>5, TableFields DEF Relaying
    <3>7. <<t[2], t[1], 2>> \in Second(Repositories(a))
      <4> HIDE DEF t
      <4> QED BY <3>6 DEF Second
    <3>8. <<t[2], t[1], 2>> = <<d, x, j>>
      BY <2>2
    <3> HIDE DEF t
    <3>9. <<d, x, j>> \in Entries(a, 2)
      BY <1>1, <3>7, <3>8
    <3> QED BY <3>9
  <2>3. j = 1 \/ j = 2
    OBVIOUS
  <2> QED BY <2>1, <2>2, <2>3
<1> QED BY <1>3, <1>4 DEF TableInv

LEMMA TableFarther ==
  ASSUME NetInv, MprInv, NEW a \in Nodes, NEW k \in Nat, k >= 2, TableInv(a, k)
  PROVE  TableInv(a, k + 1)
<1> DEFINE r == Repositories(a)
<1>1. Entries(a, k + 1) = Entries(a, k) \cup Farther(r, Entries(a, k), k + 1)
  <2>1. Entries(a, k + 1) = More(r, Entries(a, k), k + 1)
    BY EntriesUnfold DEF Entries
  <2> QED BY <2>1 DEF More
<1>2. ASSUME NEW e \in Entries(a, k + 1) PROVE Sound(a, e, k + 1)
  <2>1. CASE e \in Entries(a, k)
    BY <2>1 DEF TableInv, Sound
  <2>2. CASE e \in Farther(r, Entries(a, k), k + 1)
    <3>1. PICK t \in Routes!FarLinks(r) :
            /\ t[2] \notin {x[1] : x \in Entries(a, k)}
            /\ e \in {<<t[2], x[2], k + 1>> :
                        x \in {y \in Entries(a, k) : y[1] = t[1] /\ y[3] = k + 1 - 1}}
      BY <2>2 DEF Farther
    <3>2. PICK x \in Entries(a, k) : x[1] = t[1] /\ x[3] = k /\ e = <<t[2], x[2], k + 1>>
      BY <3>1
    <3>3. t \in Nodes \X Nodes /\ t[1] \in mprSet[t[2]] /\ t[1] # a /\ t[1] \notin mistrusted
      BY TableFields DEF Topology
    <3>4. /\ At(a, t[1], k) /\ x[2] \in Nodes \ mistrusted /\ x[2] \in near[a]
          /\ At(x[2], t[1], k - 1) /\ x[2] \in Relaying
      BY <3>2, <3>3 DEF TableInv, Sound
    <3>5. t[1] \in Relaying /\ t[2] \in near[t[1]] /\ t[2] \in Nodes
      BY <3>3, RelaysRelay
    <3>6. k - 1 \in Nat /\ (k - 1) + 1 = k
      OBVIOUS
    <3>7. ASSUME t[2] \notin mistrusted, t[2] # a
          PROVE  At(a, t[2], k + 1) /\ At(x[2], t[2], k)
      <4>1. t[2] \in Within(a, k + 1)
        BY <3>4, <3>5, OneHopMore DEF At
      <4>2. t[2] \notin Within(a, k)
        <5>1. ASSUME t[2] \in Within(a, k) PROVE FALSE
          <6>1. PICK j \in 0 .. k : At(a, t[2], j)
            BY <5>1, AtMost
          <6>2. j \in 1 .. k
            BY <3>7, <6>1, AtZero
          <6>3. PICK m : <<t[2], m, j>> \in Entries(a, k)
            BY <3>5, <3>7, <6>1, <6>2 DEF TableInv
          <6>4. <<t[2], m, j>>[1] = t[2]
            OBVIOUS
          <6> QED BY <3>1, <6>3, <6>4
        <5> QED BY <5>1
      <4>3. t[2] \in Within(x[2], k)
        <5>1. t[2] \in Within(x[2], (k - 1) + 1)
          BY <3>4, <3>5, <3>6, OneHopMore DEF At
        <5> QED BY <3>6, <5>1
      <4>4. t[2] \notin Within(x[2], k - 1)
        <5>1. ASSUME t[2] \in Within(x[2], k - 1) PROVE t[2] \in Within(a, (k - 1) + 1)
          BY <3>4, <3>6, <5>1, Prepend
        <5> QED BY <3>6, <4>2, <5>1
      <4> QED BY <4>1, <4>2, <4>3, <4>4 DEF At
    <3>8. e[1] = t[2] /\ e[2] = x[2] /\ e[3] = k + 1
      BY <3>2
    <3> QED BY <3>4, <3>5, <3>7, <3>8 DEF Sound
  <2> QED BY <1>1, <2>1, <2>2
<1>3. ASSUME NEW d \in Nodes \ mistrusted, NEW j \in 1 .. k + 1, d # a, At(a, d, j)
      PROVE  \E m : <<d, m, j>> \in Entries(a, k + 1)
  <2>1. CASE j # k + 1
    <3>1. j \in 1 .. k
      BY <2>1
    <3> QED BY <1>1, <1>3, <3>1 DEF TableInv
  <2>2. CASE j = k + 1
    <3>1. PICK x \in mprSet[d] : At(a, x, k)
      BY <1>3, <2>2, RelayOnTheWay
    <3>2. x \in Relaying /\ x \in Nodes \ mistrusted
      BY RelaysRelay, Links
    <3>3. x # a
      BY <3>1, AtZero, AtOne
    <3>4. PICK m : <<x, m, k>> \in Entries(a, k)
      <4>1. k \in 1 .. k
        OBVIOUS
      <4> QED BY <3>1, <3>2, <3>3, <4>1 DEF TableInv
    <3>5. Reaches(x, a)
      <4>1. a \in Within(x, k)
        BY <3>1, <3>2, Backwards DEF At
      <4>2. PICK i \in 0 .. k : At(x, a, i)
        BY <4>1, AtMost
      <4> QED BY <3>2, <4>2, DistanceIs
    <3> DEFINE t == <<x, d>>
               e == <<x, m, k>>
    <3>6. t \in Routes!FarLinks(r)
      BY <3>2, <3>3, <3>5, TableFields DEF Topology
    <3>7. ASSUME NEW y \in Entries(a, k), y[1] = d PROVE FALSE
      <4>1. y[3] \in 1 .. k /\ At(a, d, y[3])
        BY <1>3, <3>7 DEF TableInv, Sound
      <4>2. y[3] = k + 1
        BY <1>3, <2>2, <4>1, AtOne
      <4> QED BY <4>1, <4>2
    <3>8. t[1] = x /\ t[2] = d /\ e[1] = x /\ e[2] = m /\ e[3] = k + 1 - 1 /\ e \in Entries(a, k)
      BY <3>4
    <3>9. <<d, m, k + 1>> \in Farther(r, Entries(a, k), k + 1)
      <4> HIDE DEF t, e, r
      <4>1. d \notin {y[1] : y \in Entries(a, k)}
        BY <3>7
      <4> QED BY <3>6, <3>8, <4>1 DEF Farther
    <3> QED BY <1>1, <2>2, <3>9
  <2> QED BY <2>1, <2>2
<1> QED BY <1>2, <1>3 DEF TableInv

LEMMA TableAlways ==
  ASSUME NetInv, MprInv, NEW a \in Nodes, NEW k \in Nat \ {0}
  PROVE  TableInv(a, k)
<1> DEFINE Bad == {i \in Nat \ {0} : ~ TableInv(a, i)}
<1>1. ASSUME Bad # {} PROVE FALSE
  <2>1. PICK i \in Bad : \A l \in Bad : i <= l
    BY <1>1, LeastOf
  <2>2. i # 1 /\ i # 2
    BY <2>1, TableFirst, TableSecond
  <2>3. i - 1 \in Nat \ {0} /\ i - 1 >= 2 /\ ~ i <= i - 1 /\ (i - 1) + 1 = i
    BY <2>1, <2>2
  <2>4. TableInv(a, i - 1)
    BY <2>1, <2>3
  <2>5. TableInv(a, (i - 1) + 1)
    BY <2>3, <2>4, TableFarther
  <2> QED BY <2>1, <2>3, <2>5
<1> QED BY <1>1

\* The next hops a table may name for a trusted destination: trusted
\* neighbours one hop nearer, and one at least if it can be reached.
LEMMA NextHopsAreNearer ==
  ASSUME NetInv, MprInv, NEW a \in Nodes, NEW d \in Nodes \ mistrusted, a # d
  PROVE  /\ \A m \in NextHops(a, d) : \E j \in Nat :
              m \in Nodes \ mistrusted /\ At(a, d, j + 1) /\ At(m, d, j)
         /\ NextHops(a, d) = {} <=> ~ Reaches(a, d)
<1> DEFINE K == Cardinality(Nodes)
<1>1. K \in Nat \ {0}
  BY ForwardingAssumption, FS_CardinalityType, FS_EmptySet
<1>2. TableInv(a, K)
  BY <1>1, TableAlways
<1>3. NextHops(a, d) = {e[2] : e \in {x \in Entries(a, K) : x[1] = d}}
  BY DEF NextHops, Entries
<1>4. ASSUME NEW m \in NextHops(a, d)
      PROVE  \E j \in Nat : m \in Nodes \ mistrusted /\ At(a, d, j + 1) /\ At(m, d, j)
  <2>1. PICK e \in Entries(a, K) : e[1] = d /\ e[2] = m
    BY <1>3
  <2>2. e[3] \in 1 .. K /\ m \in Nodes \ mistrusted /\ At(a, d, e[3]) /\ At(m, d, e[3] - 1)
    BY <1>2, <2>1 DEF TableInv, Sound
  <2>3. e[3] - 1 \in Nat /\ (e[3] - 1) + 1 = e[3]
    BY <2>2
  <2> QED BY <2>2, <2>3
<1>5. ASSUME NEW m \in NextHops(a, d) PROVE Reaches(a, d)
  BY <1>4, DistanceIs
<1>6. ASSUME Reaches(a, d) PROVE NextHops(a, d) # {}
  <2>1. PICK j \in Nat : At(a, d, j)
    BY <1>6, DistanceIs
  <2>2. j \in 1 .. K
    BY <1>1, <2>1, AtZero, FewHops
  <2>3. PICK m : <<d, m, j>> \in Entries(a, K)
    BY <1>2, <2>1, <2>2 DEF TableInv
  <2> DEFINE e == <<d, m, j>>
  <2>4. e[1] = d /\ e[2] = m /\ e \in Entries(a, K)
    BY <2>3
  <2> HIDE DEF e, K
  <2>5. m \in NextHops(a, d)
    BY <1>3, <2>4
  <2> QED BY <2>5
<1> QED BY <1>4, <1>5, <1>6

-----------------------------------------------------------------------------
\* The packet is as many hops from its source as it has come nearer to its
\* destination; it is dropped at its source only, when there is no way.
PacketInv ==
  /\ packet \in [to : Nodes \ mistrusted, at : Nodes \ mistrusted, hops : Nat,
                 status : {"new", "moving", "delivered", "dropped"}]
  /\ packet.to # Source
  /\ packet.status = "new" => packet.at = Source /\ packet.hops = 0
  /\ packet.status \in {"moving", "delivered"} =>
       /\ packet.hops >= 1
       /\ \E j \in Nat : /\ At(packet.at, packet.to, j)
                         /\ At(Source, packet.to, packet.hops + j)
  /\ packet.status = "dropped" => packet.hops = 0 /\ ~ Reaches(Source, packet.to)

IInv == NetInv /\ MprInv /\ PacketInv

LEMMA InitIInv == Init => IInv
<1> SUFFICES ASSUME Init PROVE IInv
  OBVIOUS
<1>1. NetInv
  BY DEF Init, NetInv
<1>2. MprInv
  <2> DEFINE N(n) == near[n] \ mistrusted
             C(n) == Candidates(N(n), will, StrictTwoHop(N(n), will, TwoHop(n), n))
  <2>1. mprSet = [n \in Nodes |-> C(n)]
    BY DEF Init
  <2>2. ASSUME NEW n \in Nodes PROVE C(n) \in RelayChoices(n) /\ C(n) \subseteq Nodes
    <3>1. Covers(C(n), StrictTwoHop(N(n), will, TwoHop(n), n))
      BY DEF Covers, Candidates
    <3>2. \A m \in N(n) : will[m] = ALWAYS => m \in C(n)
      BY DEF Candidates
    <3>3. C(n) \in RelayChoices(n)
      BY <3>1, <3>2 DEF RelayChoices, MprChoices
    <3>4. C(n) \subseteq N(n)
      BY DEF Candidates, StrictTwoHop
    <3> QED BY <1>1, <3>3, <3>4, Links
  <2> HIDE DEF C
  <2> QED BY <2>1, <2>2 DEF MprInv
<1>3. PacketInv
  <2>1. packet \in [to : Nodes \ ({Source} \cup mistrusted), at : {Source},
                    hops : {0}, status : {"new"}]
    BY DEF Init
  <2> QED BY <1>1, <2>1, Links DEF PacketInv
<1> QED BY <1>1, <1>2, <1>3 DEF IInv

\* While the network stays, so do the ways in it.
LEMMA WaysStay ==
  ASSUME UNCHANGED network
  PROVE  /\ \A s, k : Within(s, k)' = Within(s, k)
         /\ \A s, d, k : At(s, d, k)' <=> At(s, d, k)
         /\ \A s, d : Reaches(s, d)' <=> Reaches(s, d)
         /\ \A n : RelayChoices(n)' = RelayChoices(n)
         /\ NetInv => NetInv'
<1>1. near' = near /\ will' = will /\ mistrusted' = mistrusted
  BY DEF network
<1>2. ASSUME NEW s, NEW k PROVE Within(s, k)' = Within(s, k)
  BY <1>1 DEF Within, Relaying
<1>3. \A n : RelayChoices(n)' = RelayChoices(n)
  BY <1>1 DEF RelayChoices, TwoHop
<1>4. NetInv => NetInv'
  BY <1>1 DEF NetInv
<1> QED BY <1>2, <1>3, <1>4 DEF At, Reaches

\* Passing the packet to a next hop of the table brings it one hop nearer.
LEMMA Hop ==
  ASSUME IInv, packet.status \in {"new", "moving"},
         UNCHANGED <<network, mprSet>>, packet.at # packet.to,
         NEW refused \in SUBSET mistrusted,
         packet.status = "moving" => packet.at # Source,
         HandOn(NextHops(packet.at, packet.to), refused)
  PROVE  PacketInv'
<1> DEFINE dropped == [packet EXCEPT !.status = "dropped"]
           moved(m) == [packet EXCEPT !.at = m, !.hops = @ + 1, !.status = "moving"]
           Packets == [to : Nodes \ mistrusted, at : Nodes \ mistrusted, hops : Nat,
                       status : {"new", "moving", "delivered", "dropped"}]
<1>1. PICK a, d, c : a = packet.at /\ d = packet.to /\ c = packet.hops
  OBVIOUS
<1>2. /\ a \in Nodes \ mistrusted /\ d \in Nodes \ mistrusted /\ d # Source
      /\ c \in Nat /\ mistrusted' = mistrusted /\ a # d /\ packet \in Packets
  BY <1>1 DEF IInv, PacketInv, network
<1>3. /\ \A m \in NextHops(a, d) : \E j \in Nat :
           m \in Nodes \ mistrusted /\ At(a, d, j + 1) /\ At(m, d, j)
      /\ NextHops(a, d) = {} <=> ~ Reaches(a, d)
  BY <1>2, NextHopsAreNearer DEF IInv
<1>4. HandOn(NextHops(a, d), refused)
  BY <1>1
<1>5. CASE NextHops(a, d) = {}
  <2>1. packet' = dropped
    BY <1>4, <1>5 DEF HandOn
  <2>2. packet.status = "new"
    <3>1. ASSUME packet.status = "moving" PROVE Reaches(a, d)
      BY <1>1, <1>2, <3>1, DistanceIs DEF IInv, PacketInv
    <3> QED BY <1>3, <1>5, <3>1
  <2>3. ~ Reaches(Source, d) /\ c = 0
    BY <1>1, <1>3, <1>5, <2>2 DEF IInv, PacketInv
  <2>4. /\ packet' \in Packets
        /\ packet'.to = d /\ packet'.hops = 0 /\ packet'.status = "dropped"
    BY <1>1, <1>2, <2>1, <2>3
  <2>5. ~ Reaches(Source, d)'
    BY <2>3, WaysStay
  <2>6. ~ Reaches(Source, packet.to)'
    BY <2>4, <2>5 DEF Reaches
  <2> QED BY <1>2, <2>4, <2>6 DEF PacketInv
<1>6. CASE NextHops(a, d) # {}
  <2>1. PICK m \in NextHops(a, d) : packet' = IF m \in refused THEN dropped ELSE moved(m)
    BY <1>4, <1>6 DEF HandOn
  <2>2. PICK j \in Nat : m \in Nodes \ mistrusted /\ At(a, d, j + 1) /\ At(m, d, j)
    BY <1>3
  <2>3. packet' = moved(m)
    BY <2>1, <2>2
  <2>4. At(Source, d, c + (j + 1))
    <3>1. CASE packet.status = "new"
      BY <1>1, <2>2, <3>1 DEF IInv, PacketInv
    <3>2. CASE packet.status = "moving"
      <4>1. PICK i \in Nat : At(a, d, i) /\ At(Source, d, c + i)
        BY <1>1, <3>2 DEF IInv, PacketInv
      <4>2. i = j + 1
        BY <2>2, <4>1, AtOne
      <4> QED BY <4>1, <4>2
    <3> QED BY <3>1, <3>2
  <2>5. c + (j + 1) = (c + 1) + j
    BY <1>2
  <2>6. /\ packet' \in Packets /\ packet'.to = d /\ packet'.at = m
        /\ packet'.hops = c + 1 /\ packet'.status = "moving"
    <3>1. c + 1 \in Nat /\ m \in Nodes \ mistrusted
      BY <1>2, <2>2
    <3>2. packet' = [to |-> d, at |-> m, hops |-> c + 1, status |-> "moving"]
      BY <1>1, <1>2, <2>3
    <3> QED BY <1>2, <3>1, <3>2
  <2>7. At(m, d, j)' /\ At(Source, d, (c + 1) + j)'
    BY <2>2, <2>4, <2>5, WaysStay
  <2>8. \E i \in Nat : /\ At(packet.at, packet.to, i)'
                       /\ At(Source, packet.to, packet.hops + i)'
    BY <2>2, <2>6, <2>7 DEF At
  <2> QED BY <1>2, <2>6, <2>8 DEF PacketInv
<1> QED BY <1>5, <1>6

LEMMA NextIInv == IInv /\ [Next]_vars => IInv'
<1> SUFFICES ASSUME IInv, [Next]_vars PROVE IInv'
  OBVIOUS
<1>0. UNCHANGED network
  BY DEF Next, MprComputation, RouteOutput, RouteInput, Deliver, vars, network
<1>1. NetInv'
  BY <1>0, WaysStay DEF IInv
<1>2. ASSUME UNCHANGED mprSet PROVE MprInv'
  BY <1>0, <1>2, WaysStay DEF IInv, MprInv
<1>3. ASSUME UNCHANGED packet PROVE PacketInv'
  <2>1. mistrusted' = mistrusted
    BY <1>0 DEF network
  <2> QED BY <1>0, <1>3, <2>1, WaysStay DEF IInv, PacketInv, At, Reaches
<1>4. ASSUME NEW n \in Nodes, MprComputation(n) PROVE IInv'
  <2>1. PICK M \in RelayChoices(n) : mprSet' = [mprSet EXCEPT ![n] = M]
    BY <1>4 DEF MprComputation
  <2>2. M \subseteq Nodes
    <3>1. M \subseteq near[n]
      BY DEF RelayChoices, MprChoices, Candidates, StrictTwoHop
    <3> QED BY <3>1, Links DEF IInv
  <2>3. MprInv'
    <3>1. mprSet' \in [Nodes -> SUBSET Nodes]
      BY <2>1, <2>2 DEF IInv, MprInv
    <3>2. ASSUME NEW m \in Nodes PROVE mprSet'[m] \in RelayChoices(m)'
      <4>1. mprSet'[m] \in RelayChoices(m)
        BY <2>1 DEF IInv, MprInv
      <4> QED BY <1>0, <4>1, WaysStay
    <3> QED BY <3>1, <3>2 DEF MprInv
  <2> QED BY <1>1, <1>3, <1>4, <2>3 DEF MprComputation, IInv
<1>5. CASE RouteOutput
  <2>1. packet.status = "new" /\ packet.at # packet.to
    BY <1>5 DEF RouteOutput, IInv, PacketInv
  <2>2. PacketInv'
    <3>1. HandOn(NextHops(packet.at, packet.to), {}) /\ UNCHANGED <<network, mprSet>>
      BY <1>5 DEF RouteOutput
    <3> QED BY <2>1, <3>1, Hop
  <2> QED BY <1>1, <1>2, <1>5, <2>2 DEF RouteOutput, IInv
<1>6. CASE RouteInput
  <2>1. packet.status = "moving" /\ packet.at # packet.to
    BY <1>6 DEF RouteInput
  <2>2. packet.at # Source
    <3>1. PICK j \in Nat : /\ At(packet.at, packet.to, j)
                           /\ At(Source, packet.to, packet.hops + j)
      BY <2>1 DEF IInv, PacketInv
    <3>2. packet.hops \in Nat /\ packet.hops >= 1
      BY <2>1 DEF IInv, PacketInv
    <3>3. ASSUME packet.at = Source PROVE packet.hops + j = j
      BY <3>1, <3>2, <3>3, AtOne
    <3> QED BY <3>2, <3>3
  <2>3. PacketInv'
    <3>1. HandOn(NextHops(packet.at, packet.to), mistrusted) /\ UNCHANGED <<network, mprSet>>
      BY <1>6, <2>2 DEF RouteInput
    <3> QED BY <2>1, <2>2, <3>1, Hop
  <2> QED BY <1>1, <1>2, <1>6, <2>3 DEF RouteInput, IInv
<1>7. CASE Deliver
  <2>1. /\ packet.status = "moving" /\ packet' = [packet EXCEPT !.status = "delivered"]
        /\ mistrusted' = mistrusted
    BY <1>0, <1>7 DEF Deliver, network
  <2>2. /\ packet' \in [to : Nodes \ mistrusted, at : Nodes \ mistrusted, hops : Nat,
                       status : {"new", "moving", "delivered", "dropped"}]
        /\ packet'.to = packet.to /\ packet'.at = packet.at
        /\ packet'.hops = packet.hops /\ packet'.status = "delivered"
    BY <2>1 DEF IInv, PacketInv
  <2>3. \E j \in Nat : /\ At(packet.at, packet.to, j)'
                       /\ At(Source, packet.to, packet.hops + j)'
    BY <1>0, <2>1, <2>2, WaysStay DEF IInv, PacketInv, At
  <2>4. packet.hops >= 1 /\ packet.to # Source
    BY <2>1 DEF IInv, PacketInv
  <2>5. PacketInv'
    BY <2>1, <2>2, <2>3, <2>4 DEF PacketInv
  <2> QED BY <1>1, <1>2, <1>7, <2>5 DEF Deliver, IInv
<1>8. CASE UNCHANGED vars
  BY <1>1, <1>2, <1>3, <1>8 DEF vars, IInv
<1> QED BY <1>4, <1>5, <1>6, <1>7, <1>8 DEF Next

-----------------------------------------------------------------------------
\* The inductive invariant holds in every reachable state.
THEOREM Invariance == Spec => []IInv
<1> QED BY InitIInv, NextIInv, PTL DEF Spec

\* RouteOutput drops a packet only if no path of willing, trusted nodes leads
\* to its destination, and RouteInput never drops one.
THEOREM NobodyIsStranded == Spec => []NeverStranded
<1>1. IInv => NeverStranded
  BY DEF IInv, PacketInv, NeverStranded
<1> QED BY <1>1, Invariance, PTL

\* Hop by hop, each from the table of another node and with relays that
\* change on the way, the packet follows a shortest path.
THEOREM ShortestPaths == Spec => []OnShortestPath
<1>1. ASSUME IInv PROVE OnShortestPath
  <2> SUFFICES ASSUME packet.status \in {"moving", "delivered"}
               PROVE  /\ Reaches(Source, packet.to)
                      /\ packet.hops + Distance(packet.at, packet.to)
                           = Distance(Source, packet.to)
    BY DEF OnShortestPath
  <2>1. packet.at \in Nodes /\ packet.to \in Nodes /\ packet.hops \in Nat /\ Source \in Nodes
    BY <1>1, Links DEF IInv, PacketInv
  <2>2. PICK j \in Nat : /\ At(packet.at, packet.to, j)
                         /\ At(Source, packet.to, packet.hops + j)
    BY <1>1 DEF IInv, PacketInv
  <2>3. Distance(packet.at, packet.to) = j
    BY <1>1, <2>1, <2>2, DistanceIs DEF IInv
  <2>4. packet.hops + j \in Nat
    BY <2>1, <2>2
  <2>5. Distance(Source, packet.to) = packet.hops + j /\ Reaches(Source, packet.to)
    BY <1>1, <2>1, <2>2, <2>4, DistanceIs DEF IInv
  <2> QED BY <2>3, <2>5
<1> QED BY <1>1, Invariance, PTL

\* Network and packet are well typed, and the packet makes fewer hops than
\* there are nodes.
THEOREM TypeCorrect == Spec => []TypeOK
<1>1. ASSUME IInv PROVE TypeOK
  <2>1. packet.hops \in 0 .. Cardinality(Nodes) - 1
    <3>1. Cardinality(Nodes) \in Nat \ {0} /\ packet.hops \in Nat
      BY <1>1, ForwardingAssumption, FS_CardinalityType, FS_EmptySet DEF IInv, PacketInv
    <3>2. CASE packet.status \in {"new", "dropped"}
      BY <1>1, <3>1, <3>2 DEF IInv, PacketInv
    <3>3. CASE packet.status \in {"moving", "delivered"}
      <4>1. PICK j \in Nat : At(Source, packet.to, packet.hops + j)
        BY <1>1, <3>3 DEF IInv, PacketInv
      <4>2. packet.hops + j < Cardinality(Nodes)
        BY <1>1, <3>1, <4>1, Links, FewHops DEF IInv, PacketInv
      <4> QED BY <3>1, <4>2
    <3> QED BY <1>1, <3>2, <3>3 DEF IInv, PacketInv
  <2>2. packet \in [to : Nodes \ mistrusted, at : Nodes \ mistrusted,
                    hops : 0 .. Cardinality(Nodes) - 1,
                    status : {"new", "moving", "delivered", "dropped"}]
    BY <1>1, <2>1 DEF IInv, PacketInv
  <2>3. near \in [Nodes -> SUBSET Nodes] /\ will \in [Nodes -> Levels]
          /\ mistrusted \subseteq Suspects /\ mprSet \in [Nodes -> SUBSET Nodes]
    BY <1>1, Links DEF IInv, NetInv, MprInv
  <2> QED BY <2>2, <2>3 DEF TypeOK
<1> QED BY <1>1, Invariance, PTL

\* How much may still happen to a packet: it is new, or so many hops are left
\* before it would have made as many as there are nodes, or it is over.
PacketLeft ==
  CASE packet.status = "new" -> Cardinality(Nodes) + 1
    [] packet.status = "moving" -> Cardinality(Nodes) - packet.hops
    [] OTHER -> 0

\* A packet does not travel for ever, although nobody counts its hops or asks
\* where it has been, and relays are chosen anew while it is under way:
\* whatever happens to it leaves less to happen, until it is delivered, or
\* dropped because no path leads to its destination.
PacketsGetOn == [][packet' # packet => PacketLeft' < PacketLeft]_vars

THEOREM PacketsEnd == Spec => [](PacketLeft \in Nat) /\ PacketsGetOn
<1>1. ASSUME TypeOK PROVE PacketLeft \in Nat
  <2>1. packet.hops \in 0 .. Cardinality(Nodes) - 1 /\ Cardinality(Nodes) \in Nat
    BY <1>1, ForwardingAssumption, FS_CardinalityType DEF TypeOK
  <2> QED BY <1>1, <2>1 DEF PacketLeft, TypeOK
<1>2. TypeOK /\ [Next]_vars => [packet' # packet => PacketLeft' < PacketLeft]_vars
  <2> SUFFICES ASSUME TypeOK, Next, packet' # packet PROVE PacketLeft' < PacketLeft
    OBVIOUS
  <2>1. packet.hops \in 0 .. Cardinality(Nodes) - 1 /\ Cardinality(Nodes) \in Nat
    BY ForwardingAssumption, FS_CardinalityType DEF TypeOK
  <2>2. ASSUME NEW hops, NEW refused, HandOn(hops, refused)
        PROVE  \/ packet'.status = "dropped"
               \/ packet'.status = "moving" /\ packet'.hops = packet.hops + 1
    <3>1. packet \in [to : Nodes \ mistrusted, at : Nodes \ mistrusted,
                      hops : 0 .. Cardinality(Nodes) - 1,
                      status : {"new", "moving", "delivered", "dropped"}]
      BY DEF TypeOK
    <3> DEFINE dropped == [packet EXCEPT !.status = "dropped"]
               on(m) == [packet EXCEPT !.at = m, !.hops = @ + 1, !.status = "moving"]
    <3>2. packet' \in IF hops = {} THEN {dropped}
                      ELSE {IF m \in refused THEN dropped ELSE on(m) : m \in hops}
      BY <2>2 DEF HandOn
    <3>3. dropped.status = "dropped" /\ \A m : on(m).status = "moving" /\ on(m).hops = packet.hops + 1
      BY <3>1
    <3> HIDE DEF dropped, on
    <3> QED BY <3>2, <3>3
  <2>3. CASE RouteOutput
    <3>1. packet.status = "new"
      BY <2>3 DEF RouteOutput
    <3>2. \/ packet'.status = "dropped"
          \/ packet'.status = "moving" /\ packet'.hops = packet.hops + 1
      BY <2>2, <2>3 DEF RouteOutput
    <3> QED BY <2>1, <3>1, <3>2 DEF PacketLeft
  <2>4. CASE RouteInput
    <3>1. packet.status = "moving"
      BY <2>4 DEF RouteInput
    <3>2. \/ packet'.status = "dropped"
          \/ packet'.status = "moving" /\ packet'.hops = packet.hops + 1
      BY <2>2, <2>4 DEF RouteInput
    <3> QED BY <2>1, <3>1, <3>2 DEF PacketLeft
  <2>5. CASE Deliver
    <3>1. packet.status = "moving" /\ packet'.status = "delivered"
      BY <2>5 DEF Deliver, TypeOK
    <3> QED BY <2>1, <3>1 DEF PacketLeft
  <2>6. CASE \E n \in Nodes : MprComputation(n)
    BY <2>6 DEF MprComputation
  <2> QED BY <2>3, <2>4, <2>5, <2>6 DEF Next
<1> QED BY <1>1, <1>2, TypeCorrect, PTL DEF Spec, PacketsGetOn

-----------------------------------------------------------------------------
\* What Topology takes a flooded TC to reach is what a message reaches when it
\* is flooded node by node (FloodingReachesComponent of Flooding_proofs): what
\* lies in every set with its originator that no willing node leads out of.
\* Mistrusted nodes lead nowhere: RecvOlsr drops what they send.
ClosedFrom(s, S) == s \in S /\ \A m \in S : m \in Relaying \cup {s} => near[m] \subseteq S
ReachesByFlooding ==
  \A s, d \in Nodes : Reaches(s, d) <=> \A S \in SUBSET Nodes : ClosedFrom(s, S) => d \in S

THEOREM TopologyIsFlooded == Spec => []ReachesByFlooding
<1>1. ASSUME NetInv, NEW s \in Nodes, NEW d \in Nodes
      PROVE  Reaches(s, d) <=> \A S \in SUBSET Nodes : ClosedFrom(s, S) => d \in S
  <2> DEFINE N == Cardinality(Nodes)
  <2>1. N \in Nat /\ N + 1 \in Nat
    BY ForwardingAssumption, FS_CardinalityType
  <2> HIDE DEF N
  <2>2. ASSUME NEW S \in SUBSET Nodes, ClosedFrom(s, S) PROVE Within(s, N) \subseteq S
    <3> DEFINE Bad == {i \in Nat : ~ (Within(s, i) \subseteq S)}
    <3>1. ASSUME Bad # {} PROVE FALSE
      <4>1. PICK i \in Bad : \A l \in Bad : i <= l
        BY <3>1, LeastOf
      <4>2. i # 0
        BY <2>2, <4>1, OneHopMore DEF ClosedFrom
      <4>3. i - 1 \in Nat /\ ~ i <= i - 1 /\ (i - 1) + 1 = i
        BY <4>1, <4>2
      <4>4. Within(s, i - 1) \subseteq S
        BY <4>1, <4>3
      <4>5. \A e \in Within(s, (i - 1) + 1) : \/ e \in Within(s, i - 1)
                                            \/ \E x \in Within(s, i - 1) :
                                                 x \in Relaying \cup {s} /\ e \in near[x]
        BY <4>3, OneHopMore
      <4>6. Within(s, (i - 1) + 1) \subseteq S
        BY <2>2, <4>4, <4>5 DEF ClosedFrom
      <4> QED BY <4>1, <4>3, <4>6
    <3> QED BY <2>1, <3>1
  <2>3. Within(s, N) \in SUBSET Nodes /\ ClosedFrom(s, Within(s, N))
    <3>1. Within(s, N) \subseteq Nodes /\ Within(s, N + 1) \subseteq Nodes
      BY <1>1, <2>1, WithinNodes
    <3>2. s \in Within(s, N)
      BY <2>1, OneHopMore, Monotone
    <3>3. ASSUME NEW m \in Within(s, N), m \in Relaying \cup {s}, NEW e \in near[m]
          PROVE  e \in Within(s, N)
      <4>1. e \in Within(s, N + 1)
        BY <2>1, <3>3, OneHopMore
      <4>2. PICK j \in 0 .. N + 1 : At(s, e, j)
        BY <2>1, <4>1, AtMost
      <4>3. j \in Nat /\ j < N /\ e \in Within(s, j)
        BY <1>1, <2>1, <3>1, <4>1, <4>2, FewHops DEF N, At
      <4> QED BY <2>1, <4>3, Monotone
    <3> QED BY <3>1, <3>2, <3>3 DEF ClosedFrom
  <2> QED BY <2>2, <2>3 DEF Reaches, N
<1>2. IInv => ReachesByFlooding
  BY <1>1 DEF IInv, ReachesByFlooding
<1> QED BY <1>2, Invariance, PTL
=============================================================================
