------------------------- MODULE Neighborhood_proofs -------------------------
(***************************************************************************)
(* Proofs about Neighborhood: whatever HELLOs arrive and whatever validity *)
(* and hold times are configured, the repositories stay consistent with    *)
(* one another although each has timers of its own. The one NeighborLoss   *)
(* that m_linkTupleTimerFirstTime suppresses may leave one neighbour       *)
(* behind that counts as symmetric and as a relay for too long; there is   *)
(* never a second one.                                                     *)
(***************************************************************************)
EXTENDS Neighborhood, TLAPS

-----------------------------------------------------------------------------
\* What the link tuple of n, its pending timer and the neighbour tuple know of
\* one another, whatever m_linkTupleTimerFirstTime has done.
LinkInv(n) ==
  link[n] # NoLink =>
    /\ now - 1 <= timer[n]
    /\ timer[n] <= link[n].time
    /\ timer[n] < now + VTime + HoldTime
    /\ link[n].symTime < link[n].time
    /\ link[n].time <= now + VTime + HoldTime
    /\ LinkDue(n) => link[n].time < now + VTime + HoldTime
    /\ nb[n] # "sym" => link[n].symTime < now

\* The end of n's symmetric time will be noticed, and n is no relay without
\* being symmetric.
Sound(n) ==
  /\ link[n] # NoLink /\ nb[n] = "sym" => /\ timer[n] < link[n].time
                                         /\ timer[n] <= link[n].symTime + HoldTime
  /\ n \in mprSet => nb[n] = "sym"

\* What was learned over the link of n is not valid for longer than the link.
LearnedInv(n) ==
  LET limit == IF link[n] = NoLink THEN now - 1 ELSE link[n].time
  IN  /\ selectors[n] <= limit
      /\ \A p \in Pairs : p[1] = n => twoHop[p] <= limit

IInv ==
  /\ TypeOK
  /\ \A n \in Neighbors : nb[n] = "none" <=> link[n] = NoLink
  /\ \A n \in Neighbors : LinkInv(n)
  /\ \A n \in Neighbors : LearnedInv(n)

\* The timer states of one neighbour as numbers.
LEMMA Types ==
  ASSUME TypeOK, NEW n \in Neighbors
  PROVE  /\ now \in Nat \ {0}
         /\ VTime \in Nat \ {0} /\ HoldTime \in Nat \ {0}
         /\ link[n] # NoLink => link[n].symTime \in Nat /\ link[n].time \in Nat
         /\ timer[n] \in Int /\ selectors[n] \in Int
         /\ \A p \in Pairs : twoHop[p] \in Int
BY NeighborhoodAssumption DEF TypeOK, Never

LEMMA BumpType ==
  ASSUME NEW k \in Nat, ansn \in 0 .. AnsnModulus - 1
  PROVE  Bump(k) \in 0 .. AnsnModulus - 1
<1>1. AnsnModulus \in Nat \ {0} /\ ansn + k \in Nat
  BY NeighborhoodAssumption
<1> QED BY <1>1 DEF Bump

LEMMA InitIInv == Init => IInv
<1> SUFFICES ASSUME Init PROVE IInv
  OBVIOUS
<1>1. TypeOK
  BY NeighborhoodAssumption DEF Init, TypeOK, Never, NoLink
<1>2. \A n \in Neighbors : LinkInv(n) /\ LearnedInv(n)
  BY DEF Init, LinkInv, LearnedInv, Never, Pairs
<1> QED BY <1>1, <1>2 DEF Init, IInv

\* An MPR computation chooses symmetric neighbours.
LEMMA ChoicesAreSymmetric ==
  ASSUME MprComputation
  PROVE  mprSet' \subseteq Symmetric(nb') /\ RelaysCover'
BY DEF MprComputation, MprChoices, Candidates, ToCover, StrictTwoHop, RelaysCover

-----------------------------------------------------------------------------
\* LinkSensing leaves a proper link tuple whose time has not gone back.
LEMMA Sensed ==
  ASSUME IInv, NEW n \in Neighbors, NEW l \in Listings
  PROVE  LET s == SensedLink(n, l)
         IN  /\ s \in [symTime : Nat, time : Nat] /\ s # NoLink
             /\ s.symTime < s.time
             /\ now + VTime <= s.time /\ s.time <= now + VTime + HoldTime
             /\ link[n] # NoLink => link[n].time <= s.time
             /\ \/ l.us = "heard" /\ s.symTime = now + VTime
                \/ l.us # "heard" /\ s.symTime < now
                \/ /\ l.us # "heard" /\ link[n] # NoLink
                   /\ s.symTime = link[n].symTime /\ now <= s.symTime
<1> DEFINE s == SensedLink(n, l)
<1>1. /\ now \in Nat \ {0} /\ VTime \in Nat \ {0} /\ HoldTime \in Nat \ {0}
      /\ link[n] # NoLink => link[n].symTime \in Nat /\ link[n].time \in Nat
  BY Types DEF IInv
<1>2. link[n] # NoLink => link[n].symTime < link[n].time
                          /\ link[n].time <= now + VTime + HoldTime
  BY DEF IInv, LinkInv
<1>3. CASE l.us = "heard"
  BY <1>1, <1>2, <1>3 DEF SensedLink, Larger, NoLink, Never
<1>4. CASE l.us # "heard" /\ (link[n] = NoLink \/ l.us # "absent")
  BY <1>1, <1>2, <1>4 DEF SensedLink, Larger, NoLink, Never
<1>5. CASE l.us = "absent" /\ link[n] # NoLink
  BY <1>1, <1>2, <1>5 DEF SensedLink, Larger, NoLink, Never
<1> QED BY <1>3, <1>4, <1>5

\* A neighbour that a step does not touch keeps its invariants.
LEMMA LinkFrame ==
  ASSUME NEW m \in Neighbors, LinkInv(m), now' = now,
         link'[m] = link[m], timer'[m] = timer[m], nb'[m] = nb[m]
  PROVE  LinkInv(m)'
BY DEF LinkInv, LinkDue

LEMMA LearnedFrame ==
  ASSUME NEW m \in Neighbors, LearnedInv(m), now' = now, link'[m] = link[m],
         selectors'[m] = selectors[m],
         \A p \in Pairs : p[1] = m => twoHop'[p] = twoHop[p]
  PROVE  LearnedInv(m)'
BY DEF LearnedInv

-----------------------------------------------------------------------------
\* One lemma per action: the invariant is preserved.
LEMMA ProcessHelloIInv ==
  ASSUME IInv, NEW n \in Neighbors, ProcessHello(n)
  PROVE  /\ IInv' /\ RelaysCover'
         /\ \A m \in Neighbors : Sound(m) => Sound(m)'
<1>1. PICK l \in Listings, h \in Contents[n] :
        /\ link' = [link EXCEPT ![n] = SensedLink(n, l)]
        /\ timer' = IF link[n] # NoLink THEN timer
                    ELSE [timer EXCEPT ![n] = Smaller(SensedLink(n, l).time, SensedLink(n, l).symTime)]
        /\ nb' = [nb EXCEPT ![n] = StatusOf(SensedLink(n, l))]
        /\ twoHop' = HeardTwoHop(n, h, SensedLink(n, l).symTime)
        /\ MprComputation
        /\ selectors' = IF l.mpr THEN [selectors EXCEPT ![n] = now + VTime] ELSE selectors
        /\ ansn' = Bump(LinkBumps(n, l) + IF l.mpr /\ selectors[n] = Never THEN 1 ELSE 0)
  BY DEF ProcessHello
<1> DEFINE s == SensedLink(n, l)
<1>2. Quiet /\ now' = now /\ firstTime' = firstTime
  BY DEF ProcessHello
<1>3. /\ s \in [symTime : Nat, time : Nat] /\ s # NoLink
      /\ s.symTime < s.time
      /\ now + VTime <= s.time /\ s.time <= now + VTime + HoldTime
      /\ link[n] # NoLink => link[n].time <= s.time
      /\ \/ l.us = "heard" /\ s.symTime = now + VTime
         \/ l.us # "heard" /\ s.symTime < now
         \/ /\ l.us # "heard" /\ link[n] # NoLink
            /\ s.symTime = link[n].symTime /\ now <= s.symTime
  BY Sensed
<1>4. /\ now \in Nat \ {0} /\ VTime \in Nat \ {0} /\ HoldTime \in Nat \ {0}
      /\ link[n] # NoLink => link[n].symTime \in Nat /\ link[n].time \in Nat
      /\ timer[n] \in Int /\ selectors[n] \in Int
      /\ \A p \in Pairs : twoHop[p] \in Int
  BY Types DEF IInv
<1> HIDE DEF s
<1>5. TypeOK'
  <2>1. link' \in [Neighbors -> [symTime : Nat, time : Nat] \cup {NoLink}]
    BY <1>1, <1>3 DEF IInv, TypeOK, s
  <2>2. timer' \in [Neighbors -> Nat \cup {Never}]
    BY <1>1, <1>3 DEF IInv, TypeOK, s, Smaller
  <2>3. nb' \in [Neighbors -> {"none", "sym", "not_sym"}]
    BY <1>1 DEF IInv, TypeOK, StatusOf
  <2>4. twoHop' \in [Pairs -> Nat \cup {Never}]
    BY <1>1, <1>4 DEF IInv, TypeOK, HeardTwoHop
  <2>5. mprSet' \subseteq Neighbors
    BY <1>1, ChoicesAreSymmetric DEF Symmetric
  <2>6. selectors' \in [Neighbors -> Nat \cup {Never}]
    BY <1>1, <1>4 DEF IInv, TypeOK
  <2>7. ansn' \in 0 .. AnsnModulus - 1
    <3>1. LinkBumps(n, l) + (IF l.mpr /\ selectors[n] = Never THEN 1 ELSE 0) \in Nat
      BY DEF LinkBumps
    <3> QED BY <1>1, <3>1, BumpType DEF IInv, TypeOK
  <2> QED BY <1>2, <2>1, <2>2, <2>3, <2>4, <2>5, <2>6, <2>7 DEF IInv, TypeOK
<1>6. link'[n] = s /\ nb'[n] = StatusOf(s)
  BY <1>1 DEF IInv, TypeOK, s
<1>7. \A m \in Neighbors : nb'[m] = "none" <=> link'[m] = NoLink
  BY <1>1, <1>3, <1>6 DEF IInv, TypeOK, StatusOf
<1>8. timer'[n] = IF link[n] # NoLink THEN timer[n] ELSE Smaller(s.time, s.symTime)
  BY <1>1 DEF IInv, TypeOK, s
<1>9. \A m \in Neighbors : LinkInv(m)'
  <2>1. LinkInv(n)'
    <3>1. link[n] # NoLink => /\ now <= timer[n] /\ timer[n] <= link[n].time
                              /\ timer[n] < now + VTime + HoldTime
                              /\ nb[n] # "sym" => link[n].symTime < now
      BY <1>2, <1>4 DEF IInv, LinkInv, Quiet, LinkDue
    <3>2. CASE l.us = "heard"
      <4>1. s.symTime = now + VTime /\ now + VTime + HoldTime <= s.time
        BY <1>4, <3>2 DEF s, SensedLink, Larger
      <4> QED BY <1>2, <1>3, <1>4, <1>6, <1>8, <3>1, <4>1
              DEF LinkInv, LinkDue, StatusOf, Smaller
    <3>3. CASE s.symTime < now
      <4>1. nb'[n] = "not_sym"
        BY <1>3, <1>4, <1>6, <3>3 DEF StatusOf
      <4>2. CASE link[n] # NoLink
        BY <1>2, <1>3, <1>4, <1>6, <1>8, <3>1, <3>3, <4>1, <4>2 DEF LinkInv, LinkDue
      <4>3. CASE link[n] = NoLink
        <5>1. s.symTime = now - 1 /\ s.time = now + VTime
          BY <1>4, <3>3, <4>3 DEF s, SensedLink, Larger
        <5>2. timer'[n] = now - 1
          BY <1>4, <1>8, <4>3, <5>1 DEF Smaller
        <5> QED BY <1>2, <1>4, <1>6, <4>1, <5>1, <5>2 DEF LinkInv, LinkDue
      <4> QED BY <4>2, <4>3
    <3>4. CASE /\ link[n] # NoLink
               /\ s.symTime = link[n].symTime /\ now <= s.symTime
      <4>1. nb[n] = "sym"
        BY <1>4, <3>1, <3>4
      <4> QED BY <1>2, <1>3, <1>4, <1>6, <1>8, <3>1, <3>4, <4>1
              DEF LinkInv, LinkDue, StatusOf
    <3> QED BY <1>3, <3>2, <3>3, <3>4
  <2>2. ASSUME NEW m \in Neighbors, m # n PROVE LinkInv(m)'
    BY <1>1, <1>2, <2>2, LinkFrame DEF IInv, TypeOK
  <2> QED BY <2>1, <2>2
<1>10. \A m \in Neighbors : LearnedInv(m)'
  <2>1. LearnedInv(n)'
    <3>1. selectors[n] <= s.time /\ \A p \in Pairs : p[1] = n => twoHop[p] <= s.time
      BY <1>3, <1>4 DEF IInv, LearnedInv
    <3>2. selectors'[n] <= s.time
      BY <1>1, <1>3, <1>4, <3>1 DEF IInv, TypeOK
    <3>3. \A p \in Pairs : p[1] = n => twoHop'[p] <= s.time
      BY <1>1, <1>3, <1>4, <3>1 DEF HeardTwoHop, Never
    <3> QED BY <1>3, <1>6, <3>2, <3>3 DEF LearnedInv
  <2>2. ASSUME NEW m \in Neighbors, m # n PROVE LearnedInv(m)'
    <3>1. \A p \in Pairs : p[1] = m => twoHop'[p] = twoHop[p]
      BY <1>1, <2>2 DEF HeardTwoHop
    <3> QED BY <1>1, <1>2, <2>2, <3>1, LearnedFrame DEF IInv, TypeOK
  <2> QED BY <2>1, <2>2
<1>11. mprSet' \subseteq Symmetric(nb')
  BY <1>1, ChoicesAreSymmetric
<1>12. ASSUME NEW m \in Neighbors, Sound(m) PROVE Sound(m)'
  <2>1. CASE m # n
    BY <1>1, <1>11, <1>12, <2>1 DEF IInv, TypeOK, Sound, Symmetric
  <2>2. CASE m = n /\ nb'[n] = "sym"
    <3>1. now <= s.symTime
      BY <1>6, <2>2 DEF StatusOf
    <3>2. link[n] # NoLink => timer[n] < now + VTime + HoldTime /\ timer[n] <= link[n].time
      BY DEF IInv, LinkInv
    <3>3. CASE l.us = "heard"
      <4>1. s.symTime = now + VTime /\ now + VTime + HoldTime <= s.time
        BY <1>4, <3>3 DEF s, SensedLink, Larger
      <4> QED BY <1>3, <1>4, <1>6, <1>8, <2>2, <3>2, <4>1 DEF Sound, Smaller
    <3>4. CASE link[n] # NoLink /\ s.symTime = link[n].symTime
      <4>1. nb[n] = "sym"
        BY <1>4, <3>1, <3>4 DEF IInv, LinkInv
      <4> QED BY <1>3, <1>4, <1>6, <1>8, <1>12, <2>2, <3>4, <4>1 DEF Sound
    <3> QED BY <1>3, <1>4, <3>1, <3>3, <3>4
  <2>3. CASE m = n /\ nb'[n] # "sym"
    BY <1>11, <2>3 DEF Sound, Symmetric
  <2> QED BY <2>1, <2>2, <2>3
<1> QED BY <1>1, <1>5, <1>7, <1>9, <1>10, <1>12, ChoicesAreSymmetric DEF IInv

\* The link tuple of a sound neighbour is removed only when it is not symmetric
\* any more.
LEMMA RemovedIsNotSymmetric ==
  ASSUME IInv, NEW n \in Neighbors, Sound(n), LinkExpires(n)
  PROVE  nb[n] # "sym" /\ Symmetric(nb') = Symmetric(nb)
<1>1. link[n] # NoLink /\ timer[n] < now /\ link[n].time < now
  BY DEF LinkExpires, LinkDue
<1>2. nb[n] # "sym"
  BY <1>1, Types DEF IInv, LinkInv, Sound
<1> QED BY <1>2 DEF LinkExpires, Symmetric, IInv, TypeOK

LEMMA LinkExpiresIInv ==
  ASSUME IInv, NEW n \in Neighbors, LinkExpires(n)
  PROVE  /\ IInv'
         /\ \A m \in Neighbors : Sound(m) => Sound(m)'
<1>1. TypeOK'
  BY DEF IInv, TypeOK, LinkExpires
<1>2. link'[n] = NoLink /\ nb'[n] = "none"
  BY DEF IInv, TypeOK, LinkExpires
<1>3. \A m \in Neighbors : LinkInv(m)'
  <2>1. LinkInv(n)'
    BY <1>2 DEF LinkInv
  <2>2. ASSUME NEW m \in Neighbors, m # n PROVE LinkInv(m)'
    BY <2>2, LinkFrame DEF IInv, TypeOK, LinkExpires
  <2> QED BY <2>1, <2>2
<1>4. \A m \in Neighbors : LearnedInv(m)'
  <2>1. LearnedInv(n)'
    BY <1>2, Types DEF IInv, LearnedInv, LinkExpires, LinkDue
  <2>2. ASSUME NEW m \in Neighbors, m # n PROVE LearnedInv(m)'
    BY <2>2, LearnedFrame DEF IInv, TypeOK, LinkExpires
  <2> QED BY <2>1, <2>2
<1>5. \A m \in Neighbors : nb'[m] = "none" <=> link'[m] = NoLink
  BY DEF IInv, TypeOK, LinkExpires
<1>6. ASSUME NEW m \in Neighbors, Sound(m) PROVE Sound(m)'
  <2>1. CASE m = n
    BY <1>2, <1>6, <2>1, RemovedIsNotSymmetric DEF Sound, LinkExpires
  <2>2. CASE m # n
    BY <1>6, <2>2 DEF IInv, TypeOK, LinkExpires, Sound
  <2> QED BY <2>1, <2>2
<1> QED BY <1>1, <1>3, <1>4, <1>5, <1>6 DEF IInv

LEMMA SymExpiresIInv ==
  ASSUME IInv, NEW n \in Neighbors, SymExpires(n)
  PROVE  /\ IInv' /\ (RelaysCover => RelaysCover')
         /\ \A m \in Neighbors : Sound(m) /\ ~ Sound(m)' => m = n /\ firstTime /\ nb[n] = "sym"
<1>1. /\ link[n] # NoLink /\ timer[n] < now
      /\ now <= link[n].time /\ link[n].symTime < now
      /\ link[n].time \in Nat
  BY Types DEF SymExpires, LinkDue, IInv, TypeOK
<1>2. /\ now' = now /\ link' = link /\ firstTime' = FALSE
      /\ timer' = [timer EXCEPT ![n] = link[n].time] /\ ansn' = ansn
  BY DEF SymExpires
<1>3. \/ UNCHANGED <<nb, twoHop, selectors, mprSet>> /\ firstTime
      \/ NeighborLoss(n)
  BY DEF SymExpires
<1>4. /\ nb' \in [Neighbors -> {"none", "sym", "not_sym"}]
      /\ twoHop' \in [Pairs -> Nat \cup {Never}]
      /\ selectors' \in [Neighbors -> Nat \cup {Never}]
      /\ \A p \in Pairs : twoHop'[p] = twoHop[p] \/ (p[1] = n /\ twoHop'[p] = Never)
      /\ \A m \in Neighbors : /\ m # n => nb'[m] = nb[m]
                              /\ selectors'[m] = selectors[m] \/ (m = n /\ selectors'[m] = Never)
  BY <1>3 DEF NeighborLoss, StatusOf, IInv, TypeOK
<1>5. nb'[n] # "none" /\ (nb'[n] = "sym" => firstTime /\ nb[n] = "sym" /\ mprSet' = mprSet)
  <2>1. CASE firstTime /\ UNCHANGED <<nb, mprSet>>
    BY <1>1, <2>1 DEF IInv
  <2>2. CASE NeighborLoss(n)
    BY <1>1, <2>2, Types DEF NeighborLoss, StatusOf, IInv, TypeOK
  <2> QED BY <1>3, <2>1, <2>2
<1>6. mprSet' \subseteq Neighbors /\ (RelaysCover => RelaysCover')
  <2>1. CASE UNCHANGED <<nb, twoHop, mprSet>>
    BY <2>1 DEF IInv, TypeOK, Symmetric, RelaysCover, ToCover, Recorded, Covers, StrictTwoHop
  <2>2. CASE NeighborLoss(n)
    BY <2>2, ChoicesAreSymmetric DEF NeighborLoss, Symmetric
  <2> QED BY <1>3, <2>1, <2>2
<1>7. TypeOK'
  BY <1>1, <1>2, <1>4, <1>6 DEF IInv, TypeOK
<1>8. \A m \in Neighbors : nb'[m] = "none" <=> link'[m] = NoLink
  BY <1>1, <1>2, <1>4, <1>5 DEF IInv
<1>9. \A m \in Neighbors : LinkInv(m)'
  <2>1. LinkInv(n)'
    <3>1. timer'[n] = link[n].time
      BY <1>2 DEF IInv, TypeOK
    <3>2. /\ link[n].symTime < link[n].time
          /\ link[n].time < now + VTime + HoldTime
      BY <1>1 DEF IInv, LinkInv, LinkDue
    <3> QED BY <1>1, <1>2, <1>5, <3>1, <3>2, Types DEF IInv, LinkInv, LinkDue
  <2>2. ASSUME NEW m \in Neighbors, m # n PROVE LinkInv(m)'
    BY <1>2, <1>4, <2>2, LinkFrame DEF IInv, TypeOK
  <2> QED BY <2>1, <2>2
<1>10. \A m \in Neighbors : LearnedInv(m)'
  <2> SUFFICES ASSUME NEW m \in Neighbors PROVE LearnedInv(m)'
    OBVIOUS
  <2>1. \A i \in Int : i \in Nat => Never <= i
    BY DEF Never
  <2>2. CASE link[m] = NoLink
    BY <1>1, <1>2, <1>4, <2>2 DEF IInv, LearnedInv
  <2>3. CASE link[m] # NoLink
    BY <1>2, <1>4, <2>1, <2>3, Types DEF IInv, LearnedInv
  <2> QED BY <2>2, <2>3
<1>11. ASSUME NEW m \in Neighbors, Sound(m), ~ Sound(m)'
       PROVE  m = n /\ firstTime /\ nb[n] = "sym"
  <2>1. CASE UNCHANGED <<nb, mprSet>> /\ firstTime
    BY <1>2, <1>11, <2>1 DEF IInv, TypeOK, Sound
  <2>2. CASE NeighborLoss(n)
    <3>1. mprSet' \subseteq Symmetric(nb')
      BY <2>2, ChoicesAreSymmetric DEF NeighborLoss
    <3>2. nb'[n] # "sym"
      BY <1>1, <2>2, Types DEF NeighborLoss, StatusOf, IInv, TypeOK
    <3> QED BY <1>2, <1>4, <1>11, <3>1, <3>2 DEF IInv, TypeOK, Sound, Symmetric
  <2> QED BY <1>3, <2>1, <2>2
<1> QED BY <1>6, <1>7, <1>8, <1>9, <1>10, <1>11 DEF IInv

LEMMA LinkTimerRestartsIInv ==
  ASSUME IInv, NEW n \in Neighbors, LinkTimerRestarts(n)
  PROVE  /\ IInv'
         /\ \A m \in Neighbors : Sound(m) => Sound(m)'
<1>1. /\ link[n] # NoLink /\ timer[n] < now
      /\ now <= link[n].time /\ now <= link[n].symTime
      /\ UNCHANGED <<now, link, nb, twoHop, mprSet, selectors, ansn, firstTime>>
      /\ timer' = [timer EXCEPT ![n] = Smaller(link[n].time, link[n].symTime)]
  BY DEF LinkTimerRestarts, LinkDue
<1>2. link[n].symTime < link[n].time /\ link[n].time <= now + VTime + HoldTime
  BY <1>1 DEF IInv, LinkInv
<1>3. timer'[n] = link[n].symTime
  BY <1>1, <1>2, Types DEF IInv, TypeOK, Smaller
<1>4. TypeOK'
  BY <1>1, <1>2, <1>3, Types DEF IInv, TypeOK, Smaller
<1>5. \A m \in Neighbors : LinkInv(m)'
  <2>1. LinkInv(n)'
    BY <1>1, <1>2, <1>3, Types DEF IInv, LinkInv, LinkDue
  <2>2. ASSUME NEW m \in Neighbors, m # n PROVE LinkInv(m)'
    BY <1>1, <2>2, LinkFrame DEF IInv, TypeOK
  <2> QED BY <2>1, <2>2
<1>6. \A m \in Neighbors : LearnedInv(m)'
  BY <1>1, LearnedFrame DEF IInv
<1>7. \A m \in Neighbors : Sound(m) => Sound(m)'
  BY <1>1, <1>2, <1>3, Types, NeighborhoodAssumption DEF IInv, TypeOK, Sound
<1> QED BY <1>1, <1>4, <1>5, <1>6, <1>7 DEF IInv

LEMMA TwoHopExpiresIInv ==
  ASSUME IInv, NEW q \in Pairs, TwoHopExpires(q)
  PROVE  IInv'
<1>1. TypeOK'
  BY DEF IInv, TypeOK, TwoHopExpires
<1>2. \A m \in Neighbors : LinkInv(m)'
  BY LinkFrame DEF IInv, TwoHopExpires
<1>3. ASSUME NEW m \in Neighbors PROVE LearnedInv(m)'
  <2>1. LearnedInv(m) /\ twoHop'[q] <= twoHop[q]
    BY <1>3, Types DEF IInv, TwoHopExpires, TypeOK, Never, TwoHopDue
  <2>2. \A p \in Pairs : p # q => twoHop'[p] = twoHop[p]
    BY DEF IInv, TwoHopExpires, TypeOK
  <2>3. twoHop'[q] \in Int
    BY DEF IInv, TwoHopExpires, TypeOK, Never
  <2> QED BY <1>3, <2>1, <2>2, <2>3, Types DEF IInv, LearnedInv, TwoHopExpires
<1> QED BY <1>1, <1>2, <1>3 DEF IInv, TwoHopExpires

LEMMA SelectorExpiresIInv ==
  ASSUME IInv, NEW n \in Neighbors, SelectorExpires(n)
  PROVE  IInv'
<1>1. ansn' \in 0 .. AnsnModulus - 1
  BY BumpType DEF IInv, TypeOK, SelectorExpires
<1>2. TypeOK'
  BY <1>1 DEF IInv, TypeOK, SelectorExpires
<1>3. \A m \in Neighbors : LinkInv(m)'
  BY LinkFrame DEF IInv, SelectorExpires
<1>4. \A m \in Neighbors : LearnedInv(m)'
  BY Types DEF IInv, TypeOK, LearnedInv, SelectorExpires, Never
<1> QED BY <1>1, <1>2, <1>3, <1>4 DEF IInv, SelectorExpires

LEMMA TickIInv ==
  ASSUME IInv, Tick
  PROVE  IInv'
<1>1. /\ Quiet /\ now < MaxTime /\ now' = now + 1
      /\ UNCHANGED <<link, timer, nb, twoHop, mprSet, selectors, ansn, firstTime>>
  BY DEF Tick
<1>2. TypeOK'
  BY <1>1, NeighborhoodAssumption DEF IInv, TypeOK
<1>3. \A n \in Neighbors : LinkInv(n)'
  BY <1>1, Types DEF IInv, LinkInv, Quiet, LinkDue
<1>4. \A n \in Neighbors : LearnedInv(n)'
  BY <1>1, Types DEF IInv, LearnedInv
<1> QED BY <1>1, <1>2, <1>3, <1>4 DEF IInv

LEMMA NextIInv == IInv /\ [Next]_vars => IInv'
<1> SUFFICES ASSUME IInv, [Next]_vars PROVE IInv'
  OBVIOUS
<1>1. ASSUME NEW n \in Neighbors, ProcessHello(n) PROVE IInv'
  BY <1>1, ProcessHelloIInv
<1>2. ASSUME NEW n \in Neighbors, LinkExpires(n) PROVE IInv'
  BY <1>2, LinkExpiresIInv
<1>3. ASSUME NEW n \in Neighbors, SymExpires(n) PROVE IInv'
  BY <1>3, SymExpiresIInv
<1>4. ASSUME NEW n \in Neighbors, LinkTimerRestarts(n) PROVE IInv'
  BY <1>4, LinkTimerRestartsIInv
<1>5. ASSUME NEW n \in Neighbors, SelectorExpires(n) PROVE IInv'
  BY <1>5, SelectorExpiresIInv
<1>6. ASSUME NEW p \in Pairs, TwoHopExpires(p) PROVE IInv'
  BY <1>6, TwoHopExpiresIInv
<1>7. CASE Tick
  BY <1>7, TickIInv
<1>8. CASE UNCHANGED vars
  BY <1>8 DEF vars, IInv, TypeOK, LinkInv, LinkDue, LearnedInv
<1> QED BY <1>1, <1>2, <1>3, <1>4, <1>5, <1>6, <1>7, <1>8 DEF Next

\* The inductive invariant holds of every run, whatever HELLOs arrive.
THEOREM Invariance == Spec => []IInv
<1>1. IInv /\ [Next]_vars => IInv'
  BY NextIInv
<1> QED BY <1>1, InitIInv, PTL DEF Spec

-----------------------------------------------------------------------------
\* Only the suppressed loss of a symmetric neighbour leaves that one unsound.
LEMMA NextSound ==
  ASSUME IInv, Next, NEW m \in Neighbors, Sound(m), ~ Sound(m)'
  PROVE  firstTime /\ SymExpires(m) /\ nb[m] = "sym"
<1>1. ASSUME NEW n \in Neighbors, SymExpires(n)
      PROVE  firstTime /\ SymExpires(m) /\ nb[m] = "sym"
  BY <1>1, SymExpiresIInv
<1>2. ASSUME NEW n \in Neighbors, ProcessHello(n) \/ LinkExpires(n) \/ LinkTimerRestarts(n)
      PROVE  FALSE
  BY <1>2, ProcessHelloIInv, LinkExpiresIInv, LinkTimerRestartsIInv
<1>3. ASSUME NEW n \in Neighbors, SelectorExpires(n) PROVE FALSE
  BY <1>3 DEF SelectorExpires, Sound
<1>4. ASSUME NEW p \in Pairs, TwoHopExpires(p) PROVE FALSE
  BY <1>4 DEF TwoHopExpires, Sound
<1>5. CASE Tick
  BY <1>5 DEF Tick, Sound
<1> QED BY <1>1, <1>2, <1>3, <1>4, <1>5 DEF Next

LEMMA StutterSound ==
  ASSUME UNCHANGED vars, NEW m \in Neighbors
  PROVE  Sound(m)' <=> Sound(m)
BY DEF vars, Sound

LEMMA InitSound == Init => firstTime /\ \A n \in Neighbors : Sound(n) /\ nb[n] # "sym"
BY DEF Init, Sound

LEMMA FirstTimeEnds ==
  ASSUME [Next]_vars
  PROVE  firstTime' => firstTime
BY DEF Next, vars, ProcessHello, LinkExpires, SymExpires, LinkTimerRestarts,
       SelectorExpires, TwoHopExpires, Tick

\* Until the flag is used every neighbour is sound, and then all but one.
OneMissed ==
  /\ firstTime => \A n \in Neighbors : Sound(n)
  /\ \A m, n \in Neighbors : ~ Sound(m) /\ ~ Sound(n) => m = n

LEMMA NextOneMissed == IInv /\ OneMissed /\ [Next]_vars => OneMissed'
<1> SUFFICES ASSUME IInv, OneMissed, [Next]_vars PROVE OneMissed'
  OBVIOUS
<1>1. CASE UNCHANGED vars
  BY <1>1, StutterSound DEF OneMissed, vars
<1>2. CASE Next
  <2>1. ASSUME NEW m \in Neighbors, Sound(m), ~ Sound(m)'
        PROVE  firstTime /\ ~ firstTime' /\ SymExpires(m)
    BY <1>2, <2>1, NextSound DEF SymExpires
  <2>2. ASSUME NEW m \in Neighbors, NEW n \in Neighbors, ~ Sound(m)', ~ Sound(n)'
        PROVE  m = n
    <3>1. CASE Sound(m) /\ SymExpires(m)
      <4>1. firstTime /\ Sound(n)
        BY <2>1, <2>2, <3>1 DEF OneMissed
      <4>2. firstTime /\ SymExpires(m) /\ ~ Sound(n)'
        BY <2>2, <3>1, <4>1
      <4> QED BY <2>2, <4>1, <4>2, SymExpiresIInv
    <3>2. CASE ~ Sound(m)
      <4>1. ~ firstTime
        BY <3>2 DEF OneMissed
      <4>2. ~ Sound(n)
        BY <2>1, <2>2, <4>1
      <4> QED BY <3>2, <4>2 DEF OneMissed
    <3> QED BY <2>1, <2>2, <3>1, <3>2
  <2>3. firstTime' => \A m \in Neighbors : Sound(m)'
    BY <2>1, FirstTimeEnds DEF OneMissed
  <2> QED BY <2>2, <2>3 DEF OneMissed
<1> QED BY <1>1, <1>2

THEOREM OneMissedInvariance == Spec => [](IInv /\ OneMissed)
<1>1. Init => OneMissed
  BY InitSound DEF OneMissed
<1> QED BY <1>1, InitIInv, NextIInv, NextOneMissed, PTL DEF Spec

-----------------------------------------------------------------------------
\* The repositories, timers and the ANSN keep their types.
THEOREM TypeCorrect == Spec => []TypeOK
<1>1. IInv => TypeOK
  BY DEF IInv
<1> QED BY <1>1, Invariance, PTL

\* Nothing learned over a link is kept when the link tuple is gone, whether its
\* neighbour loss was noticed or not.
THEOREM LearnedGoesWithItsLink == Spec => []NothingOutlivesItsLink
<1>1. IInv => NothingOutlivesItsLink
  <2> SUFFICES ASSUME IInv, Quiet, NEW n \in Neighbors, link[n] = NoLink
               PROVE  /\ selectors[n] = Never
                      /\ \A p \in Pairs : p[1] = n => twoHop[p] = Never
    BY DEF NothingOutlivesItsLink, Pairs
  <2>1. selectors[n] <= now - 1 /\ \A p \in Pairs : p[1] = n => twoHop[p] <= now - 1
    BY DEF IInv, LearnedInv
  <2> QED BY <2>1, Types DEF IInv, Quiet, SelectorDue, TwoHopDue
<1> QED BY <1>1, Invariance, PTL

\* A relay is symmetric, and a symmetric neighbour was lost less than HoldTime
\* ago.
Kept(n) ==
  /\ n \in mprSet => nb[n] = "sym"
  /\ Quiet /\ nb[n] = "sym" => now <= link[n].symTime + HoldTime

LEMMA SoundIsKept ==
  ASSUME IInv, NEW n \in Neighbors, Sound(n)
  PROVE  Kept(n)
<1> SUFFICES ASSUME Quiet, nb[n] = "sym" PROVE now <= link[n].symTime + HoldTime
  BY DEF Kept, Sound
<1>1. link[n] # NoLink
  BY DEF IInv
<1>2. timer[n] <= link[n].symTime + HoldTime /\ now <= timer[n]
  BY <1>1, Types DEF IInv, Sound, Quiet, LinkDue
<1> QED BY <1>1, <1>2, Types DEF IInv

\* Until the flag is used every relay is a symmetric neighbour, and then all but
\* one, although neighbour tuples change and go in the link timer too, which does
\* not compute the MPR set.
THEOREM RelaysStaySymmetricButOne == Spec => []OneRelayLeftBehind
<1>1. IInv /\ OneMissed => OneRelayLeftBehind
  BY DEF IInv, TypeOK, OneMissed, Sound, OneRelayLeftBehind, Symmetric
<1> QED BY <1>1, OneMissedInvariance, PTL

\* A symmetric neighbour's link tuple goes at most HoldTime after the symmetric
\* time, and the neighbour tuple with it, when a HELLO is valid no longer than a
\* LOST link is kept.
GoesInTime == \A n \in Neighbors : nb[n] = "sym" => link[n].time <= link[n].symTime + HoldTime

LEMMA NextGoesInTime ==
  ASSUME VTime <= HoldTime, IInv, GoesInTime, [Next]_vars
  PROVE  GoesInTime'
<1> SUFFICES ASSUME NEW m \in Neighbors, nb'[m] = "sym"
             PROVE  link'[m].time <= link'[m].symTime + HoldTime
  BY DEF GoesInTime
<1>1. CASE link'[m] = link[m] /\ nb[m] = "sym"
  BY <1>1 DEF GoesInTime
<1>2. ASSUME NEW n \in Neighbors, ProcessHello(n)
      PROVE  link'[m].time <= link'[m].symTime + HoldTime
  <2>1. PICK l \in Listings :
          /\ link' = [link EXCEPT ![n] = SensedLink(n, l)]
          /\ nb' = [nb EXCEPT ![n] = StatusOf(SensedLink(n, l))]
    BY <1>2 DEF ProcessHello
  <2>2. CASE m # n
    BY <2>1, <2>2, <1>1
  <2>3. CASE m = n
    <3> DEFINE s == SensedLink(n, l)
    <3>1. link'[m] = s /\ s.symTime >= now
      BY <2>1, <2>3, Types DEF IInv, TypeOK, StatusOf
    <3>2. /\ s.symTime \in Nat /\ s.time \in Nat /\ s.time <= now + VTime + HoldTime
          /\ \/ s.symTime = now + VTime
             \/ l.us # "heard" /\ link[n] # NoLink /\ s.symTime = link[n].symTime
      BY <3>1, Sensed, Types DEF IInv
    <3>3. CASE s.symTime = now + VTime
      BY <3>1, <3>2, <3>3, Types DEF IInv
    <3>4. CASE l.us # "heard" /\ link[n] # NoLink /\ s.symTime = link[n].symTime
      <4>1. s.time = Larger(link[n].time, now + VTime)
        BY <3>4 DEF SensedLink
      <4>2. nb[n] = "sym"
        BY <3>1, <3>4, Types DEF IInv, LinkInv
      <4> QED BY <4>1, <4>2, <3>1, <3>4, Types DEF GoesInTime, IInv, Larger
    <3> QED BY <3>2, <3>3, <3>4
  <2> QED BY <2>2, <2>3
<1>3. ASSUME NEW n \in Neighbors, LinkExpires(n)
      PROVE  link'[m].time <= link'[m].symTime + HoldTime
  <2>1. m # n
    BY <1>3 DEF LinkExpires, IInv, TypeOK
  <2> QED BY <2>1, <1>3, <1>1 DEF LinkExpires
<1>4. ASSUME NEW n \in Neighbors, SymExpires(n)
      PROVE  link'[m].time <= link'[m].symTime + HoldTime
  <2>1. nb[m] = "sym" /\ link' = link
    <3>1. StatusOf(link[n]) = "not_sym"
      BY <1>4, Types DEF SymExpires, LinkDue, StatusOf, IInv
    <3>2. nb' = nb \/ nb' = [nb EXCEPT ![n] = "not_sym"]
      BY <1>4, <3>1 DEF SymExpires, NeighborLoss
    <3> QED BY <1>4, <3>2 DEF SymExpires, IInv, TypeOK
  <2> QED BY <2>1, <1>1
<1> QED
  BY <1>1, <1>2, <1>3, <1>4
  DEF Next, vars, LinkTimerRestarts, SelectorExpires, TwoHopExpires, Tick

\* So with the code's values, both OLSR_NEIGHB_HOLD_TIME, a silent neighbour is
\* noticed in time even if its loss is the one that m_linkTupleTimerFirstTime
\* makes the node miss.
THEOREM LossIsNoticed ==
  ASSUME VTime <= HoldTime
  PROVE  Spec => []LossNoticedInTime
<1>1. Init => GoesInTime
  BY DEF Init, GoesInTime
<1>2. IInv /\ GoesInTime /\ [Next]_vars => GoesInTime'
  BY NextGoesInTime
<1>3. IInv /\ GoesInTime => LossNoticedInTime
  <2> SUFFICES ASSUME IInv, GoesInTime, Quiet, NEW n \in Neighbors, nb[n] = "sym"
               PROVE  now <= link[n].symTime + HoldTime
    BY DEF LossNoticedInTime
  <2>1. link[n] # NoLink /\ now <= timer[n] /\ timer[n] <= link[n].time
    BY Types DEF IInv, LinkInv, Quiet, LinkDue
  <2> QED BY <2>1, Types DEF IInv, GoesInTime
<1> QED BY <1>1, <1>2, <1>3, Invariance, PTL DEF Spec

\* m_linkTupleTimerFirstTime makes the node miss the loss of one neighbour.
\* Whatever the validity and hold times, all others are lost in time,
AllButOneKept == \A m, n \in Neighbors : ~ Kept(m) /\ ~ Kept(n) => m = n

THEOREM OneLossIsMissed == Spec => []AllButOneKept
<1>1. IInv /\ OneMissed => AllButOneKept
  BY SoundIsKept DEF OneMissed, AllButOneKept
<1> QED BY <1>1, OneMissedInvariance, PTL

\* and only the step that uses the flag up, in the timer of a neighbour whose
\* symmetric time has passed, can leave that neighbour behind: once it is heard
\* again it is looked after like the others.
OnlyTheFirstIsMissed ==
  [][\A n \in Neighbors : Sound(n) /\ ~ Sound(n)' => firstTime /\ SymExpires(n)]_vars

THEOREM FirstLossIsMissed == Spec => OnlyTheFirstIsMissed
<1>1. IInv /\ [Next]_vars =>
        [\A n \in Neighbors : Sound(n) /\ ~ Sound(n)' => firstTime /\ SymExpires(n)]_vars
  BY NextSound
<1> QED BY <1>1, Invariance, PTL DEF Spec, OnlyTheFirstIsMissed

-----------------------------------------------------------------------------
\* Whether the MPR set covers depends on these repositories only.
LEMMA CoverageFrame ==
  ASSUME RelaysCover, mprSet' = mprSet, twoHop' = twoHop, Symmetric(nb') = Symmetric(nb)
  PROVE  RelaysCover'
BY DEF RelaysCover, ToCover, StrictTwoHop, Recorded, Covers

LEMMA NextCoverage ==
  ASSUME IInv, Next, RelaysCover, ~ RelaysCover'
  PROVE  \/ \E p \in Pairs : TwoHopDue(p) /\ twoHop'[p] = Never
         \/ \E n \in Neighbors : LinkExpires(n) /\ ~ Sound(n)
<1>1. ASSUME NEW n \in Neighbors, ProcessHello(n) PROVE FALSE
  BY <1>1, ProcessHelloIInv
<1>2. ASSUME NEW n \in Neighbors, LinkExpires(n), Sound(n) PROVE FALSE
  BY <1>2, RemovedIsNotSymmetric, CoverageFrame DEF LinkExpires
<1>3. ASSUME NEW n \in Neighbors, SymExpires(n) PROVE FALSE
  BY <1>3, SymExpiresIInv
<1>4. ASSUME NEW n \in Neighbors, LinkTimerRestarts(n) \/ SelectorExpires(n)
      PROVE  FALSE
  BY <1>4, CoverageFrame DEF LinkTimerRestarts, SelectorExpires
<1>5. CASE Tick
  BY <1>5, CoverageFrame DEF Tick
<1>6. ASSUME NEW p \in Pairs, TwoHopExpires(p)
      PROVE  TwoHopDue(p) /\ twoHop'[p] = Never
  BY <1>6 DEF TwoHopExpires, IInv, TypeOK
<1> QED BY <1>1, <1>2, <1>3, <1>4, <1>5, <1>6 DEF Next

\* The link tuple whose removal uncovers is that of the missed loss.
LEMMA UncoveredByMissedLoss ==
  ASSUME IInv, OneMissed, NEW n \in Neighbors, LinkExpires(n), ~ Sound(n)
  PROVE  MissedLoss(n) \/ Symmetric(nb') = Symmetric(nb)
<1>1. nb' = [nb EXCEPT ![n] = "none"]
  BY DEF LinkExpires
<1>2. CASE nb[n] = "sym"
  <2>1. link[n] # NoLink /\ link[n].time < now /\ link[n].symTime < link[n].time
    BY DEF IInv, LinkInv, LinkExpires, LinkDue
  <2>2. link[n].symTime < now
    BY <2>1, Types DEF IInv
  <2>3. ~ firstTime
    BY DEF OneMissed
  <2> QED BY <1>1, <1>2, <2>2, <2>3 DEF MissedLoss, IInv, TypeOK
<1>3. CASE nb[n] # "sym"
  BY <1>1, <1>3 DEF Symmetric, IInv, TypeOK
<1> QED BY <1>2, <1>3

\* Only the expiry of a 2-hop tuple and the removal of the one link tuple whose
\* neighbour still counts as symmetric leave a 2-hop address uncovered.
THEOREM CoverageIsKeptButFor == Spec => ExpiryOrMissedLossUncovers
<1>1. IInv /\ OneMissed /\ [Next]_vars =>
        [RelaysCover /\ ~ RelaysCover' =>
           \/ \E p \in Pairs : TwoHopDue(p) /\ twoHop'[p] = Never
           \/ \E n \in Neighbors : MissedLoss(n)]_vars
  <2> SUFFICES ASSUME IInv, OneMissed, Next, RelaysCover, ~ RelaysCover'
               PROVE  \/ \E p \in Pairs : TwoHopDue(p) /\ twoHop'[p] = Never
                      \/ \E n \in Neighbors : MissedLoss(n)
    OBVIOUS
  <2>1. ASSUME NEW n \in Neighbors, LinkExpires(n), ~ Sound(n)
        PROVE  MissedLoss(n)
    <3>1. Symmetric(nb') # Symmetric(nb)
      BY <2>1, CoverageFrame DEF LinkExpires
    <3> QED BY <2>1, <3>1, UncoveredByMissedLoss
  <2> QED BY <2>1, NextCoverage
<1> QED BY <1>1, OneMissedInvariance, PTL DEF Spec, ExpiryOrMissedLossUncovers
=============================================================================
