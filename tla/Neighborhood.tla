---------------------------- MODULE Neighborhood ----------------------------
(***************************************************************************)
(* The neighbourhood of one OLSR node: its link set, neighbour set, 2-hop  *)
(* neighbour set, MPR set, MPR selector set and ANSN, driven by the HELLOs *)
(* that reach it (any subset of those sent: losing one is not receiving    *)
(* it) and by the expiry timers of its tuples.                             *)
(*                                                                         *)
(* Every node has one interface, so an interface address is a main         *)
(* address, and no defence strategy is attached.  The clock counts units   *)
(* much longer than the microsecond a timer is scheduled after its time:   *)
(* DELAY(t) is the value t and the timer is due as soon as t < now, before *)
(* anything else happens at the new instant.                               *)
(***************************************************************************)
EXTENDS MprRules, FiniteSets

CONSTANTS Neighbors,         \* nodes whose HELLOs may reach this node
          Remote,            \* other nodes, listed in the HELLOs of neighbours
          Self,              \* this node's main address
          Will,              \* the willingness each neighbour is configured with
          Contents,          \* Contents[n]: what a HELLO of n may say of others
          VTime,             \* validity time carried by HELLOs
          HoldTime,          \* OLSR_NEIGHB_HOLD_TIME of this node
          AnsnModulus,       \* OLSR_MAX_SEQ_NUM + 1
          MaxTime            \* bound of the clock

Addresses == Neighbors \cup Remote

ASSUME NeighborhoodAssumption ==
  /\ Self \notin Neighbors \cup Remote
  /\ Will \in [Neighbors -> 0 .. 7]
  /\ Contents \in [Neighbors -> SUBSET [symNeigh : SUBSET Addresses, notNeigh : SUBSET Addresses]]
  /\ VTime \in Nat \ {0}
  /\ HoldTime \in Nat \ {0}
  /\ AnsnModulus \in Nat \ {0, 1, 2, 3}
  /\ MaxTime \in Nat

VARIABLES now,        \* Simulator::Now
          link,       \* link[n]: the link tuple of neighbour n, or NoLink
          timer,      \* timer[n]: what LinkTupleTimerExpire was last DELAYed to
          nb,         \* nb[n]: status of the neighbour tuple, or "none"
          twoHop,     \* twoHop[p]: expiry of the 2-hop tuple p, or Never
          mprSet,     \* the MPR set
          selectors,  \* selectors[n]: expiry of the MPR selector tuple, or Never
          ansn,       \* m_ansn
          firstTime   \* m_linkTupleTimerFirstTime

vars == <<now, link, timer, nb, twoHop, mprSet, selectors, ansn, firstTime>>

Never == -1
NoLink == [symTime |-> Never, time |-> Never]
Pairs == {p \in Neighbors \X Addresses : p[1] # p[2]}

\* How a HELLO of a neighbour may list this node: not at all, with a SYM or
\* ASYM link, or with a LOST link; and as a relay of the sender or not.  The
\* rest of a HELLO is a member of Contents[n]: the addresses it advertises as
\* SYM_NEIGH or MPR_NEIGH, and those it advertises as NOT_NEIGH.
Listings == {[us |-> "absent", mpr |-> FALSE]}
              \cup [us : {"heard", "lost"}, mpr : BOOLEAN]

-----------------------------------------------------------------------------
Symmetric(status) == {n \in Neighbors : status[n] = "sym"}
Recorded(exp) == {p \in Pairs : exp[p] # Never}

\* The tuples an MPR computation over these repositories has to cover.
ToCover(status, exp) ==
  StrictTwoHop(Symmetric(status), Will, Recorded(exp), Self)

\* Mutant: computed before the link set is brought up to date.
MprComputationFirst ==
  mprSet' \in MprChoices(Symmetric(nb), Will, ToCover(nb, twoHop))

\* MprComputation, by its contract: the outcomes the algorithm may have.
MprComputation ==
  mprSet' \in MprChoices(Symmetric(nb'), Will, ToCover(nb', twoHop'))

Smaller(a, b) == IF a < b THEN a ELSE b
Larger(a, b) == IF a > b THEN a ELSE b

\* Mutant: no wrap-around.
BumpUnbounded(k) == ansn + k

\* IncrementAnsn, k times.
Bump(k) == (ansn + k) % AnsnModulus

\* Mutant: symmetric as long as the link tuple is valid.
StatusWhileValid(l) == IF l.time >= now THEN "sym" ELSE "not_sym"

\* The status LinkTupleAdded and LinkTupleUpdated derive from a link tuple.
StatusOf(l) == IF l.symTime >= now THEN "sym" ELSE "not_sym"

\* Timers that must fire before anything else happens.
LinkDue(n) == link[n] # NoLink /\ timer[n] < now
TwoHopDue(p) == twoHop[p] # Never /\ twoHop[p] < now
SelectorDue(n) == selectors[n] # Never /\ selectors[n] < now
Quiet == /\ \A n \in Neighbors : ~ LinkDue(n) /\ ~ SelectorDue(n)
         /\ \A p \in Pairs : ~ TwoHopDue(p)

-----------------------------------------------------------------------------
Init ==
  /\ now = 1
  /\ link = [n \in Neighbors |-> NoLink]
  /\ timer = [n \in Neighbors |-> Never]
  /\ nb = [n \in Neighbors |-> "none"]
  /\ twoHop = [p \in Pairs |-> Never]
  /\ mprSet = {}
  /\ selectors = [n \in Neighbors |-> Never]
  /\ ansn = AnsnModulus - 1
  /\ firstTime = TRUE

\* Mutant: does not prolong the link tuple by the validity of the HELLO.
SensedLinkAsIs(n, l) ==
  LET known == link[n] # NoLink
  IN  [symTime |-> IF l.us = "heard" THEN now + VTime
                   ELSE IF known /\ l.us = "absent" THEN link[n].symTime
                   ELSE now - 1,
       time |-> IF l.us = "heard" THEN now + VTime + HoldTime
                ELSE IF known THEN link[n].time
                ELSE now + VTime]

\* LinkSensing: the link tuple after a HELLO with this listing.
SensedLink(n, l) ==
  LET known == link[n] # NoLink
      symTime == IF l.us = "heard" THEN now + VTime
                 ELSE IF known /\ l.us = "absent" THEN link[n].symTime
                 ELSE now - 1
      time == IF l.us = "heard" THEN now + VTime + HoldTime
              ELSE IF known THEN link[n].time
              ELSE now + VTime
  IN  [symTime |-> symTime, time |-> Larger(time, now + VTime)]

\* LinkSensing: a new link tuple creates the neighbour tuple (twice when the
\* HELLO lists this node: once from LinkTupleUpdated, once from
\* LinkTupleAdded), and every creation increments the ANSN.
LinkBumps(n, l) ==
  IF link[n] # NoLink THEN 0 ELSE IF l.us = "absent" THEN 1 ELSE 2

\* PopulateTwoHopNeighborSet: refreshed only over a link that is symmetric.
HeardTwoHop(n, h, symTime) ==
  [p \in Pairs |->
     IF p[1] # n \/ symTime < now THEN twoHop[p]
     ELSE IF p[2] \in h.notNeigh THEN Never
     ELSE IF p[2] \in h.symNeigh THEN now + VTime
     ELSE twoHop[p]]

\* ProcessHello: link sensing, the 2-hop set, the MPR set, the selectors.
ProcessHello(n) ==
  /\ Quiet
  /\ \E l \in Listings, h \in Contents[n] :
       LET sensed == SensedLink(n, l)
           newSelector == l.mpr /\ selectors[n] = Never
       IN  /\ link' = [link EXCEPT ![n] = sensed]
           /\ timer' = IF link[n] # NoLink THEN timer
                       ELSE [timer EXCEPT ![n] = Smaller(sensed.time, sensed.symTime)]
           /\ nb' = [nb EXCEPT ![n] = StatusOf(sensed)]
           /\ twoHop' = HeardTwoHop(n, h, sensed.symTime)
           /\ MprComputation
           /\ selectors' = IF l.mpr
                           THEN [selectors EXCEPT ![n] = now + VTime] ELSE selectors
           /\ ansn' = Bump(LinkBumps(n, l) + IF newSelector THEN 1 ELSE 0)
  /\ UNCHANGED <<now, firstTime>>

-----------------------------------------------------------------------------
\* LinkTupleTimerExpire, first branch: RemoveLinkTuple.
LinkExpires(n) ==
  /\ LinkDue(n)
  /\ link[n].time < now
  /\ link' = [link EXCEPT ![n] = NoLink]
  /\ timer' = [timer EXCEPT ![n] = Never]
  /\ nb' = [nb EXCEPT ![n] = "none"]
  /\ UNCHANGED <<now, twoHop, mprSet, selectors, ansn, firstTime>>

\* Mutant: the MPR set is left for the next HELLO to compute.
NeighborLossLazily(n) ==
  /\ nb' = [nb EXCEPT ![n] = StatusOf(link[n])]
  /\ twoHop' = [p \in Pairs |-> IF p[1] = n THEN Never ELSE twoHop[p]]
  /\ selectors' = [selectors EXCEPT ![n] = Never]
  /\ UNCHANGED mprSet

\* NeighborLoss: the status is recomputed, the 2-hop tuples and the selector
\* tuple of the neighbour are erased, the MPR set is computed again.
NeighborLoss(n) ==
  /\ nb' = [nb EXCEPT ![n] = StatusOf(link[n])]
  /\ twoHop' = [p \in Pairs |-> IF p[1] = n THEN Never ELSE twoHop[p]]
  /\ selectors' = [selectors EXCEPT ![n] = Never]
  /\ MprComputation

\* LinkTupleTimerExpire, second branch: the symmetric time has passed.  The
\* first time this branch runs on a node it does not call NeighborLoss.
SymExpires(n) ==
  /\ LinkDue(n)
  /\ link[n].time >= now
  /\ link[n].symTime < now
  /\ IF firstTime THEN UNCHANGED <<nb, twoHop, selectors, mprSet>> ELSE NeighborLoss(n)
  /\ firstTime' = FALSE
  /\ timer' = [timer EXCEPT ![n] = link[n].time]
  /\ UNCHANGED <<now, link, ansn>>

\* LinkTupleTimerExpire, last branch: the tuple was refreshed meanwhile.
LinkTimerRestarts(n) ==
  /\ LinkDue(n)
  /\ link[n].time >= now
  /\ link[n].symTime >= now
  /\ timer' = [timer EXCEPT ![n] = Smaller(link[n].time, link[n].symTime)]
  /\ UNCHANGED <<now, link, nb, twoHop, mprSet, selectors, ansn, firstTime>>

\* Nb2hopTupleTimerExpire: a refreshed tuple is not due, an expired one goes.
TwoHopExpires(p) ==
  /\ TwoHopDue(p)
  /\ twoHop' = [twoHop EXCEPT ![p] = Never]
  /\ UNCHANGED <<now, link, timer, nb, mprSet, selectors, ansn, firstTime>>

\* MprSelTupleTimerExpire: RemoveMprSelectorTuple increments the ANSN.
SelectorExpires(n) ==
  /\ SelectorDue(n)
  /\ selectors' = [selectors EXCEPT ![n] = Never]
  /\ ansn' = Bump(1)
  /\ UNCHANGED <<now, link, timer, nb, twoHop, mprSet, firstTime>>

\* Time passes only when no timer is due.
Tick ==
  /\ Quiet
  /\ now < MaxTime
  /\ now' = now + 1
  /\ UNCHANGED <<link, timer, nb, twoHop, mprSet, selectors, ansn, firstTime>>

Next ==
  \/ \E n \in Neighbors : \/ ProcessHello(n) \/ LinkExpires(n) \/ SymExpires(n)
                          \/ LinkTimerRestarts(n) \/ SelectorExpires(n)
  \/ \E p \in Pairs : TwoHopExpires(p)
  \/ Tick

Spec == Init /\ [][Next]_vars

-----------------------------------------------------------------------------
\* Type correctness.
TypeOK ==
  /\ now \in 1 .. MaxTime + 1
  /\ link \in [Neighbors -> [symTime : Nat, time : Nat] \cup {NoLink}]
  /\ timer \in [Neighbors -> Nat \cup {Never}]
  /\ nb \in [Neighbors -> {"none", "sym", "not_sym"}]
  /\ twoHop \in [Pairs -> Nat \cup {Never}]
  /\ mprSet \subseteq Neighbors
  /\ selectors \in [Neighbors -> Nat \cup {Never}]
  /\ ansn \in 0 .. AnsnModulus - 1
  /\ firstTime \in BOOLEAN

\* A relay is a symmetric neighbour whose tuples are still there, but for one
\* that m_linkTupleTimerFirstTime may leave behind.  The set is recomputed by
\* HELLOs and by NeighborLoss only, while link and neighbour tuples also go in
\* LinkTupleTimerExpire and the 2-hop tuples by their own timers; a relay that
\* left would still be expected to forward.
OneRelayLeftBehind ==
  /\ firstTime => mprSet \subseteq Symmetric(nb)
  /\ \A m, n \in mprSet \ Symmetric(nb) : m = n

\* The MPR set reaches every strict 2-hop address, and no HELLO and no timer
\* leaves an address without a relay (until the next HELLO) but for two: the
\* expiry of a 2-hop tuple and, once the flag was used up, the removal of a
\* link tuple of which the neighbour still counts as symmetric.
RelaysCover == Covers(mprSet, ToCover(nb, twoHop))
MissedLoss(n) == ~ firstTime /\ nb[n] = "sym" /\ link[n].symTime < now /\ nb'[n] = "none"
ExpiryOrMissedLossUncovers ==
  [][RelaysCover /\ ~ RelaysCover' =>
       \/ \E p \in Pairs : TwoHopDue(p) /\ twoHop'[p] = Never
       \/ \E n \in Neighbors : MissedLoss(n)]_vars

\* A neighbour is not taken for symmetric long after its link stopped being
\* heard: at most HoldTime after the symmetric time, when the link tuple is
\* LOST and sensed again before its pending timer fires, or the loss is the one
\* that m_linkTupleTimerFirstTime makes the node miss.
LossNoticedInTime ==
  Quiet => \A n \in Neighbors : nb[n] = "sym" => now <= link[n].symTime + HoldTime

\* No repository outlives the link it was learned over: a 2-hop tuple or an
\* MPR selector of a neighbour whose link tuple was removed.
NothingOutlivesItsLink ==
  Quiet => /\ \A n \in Neighbors : link[n] = NoLink => selectors[n] = Never
           /\ \A p \in Pairs : link[p[1]] = NoLink => twoHop[p] = Never

\* The comment of LinkTupleTimerExpire: a link tuple that is not expired but
\* whose symmetric time has passed when the timer fires is a neighbour loss.
LossOnSymExpiry ==
  [][\A n \in Neighbors :
       LinkDue(n) /\ link[n].symTime < now /\ link[n].time >= now /\ timer'[n] # timer[n]
         => nb'[n] # "sym" /\ n \notin mprSet']_vars

\* The ANSN numbers the advertised neighbour set: it changes with the set of
\* MPR selectors.
Advertised(sel) == {n \in Neighbors : sel[n] # Never}
AnsnNumbersTheSet ==
  [][Advertised(selectors') # Advertised(selectors) => ansn' # ansn]_vars
=============================================================================
