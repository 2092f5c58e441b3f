--------------------------- MODULE ConsistencyRules ---------------------------
(***************************************************************************)
(* TrustDefense with its other source of verdicts: OlsrConsistencyRules,   *)
(* which compares each TC of a neighbour with the node's MPR set (formulas *)
(* 7 and 9b) and with what the neighbour's last HELLO listed (formula 6),  *)
(* and OlsrAlertDistributor, which shows the proofs of formulas 6 and 7 to *)
(* the other nodes: one distant peer stands for them, and the bus delivers *)
(* at once.                                                                *)
(*                                                                         *)
(* The neighbours do not lie.  A neighbour lists this node in its HELLOs   *)
(* while their link is symmetric and in its TCs as long as it holds it a   *)
(* selector, and any other node that became its symmetric neighbour by     *)
(* naming it a relay.  The link runs out when this node drops the HELLOs   *)
(* of a neighbour it mistrusts.  Rules and monitor are looked at apart:    *)
(* either is enabled, and what the rules need beyond TrustDefense stands   *)
(* still where the monitor is.                                             *)
(***************************************************************************)
EXTENDS TrustDefense

CONSTANTS MaxTcDelay,  \* how long a TC and its re-aired copies keep coming
          MaxCalm      \* how far calm counts: beyond every window

ASSUME RulesAssumption ==
  /\ MaxTcDelay \in Nat \ {0}
  /\ MaxCalm \in Nat /\ MaxCalm > MaxJitter + SelectorHold + MaxTcDelay
  /\ HelloInterval > MaxJitter

VARIABLES behind,    \* behind[n]: the other node is a neighbour and a selector of n
          helloOf,   \* helloOf[n]: time left of the HELLO timer of n
          helloAir,  \* helloAir[n]: the HELLO n has queued, or NoMessage
          tcOf,      \* tcOf[n]: the TC of n that still arrives, or NoMessage
          advSym,    \* m_advSymNeighbors: of each neighbour, or Unknown
          symLink,   \* symLink[n]: this node takes its link to n for symmetric
          peer       \* peer[n]: formulas in m_seen, and the time left of the mistrust

\* What only the properties read.
VARIABLE calm         \* calm[n]: for how long n has been a relay, or has not been one,
                      \* and what is behind it has not changed

links == <<behind, helloOf, helloAir, tcOf, advSym, symLink>>
rulesVars == <<vars, links, peer, calm>>

NoMessage == [list |-> {}, left |-> Off]
Unknown == {"unknown"}

\* How long after a change each formula may still blame a neighbour: the relay
\* learns from a queued HELLO that it is one, forgets it when the selector
\* tuple runs out, and shows what it is told in TCs that are under way.
Window7 == MaxJitter + SelectorHold + MaxTcDelay
Window9b == HelloInterval + MaxJitter + MaxTcDelay
Window6 == IF HelloInterval + MaxJitter > MaxTcDelay
           THEN HelloInterval + MaxJitter ELSE MaxTcDelay

-----------------------------------------------------------------------------
RulesInit ==
  /\ Init
  /\ behind = [n \in Neighbors |-> FALSE]
  /\ helloOf \in [Neighbors -> IF Monitored THEN {HelloInterval} ELSE 1 .. HelloInterval]
  /\ helloAir = [n \in Neighbors |-> NoMessage]
  /\ tcOf = [n \in Neighbors |-> NoMessage]
  /\ advSym = [n \in Neighbors |-> Unknown]
  /\ symLink = [n \in Neighbors |-> Monitored]
  /\ peer = [n \in Neighbors |-> [seen |-> {}, left |-> Trusted]]
  /\ calm = [n \in Neighbors |-> MaxCalm]

\* The other node comes to name n its relay, or is lost.
MeetOther(n) ==
  /\ ~ Monitored
  /\ behind' = [behind EXCEPT ![n] = ~ @]
  /\ calm' = [calm EXCEPT ![n] = 0]
  /\ UNCHANGED <<vars, helloOf, helloAir, tcOf, advSym, symLink, peer>>

\* The symmetric time of the link passes here, after HELLOs of n that were lost
\* or dropped for longer than it takes to compute the relays anew; n learns of
\* it from a HELLO that lists the link as LOST.
LinkRunsOut(n) ==
  /\ ~ Monitored /\ symLink[n]
  /\ Lossy \/ (IsMalicious(n) /\ n \notin mprSet)
  /\ symLink' = [symLink EXCEPT ![n] = FALSE]
  /\ UNCHANGED <<vars, behind, helloOf, helloAir, tcOf, advSym, peer, calm>>

\* NeighborLoss of n, later: this node is its selector no more.
NeighborLoss(n) ==
  /\ ~ symLink[n] /\ selector[n] > 0
  /\ selector' = [selector EXCEPT ![n] = 0]
  /\ UNCHANGED <<setup, mprSet, records, verdicts, queue, timers, tcAir, dataAir,
                 links, peer, calm>>

\* What n lists: in a HELLO its symmetric neighbours, where it is the first to
\* find a link symmetric and may be the last, in a TC its selectors.
SymNeighborsOf(n) == {known \cup (IF behind[n] THEN {"other"} ELSE {}) :
                        known \in {{"self"}} \cup (IF symLink[n] THEN {} ELSE {{}})}
SelectorsOf(n) == (IF selector[n] > 0 THEN {"self"} ELSE {})
                    \cup (IF behind[n] THEN {"other"} ELSE {})

\* n queues a HELLO, or a TC when it has selectors; its TCs are further apart
\* than one takes to arrive.
QueueHello(n) ==
  /\ ~ Monitored /\ helloOf[n] = 0
  /\ \E list \in SymNeighborsOf(n) :
       helloAir' = [helloAir EXCEPT ![n] = [list |-> list, left |-> MaxJitter]]
  /\ helloOf' = [helloOf EXCEPT ![n] = HelloInterval]
  /\ UNCHANGED <<vars, behind, tcOf, advSym, symLink, peer, calm>>

QueueTc(n) ==
  /\ ~ Monitored /\ tcOf[n] = NoMessage
  /\ SelectorsOf(n) # {}
  /\ tcOf' = [tcOf EXCEPT ![n] = [list |-> SelectorsOf(n), left |-> MaxTcDelay]]
  /\ UNCHANGED <<vars, behind, helloOf, helloAir, advSym, symLink, peer, calm>>

\* Mutant: what the first HELLO listed is kept.
OnRecvHelloOnce(n) ==
  advSym' = [advSym EXCEPT ![n] = IF @ = Unknown THEN helloAir[n].list ELSE @]

\* OnRecvHello, which looks at the HELLOs of mistrusted neighbours as well.
OnRecvHello(n) == advSym' = [advSym EXCEPT ![n] = helloAir[n].list]

\* LinkSensing of this node, which drops the HELLOs of mistrusted neighbours.
LinkSensing(n) ==
  symLink' = [symLink EXCEPT ![n] = @ \/ ("self" \in helloAir[n].list /\ ~ IsMalicious(n))]

\* The HELLO that n has queued arrives or is lost.
RecvHello(n) ==
  /\ helloAir[n] # NoMessage
  /\ \/ OnRecvHello(n) /\ LinkSensing(n)
     \/ Lossy /\ UNCHANGED <<advSym, symLink>>
  /\ helloAir' = [helloAir EXCEPT ![n] = NoMessage]
  /\ UNCHANGED <<vars, behind, helloOf, tcOf, peer, calm>>

-----------------------------------------------------------------------------
\* The proofs of the formulas that the TC of n that is under way falsifies.
Proof(formula, n, reference) ==
  [formula |-> formula, accused |-> n, advertised |-> tcOf[n].list, reference |-> reference]

\* Mutant: formula 6 swaps what was advertised and what it refers to.
ProofsSwapped(n) ==
  (IF "self" \in tcOf[n].list /\ n \notin mprSet
   THEN {Proof("7", n, mprSet)} ELSE {})
  \cup (IF advSym[n] # Unknown /\ ~ (tcOf[n].list \subseteq advSym[n])
        THEN {[formula |-> "6", accused |-> n, advertised |-> advSym[n],
               reference |-> tcOf[n].list]} ELSE {})

Proofs(n) ==
  (IF "self" \in tcOf[n].list /\ n \notin mprSet
   THEN {Proof("7", n, mprSet)} ELSE {})
  \cup (IF n \in mprSet /\ "self" \notin tcOf[n].list
        THEN {[formula |-> "9b", accused |-> n, advertised |-> {}, reference |-> {}]} ELSE {})
  \cup (IF advSym[n] # Unknown /\ ~ (tcOf[n].list \subseteq advSym[n])
        THEN {Proof("6", n, advSym[n])} ELSE {})
Blames(n, formula) == tcOf[n] # NoMessage /\ \E p \in Proofs(n) : p.formula = formula

IsAnnounceable(p) == p.formula \in {"6", "7"}

\* ConsistencyProof::Verify, the accuser being this node.
Verify(p) ==
  \/ p.formula = "6" /\ \E s \in p.advertised : s \notin p.reference
  \/ p.formula = "7" /\ "self" \in p.advertised /\ p.accused \notin p.reference

\* Mutant: no duplicate key is kept.
AnnounceAnew(n, proofs) ==
  peer' = [peer EXCEPT ![n].left =
             IF \E p \in proofs : Verify(p) THEN MistrustDuration ELSE @]

\* Announce, Broadcast and Deliver: the key is recorded before the proof is
\* verified, and is never erased.
Announce(n, proofs) ==
  LET new == {p \in proofs : p.formula \notin peer[n].seen}
  IN  peer' = [peer EXCEPT ![n] =
        [seen |-> @.seen \cup {p.formula : p \in new},
         left |-> IF \E p \in new : Verify(p) THEN MistrustDuration ELSE @.left]]

\* OnRecvTc, OnConsistencyMistrust and MistrustExact.  Every copy of the TC is
\* judged: the hook stands before the duplicate set and the verdicts.
OnRecvTc(n) ==
  /\ tcOf[n] # NoMessage /\ Proofs(n) # {}
  /\ MistrustExact({n})
  /\ Announce(n, {p \in Proofs(n) : IsAnnounceable(p)})
  /\ UNCHANGED <<setup, mprSet, records, failCount, queue, timers, selector, tcAir,
                 dataAir, links, calm>>

-----------------------------------------------------------------------------
\* Mutant: the mistrusts of the peer are not checked.
RulesPeriodicCheckHere == PeriodicCheck /\ UNCHANGED <<links, peer, calm>>

\* Steps of TrustDefense.  A relay is a symmetric neighbour, unless it was lost
\* unnoticed.  The peer checks its mistrusts as this node does.
RulesMprComputation ==
  /\ MprComputation
  /\ Lossy \/ \A n \in mprSet' : symLink[n]
  /\ calm' = [n \in Neighbors |->
       IF ~ Monitored /\ (n \in mprSet) # (n \in mprSet') THEN 0 ELSE calm[n]]
  /\ UNCHANGED <<links, peer>>

RulesPeriodicCheck ==
  /\ PeriodicCheck
  /\ peer' = [n \in Neighbors |->
       IF peer[n].left <= 0 THEN [peer[n] EXCEPT !.left = Trusted] ELSE peer[n]]
  /\ UNCHANGED <<links, calm>>

TrustStep ==
  /\ \/ SendHello \/ SendTc \/ NoTcToSend \/ SendQueuedMessages \/ Sweep
     \/ \E n \in Neighbors : ReairTc(n)
     \/ \E u \in Uids, n \in Neighbors, lastHop \in BOOLEAN : RouteOutput(u, n, lastHop)
     \/ \E u \in Uids : ReairData(u)
  /\ UNCHANGED <<links, peer, calm>>

RulesTick ==
  /\ Tick
  /\ IF Monitored THEN UNCHANGED <<links, peer, calm>>
     ELSE /\ \A n \in Neighbors : helloOf[n] # 0 /\ helloAir[n].left # 0
          /\ helloOf' = [n \in Neighbors |-> helloOf[n] - 1]
          /\ helloAir' = [n \in Neighbors |-> [helloAir[n] EXCEPT !.left = Elapse(@)]]
          /\ tcOf' = [n \in Neighbors |-> IF tcOf[n].left > 0
                                          THEN [tcOf[n] EXCEPT !.left = @ - 1] ELSE NoMessage]
          /\ peer' = [n \in Neighbors |-> IF peer[n].left = Trusted THEN peer[n]
                                          ELSE [peer[n] EXCEPT !.left = @ - 1]]
          /\ calm' = [n \in Neighbors |-> IF calm[n] < MaxCalm THEN calm[n] + 1 ELSE MaxCalm]
          /\ UNCHANGED <<behind, advSym, symLink>>

RulesNext ==
  \/ RulesMprComputation \/ RulesPeriodicCheck \/ TrustStep \/ RulesTick
  \/ \E n \in Neighbors :
       \/ MeetOther(n) \/ LinkRunsOut(n) \/ NeighborLoss(n)
       \/ QueueHello(n) \/ QueueTc(n) \/ RecvHello(n) \/ OnRecvTc(n)

RulesSpec == RulesInit /\ [][RulesNext]_rulesVars

\* As in TrustDefense; the neighbours' HELLO timers and queues run as well.
RulesFairness ==
  /\ Fairness
  /\ \A n \in Neighbors : WF_rulesVars(QueueHello(n)) /\ WF_rulesVars(RecvHello(n))
RulesFairSpec == RulesSpec /\ RulesFairness

-----------------------------------------------------------------------------
\* Type correctness.
RulesTypeOK ==
  /\ TypeOK
  /\ behind \in [Neighbors -> BOOLEAN]
  /\ helloOf \in [Neighbors -> 0 .. HelloInterval]
  /\ helloAir \in [Neighbors -> [list : SUBSET {"self", "other"}, left : Off .. MaxJitter]]
  /\ tcOf \in [Neighbors -> [list : SUBSET {"self", "other"}, left : Off .. MaxTcDelay]]
  /\ advSym \in [Neighbors -> {Unknown} \cup SUBSET {"self", "other"}]
  /\ symLink \in [Neighbors -> BOOLEAN]
  /\ peer \in [Neighbors -> [seen : SUBSET {"6", "7"},
                             left : {Trusted} \cup 1 - DefensePeriod .. MistrustDuration]]
  /\ calm \in [Neighbors -> 0 .. MaxCalm]

\* The rules have no grace window of their own, so that they do blame
\* neighbours that do not lie, but only for a bounded time after a change: by
\* formula 7 after the neighbour was dropped from the MPR set, whatever is
\* lost; and, when nothing is lost, by formula 9b after it was chosen and by
\* formula 6 after its own neighbourhood changed or, like formula 7, after it
\* was dropped, when its link to this node has run out since.
BlamedInWindow ==
  \A n \in Neighbors :
    /\ Blames(n, "7") => calm[n] <= Window7
    /\ ~ Lossy /\ Blames(n, "9b") => calm[n] <= Window9b
    /\ ~ Lossy /\ Blames(n, "6") => calm[n] <= Window6 \/ Blames(n, "7")

\* What this node announces convinces a peer, at whatever moment of the MPR
\* set and of the last HELLO it is: the key a peer records before it verifies
\* the proof never blocks a later, valid alert.
AlertsVerify ==
  \A n \in Neighbors :
    tcOf[n] # NoMessage => \A p \in Proofs(n) : IsAnnounceable(p) => Verify(p)

\* A mistrust heals: no neighbour stays mistrusted for ever.  The next MPR
\* computation stops the accusations of the forward monitor and of formula 9b,
\* the selector tuple behind those of formula 7 runs out, and formula 6 has no
\* ground once the neighbourhood of the neighbour settles.
Rehabilitated ==
  <>[][FALSE]_behind => \A n \in Neighbors : []<>(~ IsMalicious(n))

\* Alerts, however often an accuser repeats them, are believed once for each
\* formula: in the end no peer mistrusts a node it has not judged itself.
PeersForget == \A n \in Neighbors : <>[](peer[n].left = Trusted)
=============================================================================
