------------------------ MODULE ConsistencyRules_proofs ------------------------
(***************************************************************************)
(* Proofs about ConsistencyRules: how long after a change a formula can    *)
(* still blame a neighbour that does not lie, for all intervals, jitters   *)
(* and delays.  The inductive invariant follows a change on its way: from  *)
(* the HELLO timer into a queued HELLO, from there into the selector tuple *)
(* or the recorded list, and into the TC that is under way; calm and what  *)
(* is left of each stage add up to no more than the window.  Beyond it the *)
(* rules renew no verdict, and an alert none twice.                        *)
(***************************************************************************)
EXTENDS ConsistencyRules, TrustDefense_proofs

-----------------------------------------------------------------------------
Names(n) == \E i \in 1 .. Len(queue) : queue[i].type = "hello" /\ n \in queue[i].mprs

\* What is on the air, and what stands still with the forward monitor.
LinksInv ==
  \A n \in Neighbors :
    /\ Monitored => /\ behind[n] = FALSE /\ helloAir[n] = NoMessage /\ tcOf[n] = NoMessage
                    /\ peer[n].left = Trusted
    /\ helloAir[n] # NoMessage => /\ helloAir[n].left >= 0
                                  /\ helloOf[n] >= HelloInterval - MaxJitter + helloAir[n].left
    /\ tcOf[n] # NoMessage => tcOf[n].left >= 0
    /\ peer[n].left # Trusted => peer[n].left >= 1 - DefensePeriod + timers.defense

\* A neighbour of a symmetric link lists this node in its HELLOs; a relay is one.
SymInv(n) ==
  /\ Monitored => symLink[n]
  /\ ~ Monitored /\ symLink[n] =>
       /\ "self" \in advSym[n]
       /\ helloAir[n] # NoMessage => "self" \in helloAir[n].list
  /\ ~ Monitored /\ ~ Lossy /\ n \in mprSet => symLink[n]

\* A neighbour that is no relay: this node may still be its selector.
DroppedInv(n) ==
  n \notin mprSet =>
    /\ Names(n) => timers.send # Off /\ calm[n] + timers.send <= MaxJitter
    /\ selector[n] > 0 => calm[n] + selector[n] <= MaxJitter + SelectorHold
    /\ "self" \in tcOf[n].list => calm[n] + tcOf[n].left <= Window7

\* A relay: it will be told, it is being told, or it knows for long enough.
ChosenInv(n) ==
  n \in mprSet =>
    /\ \/ calm[n] + timers.hello <= HelloInterval
       \/ Names(n) /\ timers.send # Off /\ calm[n] + timers.send <= HelloInterval + MaxJitter
       \/ selector[n] > timers.hello + MaxJitter
       \/ Names(n) /\ timers.send # Off /\ selector[n] > timers.send
    /\ tcOf[n] # NoMessage /\ "self" \notin tcOf[n].list => calm[n] + tcOf[n].left <= Window9b

\* The other node: it will be listed, it is being listed, or it is recorded;
\* once it is lost, it is in the TCs under way only.
OtherInv(n) ==
  /\ behind[n] =>
       \/ calm[n] + helloOf[n] <= HelloInterval
       \/ /\ helloAir[n] # NoMessage /\ "other" \in helloAir[n].list
          /\ calm[n] + helloAir[n].left <= HelloInterval + MaxJitter
       \/ /\ "other" \in advSym[n]
          /\ helloAir[n] # NoMessage => "other" \in helloAir[n].list
  /\ ~ behind[n] /\ "other" \in tcOf[n].list => calm[n] + tcOf[n].left <= MaxTcDelay

WindowInv ==
  ~ Monitored => \A n \in Neighbors : /\ DroppedInv(n)
                                      /\ ~ Lossy => ChosenInv(n) /\ OtherInv(n)

RInv ==
  /\ IInv /\ RulesTypeOK /\ LinksInv
  /\ \A n \in Neighbors : SymInv(n)
  /\ WindowInv

LEMMA RulesDurations ==
  /\ MaxTcDelay \in Nat \ {0} /\ HelloInterval > MaxJitter
  /\ Window7 = MaxJitter + SelectorHold + MaxTcDelay
  /\ Window9b = HelloInterval + MaxJitter + MaxTcDelay
  /\ MaxCalm \in Nat /\ MaxCalm > Window7 /\ MaxCalm > Window9b
  /\ HelloInterval \in Nat \ {0} /\ MaxJitter \in Nat \ {0} /\ SelectorHold \in Nat
  /\ SelectorHold > HelloInterval + MaxJitter /\ Off = -1
BY RulesAssumption, Durations DEF Window7, Window9b

\* What is known of the single components.
LEMMA Components ==
  ASSUME RInv, NEW n \in Neighbors
  PROVE  /\ calm[n] \in 0 .. MaxCalm /\ helloOf[n] \in 0 .. HelloInterval
         /\ helloAir[n] \in [list : SUBSET {"self", "other"}, left : Off .. MaxJitter]
         /\ tcOf[n] \in [list : SUBSET {"self", "other"}, left : Off .. MaxTcDelay]
         /\ helloAir[n].left \in Off .. MaxJitter /\ tcOf[n].left \in Off .. MaxTcDelay
         /\ behind[n] \in BOOLEAN /\ symLink[n] \in BOOLEAN
         /\ selector[n] \in 0 .. SelectorHold
         /\ timers.send \in Off .. MaxJitter /\ timers.hello \in 0 .. HelloInterval
         /\ timers.defense \in 0 .. DefensePeriod
BY TimerTypes DEF RInv, RulesTypeOK, IInv, TypeOK

LEMMA MessageFields ==
  /\ NoMessage.left = -1 /\ NoMessage.list = {}
  /\ NoMessage \in [list : SUBSET {"self", "other"}, left : Off .. MaxJitter]
  /\ NoMessage \in [list : SUBSET {"self", "other"}, left : Off .. MaxTcDelay]
BY Durations, RulesDurations DEF NoMessage

LEMMA RulesInitRInv == RulesInit => RInv
<1> SUFFICES ASSUME RulesInit PROVE RInv
  OBVIOUS
<1>1. IInv
  BY InitIInv DEF RulesInit
<1>2. RulesTypeOK
  <2>1. helloOf \in [Neighbors -> 0 .. HelloInterval] /\ calm \in [Neighbors -> 0 .. MaxCalm]
    <3>1. {HelloInterval} \subseteq 0 .. HelloInterval /\ 1 .. HelloInterval \subseteq 0 .. HelloInterval
          /\ MaxCalm \in 0 .. MaxCalm
      BY RulesDurations
    <3>2. helloOf \in [Neighbors -> {HelloInterval}] \/ helloOf \in [Neighbors -> 1 .. HelloInterval]
      BY DEF RulesInit
    <3> QED BY <3>1, <3>2 DEF RulesInit
  <2>2. /\ helloAir \in [Neighbors -> [list : SUBSET {"self", "other"}, left : Off .. MaxJitter]]
        /\ tcOf \in [Neighbors -> [list : SUBSET {"self", "other"}, left : Off .. MaxTcDelay]]
    BY MessageFields DEF RulesInit
  <2>3. symLink \in [Neighbors -> BOOLEAN] /\ behind \in [Neighbors -> BOOLEAN]
    BY DEF RulesInit, Monitored
  <2>4. /\ advSym \in [Neighbors -> {Unknown} \cup SUBSET {"self", "other"}]
        /\ peer \in [Neighbors -> [seen : SUBSET {"6", "7"},
                                  left : {Trusted} \cup 1 - DefensePeriod .. MistrustDuration]]
    BY DEF RulesInit
  <2> QED BY <1>1, <2>1, <2>2, <2>3, <2>4 DEF RulesTypeOK, IInv
<1>3. LinksInv
  BY DEF RulesInit, LinksInv
<1>4. WindowInv
  <2> SUFFICES ASSUME NEW n \in Neighbors, ~ Monitored
               PROVE  DroppedInv(n) /\ ChosenInv(n) /\ OtherInv(n)
    BY DEF WindowInv
  <2>1. mprSet = {} /\ ~ Names(n) /\ selector[n] = 0 /\ tcOf[n] = NoMessage /\ behind[n] = FALSE
    BY DEF RulesInit, Init, Names
  <2> QED BY <2>1, MessageFields DEF DroppedInv, ChosenInv, OtherInv
<1>5. \A n \in Neighbors : SymInv(n)
  BY DEF RulesInit, Init, SymInv
<1> QED BY <1>1, <1>2, <1>3, <1>4, <1>5 DEF RInv

\* What a step leaves alone of the links.
LEMMA SymFrame ==
  ASSUME NEW n \in Neighbors, SymInv(n), setup' = setup, mprSet' = mprSet,
         UNCHANGED <<advSym, symLink>>,
         helloAir'[n] = helloAir[n] \/ helloAir'[n] = NoMessage
                      \/ "self" \in helloAir'[n].list
  PROVE  SymInv(n)'
BY DEF SymInv, Monitored, Lossy

-----------------------------------------------------------------------------
\* Steps of the neighbours, which leave what TrustDefense is about alone.
LEMMA MeetOtherRInv ==
  ASSUME RInv, NEW n \in Neighbors, MeetOther(n)
  PROVE  RInv'
<1>1. /\ ~ Monitored
      /\ behind' = [behind EXCEPT ![n] = ~ @] /\ calm' = [calm EXCEPT ![n] = 0]
      /\ UNCHANGED <<vars, helloOf, helloAir, tcOf, advSym, symLink, peer>>
  BY DEF MeetOther
<1>2. UNCHANGED <<setup, mprSet, queue, timers, selector>>
  BY <1>1 DEF vars
<1>3. IInv'
  BY <1>1, StutterIInv DEF RInv
<1>4. RulesTypeOK'
  <2>1. behind' \in [Neighbors -> BOOLEAN]
    BY <1>1 DEF RInv, RulesTypeOK
  <2>2. \A m \in Neighbors : calm'[m] \in 0 .. MaxCalm
    BY <1>1, RulesDurations DEF RInv, RulesTypeOK
  <2> QED BY <1>1, <1>3, <2>1, <2>2 DEF RInv, RulesTypeOK, IInv
<1>5. LinksInv'
  BY <1>1, <1>2 DEF RInv, LinksInv, Monitored
<1>6. WindowInv'
  <2> SUFFICES ASSUME NEW m \in Neighbors
               PROVE  /\ DroppedInv(m)'
                      /\ ~ Lossy => ChosenInv(m)' /\ OtherInv(m)'
    BY <1>2 DEF WindowInv, Lossy
  <2>1. CASE m = n
    <3>1. calm'[n] = 0
      BY <1>1 DEF RInv, RulesTypeOK
    <3>2. DroppedInv(n)
      BY <1>1 DEF RInv, WindowInv
    <3>3. /\ timers.send \in Off .. MaxJitter /\ selector[n] \in 0 .. SelectorHold
          /\ tcOf[n].left \in Off .. MaxTcDelay /\ helloOf[n] \in 0 .. HelloInterval
          /\ timers.hello \in 0 .. HelloInterval /\ calm[n] \in 0 .. MaxCalm
      BY Components
    <3>4. DroppedInv(n)'
      <4>1. (Names(n)' <=> Names(n)) /\ timers'.send = timers.send /\ mprSet' = mprSet
        BY <1>2 DEF Names
      <4>2. calm'[n] + timers'.send <= MaxJitter /\ calm'[n] + selector'[n] <= MaxJitter + SelectorHold
        BY <1>2, <3>1, <3>3, RulesDurations
      <4>3. calm'[n] + tcOf'[n].left <= Window7
        BY <1>1, <3>1, <3>3, RulesDurations
      <4> QED BY <3>2, <4>1, <4>2, <4>3 DEF DroppedInv
    <3>5. ChosenInv(n)'
      <4>1. calm'[n] + timers'.hello <= HelloInterval
        BY <1>2, <3>1, <3>3
      <4>2. calm'[n] + tcOf'[n].left <= Window9b
        BY <1>1, <3>1, <3>3, RulesDurations
      <4> QED BY <4>1, <4>2 DEF ChosenInv
    <3>6. OtherInv(n)'
      BY <1>1, <3>1, <3>3, RulesDurations DEF OtherInv
    <3> QED BY <2>1, <3>4, <3>5, <3>6
  <2>2. CASE m # n
    BY <1>1, <1>2, <2>2 DEF WindowInv, DroppedInv, ChosenInv, OtherInv, Names, RInv
  <2> QED BY <2>1, <2>2
<1>7. \A m \in Neighbors : SymInv(m)'
  BY <1>1, <1>2, SymFrame DEF RInv
<1> QED BY <1>3, <1>4, <1>5, <1>6, <1>7 DEF RInv

\* The link to a mistrusted neighbour, or under losses to any, runs out; the
\* neighbour is no relay then.
LEMMA LinkRunsOutRInv ==
  ASSUME RInv, NEW n \in Neighbors, LinkRunsOut(n)
  PROVE  RInv'
<1>1. /\ ~ Monitored /\ (Lossy \/ n \notin mprSet)
      /\ symLink' = [symLink EXCEPT ![n] = FALSE]
      /\ UNCHANGED <<vars, behind, helloOf, helloAir, tcOf, advSym, peer, calm>>
  BY DEF LinkRunsOut
<1>2. UNCHANGED <<setup, mprSet, queue, timers, selector>>
  BY <1>1 DEF vars
<1>3. IInv'
  BY <1>1, StutterIInv DEF RInv
<1>4. RulesTypeOK'
  BY <1>1, <1>3 DEF RInv, RulesTypeOK, IInv
<1>5. LinksInv' /\ WindowInv'
  BY <1>1, <1>2
  DEF RInv, LinksInv, WindowInv, DroppedInv, ChosenInv, OtherInv, Names, Monitored, Lossy
<1>6. \A m \in Neighbors : SymInv(m)'
  BY <1>1, <1>2 DEF RInv, RulesTypeOK, SymInv, Monitored, Lossy
<1> QED BY <1>3, <1>4, <1>5, <1>6 DEF RInv

LEMMA NeighborLossRInv ==
  ASSUME RInv, NEW n \in Neighbors, NeighborLoss(n)
  PROVE  RInv'
<1>1. /\ ~ symLink[n] /\ selector' = [selector EXCEPT ![n] = 0]
      /\ UNCHANGED <<setup, mprSet, dataPending, tcPending, failCount, exact, queue, timers,
                     tcAir, dataAir, behind, helloOf, helloAir, tcOf, advSym, symLink, peer, calm>>
  BY DEF NeighborLoss, records, verdicts, links
<1>2. ~ Monitored /\ (~ Lossy => n \notin mprSet)
  BY <1>1 DEF RInv, SymInv
<1>3. selector'[n] = 0 /\ \A m \in Neighbors \ {n} : selector'[m] = selector[m]
  BY <1>1 DEF RInv, IInv, TypeOK
<1>4. IInv'
  <2>1. TypeOK'
    BY <1>1, Durations DEF RInv, IInv, TypeOK
  <2>2. TimersInv' /\ QueueInv' /\ RecordInv' /\ VerdictInv'
    BY <1>1 DEF RInv, IInv, TimersInv, QueueInv, RecordInv, VerdictInv, Monitored, TcQueued
  <2>3. tcPending' = {}
    BY <1>1, <1>2 DEF RInv, IInv, TimersInv
  <2>4. ~ Lossy' => DataInv' /\ TcInv'
    BY <1>1, <2>3 DEF RInv, IInv, Lossy, DataInv, TcInv, Forwarders, conduct
  <2> QED BY <2>1, <2>2, <2>4 DEF IInv
<1>5. RulesTypeOK'
  BY <1>1, <1>4 DEF RInv, RulesTypeOK, IInv
<1>6. LinksInv'
  BY <1>1 DEF RInv, LinksInv, Monitored
<1>7. \A m \in Neighbors : SymInv(m)'
  BY <1>1 DEF RInv, SymInv, Monitored, Lossy
<1>8. WindowInv'
  <2> SUFFICES ASSUME NEW m \in Neighbors
               PROVE  /\ DroppedInv(m)'
                      /\ ~ Lossy => ChosenInv(m)' /\ OtherInv(m)'
    BY <1>1 DEF WindowInv, Lossy
  <2>1. DroppedInv(m) /\ (~ Lossy => ChosenInv(m) /\ OtherInv(m))
    BY <1>2 DEF RInv, WindowInv
  <2>2. DroppedInv(m)'
    BY <1>1, <1>3, <2>1 DEF DroppedInv, Names
  <2>3. ASSUME ~ Lossy PROVE ChosenInv(m)'
    BY <1>1, <1>2, <1>3, <2>1, <2>3 DEF ChosenInv, Names
  <2>4. ASSUME ~ Lossy PROVE OtherInv(m)'
    BY <1>1, <2>1, <2>4 DEF OtherInv
  <2> QED BY <2>2, <2>3, <2>4
<1> QED BY <1>4, <1>5, <1>6, <1>7, <1>8 DEF RInv

LEMMA QueueHelloRInv ==
  ASSUME RInv, NEW n \in Neighbors, QueueHello(n)
  PROVE  RInv'
<1>0. PICK list \in SymNeighborsOf(n) :
        helloAir' = [helloAir EXCEPT ![n] = [list |-> list, left |-> MaxJitter]]
  BY DEF QueueHello
<1> DEFINE hello == [list |-> list, left |-> MaxJitter]
<1>1. /\ ~ Monitored /\ helloOf[n] = 0
      /\ helloAir' = [helloAir EXCEPT ![n] = hello]
      /\ helloOf' = [helloOf EXCEPT ![n] = HelloInterval]
      /\ UNCHANGED <<vars, behind, tcOf, advSym, symLink, peer, calm>>
  BY <1>0 DEF QueueHello
<1>2. UNCHANGED <<setup, mprSet, queue, timers, selector>>
  BY <1>1 DEF vars
<1>3. IInv'
  BY <1>1, StutterIInv DEF RInv
<1>4. /\ hello \in [list : SUBSET {"self", "other"}, left : Off .. MaxJitter]
      /\ (symLink[n] => "self" \in hello.list) /\ (behind[n] => "other" \in hello.list)
      /\ hello.left = MaxJitter
  <2>1. PICK known \in {{"self"}} \cup (IF symLink[n] THEN {} ELSE {{}}) :
          list = known \cup (IF behind[n] THEN {"other"} ELSE {})
    BY <1>0 DEF SymNeighborsOf
  <2>2. known \in {{"self"}, {}} /\ (symLink[n] => known = {"self"})
    BY <2>1
  <2>3. /\ list \in SUBSET {"self", "other"}
        /\ (symLink[n] => "self" \in list) /\ (behind[n] => "other" \in list)
    BY <2>1, <2>2
  <2>4. MaxJitter \in Off .. MaxJitter
    BY RulesDurations
  <2> QED BY <2>3, <2>4
<1> HIDE DEF hello
<1>5. /\ helloAir'[n] = hello /\ helloOf'[n] = HelloInterval
      /\ \A m \in Neighbors \ {n} : helloAir'[m] = helloAir[m] /\ helloOf'[m] = helloOf[m]
  BY <1>1 DEF RInv, RulesTypeOK
<1>6. RulesTypeOK'
  <2>1. helloAir' \in [Neighbors -> [list : SUBSET {"self", "other"}, left : Off .. MaxJitter]]
    BY <1>1, <1>4 DEF RInv, RulesTypeOK
  <2>2. helloOf' \in [Neighbors -> 0 .. HelloInterval]
    BY <1>1, RulesDurations DEF RInv, RulesTypeOK
  <2> QED BY <1>1, <1>3, <2>1, <2>2 DEF RInv, RulesTypeOK, IInv
<1>7. LinksInv'
  <2>1. helloAir'[n].left >= 0
        /\ helloOf'[n] >= HelloInterval - MaxJitter + helloAir'[n].left
    BY <1>4, <1>5, RulesDurations
  <2> QED BY <1>1, <1>2, <1>5, <2>1 DEF RInv, LinksInv, Monitored
<1>8. helloAir[n] = NoMessage
  <2>1. helloAir[n].left \in Off .. MaxJitter
    BY Components
  <2> QED BY <1>1, <2>1, RulesDurations DEF RInv, LinksInv
<1>9. WindowInv'
  <2> SUFFICES ASSUME NEW m \in Neighbors
               PROVE  /\ DroppedInv(m)'
                      /\ ~ Lossy => ChosenInv(m)' /\ OtherInv(m)'
    BY <1>2 DEF WindowInv, Lossy
  <2>1. DroppedInv(m)' /\ (~ Lossy => ChosenInv(m)')
    BY <1>1, <1>2 DEF RInv, WindowInv, DroppedInv, ChosenInv, Names
  <2>2. ASSUME ~ Lossy, m # n PROVE OtherInv(m)'
    BY <1>1, <1>5, <2>2 DEF RInv, WindowInv, OtherInv
  <2>3. ASSUME ~ Lossy PROVE OtherInv(n)'
    <3>1. OtherInv(n) /\ calm[n] \in 0 .. MaxCalm
      BY <1>1, <2>3, Components DEF RInv, WindowInv
    <3>2. CASE behind[n] /\ calm[n] + helloOf[n] <= HelloInterval
      <4>1. calm'[n] + helloAir'[n].left <= HelloInterval + MaxJitter
        BY <1>1, <1>4, <1>5, <3>1, <3>2, RulesDurations
      <4>2. helloAir'[n] # NoMessage /\ "other" \in helloAir'[n].list
        BY <1>4, <1>5, <3>2, RulesDurations, MessageFields
      <4> QED BY <1>1, <3>2, <4>1, <4>2 DEF OtherInv
    <3>3. CASE behind[n] /\ "other" \in advSym[n]
      BY <1>1, <1>4, <1>5, <3>3 DEF OtherInv
    <3>4. CASE ~ behind[n]
      BY <1>1, <3>1, <3>4 DEF OtherInv
    <3> QED BY <1>8, <3>1, <3>2, <3>3, <3>4 DEF OtherInv
  <2> QED BY <2>1, <2>2, <2>3
<1>10. \A m \in Neighbors : SymInv(m)'
  BY <1>1, <1>2, <1>4, <1>5 DEF RInv, SymInv, Monitored, Lossy
<1> QED BY <1>3, <1>6, <1>7, <1>9, <1>10 DEF RInv

LEMMA QueueTcRInv ==
  ASSUME RInv, NEW n \in Neighbors, QueueTc(n)
  PROVE  RInv'
<1> DEFINE tc == [list |-> SelectorsOf(n), left |-> MaxTcDelay]
<1>1. /\ ~ Monitored /\ tcOf' = [tcOf EXCEPT ![n] = tc]
      /\ UNCHANGED <<vars, behind, helloOf, helloAir, advSym, symLink, peer, calm>>
  BY DEF QueueTc
<1>2. UNCHANGED <<setup, mprSet, queue, timers, selector>>
  BY <1>1 DEF vars
<1>3. IInv'
  BY <1>1, StutterIInv DEF RInv
<1>4. /\ tc \in [list : SUBSET {"self", "other"}, left : Off .. MaxTcDelay]
      /\ "self" \in tc.list <=> selector[n] > 0
      /\ "other" \in tc.list => behind[n]
      /\ tc.left = MaxTcDelay
  BY RulesDurations DEF SelectorsOf
<1> HIDE DEF tc
<1>5. tcOf'[n] = tc /\ \A m \in Neighbors \ {n} : tcOf'[m] = tcOf[m]
  BY <1>1 DEF RInv, RulesTypeOK
<1>6. RulesTypeOK'
  <2>1. tcOf' \in [Neighbors -> [list : SUBSET {"self", "other"}, left : Off .. MaxTcDelay]]
    BY <1>1, <1>4 DEF RInv, RulesTypeOK
  <2> QED BY <1>1, <1>3, <2>1 DEF RInv, RulesTypeOK, IInv
<1>7. LinksInv'
  <2>1. tcOf'[n].left >= 0
    BY <1>4, <1>5, RulesDurations
  <2> QED BY <1>1, <1>2, <1>5, <2>1 DEF RInv, LinksInv, Monitored
<1>8. WindowInv'
  <2> SUFFICES ASSUME NEW m \in Neighbors
               PROVE  /\ DroppedInv(m)'
                      /\ ~ Lossy => ChosenInv(m)' /\ OtherInv(m)'
    BY <1>2 DEF WindowInv, Lossy
  <2>1. CASE m # n
    BY <1>1, <1>2, <1>5, <2>1 DEF RInv, WindowInv, DroppedInv, ChosenInv, OtherInv, Names
  <2>2. /\ calm[n] \in 0 .. MaxCalm /\ selector[n] \in 0 .. SelectorHold
        /\ timers.send \in Off .. MaxJitter /\ timers.hello \in 0 .. HelloInterval
    BY Components
  <2>3. DroppedInv(n)'
    <3>1. DroppedInv(n) /\ (Names(n)' <=> Names(n))
      BY <1>1, <1>2 DEF RInv, WindowInv, Names
    <3>2. n \notin mprSet /\ selector[n] > 0 => calm[n] + MaxTcDelay <= Window7
      BY <2>2, <3>1, RulesDurations DEF DroppedInv
    <3> QED BY <1>1, <1>2, <1>4, <1>5, <3>1, <3>2 DEF DroppedInv
  <2>4. ASSUME ~ Lossy PROVE ChosenInv(n)'
    <3>1. ChosenInv(n) /\ (Names(n)' <=> Names(n))
      BY <1>1, <1>2, <2>4 DEF RInv, WindowInv, Names
    <3>2. ASSUME n \in mprSet, ~ (selector[n] > 0) PROVE calm[n] + MaxTcDelay <= Window9b
      <4>1. CASE calm[n] + timers.hello <= HelloInterval
        BY <2>2, <4>1, RulesDurations
      <4>2. CASE timers.send # Off /\ calm[n] + timers.send <= HelloInterval + MaxJitter
        BY <2>2, <4>2, RulesDurations
      <4>3. ~ (selector[n] > timers.hello + MaxJitter)
            /\ ~ (timers.send # Off /\ selector[n] > timers.send)
        BY <2>2, <3>2, RulesDurations
      <4> QED BY <3>1, <3>2, <4>1, <4>2, <4>3 DEF ChosenInv
    <3> QED BY <1>1, <1>2, <1>4, <1>5, <3>1, <3>2 DEF ChosenInv
  <2>5. ASSUME ~ Lossy PROVE OtherInv(n)'
    BY <1>1, <1>4, <1>5, <2>5 DEF RInv, WindowInv, OtherInv
  <2> QED BY <2>1, <2>3, <2>4, <2>5
<1>9. \A m \in Neighbors : SymInv(m)'
  BY <1>1, <1>2, SymFrame DEF RInv
<1> QED BY <1>3, <1>6, <1>7, <1>8, <1>9 DEF RInv

LEMMA RecvHelloRInv ==
  ASSUME RInv, NEW n \in Neighbors, RecvHello(n)
  PROVE  RInv'
<1>1. /\ helloAir[n] # NoMessage
      /\ \/ /\ advSym' = [advSym EXCEPT ![n] = helloAir[n].list]
            /\ symLink' = [symLink EXCEPT ![n] =
                             @ \/ ("self" \in helloAir[n].list /\ ~ IsMalicious(n))]
         \/ Lossy /\ advSym' = advSym /\ symLink' = symLink
      /\ helloAir' = [helloAir EXCEPT ![n] = NoMessage]
      /\ UNCHANGED <<vars, behind, helloOf, tcOf, peer, calm>>
  BY DEF RecvHello, OnRecvHello, LinkSensing
<1>2. UNCHANGED <<setup, mprSet, queue, timers, selector>>
  BY <1>1 DEF vars
<1>3. IInv'
  BY <1>1, StutterIInv DEF RInv
<1>4. helloAir[n] \in [list : SUBSET {"self", "other"}, left : Off .. MaxJitter]
  BY Components
<1>5. /\ helloAir'[n] = NoMessage
      /\ advSym'[n] = helloAir[n].list \/ (Lossy /\ advSym'[n] = advSym[n])
      /\ \A m \in Neighbors \ {n} : helloAir'[m] = helloAir[m] /\ advSym'[m] = advSym[m]
  BY <1>1 DEF RInv, RulesTypeOK
<1>6. RulesTypeOK'
  <2>1. helloAir' \in [Neighbors -> [list : SUBSET {"self", "other"}, left : Off .. MaxJitter]]
    BY <1>1, MessageFields DEF RInv, RulesTypeOK
  <2>2. advSym' \in [Neighbors -> {Unknown} \cup SUBSET {"self", "other"}]
    BY <1>1, <1>4 DEF RInv, RulesTypeOK
  <2>3. symLink' \in [Neighbors -> BOOLEAN]
    BY <1>1 DEF RInv, RulesTypeOK
  <2> QED BY <1>1, <1>3, <2>1, <2>2, <2>3 DEF RInv, RulesTypeOK, IInv
<1>7. LinksInv'
  <2> SUFFICES ASSUME NEW m \in Neighbors
               PROVE  /\ Monitored => /\ behind[m] = FALSE /\ helloAir'[m] = NoMessage
                                      /\ tcOf[m] = NoMessage /\ peer[m].left = Trusted
                      /\ helloAir'[m] # NoMessage =>
                           /\ helloAir'[m].left >= 0
                           /\ helloOf[m] >= HelloInterval - MaxJitter + helloAir'[m].left
                      /\ tcOf[m] # NoMessage => tcOf[m].left >= 0
                      /\ peer[m].left # Trusted =>
                           peer[m].left >= 1 - DefensePeriod + timers.defense
    BY <1>1, <1>2 DEF LinksInv, Monitored
  <2>1. CASE m = n
    BY <1>4, <1>5, <2>1 DEF RInv, LinksInv
  <2>2. CASE m # n
    BY <1>5, <2>2 DEF RInv, LinksInv
  <2> QED BY <2>1, <2>2
<1>8. WindowInv'
  <2> SUFFICES ASSUME NEW m \in Neighbors, ~ Monitored
               PROVE  /\ DroppedInv(m)'
                      /\ ~ Lossy => ChosenInv(m)' /\ OtherInv(m)'
    BY <1>2 DEF WindowInv, Lossy, Monitored
  <2>1. DroppedInv(m)' /\ (~ Lossy => ChosenInv(m)')
    BY <1>1, <1>2 DEF RInv, WindowInv, DroppedInv, ChosenInv, Names
  <2>2. ASSUME ~ Lossy, m # n PROVE OtherInv(m)'
    BY <1>1, <1>5, <2>2 DEF RInv, WindowInv, OtherInv
  <2>3. ASSUME ~ Lossy PROVE OtherInv(n)'
    <3>1. OtherInv(n)
      BY <2>3 DEF RInv, WindowInv
    <3> QED BY <1>1, <1>5, <2>3, <3>1 DEF OtherInv
  <2> QED BY <2>1, <2>2, <2>3
<1>9. ASSUME NEW m \in Neighbors PROVE SymInv(m)'
  <2>1. SymInv(m) /\ symLink \in [Neighbors -> BOOLEAN]
    BY DEF RInv, RulesTypeOK
  <2>2. CASE m = n
    <3>1. ~ Monitored /\ (Monitored' <=> Monitored) /\ (Lossy' <=> Lossy)
      BY <1>1, <1>2 DEF RInv, LinksInv, Monitored, Lossy
    <3>2. \/ symLink'[n] = symLink[n] /\ (Lossy \/ advSym'[n] = helloAir[n].list)
          \/ "self" \in helloAir[n].list /\ advSym'[n] = helloAir[n].list
      BY <1>1, <2>1 DEF RInv, RulesTypeOK
    <3>3. symLink'[n] => symLink[n] \/ ("self" \in helloAir[n].list /\ advSym'[n] = helloAir[n].list)
      BY <3>2
    <3>4. symLink[n] => symLink'[n]
      BY <1>1, <2>1
    <3>5. symLink'[n] => "self" \in advSym'[n]
      <4>1. symLink[n] => "self" \in advSym[n] /\ "self" \in helloAir[n].list
        BY <1>1, <2>1, <2>2, <3>1 DEF SymInv
      <4> QED BY <1>5, <3>3, <4>1
    <3>6. n \in mprSet' /\ ~ Lossy => symLink'[n]
      BY <1>2, <2>1, <2>2, <3>1, <3>4 DEF SymInv
    <3> QED BY <1>5, <2>2, <3>1, <3>5, <3>6 DEF SymInv
  <2>3. CASE m # n
    BY <1>1, <1>2, <1>5, <2>1, <2>3 DEF SymInv, Monitored, Lossy
  <2> QED BY <2>2, <2>3
<1> QED BY <1>3, <1>6, <1>7, <1>8, <1>9 DEF RInv

\* A verdict of the rules; what the forward monitor keeps is left alone.
LEMMA OnRecvTcRInv ==
  ASSUME RInv, NEW n \in Neighbors, OnRecvTc(n)
  PROVE  RInv'
<1>1. /\ tcOf[n] # NoMessage
      /\ exact' = [m \in Neighbors |-> IF m \in {n} THEN MistrustDuration ELSE exact[m]]
      /\ Announce(n, {p \in Proofs(n) : IsAnnounceable(p)})
      /\ UNCHANGED <<setup, mprSet, dataPending, tcPending, failCount, queue, timers,
                     selector, tcAir, dataAir, behind, helloOf, helloAir, tcOf, advSym, symLink, calm>>
  BY DEF OnRecvTc, MistrustExact, records, links
<1>2. MistrustDuration \in 1 - DefensePeriod .. MistrustDuration
      /\ MistrustDuration >= 1 - DefensePeriod + timers.defense
  BY Durations, Components
<1>3. IInv'
  <2>1. TypeOK'
    BY <1>1, <1>2 DEF RInv, IInv, TypeOK
  <2>2. TimersInv' /\ QueueInv' /\ RecordInv'
    BY <1>1 DEF RInv, IInv, TimersInv, QueueInv, RecordInv, Monitored, TcQueued
  <2>3. VerdictInv'
    BY <1>1, <1>2 DEF RInv, IInv, TypeOK, VerdictInv
  <2>4. ~ Lossy' => DataInv' /\ TcInv'
    BY <1>1 DEF RInv, IInv, Lossy, DataInv, TcInv, OwedInQueue, OwedInAir, TcQueued,
                Forwarders, conduct
  <2> QED BY <2>1, <2>2, <2>3, <2>4 DEF IInv
<1>4. PICK added \in SUBSET {"6", "7"}, accepted \in BOOLEAN :
        peer' = [peer EXCEPT ![n] =
                   [seen |-> @.seen \cup added,
                    left |-> IF accepted THEN MistrustDuration ELSE @.left]]
  <2> DEFINE proofs == {p \in Proofs(n) : IsAnnounceable(p)}
             new == {p \in proofs : p.formula \notin peer[n].seen}
             added == {p.formula : p \in new}
             accepted == \E p \in new : Verify(p)
  <2>1. peer' = [peer EXCEPT ![n] =
                   [seen |-> @.seen \cup added,
                    left |-> IF accepted THEN MistrustDuration ELSE @.left]]
    BY <1>1 DEF Announce
  <2>2. added \in SUBSET {"6", "7"}
    BY DEF IsAnnounceable
  <2> HIDE DEF added, accepted
  <2> QED BY <2>1, <2>2
<1>5. /\ peer'[n] = [seen |-> peer[n].seen \cup added,
                     left |-> IF accepted THEN MistrustDuration ELSE peer[n].left]
      /\ \A m \in Neighbors \ {n} : peer'[m] = peer[m]
  BY <1>4 DEF RInv, RulesTypeOK
<1>6. RulesTypeOK'
  <2>1. peer[n] \in [seen : SUBSET {"6", "7"},
                     left : {Trusted} \cup 1 - DefensePeriod .. MistrustDuration]
    BY DEF RInv, RulesTypeOK
  <2>2. peer'[n] \in [seen : SUBSET {"6", "7"},
                      left : {Trusted} \cup 1 - DefensePeriod .. MistrustDuration]
    <3> DEFINE left == IF accepted THEN MistrustDuration ELSE peer[n].left
    <3>1. left \in {Trusted} \cup 1 - DefensePeriod .. MistrustDuration
      BY <1>2, <2>1
    <3>2. peer[n].seen \cup added \in SUBSET {"6", "7"}
      BY <2>1
    <3>3. peer'[n] = [seen |-> peer[n].seen \cup added, left |-> left]
      BY <1>5
    <3> HIDE DEF left
    <3> QED BY <3>1, <3>2, <3>3
  <2>3. peer' \in [Neighbors -> [seen : SUBSET {"6", "7"},
                                left : {Trusted} \cup 1 - DefensePeriod .. MistrustDuration]]
    BY <1>4, <1>5, <2>2 DEF RInv, RulesTypeOK
  <2> QED BY <1>1, <1>3, <2>3 DEF RInv, RulesTypeOK, IInv
<1>7. LinksInv'
  <2>1. ~ Monitored
    BY <1>1 DEF RInv, LinksInv
  <2>2. peer'[n].left # Trusted => peer'[n].left >= 1 - DefensePeriod + timers.defense
    BY <1>2, <1>5 DEF RInv, LinksInv
  <2> QED BY <1>1, <1>5, <2>1, <2>2 DEF RInv, LinksInv, Monitored
<1>8. WindowInv'
  BY <1>1 DEF RInv, WindowInv, DroppedInv, ChosenInv, OtherInv, Names, Monitored, Lossy
<1>9. \A m \in Neighbors : SymInv(m)'
  BY <1>1, SymFrame DEF RInv
<1> QED BY <1>3, <1>6, <1>7, <1>8, <1>9 DEF RInv

-----------------------------------------------------------------------------
\* Steps of this node.
LEMMA RulesMprComputationRInv ==
  ASSUME RInv, RulesMprComputation
  PROVE  RInv'
<1>1. /\ MprComputation
      /\ Lossy \/ \A n \in mprSet' : symLink[n]
      /\ calm' = [n \in Neighbors |->
           IF ~ Monitored /\ (n \in mprSet) # (n \in mprSet') THEN 0 ELSE calm[n]]
      /\ UNCHANGED <<behind, helloOf, helloAir, tcOf, advSym, symLink, peer>>
  BY DEF RulesMprComputation, links
<1>2. UNCHANGED <<setup, queue, timers, selector>>
  BY <1>1 DEF MprComputation, neighbours
<1>3. IInv'
  BY <1>1, MprComputationIInv DEF RInv
<1>4. RulesTypeOK'
  <2>1. calm' \in [Neighbors -> 0 .. MaxCalm]
    BY <1>1, RulesDurations DEF RInv, RulesTypeOK
  <2> QED BY <1>1, <1>3, <2>1 DEF RInv, RulesTypeOK, IInv
<1>5. LinksInv'
  BY <1>1, <1>2 DEF RInv, LinksInv, Monitored
<1>6. WindowInv'
  <2> SUFFICES ASSUME NEW n \in Neighbors, ~ Monitored
               PROVE  /\ DroppedInv(n)'
                      /\ ~ Lossy => ChosenInv(n)' /\ OtherInv(n)'
    BY <1>2 DEF WindowInv, Lossy, Monitored
  <2>1. CASE (n \in mprSet) = (n \in mprSet')
    <3>1. calm'[n] = calm[n]
      BY <1>1, <2>1
    <3> QED BY <1>1, <1>2, <2>1, <3>1
            DEF RInv, WindowInv, DroppedInv, ChosenInv, OtherInv, Names
  <2>2. CASE (n \in mprSet) # (n \in mprSet')
    <3>1. calm'[n] = 0
      BY <1>1, <2>2
    <3>2. /\ timers.send \in Off .. MaxJitter /\ selector[n] \in 0 .. SelectorHold
          /\ tcOf[n].left \in Off .. MaxTcDelay /\ helloOf[n] \in 0 .. HelloInterval
          /\ timers.hello \in 0 .. HelloInterval
      BY Components
    <3>3. DroppedInv(n)'
      <4>1. Names(n)' => timers.send # Off
        <5>1. timers.send = Off => queue = <<>>
          BY DEF RInv, IInv, QueueInv
        <5> QED BY <1>2, <5>1 DEF Names
      <4>2. calm'[n] + timers'.send <= MaxJitter
            /\ calm'[n] + selector'[n] <= MaxJitter + SelectorHold
        BY <1>2, <3>1, <3>2, RulesDurations
      <4>3. calm'[n] + tcOf'[n].left <= Window7
        BY <1>1, <3>1, <3>2, RulesDurations
      <4> QED BY <1>2, <4>1, <4>2, <4>3 DEF DroppedInv
    <3>4. ChosenInv(n)'
      <4>1. calm'[n] + timers'.hello <= HelloInterval
        BY <1>2, <3>1, <3>2
      <4>2. calm'[n] + tcOf'[n].left <= Window9b
        BY <1>1, <3>1, <3>2, RulesDurations
      <4> QED BY <4>1, <4>2 DEF ChosenInv
    <3>5. OtherInv(n)'
      BY <1>1, <3>1, <3>2, RulesDurations DEF OtherInv
    <3> QED BY <3>3, <3>4, <3>5
  <2> QED BY <2>1, <2>2
<1>7. \A n \in Neighbors : SymInv(n)'
  BY <1>1, <1>2 DEF RInv, SymInv, Monitored, Lossy
<1> QED BY <1>3, <1>4, <1>5, <1>6, <1>7 DEF RInv

LEMMA RulesPeriodicCheckRInv ==
  ASSUME RInv, RulesPeriodicCheck
  PROVE  RInv'
<1>1. /\ PeriodicCheck
      /\ peer' = [n \in Neighbors |->
           IF peer[n].left <= 0 THEN [peer[n] EXCEPT !.left = Trusted] ELSE peer[n]]
      /\ UNCHANGED <<behind, helloOf, helloAir, tcOf, advSym, symLink, calm>>
  BY DEF RulesPeriodicCheck, links
<1>2. UNCHANGED <<setup, queue, mprSet, selector>>
  BY <1>1 DEF PeriodicCheck, neighbours
<1>3. IInv'
  BY <1>1, PeriodicCheckIInv DEF RInv
<1>4. timers'.defense = DefensePeriod /\ timers'.send = timers.send /\ timers'.hello = timers.hello
  <2>1. timers \in TimerSet /\ timers' = [timers EXCEPT !.defense = DefensePeriod]
    BY <1>1 DEF PeriodicCheck, RInv, IInv, TimersInv, TimerSet
  <2> QED BY <2>1, Durations DEF TimerSet
<1>5. ASSUME NEW n \in Neighbors
      PROVE  /\ peer'[n] \in [seen : SUBSET {"6", "7"},
                             left : {Trusted} \cup 1 - DefensePeriod .. MistrustDuration]
             /\ peer[n].left = Trusted => peer'[n].left = Trusted
             /\ peer'[n].left # Trusted => peer'[n].left >= 1
  <2>1. peer[n] \in [seen : SUBSET {"6", "7"},
                     left : {Trusted} \cup 1 - DefensePeriod .. MistrustDuration]
        /\ Trusted <= 0 /\ Trusted \in Int
    BY Durations DEF RInv, RulesTypeOK
  <2>2. peer'[n] = [seen |-> peer[n].seen,
                    left |-> IF peer[n].left <= 0 THEN Trusted ELSE peer[n].left]
    BY <1>1, <2>1
  <2>3. peer[n].left \in Int
    BY <2>1, Durations
  <2>4. CASE peer[n].left <= 0
    BY <2>1, <2>2, <2>4
  <2>5. CASE ~ (peer[n].left <= 0)
    BY <2>1, <2>2, <2>3, <2>5
  <2> QED BY <2>4, <2>5
<1>6. RulesTypeOK'
  <2>1. peer' \in [Neighbors -> [seen : SUBSET {"6", "7"},
                                left : {Trusted} \cup 1 - DefensePeriod .. MistrustDuration]]
    BY <1>1, <1>5
  <2> QED BY <1>1, <1>3, <2>1 DEF RInv, RulesTypeOK, IInv
<1>7. LinksInv'
  <2>1. ASSUME NEW n \in Neighbors, peer'[n].left # Trusted
        PROVE  peer'[n].left >= 1 - DefensePeriod + timers'.defense
    BY <1>4, <1>5, <2>1, Durations
  <2> QED BY <1>1, <1>2, <1>5, <2>1 DEF RInv, LinksInv, Monitored
<1>8. WindowInv'
  BY <1>1, <1>2, <1>4
  DEF RInv, WindowInv, DroppedInv, ChosenInv, OtherInv, Names, Monitored, Lossy
<1>9. \A n \in Neighbors : SymInv(n)'
  BY <1>1, <1>2, SymFrame DEF RInv
<1> QED BY <1>3, <1>6, <1>7, <1>8, <1>9 DEF RInv

\* This node tells its relays that they are.
LEMMA SendHelloWindow ==
  ASSUME RInv, ~ Monitored, SendHello, UNCHANGED <<links, calm>>, NEW n \in Neighbors
  PROVE  /\ DroppedInv(n)'
         /\ ~ Lossy => ChosenInv(n)' /\ OtherInv(n)'
<1>1. /\ UNCHANGED <<mprSet, selector, behind, helloOf, helloAir, tcOf, advSym, symLink, calm>>
      /\ timers.hello = 0
  BY DEF SendHello, records, verdicts, neighbours, links
<1>2. /\ queue' = Append(queue, HelloNaming(mprSet)) /\ queue \in Seq(Messages)
      /\ timers'.send = IF timers.send = Off THEN MaxJitter ELSE timers.send
      /\ timers'.hello = HelloInterval
  <2>1. timers \in TimerSet /\ queue \in Seq(Messages)
    BY DEF RInv, IInv, TimersInv, TimerSet, QueueInv
  <2> QED BY <2>1, Durations DEF SendHello, QueueMessage, TimerSet
<1>3. Names(n)' <=> Names(n) \/ n \in mprSet
  <2>1. /\ Len(queue) \in Nat /\ Len(queue') = Len(queue) + 1
        /\ \A i \in 1 .. Len(queue) : queue'[i] = queue[i]
        /\ queue'[Len(queue) + 1] = HelloNaming(mprSet)
    BY <1>2 DEF HelloNaming, Messages
  <2>2. HelloNaming(mprSet).type = "hello" /\ HelloNaming(mprSet).mprs = mprSet
    BY DEF HelloNaming
  <2> QED BY <2>1, <2>2 DEF Names
<1>4. /\ timers.send \in Off .. MaxJitter /\ selector[n] \in 0 .. SelectorHold
      /\ calm[n] \in 0 .. MaxCalm
  BY Components
<1>5. /\ timers'.send \in 0 .. MaxJitter /\ (timers.send # Off => timers'.send = timers.send)
  BY <1>2, <1>4, RulesDurations
<1>6. DroppedInv(n)'
  <2>1. DroppedInv(n)
    BY DEF RInv, WindowInv
  <2> QED BY <1>1, <1>3, <1>5, <2>1, RulesDurations DEF DroppedInv
<1>7. ASSUME ~ Lossy PROVE ChosenInv(n)'
  <2> SUFFICES ASSUME n \in mprSet
               PROVE  \/ calm[n] + timers'.send <= HelloInterval + MaxJitter
                      \/ selector[n] > timers'.send
    <3>1. ChosenInv(n)
      BY <1>7 DEF RInv, WindowInv
    <3>2. timers'.send # Off
      BY <1>5, RulesDurations
    <3> QED BY <1>1, <1>3, <3>1, <3>2 DEF ChosenInv
  <2>1. ChosenInv(n)
    BY <1>7 DEF RInv, WindowInv
  <2>2. CASE calm[n] + timers.hello <= HelloInterval
    BY <1>1, <1>4, <1>5, <2>2, RulesDurations
  <2>3. CASE timers.send # Off /\ calm[n] + timers.send <= HelloInterval + MaxJitter
    BY <1>5, <2>3
  <2>4. CASE selector[n] > timers.hello + MaxJitter
    BY <1>1, <1>4, <1>5, <2>4, RulesDurations
  <2>5. CASE timers.send # Off /\ selector[n] > timers.send
    BY <1>5, <2>5
  <2> QED BY <2>1, <2>2, <2>3, <2>4, <2>5 DEF ChosenInv
<1>8. ~ Lossy => OtherInv(n)'
  BY <1>1 DEF RInv, WindowInv, OtherInv
<1> QED BY <1>6, <1>7, <1>8

\* They are told, or not.
LEMMA SendQueuedWindow ==
  ASSUME RInv, ~ Monitored, SendQueuedMessages, UNCHANGED <<links, calm>>, NEW n \in Neighbors
  PROVE  /\ DroppedInv(n)'
         /\ ~ Lossy => ChosenInv(n)' /\ OtherInv(n)'
<1>1. /\ UNCHANGED <<mprSet, behind, helloOf, helloAir, tcOf, advSym, symLink, calm>>
      /\ timers.send # Off /\ queue' = <<>>
  BY DEF SendQueuedMessages, links
<1>2. timers'.hello = timers.hello
  <2>1. timers \in TimerSet /\ timers' = [timers EXCEPT !.send = Off]
    BY DEF SendQueuedMessages, RInv, IInv, TimersInv, TimerSet
  <2> QED BY <2>1 DEF TimerSet
<1>3. /\ selector'[n] = (IF Names(n) THEN SelectorHold ELSE selector[n])
           \/ (Lossy /\ selector'[n] = selector[n])
  BY DEF SendQueuedMessages, SelectorAfter, Names
<1>4. ~ Names(n)'
  BY <1>1 DEF Names
<1>5. /\ timers.send \in Off .. MaxJitter /\ selector[n] \in 0 .. SelectorHold
      /\ calm[n] \in 0 .. MaxCalm /\ timers.hello \in 0 .. HelloInterval
  BY Components
<1>6. DroppedInv(n)'
  <2>1. DroppedInv(n)
    BY DEF RInv, WindowInv
  <2>2. CASE selector'[n] = selector[n]
    BY <1>1, <1>4, <2>1, <2>2 DEF DroppedInv
  <2>3. CASE Names(n) /\ selector'[n] = SelectorHold
    BY <1>1, <1>4, <1>5, <2>1, <2>3, RulesDurations DEF DroppedInv
  <2> QED BY <1>3, <2>2, <2>3
<1>7. ASSUME ~ Lossy PROVE ChosenInv(n)'
  <2>1. ChosenInv(n)
    BY <1>7 DEF RInv, WindowInv
  <2>2. CASE Names(n)
    <3>1. selector'[n] > timers'.hello + MaxJitter
      BY <1>2, <1>3, <1>5, <1>7, <2>2, RulesDurations
    <3> QED BY <1>1, <2>1, <3>1 DEF ChosenInv
  <2>3. CASE ~ Names(n)
    <3>1. selector'[n] = selector[n]
      BY <1>3, <2>3
    <3> QED BY <1>1, <1>2, <2>1, <2>3, <3>1 DEF ChosenInv
  <2> QED BY <2>2, <2>3
<1>8. ~ Lossy => OtherInv(n)'
  BY <1>1 DEF RInv, WindowInv, OtherInv
<1> QED BY <1>6, <1>7, <1>8

\* Without the forward monitor nothing is awaited; what neighbours re-air does
\* not matter to the rules.
LEMMA TrustStepRInv ==
  ASSUME RInv, TrustStep
  PROVE  RInv'
<1>1. UNCHANGED <<behind, helloOf, helloAir, tcOf, advSym, symLink, peer, calm>>
  BY DEF TrustStep, links
<1>2. Next
  BY DEF TrustStep, Next
<1>3. IInv' /\ UNCHANGED <<setup, mprSet>>
  <2>1. UNCHANGED <<setup, mprSet>>
    BY DEF TrustStep, SendHello, SendTc, NoTcToSend, SendQueuedMessages, Sweep, ReairTc,
           RouteOutput, ReairData, neighbours
  <2> QED BY <1>2, <2>1, NextIInv DEF RInv
<1>4. RulesTypeOK'
  BY <1>1, <1>3 DEF RInv, RulesTypeOK, IInv
<1>5. \A n \in Neighbors : SymInv(n)'
  BY <1>1, <1>3, SymFrame DEF RInv
<1>6. CASE Monitored
  <2>1. LinksInv'
    BY <1>1, <1>3, <1>6 DEF RInv, LinksInv, Monitored
  <2>2. WindowInv'
    BY <1>3, <1>6 DEF WindowInv, Monitored
  <2> QED BY <1>3, <1>4, <1>5, <2>1, <2>2 DEF RInv
<1>7. CASE ~ Monitored
  <2>1. timers.tc = Off /\ timers.sweep = Off /\ Off # 0
    BY <1>7, RulesDurations DEF RInv, IInv, TimersInv
  <2>2. \/ SendHello \/ SendQueuedMessages
        \/ UNCHANGED <<mprSet, queue, timers, selector>>
    BY <1>7, <2>1 DEF TrustStep, SendTc, NoTcToSend, Sweep, ReairTc, RouteOutput, ReairData
  <2>3. timers'.defense = timers.defense
    <3>1. timers \in TimerSet
      BY DEF RInv, IInv, TimersInv, TimerSet
    <3>2. CASE SendHello
      BY <3>1, <3>2 DEF SendHello, QueueMessage, TimerSet
    <3>3. CASE SendQueuedMessages
      BY <3>1, <3>3 DEF SendQueuedMessages, TimerSet
    <3> QED BY <2>2, <3>2, <3>3
  <2>4. LinksInv'
    BY <1>1, <1>3, <2>3 DEF RInv, LinksInv, Monitored
  <2>5. WindowInv'
    <3> SUFFICES ASSUME NEW n \in Neighbors
                 PROVE  /\ DroppedInv(n)'
                        /\ ~ Lossy => ChosenInv(n)' /\ OtherInv(n)'
      BY <1>3 DEF WindowInv, Lossy
    <3>1. CASE SendHello
      BY <1>1, <1>7, <3>1, SendHelloWindow DEF links
    <3>2. CASE SendQueuedMessages
      BY <1>1, <1>7, <3>2, SendQueuedWindow DEF links
    <3>3. CASE UNCHANGED <<mprSet, queue, timers, selector>>
      BY <1>1, <1>7, <3>3 DEF RInv, WindowInv, DroppedInv, ChosenInv, OtherInv, Names
    <3> QED BY <2>2, <3>1, <3>2, <3>3
  <2> QED BY <1>3, <1>4, <1>5, <2>4, <2>5 DEF RInv
<1> QED BY <1>6, <1>7

\* calm grows by one at most, and what each stage has left shrinks by one.
LEMMA TickWindow ==
  ASSUME RInv, ~ Monitored, RulesTick, NEW n \in Neighbors
  PROVE  /\ DroppedInv(n)'
         /\ ~ Lossy => ChosenInv(n)' /\ OtherInv(n)'
<1>1. /\ UNCHANGED <<setup, mprSet, queue, behind, advSym, symLink>>
      /\ timers.send # 0 /\ timers.hello # 0
      /\ timers'.send = Elapse(timers.send) /\ timers'.hello = Elapse(timers.hello)
      /\ selector'[n] = Elapse(selector[n])
  <2>1. DOMAIN timers = {"sweep", "defense", "hello", "tc", "send"}
    BY TimerTypes DEF RInv, IInv
  <2> QED BY <2>1 DEF RulesTick, Tick
<1>2. /\ timers.send \in Off .. MaxJitter /\ timers.hello \in 0 .. HelloInterval
      /\ selector[n] \in 0 .. SelectorHold /\ calm[n] \in 0 .. MaxCalm
      /\ helloOf[n] \in 0 .. HelloInterval
      /\ tcOf[n].left \in Off .. MaxTcDelay /\ helloAir[n].left \in Off .. MaxJitter
      /\ tcOf[n] \in [list : SUBSET {"self", "other"}, left : Off .. MaxTcDelay]
      /\ helloAir[n] \in [list : SUBSET {"self", "other"}, left : Off .. MaxJitter]
  BY Components
<1>3. /\ timers'.hello = timers.hello - 1
      /\ timers.send # Off => timers'.send = timers.send - 1 /\ timers'.send # Off
      /\ selector[n] > 0 => selector'[n] = selector[n] - 1
      /\ selector'[n] > 0 => selector[n] > 0
  BY <1>1, <1>2, RulesDurations DEF Elapse
<1>4. calm'[n] \in 0 .. MaxCalm /\ calm'[n] <= calm[n] + 1
  <2>1. calm'[n] = IF calm[n] < MaxCalm THEN calm[n] + 1 ELSE MaxCalm
    BY DEF RulesTick
  <2> QED BY <1>2, <2>1, RulesDurations
<1>5. helloOf'[n] = helloOf[n] - 1
  BY DEF RulesTick
<1>6. /\ tcOf'[n] # NoMessage => /\ tcOf[n] # NoMessage /\ tcOf'[n].list = tcOf[n].list
                                /\ tcOf'[n].left = tcOf[n].left - 1
      /\ tcOf'[n].list # {} => tcOf'[n] # NoMessage
  <2>1. tcOf'[n] = IF tcOf[n].left > 0 THEN [tcOf[n] EXCEPT !.left = @ - 1] ELSE NoMessage
    BY DEF RulesTick
  <2>2. CASE tcOf[n].left > 0
    BY <1>2, <2>1, <2>2, MessageFields
  <2>3. CASE ~ (tcOf[n].left > 0)
    BY <2>1, <2>3, MessageFields
  <2> QED BY <2>2, <2>3
<1>7. helloAir[n] # NoMessage =>
        /\ helloAir'[n] # NoMessage /\ helloAir'[n].list = helloAir[n].list
        /\ helloAir'[n].left = helloAir[n].left - 1
  <2> SUFFICES ASSUME helloAir[n] # NoMessage
               PROVE  /\ helloAir'[n] # NoMessage /\ helloAir'[n].list = helloAir[n].list
                      /\ helloAir'[n].left = helloAir[n].left - 1
    OBVIOUS
  <2>1. helloAir'[n] = [helloAir[n] EXCEPT !.left = Elapse(@)] /\ helloAir[n].left # 0
    BY DEF RulesTick
  <2>2. helloAir[n].left >= 0
    BY DEF RInv, LinksInv
  <2>3. /\ helloAir'[n].list = helloAir[n].list
        /\ helloAir'[n].left = helloAir[n].left - 1 /\ helloAir'[n].left >= 0
    BY <1>2, <2>1, <2>2 DEF Elapse
  <2> QED BY <2>3, MessageFields
<1>8. helloAir[n] = NoMessage => helloAir'[n] = NoMessage
  <2>1. helloAir'[n] = [helloAir[n] EXCEPT !.left = Elapse(@)]
    BY DEF RulesTick
  <2> QED BY <2>1 DEF NoMessage, Elapse, Off
<1>9. Names(n)' <=> Names(n)
  BY <1>1 DEF Names
<1>10. DroppedInv(n)'
  <2> SUFFICES ASSUME n \notin mprSet
               PROVE  /\ Names(n) => timers'.send # Off /\ calm'[n] + timers'.send <= MaxJitter
                      /\ selector'[n] > 0 => calm'[n] + selector'[n] <= MaxJitter + SelectorHold
                      /\ "self" \in tcOf'[n].list => calm'[n] + tcOf'[n].left <= Window7
    BY <1>1, <1>9 DEF DroppedInv
  <2>1. DroppedInv(n)
    BY DEF RInv, WindowInv
  <2>2. ASSUME Names(n) PROVE timers'.send # Off /\ calm'[n] + timers'.send <= MaxJitter
    BY <1>2, <1>3, <1>4, <2>1, <2>2, RulesDurations DEF DroppedInv
  <2>3. ASSUME selector'[n] > 0 PROVE calm'[n] + selector'[n] <= MaxJitter + SelectorHold
    BY <1>2, <1>3, <1>4, <2>1, <2>3, RulesDurations DEF DroppedInv
  <2>4. ASSUME "self" \in tcOf'[n].list PROVE calm'[n] + tcOf'[n].left <= Window7
    BY <1>2, <1>4, <1>6, <2>1, <2>4, RulesDurations DEF DroppedInv
  <2> QED BY <2>2, <2>3, <2>4
<1>11. ASSUME ~ Lossy PROVE ChosenInv(n)'
  <2>1. ChosenInv(n)
    BY <1>11 DEF RInv, WindowInv
  <2>2. ASSUME n \in mprSet, tcOf'[n] # NoMessage, "self" \notin tcOf'[n].list
        PROVE  calm'[n] + tcOf'[n].left <= Window9b
    BY <1>2, <1>4, <1>6, <2>1, <2>2, RulesDurations DEF ChosenInv
  <2>3. CASE calm[n] + timers.hello <= HelloInterval
    <3>1. calm'[n] + timers'.hello <= HelloInterval
      BY <1>2, <1>3, <1>4, <2>3, RulesDurations
    <3> QED BY <1>1, <2>2, <3>1 DEF ChosenInv
  <2>4. CASE Names(n) /\ timers.send # Off /\ calm[n] + timers.send <= HelloInterval + MaxJitter
    <3>1. timers'.send # Off /\ calm'[n] + timers'.send <= HelloInterval + MaxJitter
      BY <1>2, <1>3, <1>4, <2>4, RulesDurations
    <3> QED BY <1>1, <1>9, <2>2, <2>4, <3>1 DEF ChosenInv
  <2>5. CASE selector[n] > timers.hello + MaxJitter
    <3>1. selector'[n] > timers'.hello + MaxJitter
      BY <1>2, <1>3, <2>5, RulesDurations
    <3> QED BY <1>1, <2>2, <3>1 DEF ChosenInv
  <2>6. CASE Names(n) /\ timers.send # Off /\ selector[n] > timers.send
    <3>1. timers'.send # Off /\ selector'[n] > timers'.send
      BY <1>1, <1>2, <1>3, <2>6, RulesDurations
    <3> QED BY <1>1, <1>9, <2>2, <2>6, <3>1 DEF ChosenInv
  <2> QED BY <1>1, <2>1, <2>3, <2>4, <2>5, <2>6 DEF ChosenInv
<1>12. ASSUME ~ Lossy PROVE OtherInv(n)'
  <2>1. OtherInv(n)
    BY <1>12 DEF RInv, WindowInv
  <2>2. ASSUME ~ behind[n], "other" \in tcOf'[n].list
        PROVE  calm'[n] + tcOf'[n].left <= MaxTcDelay
    BY <1>2, <1>4, <1>6, <2>1, <2>2, RulesDurations DEF OtherInv
  <2>3. CASE behind[n] /\ calm[n] + helloOf[n] <= HelloInterval
    <3>1. calm'[n] + helloOf'[n] <= HelloInterval
      BY <1>2, <1>4, <1>5, <2>3, RulesDurations
    <3> QED BY <1>1, <2>3, <3>1 DEF OtherInv
  <2>4. CASE /\ behind[n] /\ helloAir[n] # NoMessage /\ "other" \in helloAir[n].list
             /\ calm[n] + helloAir[n].left <= HelloInterval + MaxJitter
    <3>1. calm'[n] + helloAir'[n].left <= HelloInterval + MaxJitter
      BY <1>2, <1>4, <1>7, <2>4, RulesDurations
    <3> QED BY <1>1, <1>7, <2>4, <3>1 DEF OtherInv
  <2>5. CASE /\ behind[n] /\ "other" \in advSym[n]
             /\ helloAir[n] # NoMessage => "other" \in helloAir[n].list
    BY <1>1, <1>7, <1>8, <2>5 DEF OtherInv
  <2>6. CASE ~ behind[n]
    BY <1>1, <2>2, <2>6 DEF OtherInv
  <2> QED BY <2>1, <2>3, <2>4, <2>5, <2>6 DEF OtherInv
<1> QED BY <1>10, <1>11, <1>12

LEMMA RulesTickRInv ==
  ASSUME RInv, RulesTick
  PROVE  RInv'
<1>1. Tick /\ setup' = setup /\ mprSet' = mprSet
  BY DEF RulesTick, Tick
<1>2. IInv'
  BY <1>1, TickIInv DEF RInv
<1>3. CASE Monitored
  <2>1. UNCHANGED <<behind, helloOf, helloAir, tcOf, advSym, symLink, peer, calm>>
    BY <1>3 DEF RulesTick, links
  <2>2. RulesTypeOK'
    BY <1>2, <2>1 DEF RInv, RulesTypeOK, IInv
  <2>3. LinksInv'
    BY <1>1, <1>3, <2>1 DEF RInv, LinksInv, Monitored
  <2>4. WindowInv'
    BY <1>1, <1>3 DEF WindowInv, Monitored
  <2>5. \A n \in Neighbors : SymInv(n)'
    BY <1>1, <2>1, SymFrame DEF RInv
  <2> QED BY <1>2, <2>2, <2>3, <2>4, <2>5 DEF RInv
<1>4. CASE ~ Monitored
  <2>1. /\ \A n \in Neighbors : helloOf[n] # 0 /\ helloAir[n].left # 0
        /\ helloOf' = [n \in Neighbors |-> helloOf[n] - 1]
        /\ helloAir' = [n \in Neighbors |-> [helloAir[n] EXCEPT !.left = Elapse(@)]]
        /\ tcOf' = [n \in Neighbors |-> IF tcOf[n].left > 0
                                        THEN [tcOf[n] EXCEPT !.left = @ - 1] ELSE NoMessage]
        /\ peer' = [n \in Neighbors |-> IF peer[n].left = Trusted THEN peer[n]
                                        ELSE [peer[n] EXCEPT !.left = @ - 1]]
        /\ calm' = [n \in Neighbors |-> IF calm[n] < MaxCalm THEN calm[n] + 1 ELSE MaxCalm]
        /\ UNCHANGED <<behind, advSym, symLink>>
    BY <1>4 DEF RulesTick
  <2>2. timers'.defense = timers.defense - 1 /\ timers.defense \in 1 .. DefensePeriod
    <3>1. /\ DOMAIN timers = {"sweep", "defense", "hello", "tc", "send"}
          /\ timers.defense \in 0 .. DefensePeriod
      BY TimerTypes DEF RInv, IInv
    <3>2. timers.defense # 0 /\ timers'.defense = Elapse(timers.defense)
      BY <1>1, <3>1 DEF Tick
    <3> QED BY <3>1, <3>2, Durations DEF Elapse
  <2>3. ASSUME NEW n \in Neighbors
        PROVE  /\ helloAir'[n] \in [list : SUBSET {"self", "other"}, left : Off .. MaxJitter]
               /\ helloAir'[n] # NoMessage =>
                    /\ helloAir'[n].left >= 0
                    /\ helloOf'[n] >= HelloInterval - MaxJitter + helloAir'[n].left
                    /\ helloAir[n] # NoMessage /\ helloAir'[n].list = helloAir[n].list
    <3>1. /\ helloAir[n] \in [list : SUBSET {"self", "other"}, left : Off .. MaxJitter]
          /\ helloAir[n].left \in Off .. MaxJitter /\ helloOf[n] \in 0 .. HelloInterval
      BY Components
    <3>2. CASE helloAir[n] = NoMessage
      <4>1. helloAir'[n] = NoMessage
        BY <2>1, <3>2 DEF NoMessage, Elapse, Off
      <4> QED BY <4>1, MessageFields
    <3>3. CASE helloAir[n] # NoMessage
      <4>1. /\ helloAir[n].left >= 0
            /\ helloOf[n] >= HelloInterval - MaxJitter + helloAir[n].left
        BY <3>3 DEF RInv, LinksInv
      <4>2. helloAir'[n] = [list |-> helloAir[n].list, left |-> helloAir[n].left - 1]
            /\ helloAir[n].left - 1 \in 0 .. MaxJitter
        BY <2>1, <3>1, <4>1, RulesDurations DEF Elapse
      <4>3. helloOf'[n] = helloOf[n] - 1
        BY <2>1
      <4> QED BY <3>1, <3>3, <4>1, <4>2, <4>3, RulesDurations
    <3> QED BY <3>2, <3>3
  <2>4. ASSUME NEW n \in Neighbors
        PROVE  /\ tcOf'[n] \in [list : SUBSET {"self", "other"}, left : Off .. MaxTcDelay]
               /\ tcOf'[n] # NoMessage => tcOf'[n].left >= 0
    <3>1. /\ tcOf[n] \in [list : SUBSET {"self", "other"}, left : Off .. MaxTcDelay]
          /\ tcOf[n].left \in Off .. MaxTcDelay
      BY Components
    <3>2. CASE tcOf[n].left > 0
      <4>1. tcOf'[n] = [list |-> tcOf[n].list, left |-> tcOf[n].left - 1]
            /\ tcOf[n].left - 1 \in 0 .. MaxTcDelay
        BY <2>1, <3>1, <3>2, RulesDurations
      <4> QED BY <3>1, <4>1, RulesDurations
    <3>3. CASE ~ (tcOf[n].left > 0)
      BY <2>1, <3>3, MessageFields
    <3> QED BY <3>2, <3>3
  <2>5. ASSUME NEW n \in Neighbors
        PROVE  /\ peer'[n] \in [seen : SUBSET {"6", "7"},
                               left : {Trusted} \cup 1 - DefensePeriod .. MistrustDuration]
               /\ peer'[n].left # Trusted => peer'[n].left >= 1 - DefensePeriod + timers'.defense
    <3>1. peer[n] \in [seen : SUBSET {"6", "7"},
                       left : {Trusted} \cup 1 - DefensePeriod .. MistrustDuration]
      BY DEF RInv, RulesTypeOK
    <3>2. CASE peer[n].left = Trusted
      BY <2>1, <3>1, <3>2
    <3>3. CASE peer[n].left # Trusted
      <4>1. peer[n].left >= 1 - DefensePeriod + timers.defense
            /\ peer[n].left \in 1 - DefensePeriod .. MistrustDuration
        BY <3>1, <3>3 DEF RInv, LinksInv
      <4>2. peer'[n] = [seen |-> peer[n].seen, left |-> peer[n].left - 1]
            /\ peer[n].left - 1 \in 1 - DefensePeriod .. MistrustDuration
        BY <2>1, <2>2, <3>1, <3>3, <4>1, Durations
      <4> QED BY <2>2, <3>1, <4>1, <4>2, Durations
    <3> QED BY <3>2, <3>3
  <2>6. RulesTypeOK'
    <3>1. helloOf' \in [Neighbors -> 0 .. HelloInterval]
      <4>1. ASSUME NEW n \in Neighbors PROVE helloOf[n] - 1 \in 0 .. HelloInterval
        <5>1. helloOf[n] \in 0 .. HelloInterval /\ HelloInterval \in Nat
          BY Components, RulesDurations
        <5>2. helloOf[n] # 0
          BY <2>1
        <5> QED BY <5>1, <5>2
      <4> QED BY <2>1, <4>1
    <3>2. calm' \in [Neighbors -> 0 .. MaxCalm]
      BY <2>1, RulesDurations DEF RInv, RulesTypeOK
    <3>3. helloAir' \in [Neighbors -> [list : SUBSET {"self", "other"}, left : Off .. MaxJitter]]
      BY <2>1, <2>3
    <3>4. tcOf' \in [Neighbors -> [list : SUBSET {"self", "other"}, left : Off .. MaxTcDelay]]
      BY <2>1, <2>4
    <3>5. peer' \in [Neighbors -> [seen : SUBSET {"6", "7"},
                                  left : {Trusted} \cup 1 - DefensePeriod .. MistrustDuration]]
      BY <2>1, <2>5
    <3> QED BY <1>2, <2>1, <3>1, <3>2, <3>3, <3>4, <3>5 DEF RInv, RulesTypeOK, IInv
  <2>7. LinksInv'
    BY <1>1, <1>4, <2>1, <2>3, <2>4, <2>5 DEF RInv, LinksInv, Monitored
  <2>8. WindowInv'
    BY <1>1, <1>4, TickWindow DEF WindowInv, Lossy, Monitored
  <2>9. \A n \in Neighbors : SymInv(n)'
    BY <1>1, <2>1, <2>3 DEF RInv, SymInv, Monitored, Lossy
  <2> QED BY <1>2, <2>6, <2>7, <2>8, <2>9 DEF RInv
<1> QED BY <1>3, <1>4

LEMMA RulesNextRInv ==
  ASSUME RInv, [RulesNext]_rulesVars
  PROVE  RInv'
<1>1. CASE RulesMprComputation
  BY <1>1, RulesMprComputationRInv
<1>2. CASE RulesPeriodicCheck
  BY <1>2, RulesPeriodicCheckRInv
<1>3. CASE TrustStep
  BY <1>3, TrustStepRInv
<1>4. CASE RulesTick
  BY <1>4, RulesTickRInv
<1>5. ASSUME NEW n \in Neighbors,
             \/ MeetOther(n) \/ LinkRunsOut(n) \/ NeighborLoss(n)
             \/ QueueHello(n) \/ QueueTc(n) \/ RecvHello(n) \/ OnRecvTc(n)
      PROVE  RInv'
  BY <1>5, MeetOtherRInv, LinkRunsOutRInv, NeighborLossRInv, QueueHelloRInv, QueueTcRInv, RecvHelloRInv, OnRecvTcRInv
<1>6. CASE UNCHANGED rulesVars
  <2>1. UNCHANGED <<vars, behind, helloOf, helloAir, tcOf, advSym, symLink, peer, calm>>
    BY <1>6 DEF rulesVars, links
  <2>2. UNCHANGED <<setup, mprSet, queue, timers, selector>>
    BY <2>1 DEF vars
  <2>3. IInv'
    BY <2>1, StutterIInv DEF RInv
  <2>4. RulesTypeOK'
    BY <2>1, <2>3 DEF RInv, RulesTypeOK, IInv
  <2>5. \A n \in Neighbors : SymInv(n)'
    BY <2>1, <2>2, SymFrame DEF RInv
  <2>6. LinksInv' /\ WindowInv'
    BY <2>1, <2>2
    DEF RInv, LinksInv, WindowInv, DroppedInv, ChosenInv, OtherInv, Names, Monitored, Lossy
  <2> QED BY <2>3, <2>4, <2>5, <2>6 DEF RInv
<1> QED BY <1>1, <1>2, <1>3, <1>4, <1>5, <1>6 DEF RulesNext

-----------------------------------------------------------------------------
\* The inductive invariant: how far a change has come.
THEOREM RulesInvariance == RulesSpec => []RInv
<1>1. RInv /\ [RulesNext]_rulesVars => RInv'
  BY RulesNextRInv
<1> QED BY <1>1, RulesInitRInv, PTL DEF RulesSpec

\* Type correctness, also of what a peer is told: no mistrust of the peer
\* outlives its deadline by a defence period.
THEOREM RulesTypeCorrect == RulesSpec => []RulesTypeOK
<1>1. RInv => RulesTypeOK
  BY DEF RInv
<1> QED BY <1>1, RulesInvariance, PTL

\* A blame means that the TC was sent before the change had arrived.
LEMMA BlamesAreEarly == RInv => BlamedInWindow
<1> SUFFICES ASSUME RInv, NEW n \in Neighbors
             PROVE  /\ Blames(n, "7") => calm[n] <= Window7
                    /\ ~ Lossy /\ Blames(n, "9b") => calm[n] <= Window9b
                    /\ ~ Lossy /\ Blames(n, "6") => calm[n] <= Window6 \/ Blames(n, "7")
  BY DEF BlamedInWindow
<1> SUFFICES ASSUME tcOf[n] # NoMessage
             PROVE  /\ Blames(n, "7") => calm[n] <= Window7
                    /\ ~ Lossy /\ Blames(n, "9b") => calm[n] <= Window9b
                    /\ ~ Lossy /\ Blames(n, "6") => calm[n] <= Window6 \/ Blames(n, "7")
  BY DEF Blames
<1>1. ~ Monitored
  BY DEF RInv, LinksInv
<1>2. /\ calm[n] \in 0 .. MaxCalm /\ tcOf[n].left \in 0 .. MaxTcDelay
      /\ helloOf[n] \in 0 .. HelloInterval /\ helloAir[n].left \in Off .. MaxJitter
      /\ tcOf[n].list \subseteq {"self", "other"}
  <2>1. tcOf[n].left >= 0
    BY DEF RInv, LinksInv
  <2>2. tcOf[n].left \in Off .. MaxTcDelay /\ tcOf[n].list \subseteq {"self", "other"}
    BY Components
  <2> QED BY <2>1, <2>2, Components, RulesDurations
<1>3. ASSUME Blames(n, "7") PROVE calm[n] <= Window7
  <2>1. "self" \in tcOf[n].list /\ n \notin mprSet
    BY <1>3 DEF Blames, Proofs, Proof
  <2>2. calm[n] + tcOf[n].left <= Window7
    BY <1>1, <2>1 DEF RInv, WindowInv, DroppedInv
  <2> QED BY <1>2, <2>2, RulesDurations
<1>4. ASSUME ~ Lossy, Blames(n, "9b") PROVE calm[n] <= Window9b
  <2>1. "self" \notin tcOf[n].list /\ n \in mprSet
    BY <1>4 DEF Blames, Proofs, Proof
  <2>2. calm[n] + tcOf[n].left <= Window9b
    BY <1>1, <1>4, <2>1 DEF RInv, WindowInv, ChosenInv
  <2> QED BY <1>2, <2>2, RulesDurations
<1>5. ASSUME ~ Lossy, Blames(n, "6"), ~ Blames(n, "7") PROVE calm[n] <= Window6
  <2>1. advSym[n] # Unknown /\ ~ (tcOf[n].list \subseteq advSym[n])
    BY <1>5 DEF Blames, Proofs, Proof
  <2>2. "other" \in tcOf[n].list /\ "other" \notin advSym[n]
    <3>1. CASE "self" \in tcOf[n].list /\ "self" \notin advSym[n]
      <4>1. n \notin mprSet
        BY <1>1, <1>5, <3>1 DEF RInv, SymInv
      <4>2. Proof("7", n, mprSet) \in Proofs(n) /\ Proof("7", n, mprSet).formula = "7"
        BY <3>1, <4>1 DEF Proofs, Proof
      <4> QED BY <1>5, <4>2 DEF Blames
    <3> QED BY <1>2, <2>1, <3>1
  <2>3. OtherInv(n)
    BY <1>1, <1>5 DEF RInv, WindowInv
  <2>4. CASE behind[n]
    <3>1. \/ calm[n] + helloOf[n] <= HelloInterval
          \/ helloAir[n] # NoMessage /\ calm[n] + helloAir[n].left <= HelloInterval + MaxJitter
      BY <2>2, <2>3, <2>4 DEF OtherInv
    <3>2. helloAir[n] # NoMessage => helloAir[n].left >= 0
      BY DEF RInv, LinksInv
    <3> QED BY <1>2, <3>1, <3>2, RulesDurations DEF Window6
  <2>5. CASE ~ behind[n]
    <3>1. calm[n] + tcOf[n].left <= MaxTcDelay
      BY <2>2, <2>3, <2>5 DEF OtherInv
    <3> QED BY <1>2, <3>1, RulesDurations DEF Window6
  <2> QED BY <2>4, <2>5
<1> QED BY <1>3, <1>4, <1>5

\* Honest neighbours are blamed within a bounded time after a change only, for
\* all intervals, jitters and delays.
THEOREM HonestAreBlamedInWindow == RulesSpec => []BlamedInWindow
BY RulesInvariance, BlamesAreEarly, PTL

\* Every proof that is announced verifies at the peer that receives it.
THEOREM AnnouncedProofsVerify == RulesSpec => []AlertsVerify
<1>1. AlertsVerify
  BY DEF AlertsVerify, Proofs, Proof, IsAnnounceable, Verify
<1> QED BY <1>1, PTL

-----------------------------------------------------------------------------
\* A step is one of TrustDefense, or leaves what the forward monitor reads and
\* records as it is.
LEMMA RulesStepTrust ==
  ASSUME [RulesNext]_rulesVars
  PROVE  \/ [Next]_vars
         \/ \E n \in Neighbors :
              /\ OnRecvTc(n) \/ NeighborLoss(n)
              /\ UNCHANGED <<setup, dataPending, tcPending, failCount, timers, tcAir, dataAir>>
<1>1. CASE RulesMprComputation \/ RulesPeriodicCheck \/ TrustStep \/ RulesTick
  BY <1>1 DEF RulesMprComputation, RulesPeriodicCheck, TrustStep, RulesTick, Next
<1>2. ASSUME NEW n \in Neighbors,
             \/ MeetOther(n) \/ LinkRunsOut(n)
             \/ QueueHello(n) \/ QueueTc(n) \/ RecvHello(n)
      PROVE  UNCHANGED vars
  BY <1>2 DEF MeetOther, LinkRunsOut, QueueHello, QueueTc, RecvHello
<1>3. ASSUME NEW n \in Neighbors, OnRecvTc(n) \/ NeighborLoss(n)
      PROVE  UNCHANGED <<setup, dataPending, tcPending, failCount, timers, tcAir, dataAir>>
  BY <1>3 DEF OnRecvTc, NeighborLoss, records, verdicts
<1>4. CASE UNCHANGED rulesVars
  BY <1>4 DEF rulesVars
<1> QED BY <1>1, <1>2, <1>3, <1>4 DEF RulesNext

THEOREM OwedUnderRules == RulesSpec => []OwedByForwarders
<1>1. RulesInit => OwedByForwarders
  BY DEF RulesInit, Init, OwedByForwarders
<1>2. ASSUME RInv, OwedByForwarders, [RulesNext]_rulesVars PROVE OwedByForwarders'
  <2>1. CASE [Next]_vars
    BY <1>2, <2>1, OwedStep DEF RInv
  <2>2. CASE UNCHANGED <<setup, dataPending, tcPending, failCount, timers, tcAir, dataAir>>
    BY <1>2, <2>2 DEF OwedByForwarders, Forwarders, conduct
  <2> QED BY <1>2, <2>1, <2>2, RulesStepTrust
<1> QED BY <1>1, <1>2, RulesInvariance, PTL DEF RulesSpec

\* The forward monitor is as right beside the consistency rules as it is alone:
\* their verdicts neither blame nor credit anybody with a forwarding.
THEOREM MonitorBesideRules == RulesSpec => []NoFalseBlame /\ OnlyForwardingIsCredited
<1>1. RInv => NoFalseBlame
  BY NothingOwedExpires DEF RInv
<1>2. ASSUME RInv, OwedByForwarders, [RulesNext]_rulesVars, NEW n \in Neighbors
      PROVE  Uncredited(n)
  <2>1. CASE [Next]_vars
    BY <1>2, <2>1, CreditsGoToForwarders DEF RInv
  <2>2. CASE UNCHANGED <<setup, dataPending, tcPending, failCount, timers, tcAir, dataAir>>
    <3>1. failCount[n] >= failCount[n]
      BY <1>2, MissesTyped, Durations DEF RInv
    <3> QED BY <2>2, <3>1 DEF Uncredited, TcAwaited
  <2> QED BY <1>2, <2>1, <2>2, RulesStepTrust
<1>3. RInv /\ OwedByForwarders /\ [RulesNext]_rulesVars => [\A n \in Neighbors : Uncredited(n)]_vars
  BY <1>2
<1>4. (\A n \in Neighbors : Uncredited(n))
        <=> \A n \in Neighbors :
              /\ conduct[n] = {} => failCount'[n] >= failCount[n]
              /\ "tc" \notin conduct[n] /\ TcAwaited(n) => TcAwaited(n)' \/ CountedAsMiss(n)
              /\ "data" \notin conduct[n] =>
                   \A u \in Uids : dataPending[u].hop = n /\ dataPending'[u].hop # n
                                    => CountedAsMiss(n)
  BY DEF Uncredited
<1> QED BY <1>1, <1>3, <1>4, RulesInvariance, OwedUnderRules, PTL
        DEF RulesSpec, OnlyForwardingIsCredited

-----------------------------------------------------------------------------
\* When nothing is lost, the rules mistrust a neighbour that does not lie within
\* the window of a change only: once it has been calm for as long as calm
\* counts, no verdict is renewed, and the mistrust there is runs out.
CalmAreLeftAlone ==
  [][\A n \in Neighbors :
       ~ Monitored /\ ~ Lossy /\ exact'[n] > exact[n] => calm[n] < MaxCalm]_rulesVars

THEOREM RulesLeaveCalmAlone == RulesSpec => CalmAreLeftAlone
<1> DEFINE Leave == \A n \in Neighbors :
                      ~ Monitored /\ ~ Lossy /\ exact'[n] > exact[n] => calm[n] < MaxCalm
<1>1. RInv /\ [RulesNext]_rulesVars => [Leave]_rulesVars
  <2> SUFFICES ASSUME RInv, RulesNext, NEW n \in Neighbors, ~ Monitored, ~ Lossy,
                      exact'[n] > exact[n]
               PROVE  calm[n] < MaxCalm
    OBVIOUS
  <2>1. exact \in [Neighbors -> {Trusted} \cup 1 - DefensePeriod .. MistrustDuration]
    BY DEF RInv, IInv, TypeOK
  <2>2. /\ exact[n] \in Int /\ exact[n] >= Trusted /\ ~ (exact[n] > exact[n])
        /\ ~ (exact[n] - 1 > exact[n]) /\ ~ (Trusted > exact[n])
    BY <2>1, Durations
  <2>3. ~ UNCHANGED exact
    BY <2>2
  <2>4. ~ Sweep
    BY Durations DEF Sweep, RInv, IInv, TimersInv
  <2>5. ~ TrustStep
    BY <2>3, <2>4 DEF TrustStep, SendHello, SendTc, NoTcToSend, SendQueuedMessages, ReairTc,
                      RouteOutput, ReairData, verdicts
  <2>6. ~ RulesMprComputation
    BY <2>3 DEF RulesMprComputation, MprComputation, verdicts
  <2>7. ~ RulesPeriodicCheck
    BY <2>2 DEF RulesPeriodicCheck, PeriodicCheck
  <2>8. ~ RulesTick
    BY <2>2 DEF RulesTick, Tick
  <2>9. PICK m \in Neighbors : OnRecvTc(m)
    BY <2>3, <2>5, <2>6, <2>7, <2>8 
    DEF RulesNext, MeetOther, LinkRunsOut, NeighborLoss, QueueHello, QueueTc, RecvHello, vars,
        verdicts
  <2>10. m = n
    BY <2>1, <2>2, <2>9 DEF OnRecvTc, MistrustExact
  <2>11. Blames(n, "7") \/ Blames(n, "9b") \/ Blames(n, "6")
    BY <2>9, <2>10 DEF OnRecvTc, Blames, Proofs, Proof
  <2>12. calm[n] <= Window7 \/ calm[n] <= Window9b \/ calm[n] <= Window6
    BY <2>11, BlamesAreEarly DEF BlamedInWindow
  <2>13. calm[n] \in Nat
    BY RulesDurations DEF RInv, RulesTypeOK
  <2> QED BY <2>12, <2>13, RulesDurations DEF Window7, Window9b, Window6
<1> QED BY <1>1, RulesInvariance, PTL DEF RulesSpec, CalmAreLeftAlone

\* A peer believes at most one alert for each of the two formulas: whenever its
\* mistrust of a node is renewed, it has seen a formula it had not seen before.
BelievedOnce ==
  [][\A n \in Neighbors :
       peer'[n].left > peer[n].left =>
         /\ peer[n].seen \subseteq peer'[n].seen /\ peer[n].seen # peer'[n].seen
         /\ peer'[n].seen \subseteq {"6", "7"}]_rulesVars

THEOREM AlertsAreBelievedOnce == RulesSpec => BelievedOnce
<1> DEFINE Once == \A n \in Neighbors :
                     peer'[n].left > peer[n].left =>
                       /\ peer[n].seen \subseteq peer'[n].seen /\ peer[n].seen # peer'[n].seen
                       /\ peer'[n].seen \subseteq {"6", "7"}
<1>1. RInv /\ [RulesNext]_rulesVars => [Once]_rulesVars
  <2> SUFFICES ASSUME RInv, RulesNext, NEW n \in Neighbors, peer'[n].left > peer[n].left
               PROVE  /\ peer[n].seen \subseteq peer'[n].seen /\ peer[n].seen # peer'[n].seen
                      /\ peer'[n].seen \subseteq {"6", "7"}
    OBVIOUS
  <2> DEFINE Views == [seen : SUBSET {"6", "7"},
                       left : {Trusted} \cup 1 - DefensePeriod .. MistrustDuration]
  <2>1. peer \in [Neighbors -> Views]
    BY DEF RInv, RulesTypeOK
  <2>2. /\ peer[n].left \in Int /\ ~ (peer[n].left > peer[n].left)
        /\ ~ (peer[n].left - 1 > peer[n].left) /\ ~ (Trusted > peer[n].left)
        /\ peer[n] \in Views
    BY <2>1, Durations
  <2>3. ~ UNCHANGED peer
    BY <2>2
  <2>4. ~ TrustStep /\ ~ RulesMprComputation
    BY <2>3 DEF TrustStep, RulesMprComputation
  <2>5. ~ RulesPeriodicCheck
    BY <2>2 DEF RulesPeriodicCheck
  <2>6. ~ RulesTick
    BY <2>2, <2>3 DEF RulesTick
  <2>7. PICK m \in Neighbors : OnRecvTc(m)
    BY <2>3, <2>4, <2>5, <2>6 
    DEF RulesNext, MeetOther, LinkRunsOut, NeighborLoss, QueueHello, QueueTc, RecvHello
  <2> DEFINE proofs == {p \in Proofs(m) : IsAnnounceable(p)}
             new == {p \in proofs : p.formula \notin peer[m].seen}
  <2>8. Announce(m, proofs)
    BY <2>7 DEF OnRecvTc
  <2>9. m = n
    BY <2>1, <2>2, <2>8 DEF Announce
  <2>10. /\ peer'[n].seen = peer[n].seen \cup {p.formula : p \in new}
         /\ (\A p \in new : ~ Verify(p)) => peer'[n].left = peer[n].left
    BY <2>1, <2>8, <2>9 DEF Announce
  <2>11. \A p \in new : p.formula \in {"6", "7"} /\ p.formula \notin peer[n].seen
    BY <2>9 DEF IsAnnounceable
  <2> HIDE DEF new, proofs, Views
  <2>12. PICK p \in new : TRUE
    BY <2>2, <2>10
  <2>13. peer[n].seen \subseteq {"6", "7"}
    BY <2>2 DEF Views
  <2> QED BY <2>10, <2>11, <2>12, <2>13
<1> QED BY <1>1, RulesInvariance, PTL DEF RulesSpec, BelievedOnce
=============================================================================
