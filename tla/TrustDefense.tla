---------------------------- MODULE TrustDefense ----------------------------
(***************************************************************************)
(* The trust defence of one node: OlsrForwardMonitor, which expects every  *)
(* relay of the node to re-air the TCs and the data the node originates,   *)
(* and OlsrTrustState, which mistrusts a neighbour for a while once it     *)
(* failed often enough in a row; attached to the parts of RoutingProtocol  *)
(* that drive it: the HELLO and TC timers, the output queue, RouteOutput,  *)
(* the promiscuous monitor and the defence timer.                          *)
(*                                                                         *)
(* Time is relative: a deadline is the time left until it, decremented by  *)
(* Tick, and negative once it has passed, so that runs are unbounded and   *)
(* their states finite.  What is due happens before the next Tick, in any  *)
(* order.  The attributes have their defaults (data and TCs are monitored, *)
(* relayed data is not, no strict MAC attribution, response enabled), with *)
(* temporary mistrust; only the forward monitor may be disabled, for the   *)
(* consistency rules that ConsistencyRules adds.                           *)
(***************************************************************************)
EXTENDS Integers, Sequences, FiniteSets

CONSTANTS Neighbors,           \* symmetric neighbours of this node
          Setups,              \* what may be configured: see setup
          Uids,                \* packet UIDs of data originated here
          ForwardTimeout,      \* awaiting period of the forward monitor
          SweepInterval,       \* checkInterval of the forward monitor
          MinForwardFailures,  \* misses in a row before mistrust fires
          MistrustDuration,    \* how long a mistrust lasts
          DefensePeriod,       \* period of HandleDefenseTimer
          HelloInterval, TcInterval,
          SelectorHold,        \* validity of an MPR selector tuple
          MaxJitter            \* OLSR_MAXJITTER, also for the data to be re-aired

ASSUME TrustAssumption ==
  /\ Setups \subseteq [conduct : [Neighbors -> SUBSET {"tc", "data"}], lossy : BOOLEAN,
                       defence : {"monitor", "rules"}]
  /\ IsFiniteSet(Uids) /\ IsFiniteSet(Neighbors) /\ "none" \notin Neighbors
  /\ {SweepInterval, MinForwardFailures, MistrustDuration, DefensePeriod,
      HelloInterval, MaxJitter} \subseteq Nat \ {0}
  /\ ForwardTimeout \in Nat /\ ForwardTimeout > 2 * MaxJitter
  /\ TcInterval \in Nat /\ TcInterval > ForwardTimeout + SweepInterval
  /\ SelectorHold \in Nat /\ SelectorHold > HelloInterval + MaxJitter

VARIABLES setup,       \* conduct[n]: what n forwards, TCs of its selectors and data;
                       \* lossy: transmissions may be lost; defence: what is enabled
          mprSet,      \* GetMprSet of the protocol
          dataPending, \* dataPending[u]: the data record of uid u, or NoRecord
          tcPending,   \* the TC records: the less time is left, the older
          failCount,   \* consecutive misses, counted up to MinForwardFailures
          exact,       \* exact[n]: time left of the mistrust of n, or Trusted
          queue,       \* m_queuedMessages: TCs and the relays named by HELLOs
          timers,      \* time left of the sweep, defence, HELLO, TC and queue timers
          selector,    \* selector[n]: how long n will hold this node a selector
          tcAir,       \* tcAir[n]: time left to re-air a TC n has queued, or Off
          dataAir      \* dataAir[u]: time left to re-air data handed over, or Off

vars == <<setup, mprSet, dataPending, tcPending, failCount, exact, queue, timers,
          selector, tcAir, dataAir>>
neighbours == <<setup, selector, tcAir, dataAir>>
records == <<dataPending, tcPending>>
verdicts == <<failCount, exact>>

\* What stays as it was set up.
conduct == setup.conduct
Lossy == setup.lossy
Monitored == setup.defence = "monitor"

NoRecord == [hop |-> "none", left |-> 0]
Off == -1
Trusted == -DefensePeriod - 1
Smaller(a, b) == IF a < b THEN a ELSE b

TcMessage == [type |-> "tc"]
HelloNaming(M) == [type |-> "hello", mprs |-> M]

-----------------------------------------------------------------------------
IsMalicious(n) == exact[n] # Trusted

Forwarders(what) == {n \in Neighbors : what \in conduct[n]}

\* n expects this node to be its selector for long enough to receive what is
\* put into the output queue now.
KnowsItIsRelay(n) == selector[n] > MaxJitter

Init ==
  /\ setup \in Setups
  /\ mprSet = {}
  /\ dataPending = [u \in Uids |-> NoRecord]
  /\ tcPending = {}
  /\ failCount = [n \in Neighbors |-> 0]
  /\ exact = [n \in Neighbors |-> Trusted]
  /\ queue = <<>>
  /\ timers = [sweep |-> IF Monitored THEN SweepInterval ELSE Off, defense |-> DefensePeriod,
               hello |-> HelloInterval, tc |-> IF Monitored THEN TcInterval ELSE Off,
               send |-> Off]
  /\ selector = [n \in Neighbors |-> 0]
  /\ tcAir = [n \in Neighbors |-> Off]
  /\ dataAir = [u \in Uids |-> Off]

\* QueueMessage: the first message of a batch starts the timer.
QueueMessage(m, t) ==
  /\ queue' = Append(queue, m)
  /\ timers' = IF t.send = Off THEN [t EXCEPT !.send = MaxJitter] ELSE t

\* ProcessHello of the protocol: the MPR computation leaves out mistrusted
\* neighbours; which of the others it chooses is up to their HELLOs.
MprComputation ==
  /\ mprSet' \in SUBSET {n \in Neighbors : ~ IsMalicious(n)}
  /\ UNCHANGED <<records, verdicts, queue, timers, neighbours>>

\* HelloTimerExpire.
SendHello ==
  /\ timers.hello = 0
  /\ QueueMessage(HelloNaming(mprSet), [timers EXCEPT !.hello = HelloInterval])
  /\ UNCHANGED <<mprSet, records, verdicts, neighbours>>

\* Mutant: an awaiting period that covers the jitter of one queue only.
OnTcGeneratedHasty ==
  tcPending' = IF mprSet = {} \/ ~ Monitored THEN tcPending
               ELSE tcPending \cup {[pending |-> mprSet, left |-> MaxJitter,
                                     sure |-> {n \in mprSet : KnowsItIsRelay(n)}]}

\* OnTcGenerated: the present relays have to re-air the TC in time.  The field
\* sure is not in the code: it remembers, for NoFalseBlame, which of them were
\* already told that they are relays.
OnTcGenerated ==
  tcPending' = IF mprSet = {} \/ ~ Monitored THEN tcPending
               ELSE tcPending \cup {[pending |-> mprSet, left |-> ForwardTimeout,
                                     sure |-> {n \in mprSet : KnowsItIsRelay(n)}]}

\* TcTimerExpire, when this node has MPR selectors of its own and when not.
SendTc ==
  /\ timers.tc = 0
  /\ OnTcGenerated
  /\ QueueMessage(TcMessage, [timers EXCEPT !.tc = TcInterval])
  /\ UNCHANGED <<mprSet, dataPending, verdicts, neighbours>>

NoTcToSend ==
  /\ timers.tc = 0
  /\ timers' = [timers EXCEPT !.tc = TcInterval]
  /\ UNCHANGED <<mprSet, records, verdicts, queue, neighbours>>

\* How long n holds this node a selector when it has read the first i
\* messages of the packet: the last HELLO that names n counts, one that does
\* not name n removes nothing.
SelectorAfter(n, i) ==
  IF \E j \in 1 .. i : queue[j].type = "hello" /\ n \in queue[j].mprs
  THEN SelectorHold ELSE selector[n]

\* SendQueuedMessages, and what the neighbours that receive the packet do:
\* PopulateMprSelectorSet for its HELLOs, ForwardDefault for its TCs.
SendQueuedMessages ==
  /\ timers.send # Off
  /\ \E received \in SUBSET Neighbors :
       /\ ~ Lossy => received = Neighbors
       /\ selector' = [n \in Neighbors |-> IF n \in received THEN SelectorAfter(n, Len(queue))
                                           ELSE selector[n]]
       /\ tcAir' = [n \in Neighbors |->
            IF /\ n \in received \cap Forwarders("tc")
               /\ tcAir[n] = Off
               /\ \E i \in 1 .. Len(queue) :
                    queue[i].type = "tc" /\ SelectorAfter(n, i) > 0
            THEN MaxJitter ELSE tcAir[n]]
  /\ queue' = <<>>
  /\ timers' = [timers EXCEPT !.send = Off]
  /\ UNCHANGED <<setup, mprSet, records, verdicts, dataAir>>

\* Mutant: the first relay to re-air the TC settles it for all of them.
CreditTcForwardOfAll(n) ==
  LET awaiting == {r \in tcPending : n \in r.pending}
  IN  IF awaiting = {} THEN UNCHANGED <<tcPending, failCount>>
      ELSE /\ failCount' = [failCount EXCEPT ![n] = 0]
           /\ tcPending' = tcPending \ awaiting

\* CreditTcForward: the oldest record that awaits n.
CreditTcForward(n) ==
  LET awaiting == {r \in tcPending : n \in r.pending}
      oldest == CHOOSE r \in awaiting : \A s \in awaiting : r.left <= s.left
      others == tcPending \ {oldest}
  IN  IF awaiting = {} THEN UNCHANGED <<tcPending, failCount>>
      ELSE /\ failCount' = [failCount EXCEPT ![n] = 0]
           /\ tcPending' = IF oldest.pending = {n} THEN others
                           ELSE others \cup {[oldest EXCEPT !.pending = @ \ {n}]}

\* n re-airs a TC of this node, which overhears it or not.
ReairTc(n) ==
  /\ tcAir[n] # Off
  /\ \/ CreditTcForward(n)
     \/ Lossy /\ UNCHANGED <<tcPending, failCount>>
  /\ tcAir' = [tcAir EXCEPT ![n] = Off]
  /\ UNCHANGED <<setup, mprSet, dataPending, exact, queue, timers, selector, dataAir>>

\* RouteOutput and OnDataForward: data for a node behind neighbour n, or for n
\* itself.  The verdict on n is not asked; only relays are watched, and not
\* when they are the destination.
RouteOutput(u, n, lastHop) ==
  /\ Monitored /\ dataPending[u] = NoRecord
  /\ n \in mprSet /\ ~ lastHop
  /\ dataPending' = [dataPending EXCEPT ![u] = [hop |-> n, left |-> ForwardTimeout]]
  /\ \/ n \in Forwarders("data") /\ dataAir' = [dataAir EXCEPT ![u] = MaxJitter]
     \/ (n \notin Forwarders("data") \/ Lossy) /\ UNCHANGED dataAir
  /\ UNCHANGED <<setup, mprSet, tcPending, verdicts, queue, timers, selector, tcAir>>

\* HandleOverheardData, when the data is re-aired and overheard.
ReairData(u) ==
  /\ dataAir[u] # Off
  /\ \/ /\ failCount' = [failCount EXCEPT ![dataPending[u].hop] = 0]
        /\ dataPending' = [dataPending EXCEPT ![u] = NoRecord]
     \/ Lossy /\ UNCHANGED <<failCount, dataPending>>
  /\ dataAir' = [dataAir EXCEPT ![u] = Off]
  /\ UNCHANGED <<setup, mprSet, tcPending, exact, queue, timers, selector, tcAir>>

-----------------------------------------------------------------------------
\* The records that have expired, and the failures a sweep raises for n.
ExpiredData(n) == {u \in Uids : dataPending[u].hop = n /\ dataPending[u].left <= 0}
ExpiredTc(n) == {r \in tcPending : r.left <= 0 /\ n \in r.pending}
Failures(n) == Cardinality(ExpiredData(n)) + Cardinality(ExpiredTc(n))

\* MistrustExact, for every node of the set.
MistrustExact(S) ==
  exact' = [n \in Neighbors |-> IF n \in S THEN MistrustDuration ELSE exact[n]]

\* Mutant: judges by the count at every sweep, not only at a failure.
RaiseFailuresAlways ==
  /\ failCount' = [n \in Neighbors |->
                     Smaller(failCount[n] + Failures(n), MinForwardFailures)]
  /\ MistrustExact({n \in Neighbors : failCount[n] + Failures(n) >= MinForwardFailures})

\* RaiseFailure for every expired record: the misses that reach the threshold
\* mistrust the neighbour.
RaiseFailures ==
  /\ failCount' = [n \in Neighbors |->
                     Smaller(failCount[n] + Failures(n), MinForwardFailures)]
  /\ MistrustExact({n \in Neighbors : /\ Failures(n) > 0
                                      /\ failCount[n] + Failures(n) >= MinForwardFailures})

\* Mutant: a record of which the deadline is this instant is kept.
SweepLate ==
  /\ timers.sweep = 0
  /\ RaiseFailures
  /\ dataPending' = dataPending
  /\ tcPending' = {r \in tcPending : r.left >= 0}
  /\ timers' = [timers EXCEPT !.sweep = SweepInterval]
  /\ UNCHANGED <<mprSet, queue, neighbours>>

\* Sweep: the expired records are judged and erased.
Sweep ==
  /\ timers.sweep = 0
  /\ RaiseFailures
  /\ dataPending' = [u \in Uids |-> IF dataPending[u].left <= 0 THEN NoRecord
                                    ELSE dataPending[u]]
  /\ tcPending' = {r \in tcPending : r.left > 0}
  /\ timers' = [timers EXCEPT !.sweep = SweepInterval]
  /\ UNCHANGED <<mprSet, queue, neighbours>>

\* Mutant: the periodic check clears the failure counters as well.
PeriodicCheckForgets ==
  /\ timers.defense = 0
  /\ exact' = [n \in Neighbors |-> IF exact[n] <= 0 THEN Trusted ELSE exact[n]]
  /\ failCount' = [n \in Neighbors |-> 0]
  /\ timers' = [timers EXCEPT !.defense = DefensePeriod]
  /\ UNCHANGED <<mprSet, records, queue, neighbours>>

\* HandleDefenseTimer and OlsrTrustState::Expire.
PeriodicCheck ==
  /\ timers.defense = 0
  /\ exact' = [n \in Neighbors |-> IF exact[n] <= 0 THEN Trusted ELSE exact[n]]
  /\ timers' = [timers EXCEPT !.defense = DefensePeriod]
  /\ UNCHANGED <<mprSet, records, failCount, queue, neighbours>>

\* One unit of time passes when nothing is due.
Elapse(t) == IF t > 0 THEN t - 1 ELSE t
Tick ==
  /\ \A t \in DOMAIN timers : timers[t] # 0
  /\ \A n \in Neighbors : tcAir[n] # 0
  /\ \A u \in Uids : dataAir[u] # 0
  /\ timers' = [t \in DOMAIN timers |-> Elapse(timers[t])]
  /\ tcAir' = [n \in Neighbors |-> Elapse(tcAir[n])]
  /\ dataAir' = [u \in Uids |-> Elapse(dataAir[u])]
  /\ selector' = [n \in Neighbors |-> Elapse(selector[n])]
  /\ dataPending' = [u \in Uids |->
       IF dataPending[u] = NoRecord THEN NoRecord ELSE [dataPending[u] EXCEPT !.left = @ - 1]]
  /\ tcPending' = {[r EXCEPT !.left = @ - 1] : r \in tcPending}
  /\ exact' = [n \in Neighbors |-> IF exact[n] = Trusted THEN Trusted ELSE exact[n] - 1]
  /\ UNCHANGED <<setup, mprSet, failCount, queue>>

Next ==
  \/ MprComputation \/ SendHello \/ SendTc \/ NoTcToSend \/ SendQueuedMessages
  \/ \E n \in Neighbors : ReairTc(n)
  \/ \E u \in Uids, n \in Neighbors, lastHop \in BOOLEAN : RouteOutput(u, n, lastHop)
  \/ \E u \in Uids : ReairData(u)
  \/ Sweep \/ PeriodicCheck \/ Tick

Spec == Init /\ [][Next]_vars

\* The relays are computed while one of them is mistrusted: at a HELLO of a
\* neighbour that is trusted, as those of others are dropped, or when the link
\* of the mistrusted one has run out and NeighborLoss is called.
DropMistrusted == MprComputation /\ \E n \in mprSet : IsMalicious(n)

\* The simulator runs every event that is due and then advances; HELLOs keep
\* arriving; the node keeps having selectors of its own now and then, so that
\* its TC timer does send TCs.
Fairness ==
  /\ WF_vars(Tick) /\ WF_vars(Sweep) /\ WF_vars(PeriodicCheck) /\ WF_vars(DropMistrusted)
  /\ WF_vars(SendHello) /\ SF_vars(SendTc) /\ WF_vars(SendQueuedMessages)
  /\ \A n \in Neighbors : WF_vars(ReairTc(n))
  /\ \A u \in Uids : WF_vars(ReairData(u))
FairSpec == Spec /\ Fairness

-----------------------------------------------------------------------------
\* Type correctness; no record is kept a whole sweep interval beyond its
\* deadline, and no mistrust a whole defence period.
TypeOK ==
  /\ setup \in Setups
  /\ mprSet \subseteq Neighbors
  /\ dataPending \in [Uids -> {NoRecord} \cup
       [hop : Neighbors, left : 1 - SweepInterval .. ForwardTimeout]]
  /\ tcPending \subseteq [pending : (SUBSET Neighbors) \ {{}}, sure : SUBSET Neighbors,
                          left : 1 - SweepInterval .. ForwardTimeout]
  /\ failCount \in [Neighbors -> 0 .. MinForwardFailures]
  /\ exact \in [Neighbors -> {Trusted} \cup 1 - DefensePeriod .. MistrustDuration]
  /\ selector \in [Neighbors -> 0 .. SelectorHold]
  /\ tcAir \in [Neighbors -> Off .. MaxJitter]
  /\ dataAir \in [Uids -> Off .. MaxJitter]

\* On a channel that loses nothing no forward-failure is raised against a
\* neighbour that does forward: not for data, and not for a TC when the
\* neighbour already knew that it is a relay.  The awaiting period has to
\* cover the jitter of both queues, and a credit must meet its own record.
NoFalseBlame ==
  ~ Lossy =>
    /\ \A n \in Forwarders("data") : ExpiredData(n) = {}
    /\ \A n \in Forwarders("tc") : \A r \in ExpiredTc(n) : n \notin r.sure

\* A neighbour is only credited with what it forwards, whatever is lost.  What
\* is awaited of a neighbour that never forwards it stays awaited, through the
\* credits of the other relays of the same TC, until it is counted as a miss,
\* and a miss at the threshold mistrusts the neighbour anew; the misses of a
\* neighbour that forwards neither TCs nor data are never taken back.
DataAwaited(n) == \E u \in Uids : dataPending[u].hop = n
TcAwaited(n) == \E r \in tcPending : n \in r.pending
CountedAsMiss(n) == failCount'[n] > failCount[n] \/ exact'[n] = MistrustDuration
OnlyForwardingIsCredited ==
  [][\A n \in Neighbors :
       /\ conduct[n] = {} => failCount'[n] >= failCount[n]
       /\ "tc" \notin conduct[n] /\ TcAwaited(n) => TcAwaited(n)' \/ CountedAsMiss(n)
       /\ "data" \notin conduct[n] =>
            \A u \in Uids : dataPending[u].hop = n /\ dataPending'[u].hop # n
                             => CountedAsMiss(n)]_vars

\* A neighbour that forwards nothing is mistrusted, and mistrusted again after
\* every rehabilitation, as long as TCs or data keep being awaited from it.
Awaited(n) == TcAwaited(n) \/ DataAwaited(n)
TotalBlackHoleCaught ==
  \A n \in Neighbors :
    []<>(conduct[n] = {} /\ Awaited(n)) => []<>IsMalicious(n)

\* The comment of minForwardFailures: a black hole that drops all the data it
\* is given is mistrusted, although like the black hole of RouteInput it
\* re-floods TCs.
DataBlackHoleCaught ==
  \A n \in Neighbors : "data" \notin conduct[n] /\ []<>DataAwaited(n) => []<>IsMalicious(n)
=============================================================================
