------------------------- MODULE TrustDefense_proofs -------------------------
(***************************************************************************)
(* Proofs about TrustDefense: on a channel that loses nothing the forward  *)
(* monitor blames no neighbour that forwards, whatever the intervals are   *)
(* as long as the awaiting period covers the jitter of both output queues  *)
(* and ends, with its sweep, before the next TC.  The inductive invariant  *)
(* follows a TC from the queue of this node into that of the relay, and    *)
(* tells how much of the awaiting period each of the two has left.  And on *)
(* any channel a neighbour is credited with what it forwards only.         *)
(***************************************************************************)
EXTENDS TrustDefense, FiniteSetTheorems, TLAPS

-----------------------------------------------------------------------------
Record == [pending : (SUBSET Neighbors) \ {{}}, sure : SUBSET Neighbors,
           left : 1 - SweepInterval .. ForwardTimeout]
DataRecord == [hop : Neighbors, left : 1 - SweepInterval .. ForwardTimeout]
Messages == {TcMessage} \cup {HelloNaming(M) : M \in SUBSET Neighbors}

\* The timers; without the forward monitor there is no sweep and no TC.
TimersInv ==
  /\ timers \in [sweep : Off .. SweepInterval, defense : 0 .. DefensePeriod,
                 hello : 0 .. HelloInterval, tc : Off .. TcInterval, send : Off .. MaxJitter]
  /\ Monitored => timers.sweep # Off /\ timers.tc # Off
  /\ ~ Monitored => /\ timers.sweep = Off /\ timers.tc = Off
                    /\ tcPending = {} /\ dataPending = [u \in Uids |-> NoRecord]

\* A TC is in the queue, or re-aired by a neighbour, for a jitter only.
TcQueued == \E i \in 1 .. Len(queue) : queue[i].type = "tc"
QueueInv ==
  /\ queue \in Seq(Messages)
  /\ timers.send = Off => queue = <<>>
  /\ TcQueued => timers.tc >= TcInterval - MaxJitter + timers.send
  /\ \A n \in Neighbors :
       tcAir[n] # Off => timers.tc >= TcInterval - 2 * MaxJitter + tcAir[n]

\* Records wait for the sweep that erases them: no two TCs are awaited at once.
RecordInv ==
  /\ \A r \in tcPending : /\ r.left >= 1 - SweepInterval + timers.sweep
                          /\ r.left <= ForwardTimeout - TcInterval + timers.tc
  /\ \A r, s \in tcPending : r = s
  /\ \A u \in Uids : dataPending[u] # NoRecord =>
       dataPending[u].left >= 1 - SweepInterval + timers.sweep
  /\ \A u \in Uids : dataAir[u] # Off =>
       /\ dataPending[u] # NoRecord
       /\ dataPending[u].left >= ForwardTimeout - MaxJitter + dataAir[u]

\* A mistrust waits for the check that ends it.
VerdictInv ==
  \A n \in Neighbors : exact[n] # Trusted => exact[n] >= 1 - DefensePeriod + timers.defense

\* On a lossless channel: the data a forwarding relay owes this node is in its
\* queue, and the TC it owes it is either still in the queue of this node,
\* which the relay knows it is a relay of, or in its own.
DataInv ==
  \A u \in Uids : dataPending[u].hop \in Forwarders("data") => dataAir[u] # Off
OwedInQueue(r, n) ==
  /\ TcQueued /\ timers.send # Off /\ tcAir[n] = Off
  /\ selector[n] > timers.send
  /\ r.left >= ForwardTimeout - MaxJitter + timers.send
OwedInAir(r, n) ==
  /\ tcAir[n] # Off
  /\ r.left >= ForwardTimeout - 2 * MaxJitter + tcAir[n]
TcInv ==
  \A r \in tcPending : \A n \in r.pending \cap r.sure \cap Forwarders("tc") :
    OwedInQueue(r, n) \/ OwedInAir(r, n)

IInv ==
  /\ TypeOK /\ TimersInv /\ QueueInv /\ RecordInv /\ VerdictInv
  /\ ~ Lossy => DataInv /\ TcInv

LEMMA Durations ==
  /\ SweepInterval \in Nat \ {0} /\ DefensePeriod \in Nat \ {0}
  /\ HelloInterval \in Nat \ {0} /\ MaxJitter \in Nat \ {0}
  /\ MinForwardFailures \in Nat \ {0} /\ MistrustDuration \in Nat \ {0}
  /\ ForwardTimeout \in Nat /\ ForwardTimeout > 2 * MaxJitter
  /\ TcInterval \in Nat /\ TcInterval > ForwardTimeout + SweepInterval
  /\ SelectorHold \in Nat /\ SelectorHold > HelloInterval + MaxJitter
  /\ Off = -1 /\ Trusted = -DefensePeriod - 1
BY TrustAssumption DEF Off, Trusted

LEMMA NoRecordIsNone ==
  /\ NoRecord \notin DataRecord
  /\ NoRecord.hop \notin Neighbors
BY TrustAssumption DEF NoRecord, DataRecord

\* The timers as numbers.
LEMMA TimerTypes ==
  ASSUME TimersInv
  PROVE  /\ timers.sweep \in Off .. SweepInterval /\ timers.defense \in 0 .. DefensePeriod
         /\ timers.hello \in 0 .. HelloInterval /\ timers.tc \in Off .. TcInterval
         /\ timers.send \in Off .. MaxJitter
         /\ DOMAIN timers = {"sweep", "defense", "hello", "tc", "send"}
BY DEF TimersInv

LEMMA Recs ==
  ASSUME TypeOK
  PROVE  /\ tcPending \subseteq Record
         /\ dataPending \in [Uids -> {NoRecord} \cup DataRecord]
BY DEF TypeOK, Record, DataRecord

LEMMA InitIInv == Init => IInv
<1> SUFFICES ASSUME Init PROVE IInv
  OBVIOUS
<1> USE Durations DEF Init
<1>1. TypeOK
  BY DEF TypeOK
<1>2. TimersInv
  BY DEF TimersInv
<1>3. QueueInv
  BY DEF QueueInv, TcQueued
<1>4. RecordInv /\ VerdictInv
  BY DEF RecordInv, VerdictInv
<1>5. DataInv /\ TcInv
  BY NoRecordIsNone DEF DataInv, TcInv, Forwarders
<1> QED BY <1>1, <1>2, <1>3, <1>4, <1>5 DEF IInv

-----------------------------------------------------------------------------
TimerSet == [sweep : Off .. SweepInterval, defense : 0 .. DefensePeriod,
             hello : 0 .. HelloInterval, tc : Off .. TcInterval, send : Off .. MaxJitter]

\* A message is appended, and the queue timer runs.
LEMMA Queued ==
  ASSUME IInv, NEW m \in Messages, NEW t \in TimerSet, QueueMessage(m, t), t.send = timers.send
  PROVE  /\ queue' \in Seq(Messages)
         /\ TcQueued' <=> TcQueued \/ m.type = "tc"
         /\ timers' \in TimerSet /\ timers'.send # Off
         /\ timers'.send = IF timers.send = Off THEN MaxJitter ELSE timers.send
         /\ timers'.sweep = t.sweep /\ timers'.defense = t.defense
         /\ timers'.hello = t.hello /\ timers'.tc = t.tc
         /\ timers.send = Off => ~ TcQueued
<1>1. queue' = Append(queue, m) /\ queue \in Seq(Messages)
  BY DEF QueueMessage, IInv, QueueInv
<1>2. timers' = IF t.send = Off THEN [t EXCEPT !.send = MaxJitter] ELSE t
  BY DEF QueueMessage
<1>3. /\ queue' \in Seq(Messages) /\ Len(queue') = Len(queue) + 1
      /\ \A i \in 1 .. Len(queue) : queue'[i] = queue[i]
      /\ queue'[Len(queue) + 1] = m /\ Len(queue) \in Nat
  BY <1>1
<1>4. TcQueued' <=> TcQueued \/ m.type = "tc"
  BY <1>3 DEF TcQueued
<1>5. timers.send = Off => ~ TcQueued
  BY DEF IInv, QueueInv, TcQueued
<1>6. /\ timers' \in TimerSet /\ timers'.send # Off
      /\ timers'.send = IF timers.send = Off THEN MaxJitter ELSE timers.send
      /\ timers'.sweep = t.sweep /\ timers'.defense = t.defense
      /\ timers'.hello = t.hello /\ timers'.tc = t.tc
  BY <1>2, Durations DEF TimerSet
<1> QED BY <1>3, <1>4, <1>5, <1>6

LEMMA MprComputationIInv ==
  ASSUME IInv, MprComputation
  PROVE  IInv'
<1>1. /\ mprSet' \subseteq Neighbors
      /\ UNCHANGED <<setup, dataPending, tcPending, failCount, exact, queue, timers,
                     selector, tcAir, dataAir>>
  BY DEF MprComputation, records, verdicts, neighbours
<1>2. TypeOK'
  BY <1>1 DEF IInv, TypeOK
<1>3. TimersInv' /\ QueueInv' /\ RecordInv' /\ VerdictInv'
  BY <1>1 DEF IInv, TimersInv, QueueInv, RecordInv, VerdictInv, Monitored, TcQueued
<1>4. ~ Lossy' => DataInv' /\ TcInv'
  BY <1>1 DEF IInv, Lossy, DataInv, TcInv, OwedInQueue, OwedInAir, TcQueued, Forwarders, conduct
<1> QED BY <1>2, <1>3, <1>4 DEF IInv

LEMMA SendHelloIInv ==
  ASSUME IInv, SendHello
  PROVE  IInv'
<1> DEFINE t == [timers EXCEPT !.hello = HelloInterval]
<1>1. UNCHANGED <<setup, mprSet, dataPending, tcPending, failCount, exact,
                  selector, tcAir, dataAir>>
  BY DEF SendHello, records, verdicts, neighbours
<1>2. HelloNaming(mprSet) \in Messages /\ HelloNaming(mprSet).type # "tc"
  BY DEF IInv, TypeOK, Messages, HelloNaming
<1>3. /\ t \in TimerSet /\ t.send = timers.send /\ t.sweep = timers.sweep
      /\ t.defense = timers.defense /\ t.tc = timers.tc
  BY Durations DEF IInv, TimersInv, TimerSet
<1>4. QueueMessage(HelloNaming(mprSet), t)
  BY DEF SendHello
<1> HIDE DEF t
<1>5. /\ queue' \in Seq(Messages) /\ (TcQueued' <=> TcQueued)
      /\ timers' \in TimerSet /\ timers'.send # Off
      /\ timers'.send = IF timers.send = Off THEN MaxJitter ELSE timers.send
      /\ timers'.sweep = timers.sweep /\ timers'.defense = timers.defense
      /\ timers'.tc = timers.tc /\ (timers.send = Off => ~ TcQueued)
  BY <1>2, <1>3, <1>4, Queued
<1>6. TypeOK'
  BY <1>1 DEF IInv, TypeOK
<1>7. TimersInv'
  BY <1>1, <1>5 DEF IInv, TimersInv, TimerSet, Monitored
<1>8. QueueInv'
  BY <1>1, <1>5 DEF IInv, QueueInv
<1>9. RecordInv' /\ VerdictInv'
  BY <1>1, <1>5 DEF IInv, RecordInv, VerdictInv
<1>10. ~ Lossy' => DataInv' /\ TcInv'
  BY <1>1, <1>5 DEF IInv, Lossy, DataInv, TcInv, OwedInQueue, OwedInAir, Forwarders, conduct
<1> QED BY <1>6, <1>7, <1>8, <1>9, <1>10 DEF IInv

\* When the TC timer expires nothing is left of the TC before.
LEMMA LastTcIsOver ==
  ASSUME IInv, timers.tc = 0
  PROVE  tcPending = {} /\ ~ TcQueued /\ \A n \in Neighbors : tcAir[n] = Off
<1>1. ASSUME NEW r \in tcPending PROVE FALSE
  <2>1. r.left \in Int /\ r.left >= 1 - SweepInterval
    BY Durations DEF IInv, TypeOK
  <2>2. r.left <= ForwardTimeout - TcInterval + 0
    BY DEF IInv, RecordInv
  <2> QED BY <2>1, <2>2, Durations
<1>2. ~ TcQueued
  BY Durations, TimerTypes DEF IInv, QueueInv
<1>3. ASSUME NEW n \in Neighbors PROVE tcAir[n] = Off
  <2>1. tcAir[n] \in Off .. MaxJitter
    BY DEF IInv, TypeOK
  <2>2. tcAir[n] # Off => 0 >= TcInterval - 2 * MaxJitter + tcAir[n]
    BY DEF IInv, QueueInv
  <2> QED BY <2>1, <2>2, Durations
<1> QED BY <1>1, <1>2, <1>3

LEMMA SendTcIInv ==
  ASSUME IInv, SendTc
  PROVE  IInv'
<1> DEFINE t == [timers EXCEPT !.tc = TcInterval]
           new == [pending |-> mprSet, left |-> ForwardTimeout,
                   sure |-> {n \in mprSet : KnowsItIsRelay(n)}]
<1>1. UNCHANGED <<setup, mprSet, dataPending, failCount, exact, selector, tcAir, dataAir>>
  BY DEF SendTc, verdicts, neighbours
<1>2. TcMessage \in Messages /\ TcMessage.type = "tc"
  BY DEF Messages, TcMessage
<1>3. /\ t \in TimerSet /\ t.send = timers.send /\ t.sweep = timers.sweep
      /\ t.defense = timers.defense /\ t.tc = TcInterval
  BY Durations DEF IInv, TimersInv, TimerSet
<1>4. QueueMessage(TcMessage, t) /\ timers.tc = 0
  BY DEF SendTc
<1>5. tcPending = {} /\ \A n \in Neighbors : tcAir[n] = Off
  BY <1>4, LastTcIsOver
<1>6. tcPending' \subseteq {new} /\ (tcPending' # {} => mprSet # {})
  BY <1>5 DEF SendTc, OnTcGenerated
<1>7. Monitored
  BY <1>4, Durations DEF IInv, TimersInv
<1>8. /\ new.left = ForwardTimeout /\ new.sure = {n \in mprSet : KnowsItIsRelay(n)}
      /\ mprSet # {} => new \in Record
  <2>1. mprSet \in SUBSET Neighbors /\ {n \in mprSet : KnowsItIsRelay(n)} \in SUBSET Neighbors
    BY DEF IInv, TypeOK
  <2>2. ForwardTimeout \in 1 - SweepInterval .. ForwardTimeout
    BY Durations
  <2>3. ASSUME mprSet # {} PROVE new \in Record
    <3>1. mprSet \in (SUBSET Neighbors) \ {{}}
      BY <2>1, <2>3
    <3> QED BY <2>1, <2>2, <3>1 DEF Record
  <2>4. new.left = ForwardTimeout
    OBVIOUS
  <2>5. new.sure = {n \in mprSet : KnowsItIsRelay(n)}
    OBVIOUS
  <2> QED BY <2>3, <2>4, <2>5
<1> HIDE DEF t, new
<1>9. /\ queue' \in Seq(Messages) /\ TcQueued'
      /\ timers' \in TimerSet /\ timers'.send # Off
      /\ timers'.sweep = timers.sweep /\ timers'.defense = timers.defense
      /\ timers'.tc = TcInterval
  BY <1>2, <1>3, <1>4, Queued
<1>10. timers'.send \in 0 .. MaxJitter /\ timers.sweep \in Off .. SweepInterval
  BY <1>9, TimerTypes, Durations DEF TimerSet, IInv
<1>11. TypeOK'
  BY <1>1, <1>6, <1>8 DEF IInv, TypeOK, Record
<1>12. TimersInv'
  BY <1>1, <1>7, <1>9, Durations DEF IInv, TimersInv, TimerSet, Monitored
<1>13. QueueInv'
  BY <1>1, <1>5, <1>9, <1>10, Durations DEF QueueInv
<1>14. RecordInv'
  <2>1. \A r \in tcPending' : /\ r.left >= 1 - SweepInterval + timers'.sweep
                              /\ r.left <= ForwardTimeout - TcInterval + timers'.tc
    BY <1>6, <1>8, <1>9, <1>10, Durations
  <2>2. \A r, s \in tcPending' : r = s
    BY <1>6
  <2> QED BY <1>1, <1>9, <2>1, <2>2 DEF IInv, RecordInv
<1>15. VerdictInv'
  BY <1>1, <1>9 DEF IInv, VerdictInv
<1>16. ~ Lossy' => DataInv'
  BY <1>1 DEF IInv, Lossy, DataInv, Forwarders, conduct
<1>17. TcInv'
  <2> SUFFICES ASSUME NEW r \in tcPending',
                      NEW n \in r.pending \cap r.sure \cap Forwarders("tc")'
               PROVE  OwedInQueue(r, n)'
    BY DEF TcInv
  <2>1. r = new /\ new.left = ForwardTimeout /\ n \in mprSet /\ KnowsItIsRelay(n)
    BY <1>6, <1>8
  <2>2. n \in Neighbors /\ tcAir'[n] = Off
    BY <1>1, <1>5, <2>1 DEF IInv, TypeOK
  <2>3. selector'[n] > timers'.send
    BY <1>1, <1>10, <2>1, <2>2, Durations DEF KnowsItIsRelay, IInv, TypeOK
  <2>4. r.left >= ForwardTimeout - MaxJitter + timers'.send
    BY <1>10, <2>1, Durations
  <2> QED BY <1>9, <2>2, <2>3, <2>4 DEF OwedInQueue
<1> QED BY <1>11, <1>12, <1>13, <1>14, <1>15, <1>16, <1>17 DEF IInv

LEMMA NoTcToSendIInv ==
  ASSUME IInv, NoTcToSend
  PROVE  IInv'
<1>1. UNCHANGED <<setup, mprSet, dataPending, tcPending, failCount, exact, queue,
                  selector, tcAir, dataAir>>
  BY DEF NoTcToSend, records, verdicts, neighbours
<1>2. tcPending = {} /\ ~ TcQueued /\ \A n \in Neighbors : tcAir[n] = Off
  BY LastTcIsOver DEF NoTcToSend
<1>3. /\ timers' \in TimerSet /\ timers'.send = timers.send /\ timers'.tc = TcInterval
      /\ timers'.sweep = timers.sweep /\ timers'.defense = timers.defense
  BY Durations DEF NoTcToSend, IInv, TimersInv, TimerSet
<1>4. TypeOK'
  BY <1>1 DEF IInv, TypeOK
<1>5. TimersInv'
  BY <1>1, <1>3, Durations DEF IInv, TimersInv, TimerSet, Monitored, NoTcToSend
<1>6. QueueInv'
  BY <1>1, <1>2, <1>3 DEF IInv, QueueInv, TcQueued
<1>7. RecordInv' /\ VerdictInv'
  BY <1>1, <1>2, <1>3 DEF IInv, RecordInv, VerdictInv
<1>8. ~ Lossy' => DataInv' /\ TcInv'
  BY <1>1, <1>2 DEF IInv, Lossy, DataInv, TcInv, Forwarders, conduct
<1> QED BY <1>4, <1>5, <1>6, <1>7, <1>8 DEF IInv

-----------------------------------------------------------------------------
LEMMA SendQueuedMessagesIInv ==
  ASSUME IInv, SendQueuedMessages
  PROVE  IInv'
<1>1. UNCHANGED <<setup, mprSet, dataPending, tcPending, failCount, exact, dataAir>>
  BY DEF SendQueuedMessages, records, verdicts
<1>2. timers.send \in 0 .. MaxJitter /\ queue' = <<>>
      /\ timers' \in TimerSet /\ timers'.send = Off
      /\ timers'.sweep = timers.sweep /\ timers'.defense = timers.defense
      /\ timers'.tc = timers.tc
  <2>1. timers \in TimerSet /\ timers.send # Off /\ timers' = [timers EXCEPT !.send = Off]
    BY DEF SendQueuedMessages, IInv, TimersInv, TimerSet
  <2>2. timers.send \in 0 .. MaxJitter
    BY <2>1, TimerTypes, Durations DEF IInv
  <2>3. /\ timers' \in TimerSet /\ timers'.send = Off
        /\ timers'.sweep = timers.sweep /\ timers'.defense = timers.defense
        /\ timers'.tc = timers.tc
    BY <2>1, Durations DEF TimerSet
  <2> QED BY <2>2, <2>3 DEF SendQueuedMessages
<1>3. PICK received \in SUBSET Neighbors :
       /\ ~ Lossy => received = Neighbors
       /\ selector' = [n \in Neighbors |-> IF n \in received THEN SelectorAfter(n, Len(queue))
                                           ELSE selector[n]]
       /\ tcAir' = [n \in Neighbors |->
            IF /\ n \in received \cap Forwarders("tc")
               /\ tcAir[n] = Off
               /\ \E i \in 1 .. Len(queue) :
                    queue[i].type = "tc" /\ SelectorAfter(n, i) > 0
            THEN MaxJitter ELSE tcAir[n]]
  BY DEF SendQueuedMessages
<1>4. ~ TcQueued'
  BY <1>2 DEF TcQueued
<1>5. selector' \in [Neighbors -> 0 .. SelectorHold]
  <2>1. \A n \in Neighbors : SelectorAfter(n, Len(queue)) \in 0 .. SelectorHold
    BY Durations DEF SelectorAfter, IInv, TypeOK
  <2> QED BY <1>3, <2>1 DEF IInv, TypeOK
<1>6. tcAir' \in [Neighbors -> Off .. MaxJitter]
  BY <1>3, Durations DEF IInv, TypeOK
<1>7. TypeOK'
  BY <1>1, <1>5, <1>6 DEF IInv, TypeOK
<1>8. TimersInv'
  BY <1>1, <1>2 DEF IInv, TimersInv, TimerSet, Monitored
<1>9. QueueInv'
  <2>1. ASSUME NEW n \in Neighbors, tcAir'[n] # Off
        PROVE  timers'.tc >= TcInterval - 2 * MaxJitter + tcAir'[n]
    <3>1. CASE tcAir'[n] = tcAir[n]
      BY <1>2, <2>1, <3>1 DEF IInv, QueueInv
    <3>2. CASE tcAir'[n] # tcAir[n]
      <4>1. TcQueued /\ tcAir'[n] = MaxJitter
        BY <1>3, <3>2 DEF TcQueued
      <4>2. timers.tc >= TcInterval - MaxJitter + timers.send /\ timers.tc \in Int
        BY <4>1, TimerTypes, Durations DEF IInv, QueueInv
      <4> QED BY <1>2, <4>1, <4>2, Durations
    <3> QED BY <3>1, <3>2
  <2> QED BY <1>2, <1>4, <2>1 DEF QueueInv
<1>10. RecordInv' /\ VerdictInv'
  BY <1>1, <1>2 DEF IInv, RecordInv, VerdictInv
<1>11. ~ Lossy' => DataInv'
  BY <1>1 DEF IInv, Lossy, DataInv, Forwarders, conduct
<1>12. ASSUME ~ Lossy' PROVE TcInv'
  <2> SUFFICES ASSUME NEW r \in tcPending',
                      NEW n \in r.pending \cap r.sure \cap Forwarders("tc")'
               PROVE  OwedInAir(r, n)'
    BY DEF TcInv
  <2>1. r \in tcPending /\ n \in Forwarders("tc") /\ n \in Neighbors /\ ~ Lossy
    BY <1>1, <1>12 DEF Forwarders, conduct, Lossy
  <2>2. r.left \in Int /\ tcAir[n] \in Off .. MaxJitter
    BY <2>1, Durations DEF IInv, TypeOK
  <2>3. CASE OwedInQueue(r, n)
    <3>1. PICK i \in 1 .. Len(queue) : queue[i].type = "tc"
      BY <2>3 DEF OwedInQueue, TcQueued
    <3>2. SelectorAfter(n, i) > 0
      BY <1>2, <2>1, <2>3, Durations DEF OwedInQueue, SelectorAfter, IInv, TypeOK
    <3>3. tcAir'[n] = MaxJitter
      BY <1>3, <2>1, <2>3, <3>1, <3>2 DEF OwedInQueue
    <3>4. r.left >= ForwardTimeout - 2 * MaxJitter + MaxJitter
      <4>1. r.left >= ForwardTimeout - MaxJitter + timers.send
        BY <2>3 DEF OwedInQueue
      <4>2. timers.send \in Nat /\ ForwardTimeout \in Nat /\ MaxJitter \in Nat
        BY <1>2, Durations
      <4> QED BY <2>2, <4>1, <4>2
    <3> QED BY <3>3, <3>4, Durations DEF OwedInAir
  <2>4. CASE OwedInAir(r, n)
    <3>1. tcAir'[n] = tcAir[n]
      BY <1>3, <2>1, <2>4 DEF OwedInAir
    <3> QED BY <2>4, <3>1 DEF OwedInAir
  <2> QED BY <1>1, <2>1, <2>3, <2>4 DEF IInv, TcInv
<1> QED BY <1>7, <1>8, <1>9, <1>10, <1>11, <1>12 DEF IInv

\* A credit takes its node out of the one record there is.
LEMMA Credited ==
  ASSUME IInv, NEW n \in Neighbors, CreditTcForward(n)
  PROVE  /\ tcPending' \subseteq Record /\ failCount' \in [Neighbors -> 0 .. MinForwardFailures]
         /\ \A r, s \in tcPending' : r = s
         /\ \A r \in tcPending' : \E s \in tcPending :
              r.left = s.left /\ r.sure = s.sure /\ r.pending = s.pending \ {n}
         /\ \A m \in Neighbors \ {n} :
              failCount'[m] = failCount[m] /\ (TcAwaited(m) => TcAwaited(m)')
<1> DEFINE awaiting == {r \in tcPending : n \in r.pending}
           oldest == CHOOSE r \in awaiting : \A s \in awaiting : r.left <= s.left
<1>1. tcPending \subseteq Record /\ \A r, s \in tcPending : r = s
  BY Recs DEF IInv, RecordInv
<1>2. CASE awaiting = {}
  <2>1. tcPending' = tcPending /\ failCount' = failCount
    BY <1>2 DEF CreditTcForward
  <2>2. \A r \in tcPending : r.pending = r.pending \ {n}
    BY <1>2
  <2> QED BY <1>1, <2>1, <2>2 DEF IInv, TypeOK, TcAwaited
<1>3. CASE awaiting # {}
  <2>1. PICK r \in tcPending : n \in r.pending /\ tcPending = {r} /\ awaiting = {r}
    BY <1>1, <1>3
  <2>2. r.left <= r.left /\ r \in Record
    BY <1>1, Durations DEF Record
  <2>3. oldest = r
    BY <2>1, <2>2
  <2>4. /\ failCount' = [failCount EXCEPT ![n] = 0]
        /\ tcPending' = IF oldest.pending = {n} THEN tcPending \ {oldest}
                        ELSE (tcPending \ {oldest}) \cup {[oldest EXCEPT !.pending = @ \ {n}]}
    BY <1>3 DEF CreditTcForward
  <2> HIDE DEF oldest, awaiting
  <2>5. /\ failCount' \in [Neighbors -> 0 .. MinForwardFailures]
        /\ \A m \in Neighbors \ {n} : failCount'[m] = failCount[m]
    BY <2>4, Durations DEF IInv, TypeOK
  <2>6. CASE r.pending = {n}
    BY <2>1, <2>3, <2>4, <2>5, <2>6 DEF TcAwaited
  <2>7. CASE r.pending # {n}
    <3>1. tcPending' = {[r EXCEPT !.pending = @ \ {n}]}
      BY <2>1, <2>3, <2>4, <2>7
    <3>2. PICK q : q = [r EXCEPT !.pending = @ \ {n}]
      OBVIOUS
    <3>3. q = [pending |-> r.pending \ {n}, sure |-> r.sure, left |-> r.left]
      BY <2>2, <3>2 DEF Record
    <3>4. r.pending \ {n} \in (SUBSET Neighbors) \ {{}}
      BY <2>1, <2>2, <2>7 DEF Record
    <3>5. q \in Record
      BY <2>2, <3>3, <3>4 DEF Record
    <3>6. \A m \in Neighbors \ {n} : TcAwaited(m) => TcAwaited(m)'
      BY <2>1, <3>1, <3>2, <3>3 DEF TcAwaited
    <3> QED BY <2>1, <2>5, <3>1, <3>2, <3>3, <3>5, <3>6
  <2> QED BY <2>6, <2>7
<1> QED BY <1>2, <1>3

LEMMA ReairTcIInv ==
  ASSUME IInv, NEW n \in Neighbors, ReairTc(n)
  PROVE  IInv'
<1>1. UNCHANGED <<setup, mprSet, dataPending, exact, queue, timers, selector, dataAir>>
      /\ tcAir' = [tcAir EXCEPT ![n] = Off] /\ tcAir[n] # Off
  BY DEF ReairTc
<1>2. /\ tcPending' \subseteq Record /\ failCount' \in [Neighbors -> 0 .. MinForwardFailures]
      /\ \A r, s \in tcPending' : r = s
      /\ \A r \in tcPending' : \E s \in tcPending :
           /\ r.left = s.left /\ r.sure = s.sure /\ r.pending \subseteq s.pending
           /\ ~ Lossy => r.pending = s.pending \ {n}
  <2>1. CASE CreditTcForward(n)
    BY <2>1, Credited
  <2>2. CASE Lossy /\ UNCHANGED <<tcPending, failCount>>
    BY <2>2, Recs DEF IInv, TypeOK, RecordInv
  <2> QED BY <2>1, <2>2 DEF ReairTc
<1>3. tcAir' \in [Neighbors -> Off .. MaxJitter] /\ tcAir'[n] = Off
      /\ \A m \in Neighbors : m # n => tcAir'[m] = tcAir[m]
  BY <1>1, Durations DEF IInv, TypeOK
<1>4. TypeOK'
  BY <1>1, <1>2, <1>3 DEF IInv, TypeOK, Record
<1>5. TimersInv'
  BY <1>1, <1>2 DEF IInv, TimersInv, Monitored
<1>6. QueueInv'
  BY <1>1, <1>3 DEF IInv, QueueInv, TcQueued
<1>7. RecordInv' /\ VerdictInv'
  BY <1>1, <1>2 DEF IInv, RecordInv, VerdictInv
<1>8. ~ Lossy' => DataInv'
  BY <1>1 DEF IInv, Lossy, DataInv, Forwarders, conduct
<1>9. ASSUME ~ Lossy' PROVE TcInv'
  <2> SUFFICES ASSUME NEW r \in tcPending',
                      NEW m \in r.pending \cap r.sure \cap Forwarders("tc")'
               PROVE  OwedInQueue(r, m)' \/ OwedInAir(r, m)'
    BY DEF TcInv
  <2>1. PICK s \in tcPending : r.left = s.left /\ r.sure = s.sure /\ r.pending = s.pending \ {n}
    BY <1>1, <1>2, <1>9 DEF Lossy
  <2>2. m # n /\ m \in s.pending \cap s.sure \cap Forwarders("tc") /\ m \in Neighbors
    BY <1>1, <2>1 DEF Forwarders, conduct
  <2>3. OwedInQueue(s, m) \/ OwedInAir(s, m)
    BY <1>1, <1>9, <2>2 DEF IInv, TcInv, Lossy
  <2> QED BY <1>1, <1>3, <2>1, <2>2, <2>3 DEF OwedInQueue, OwedInAir, TcQueued
<1> QED BY <1>4, <1>5, <1>6, <1>7, <1>8, <1>9 DEF IInv

-----------------------------------------------------------------------------
LEMMA RouteOutputIInv ==
  ASSUME IInv, NEW u \in Uids, NEW n \in Neighbors, NEW lastHop \in BOOLEAN,
         RouteOutput(u, n, lastHop)
  PROVE  IInv'
<1> DEFINE new == [hop |-> n, left |-> ForwardTimeout]
<1>1. UNCHANGED <<setup, mprSet, tcPending, failCount, exact, queue, timers, selector, tcAir>>
      /\ Monitored /\ dataPending[u] = NoRecord /\ dataPending' = [dataPending EXCEPT ![u] = new]
  BY DEF RouteOutput, verdicts
<1>2. new \in DataRecord /\ new.left = ForwardTimeout /\ new.hop = n /\ new # NoRecord
  BY Durations, NoRecordIsNone DEF DataRecord
<1>3. /\ dataPending'[u] = new /\ \A v \in Uids \ {u} : dataPending'[v] = dataPending[v]
      /\ dataPending' \in [Uids -> {NoRecord} \cup DataRecord]
  BY <1>1, <1>2, Recs DEF IInv
<1> HIDE DEF new
<1>4. dataAir \in [Uids -> Off .. MaxJitter] /\ dataAir[u] = Off
  BY <1>1 DEF IInv, TypeOK, RecordInv
<1>5. \/ dataAir' = [dataAir EXCEPT ![u] = MaxJitter]
      \/ (n \notin Forwarders("data") \/ Lossy) /\ dataAir' = dataAir
  BY DEF RouteOutput
<1>6. /\ dataAir' \in [Uids -> Off .. MaxJitter] /\ dataAir'[u] \in {Off, MaxJitter}
      /\ \A v \in Uids \ {u} : dataAir'[v] = dataAir[v]
      /\ ~ Lossy /\ n \in Forwarders("data") => dataAir'[u] # Off
  BY <1>4, <1>5, Durations
<1>7. TypeOK'
  BY <1>1, <1>3, <1>6 DEF IInv, TypeOK, DataRecord
<1>8. TimersInv' /\ VerdictInv'
  BY <1>1 DEF IInv, TimersInv, Monitored, VerdictInv
<1>9. QueueInv'
  BY <1>1 DEF IInv, QueueInv, TcQueued
<1>10. RecordInv'
  <2>1. timers.sweep \in Off .. SweepInterval
    BY TimerTypes DEF IInv
  <2>2. ASSUME NEW v \in Uids, dataPending'[v] # NoRecord
        PROVE  dataPending'[v].left >= 1 - SweepInterval + timers'.sweep
    BY <1>1, <1>2, <1>3, <2>1, <2>2, Durations DEF IInv, RecordInv
  <2>3. ASSUME NEW v \in Uids, dataAir'[v] # Off
        PROVE  /\ dataPending'[v] # NoRecord
               /\ dataPending'[v].left >= ForwardTimeout - MaxJitter + dataAir'[v]
    <3>1. CASE v = u
      BY <1>2, <1>3, <1>6, <2>3, <3>1, Durations
    <3>2. CASE v # u
      BY <1>3, <1>6, <2>3, <3>2 DEF IInv, RecordInv
    <3> QED BY <3>1, <3>2
  <2> QED BY <1>1, <2>2, <2>3 DEF IInv, RecordInv
<1>11. ~ Lossy' => DataInv'
  BY <1>1, <1>2, <1>3, <1>6 DEF IInv, Lossy, DataInv, Forwarders, conduct
<1>12. ~ Lossy' => TcInv'
  BY <1>1 DEF IInv, Lossy, TcInv, OwedInQueue, OwedInAir, TcQueued, Forwarders, conduct
<1> QED BY <1>7, <1>8, <1>9, <1>10, <1>11, <1>12 DEF IInv

LEMMA ReairDataIInv ==
  ASSUME IInv, NEW u \in Uids, ReairData(u)
  PROVE  IInv'
<1>1. UNCHANGED <<setup, mprSet, tcPending, exact, queue, timers, selector, tcAir>>
      /\ dataAir[u] # Off /\ dataAir' = [dataAir EXCEPT ![u] = Off]
  BY DEF ReairData
<1>2. dataPending[u] # NoRecord /\ dataPending[u].hop \in Neighbors
  BY <1>1, Recs DEF IInv, RecordInv, DataRecord
<1>3. \/ /\ failCount' = [failCount EXCEPT ![dataPending[u].hop] = 0]
         /\ dataPending' = [dataPending EXCEPT ![u] = NoRecord]
      \/ Lossy /\ failCount' = failCount /\ dataPending' = dataPending
  BY DEF ReairData
<1>4. /\ failCount' \in [Neighbors -> 0 .. MinForwardFailures]
      /\ dataPending' \in [Uids -> {NoRecord} \cup DataRecord]
      /\ \A v \in Uids \ {u} : dataPending'[v] = dataPending[v]
      /\ dataPending'[u] = NoRecord \/ (Lossy /\ dataPending'[u] = dataPending[u])
  BY <1>2, <1>3, Recs, Durations DEF IInv, TypeOK
<1>5. /\ dataAir' \in [Uids -> Off .. MaxJitter] /\ dataAir'[u] = Off
      /\ \A v \in Uids \ {u} : dataAir'[v] = dataAir[v]
  BY <1>1, Durations DEF IInv, TypeOK
<1>6. TypeOK'
  BY <1>1, <1>4, <1>5 DEF IInv, TypeOK, DataRecord
<1>7. TimersInv'
  <2>1. Monitored
    BY <1>2 DEF IInv, TimersInv
  <2> QED BY <1>1, <2>1 DEF IInv, TimersInv, Monitored
<1>8. QueueInv' /\ VerdictInv'
  BY <1>1 DEF IInv, QueueInv, TcQueued, VerdictInv
<1>9. RecordInv'
  BY <1>1, <1>4, <1>5 DEF IInv, RecordInv
<1>10. ~ Lossy' => DataInv'
  BY <1>1, <1>4, <1>5, NoRecordIsNone DEF IInv, Lossy, DataInv, Forwarders, conduct
<1>11. ~ Lossy' => TcInv'
  BY <1>1 DEF IInv, Lossy, TcInv, OwedInQueue, OwedInAir, TcQueued, Forwarders, conduct
<1> QED BY <1>6, <1>7, <1>8, <1>9, <1>10, <1>11 DEF IInv

-----------------------------------------------------------------------------
LEMMA FailureCount ==
  ASSUME IInv, NEW n \in Neighbors
  PROVE  /\ Failures(n) \in Nat
         /\ ExpiredData(n) # {} \/ ExpiredTc(n) # {} => Failures(n) > 0
<1>1. IsFiniteSet(ExpiredData(n))
  BY FS_Subset, TrustAssumption DEF ExpiredData
<1>2. IsFiniteSet(tcPending)
  <2>1. CASE tcPending = {}
    BY <2>1, FS_EmptySet
  <2>2. ASSUME NEW r \in tcPending PROVE IsFiniteSet(tcPending)
    <3>1. tcPending = {r}
      BY DEF IInv, RecordInv
    <3> QED BY <3>1, FS_Singleton
  <2> QED BY <2>1, <2>2
<1>3. IsFiniteSet(ExpiredTc(n))
  BY <1>2, FS_Subset DEF ExpiredTc
<1>4. Cardinality(ExpiredData(n)) \in Nat /\ Cardinality(ExpiredTc(n)) \in Nat
  BY <1>1, <1>3, FS_CardinalityType
<1>5. /\ ExpiredData(n) # {} => Cardinality(ExpiredData(n)) # 0
      /\ ExpiredTc(n) # {} => Cardinality(ExpiredTc(n)) # 0
  BY <1>1, <1>3, FS_EmptySet
<1> QED BY <1>4, <1>5 DEF Failures

LEMMA SweepIInv ==
  ASSUME IInv, Sweep
  PROVE  IInv'
<1>1. UNCHANGED <<setup, mprSet, queue, selector, tcAir, dataAir>> /\ timers.sweep = 0
  BY DEF Sweep, neighbours
<1>2. /\ timers' \in TimerSet /\ timers'.sweep = SweepInterval /\ timers'.send = timers.send
      /\ timers'.defense = timers.defense /\ timers'.tc = timers.tc
  <2>1. timers \in TimerSet /\ timers' = [timers EXCEPT !.sweep = SweepInterval]
    BY DEF Sweep, IInv, TimersInv, TimerSet
  <2> QED BY <2>1, Durations DEF TimerSet
<1>3. tcPending' = {r \in tcPending : r.left > 0}
      /\ dataPending' = [u \in Uids |-> IF dataPending[u].left <= 0 THEN NoRecord
                                        ELSE dataPending[u]]
  BY DEF Sweep
<1>4. dataPending' \in [Uids -> {NoRecord} \cup DataRecord]
  BY <1>3, Recs DEF IInv
<1>5. ASSUME NEW u \in Uids, dataPending'[u] # NoRecord
      PROVE  /\ dataPending'[u] = dataPending[u] /\ dataPending[u] # NoRecord
             /\ dataPending[u].left \in Int /\ dataPending[u].left >= 1
  <2>1. dataPending'[u] = dataPending[u] /\ ~ (dataPending[u].left <= 0)
    BY <1>3, <1>5
  <2>2. dataPending[u] \in DataRecord
    BY <1>5, <2>1, Recs DEF IInv
  <2> QED BY <1>5, <2>1, <2>2, Durations DEF DataRecord
<1>6. failCount' \in [Neighbors -> 0 .. MinForwardFailures]
  <2>1. \A n \in Neighbors :
          Smaller(failCount[n] + Failures(n), MinForwardFailures) \in 0 .. MinForwardFailures
    BY FailureCount, Durations DEF Smaller, IInv, TypeOK
  <2> QED BY <2>1 DEF Sweep, RaiseFailures, MistrustExact
<1>7. /\ exact' \in [Neighbors -> {Trusted} \cup 1 - DefensePeriod .. MistrustDuration]
      /\ \A n \in Neighbors : exact'[n] \in {exact[n], MistrustDuration}
  <2>1. PICK J \in SUBSET Neighbors :
          exact' = [n \in Neighbors |-> IF n \in J THEN MistrustDuration ELSE exact[n]]
    <3> DEFINE J == {n \in Neighbors : /\ Failures(n) > 0
                                       /\ failCount[n] + Failures(n) >= MinForwardFailures}
    <3>1. exact' = [n \in Neighbors |-> IF n \in J THEN MistrustDuration ELSE exact[n]]
      BY DEF Sweep, RaiseFailures, MistrustExact
    <3> HIDE DEF J
    <3>2. J \in SUBSET Neighbors
      BY DEF J
    <3> QED BY <3>1, <3>2
  <2>2. MistrustDuration \in 1 - DefensePeriod .. MistrustDuration
    BY Durations
  <2>3. exact \in [Neighbors -> {Trusted} \cup 1 - DefensePeriod .. MistrustDuration]
    BY DEF IInv, TypeOK
  <2> QED BY <2>1, <2>2, <2>3
<1>8. TypeOK'
  BY <1>1, <1>3, <1>4, <1>6, <1>7 DEF IInv, TypeOK, DataRecord
<1>9. TimersInv'
  <2>1. Monitored
    BY <1>1, Durations DEF IInv, TimersInv
  <2> QED BY <1>1, <1>2, <2>1, Durations DEF IInv, TimersInv, TimerSet, Monitored
<1>10. QueueInv'
  BY <1>1, <1>2 DEF IInv, QueueInv, TcQueued
<1>11. RecordInv'
  <2>1. ASSUME NEW r \in tcPending' PROVE r.left >= 1 - SweepInterval + timers'.sweep
    <3>1. r.left > 0 /\ r.left \in Int
      BY <1>3, Durations DEF IInv, TypeOK
    <3> QED BY <1>2, <3>1, Durations
  <2>2. ASSUME NEW u \in Uids, dataPending'[u] # NoRecord
        PROVE  dataPending'[u].left >= 1 - SweepInterval + timers'.sweep
    BY <1>2, <1>5, <2>2, Durations
  <2>3. ASSUME NEW u \in Uids, dataAir'[u] # Off PROVE dataPending'[u] = dataPending[u]
    <3>1. dataAir[u] \in Off .. MaxJitter /\ dataAir[u] # Off
      BY <1>1, <2>3 DEF IInv, TypeOK
    <3>2. dataPending[u] \in DataRecord /\ dataPending[u].left >= ForwardTimeout - MaxJitter + dataAir[u]
      BY <3>1, Recs DEF IInv, RecordInv
    <3>3. ~ (dataPending[u].left <= 0)
      BY <3>1, <3>2, Durations DEF DataRecord
    <3> QED BY <1>3, <3>3
  <2> QED BY <1>1, <1>2, <1>3, <2>1, <2>2, <2>3 DEF IInv, RecordInv
<1>12. VerdictInv'
  BY <1>2, <1>7, TimerTypes, Durations DEF IInv, VerdictInv
<1>13. ~ Lossy' => DataInv'
  BY <1>1, <1>3, NoRecordIsNone DEF IInv, Lossy, DataInv, Forwarders, conduct
<1>14. ~ Lossy' => TcInv'
  BY <1>1, <1>2, <1>3 DEF IInv, Lossy, TcInv, OwedInQueue, OwedInAir, TcQueued, Forwarders, conduct
<1> QED BY <1>8, <1>9, <1>10, <1>11, <1>12, <1>13, <1>14 DEF IInv

LEMMA PeriodicCheckIInv ==
  ASSUME IInv, PeriodicCheck
  PROVE  IInv'
<1>1. UNCHANGED <<setup, mprSet, dataPending, tcPending, failCount, queue, selector, tcAir, dataAir>>
  BY DEF PeriodicCheck, records, neighbours
<1>2. /\ timers' \in TimerSet /\ timers'.defense = DefensePeriod /\ timers'.send = timers.send
      /\ timers'.sweep = timers.sweep /\ timers'.tc = timers.tc
  <2>1. timers \in TimerSet /\ timers' = [timers EXCEPT !.defense = DefensePeriod]
    BY DEF PeriodicCheck, IInv, TimersInv, TimerSet
  <2> QED BY <2>1, Durations DEF TimerSet
<1>3. exact' = [n \in Neighbors |-> IF exact[n] <= 0 THEN Trusted ELSE exact[n]]
  BY DEF PeriodicCheck
<1>4. TypeOK'
  BY <1>1, <1>3 DEF IInv, TypeOK
<1>5. TimersInv'
  BY <1>1, <1>2 DEF IInv, TimersInv, TimerSet, Monitored
<1>6. QueueInv' /\ RecordInv'
  BY <1>1, <1>2 DEF IInv, QueueInv, RecordInv, TcQueued
<1>7. VerdictInv'
  BY <1>2, <1>3, Durations DEF IInv, TypeOK, VerdictInv
<1>8. ~ Lossy' => DataInv' /\ TcInv'
  BY <1>1, <1>2 DEF IInv, Lossy, DataInv, TcInv, OwedInQueue, OwedInAir, TcQueued, Forwarders,
                    conduct
<1> QED BY <1>4, <1>5, <1>6, <1>7, <1>8 DEF IInv

-----------------------------------------------------------------------------
LEMMA Elapsed ==
  /\ Elapse(Off) = Off
  /\ \A t \in Nat \ {0} : Elapse(t) = t - 1 /\ Elapse(t) \in Nat
  /\ \A t \in Nat : Elapse(t) \in 0 .. t
BY Durations DEF Elapse

LEMMA TickIInv ==
  ASSUME IInv, Tick
  PROVE  IInv'
<1>1. UNCHANGED <<setup, mprSet, failCount, queue>>
  BY DEF Tick
<1>2. /\ timers' \in TimerSet
      /\ timers'.sweep = Elapse(timers.sweep) /\ timers.sweep \in Off .. SweepInterval
      /\ timers.sweep # 0
      /\ timers'.defense = timers.defense - 1 /\ timers.defense \in 1 .. DefensePeriod
      /\ timers'.tc = Elapse(timers.tc) /\ timers.tc \in Off .. TcInterval /\ timers.tc # 0
      /\ timers'.send = Elapse(timers.send) /\ timers.send \in Off .. MaxJitter
      /\ timers.send # 0
  <2>1. timers \in TimerSet /\ DOMAIN timers = {"sweep", "defense", "hello", "tc", "send"}
    BY DEF IInv, TimersInv, TimerSet
  <2>2. /\ timers.sweep # 0 /\ timers.defense # 0 /\ timers.hello # 0 /\ timers.tc # 0
        /\ timers.send # 0
    BY <2>1 DEF Tick
  <2>3. timers' = [sweep |-> Elapse(timers.sweep), defense |-> Elapse(timers.defense),
                   hello |-> Elapse(timers.hello), tc |-> Elapse(timers.tc),
                   send |-> Elapse(timers.send)]
    BY <2>1 DEF Tick
  <2>4. /\ Elapse(timers.sweep) \in Off .. SweepInterval
        /\ Elapse(timers.defense) \in 0 .. DefensePeriod
        /\ Elapse(timers.hello) \in 0 .. HelloInterval
        /\ Elapse(timers.tc) \in Off .. TcInterval
        /\ Elapse(timers.send) \in Off .. MaxJitter
    BY <2>1, Durations DEF TimerSet, Elapse
  <2>5. timers' \in TimerSet
    BY <2>3, <2>4 DEF TimerSet
  <2>6. /\ timers.defense \in 1 .. DefensePeriod
        /\ Elapse(timers.defense) = timers.defense - 1
    BY <2>1, <2>2, Durations DEF TimerSet, Elapse
  <2> QED BY <2>1, <2>2, <2>3, <2>5, <2>6 DEF TimerSet
<1>3. ASSUME NEW n \in Neighbors
      PROVE  /\ tcAir'[n] = Elapse(tcAir[n]) /\ tcAir[n] \in Off .. MaxJitter /\ tcAir[n] # 0
             /\ selector'[n] = Elapse(selector[n]) /\ selector[n] \in 0 .. SelectorHold
  BY DEF Tick, IInv, TypeOK
<1>4. ASSUME NEW u \in Uids
      PROVE  dataAir'[u] = Elapse(dataAir[u]) /\ dataAir[u] \in Off .. MaxJitter /\ dataAir[u] # 0
  BY DEF Tick, IInv, TypeOK
<1>5. ASSUME NEW u \in Uids
      PROVE  /\ dataPending[u] = NoRecord => dataPending'[u] = NoRecord
             /\ dataPending[u] # NoRecord =>
                  /\ dataPending'[u] \in DataRecord /\ dataPending[u] \in DataRecord
                  /\ dataPending'[u].hop = dataPending[u].hop
                  /\ dataPending'[u].left = dataPending[u].left - 1
                  /\ Monitored
  <2>1. dataPending'[u] = IF dataPending[u] = NoRecord THEN NoRecord
                          ELSE [dataPending[u] EXCEPT !.left = @ - 1]
    BY DEF Tick
  <2>2. ASSUME dataPending[u] # NoRecord
        PROVE  /\ dataPending'[u] \in DataRecord /\ dataPending[u] \in DataRecord
               /\ dataPending'[u].hop = dataPending[u].hop
               /\ dataPending'[u].left = dataPending[u].left - 1
               /\ Monitored
    <3>1. dataPending[u] \in DataRecord
      BY <2>2, Recs DEF IInv
    <3>2. Monitored /\ timers.sweep # Off
      BY <2>2 DEF IInv, TimersInv
    <3>3. dataPending[u].left >= 1 - SweepInterval + timers.sweep
      BY <2>2 DEF IInv, RecordInv
    <3>4. dataPending[u].left - 1 \in 1 - SweepInterval .. ForwardTimeout
      BY <1>2, <3>1, <3>2, <3>3, Durations DEF DataRecord
    <3>5. dataPending'[u] = [hop |-> dataPending[u].hop, left |-> dataPending[u].left - 1]
      BY <2>1, <2>2, <3>1 DEF DataRecord
    <3> QED BY <3>1, <3>2, <3>4, <3>5 DEF DataRecord
  <2> QED BY <2>1, <2>2
<1>6. ASSUME NEW r \in tcPending'
      PROVE  \E s \in tcPending : /\ r \in Record /\ s \in Record /\ Monitored
                                  /\ r.left = s.left - 1
                                  /\ r.pending = s.pending /\ r.sure = s.sure
  <2>1. PICK s \in tcPending : r = [s EXCEPT !.left = @ - 1]
    BY DEF Tick
  <2>2. s \in Record
    BY Recs DEF IInv
  <2>3. Monitored /\ timers.sweep # Off
    BY DEF IInv, TimersInv
  <2>4. s.left >= 1 - SweepInterval + timers.sweep
    BY DEF IInv, RecordInv
  <2>5. s.left - 1 \in 1 - SweepInterval .. ForwardTimeout
    BY <1>2, <2>2, <2>3, <2>4, Durations DEF Record
  <2>6. r = [pending |-> s.pending, sure |-> s.sure, left |-> s.left - 1]
    BY <2>1, <2>2 DEF Record
  <2> QED BY <2>2, <2>3, <2>5, <2>6 DEF Record
<1>7. TypeOK'
  <2>1. dataPending' \in [Uids -> {NoRecord} \cup DataRecord]
    BY <1>5 DEF Tick
  <2>2. tcPending' \subseteq Record
    BY <1>6
  <2>3. selector' \in [Neighbors -> 0 .. SelectorHold]
    BY <1>3, Durations DEF Tick, Elapse
  <2>4. tcAir' \in [Neighbors -> Off .. MaxJitter] /\ dataAir' \in [Uids -> Off .. MaxJitter]
    BY <1>3, <1>4, Durations DEF Tick, Elapse
  <2>5. exact' \in [Neighbors -> {Trusted} \cup 1 - DefensePeriod .. MistrustDuration]
    <3>1. ASSUME NEW n \in Neighbors, exact[n] # Trusted
          PROVE  exact[n] - 1 \in 1 - DefensePeriod .. MistrustDuration
      <4>1. exact[n] >= 1 - DefensePeriod + timers.defense
            /\ exact[n] \in 1 - DefensePeriod .. MistrustDuration
        BY <3>1 DEF IInv, VerdictInv, TypeOK
      <4> QED BY <1>2, <4>1, Durations
    <3> QED BY <3>1 DEF Tick
  <2> QED BY <1>1, <2>1, <2>2, <2>3, <2>4, <2>5 DEF IInv, TypeOK, DataRecord, Record
<1>8. TimersInv'
  <2>1. Monitored => timers'.sweep # Off /\ timers'.tc # Off
    BY <1>2, Durations DEF IInv, TimersInv, Elapse
  <2>2. ~ Monitored => /\ timers'.sweep = Off /\ timers'.tc = Off
                       /\ tcPending' = {} /\ dataPending' = [u \in Uids |-> NoRecord]
    BY <1>2, <1>6, Elapsed DEF Tick, IInv, TimersInv
  <2> QED BY <1>1, <1>2, <2>1, <2>2 DEF TimersInv, TimerSet, Monitored
<1>9. QueueInv'
  <2>1. timers'.send = Off => queue' = <<>>
    BY <1>1, <1>2, Durations DEF IInv, QueueInv, Elapse
  <2>2. TcQueued' => timers'.tc >= TcInterval - MaxJitter + timers'.send
    <3>1. ASSUME TcQueued PROVE timers'.tc >= TcInterval - MaxJitter + timers'.send
      <4>1. timers.send # Off /\ timers.tc >= TcInterval - MaxJitter + timers.send
        BY <3>1 DEF IInv, QueueInv, TcQueued
      <4> QED BY <1>2, <4>1, Durations DEF Elapse
    <3> QED BY <1>1, <3>1 DEF TcQueued
  <2>3. ASSUME NEW n \in Neighbors, tcAir'[n] # Off
        PROVE  timers'.tc >= TcInterval - 2 * MaxJitter + tcAir'[n]
    <3>1. tcAir[n] # Off
      BY <1>3, <2>3, Elapsed
    <3>2. timers.tc >= TcInterval - 2 * MaxJitter + tcAir[n]
      BY <3>1 DEF IInv, QueueInv
    <3> QED BY <1>2, <1>3, <3>1, <3>2, Durations DEF Elapse
  <2> QED BY <1>1, <2>1, <2>2, <2>3 DEF IInv, QueueInv
<1>10. RecordInv'
  <2>1. ASSUME NEW r \in tcPending'
        PROVE  /\ r.left >= 1 - SweepInterval + timers'.sweep
               /\ r.left <= ForwardTimeout - TcInterval + timers'.tc
    <3>1. PICK s \in tcPending : /\ s \in Record /\ Monitored /\ r.left = s.left - 1
      BY <1>6
    <3>2. /\ s.left >= 1 - SweepInterval + timers.sweep
          /\ s.left <= ForwardTimeout - TcInterval + timers.tc
          /\ timers.sweep # Off /\ timers.tc # Off
      BY <3>1 DEF IInv, RecordInv, TimersInv
    <3>3. s.left \in Int
      BY <3>1, Durations DEF Record
    <3> QED BY <1>2, <3>1, <3>2, <3>3, Durations DEF Elapse
  <2>2. \A r, s \in tcPending' : r = s
    BY DEF Tick, IInv, RecordInv
  <2>3. ASSUME NEW u \in Uids, dataPending'[u] # NoRecord
        PROVE  dataPending'[u].left >= 1 - SweepInterval + timers'.sweep
    <3>1. /\ dataPending[u] # NoRecord /\ dataPending[u] \in DataRecord /\ Monitored
          /\ dataPending'[u].left = dataPending[u].left - 1
      BY <1>5, <2>3
    <3>2. dataPending[u].left >= 1 - SweepInterval + timers.sweep /\ timers.sweep # Off
      BY <3>1 DEF IInv, RecordInv, TimersInv
    <3>3. dataPending[u].left \in Int
      BY <3>1, Durations DEF DataRecord
    <3> QED BY <1>2, <3>1, <3>2, <3>3, Durations DEF Elapse
  <2>4. ASSUME NEW u \in Uids, dataAir'[u] # Off
        PROVE  /\ dataPending'[u] # NoRecord
               /\ dataPending'[u].left >= ForwardTimeout - MaxJitter + dataAir'[u]
    <3>1. dataAir[u] # Off /\ dataAir'[u] = dataAir[u] - 1
      BY <1>4, <2>4, Durations DEF Elapse
    <3>2. /\ dataPending[u] # NoRecord
          /\ dataPending[u].left >= ForwardTimeout - MaxJitter + dataAir[u]
      BY <3>1 DEF IInv, RecordInv
    <3>3. /\ dataPending'[u] \in DataRecord /\ dataPending[u] \in DataRecord
          /\ dataPending'[u].left = dataPending[u].left - 1
      BY <1>5, <3>2
    <3>4. dataPending[u].left \in Int
      BY <3>3, Durations DEF DataRecord
    <3> QED BY <1>4, <3>1, <3>2, <3>3, <3>4, NoRecordIsNone, Durations
  <2> QED BY <2>1, <2>2, <2>3, <2>4 DEF RecordInv
<1>11. VerdictInv'
  <2> SUFFICES ASSUME NEW n \in Neighbors, exact'[n] # Trusted
               PROVE  exact'[n] >= 1 - DefensePeriod + timers'.defense
    BY DEF VerdictInv
  <2>1. exact[n] # Trusted /\ exact'[n] = exact[n] - 1
    BY DEF Tick
  <2>2. exact[n] >= 1 - DefensePeriod + timers.defense
        /\ exact[n] \in 1 - DefensePeriod .. MistrustDuration
    BY <2>1 DEF IInv, VerdictInv, TypeOK
  <2> QED BY <1>2, <2>1, <2>2, Durations
<1>12. ASSUME ~ Lossy' PROVE DataInv'
  <2> SUFFICES ASSUME NEW u \in Uids, dataPending'[u].hop \in Forwarders("data")'
               PROVE  dataAir'[u] # Off
    BY DEF DataInv
  <2>1. dataPending'[u].hop \in Forwarders("data") /\ ~ Lossy
        /\ dataPending'[u].hop \in Neighbors
    BY <1>1, <1>12 DEF Forwarders, conduct, Lossy
  <2>2. dataPending[u].hop \in Forwarders("data")
    BY <1>5, <2>1, NoRecordIsNone
  <2>3. dataAir[u] # Off
    BY <2>1, <2>2 DEF IInv, DataInv
  <2> QED BY <1>4, <2>3, Durations DEF Elapse
<1>13. ASSUME ~ Lossy' PROVE TcInv'
  <2> SUFFICES ASSUME NEW r \in tcPending',
                      NEW n \in r.pending \cap r.sure \cap Forwarders("tc")'
               PROVE  OwedInQueue(r, n)' \/ OwedInAir(r, n)'
    BY DEF TcInv
  <2>1. PICK s \in tcPending : /\ s \in Record /\ r.left = s.left - 1
                               /\ r.pending = s.pending /\ r.sure = s.sure
    BY <1>6
  <2>2. n \in Neighbors /\ n \in s.pending \cap s.sure \cap Forwarders("tc") /\ ~ Lossy
    BY <1>1, <1>13, <2>1 DEF Forwarders, conduct, Lossy
  <2>3. s.left \in Int
    BY <2>1, Durations DEF Record
  <2>4. CASE OwedInQueue(s, n)
    <3>1. /\ TcQueued' /\ timers'.send = timers.send - 1 /\ timers'.send # Off
          /\ tcAir'[n] = Off
      <4>1. TcQueued'
        BY <1>1, <2>4 DEF OwedInQueue, TcQueued
      <4>2. timers.send \in Int /\ timers.send # Off /\ timers.send # 0 /\ timers.send >= Off
        BY <1>2, <2>4, Durations DEF OwedInQueue, IInv, TimersInv, TimerSet
      <4>3. timers'.send = timers.send - 1 /\ timers'.send # Off
        BY <1>2, <4>2, Durations DEF Elapse
      <4>4. tcAir'[n] = Off
        BY <1>3, <2>2, <2>4, Durations DEF OwedInQueue, Elapse
      <4> QED BY <4>1, <4>3, <4>4
    <3>2. selector'[n] > timers'.send
      BY <1>2, <1>3, <2>2, <2>4, <3>1, Durations DEF OwedInQueue, Elapse
    <3>3. r.left >= ForwardTimeout - MaxJitter + timers'.send
      BY <1>2, <2>1, <2>3, <2>4, <3>1, Durations DEF OwedInQueue
    <3> QED BY <3>1, <3>2, <3>3 DEF OwedInQueue
  <2>5. CASE OwedInAir(s, n)
    <3>1. tcAir'[n] = tcAir[n] - 1 /\ tcAir'[n] # Off
      BY <1>3, <2>2, <2>5, Durations DEF OwedInAir, Elapse
    <3>2. r.left >= ForwardTimeout - 2 * MaxJitter + tcAir'[n]
      BY <1>3, <2>1, <2>2, <2>3, <2>5, <3>1, Durations DEF OwedInAir
    <3> QED BY <3>1, <3>2 DEF OwedInAir
  <2> QED BY <2>2, <2>4, <2>5 DEF IInv, TcInv
<1> QED BY <1>7, <1>8, <1>9, <1>10, <1>11, <1>12, <1>13 DEF IInv

-----------------------------------------------------------------------------
LEMMA StutterIInv ==
  ASSUME IInv, UNCHANGED vars
  PROVE  IInv'
<1>1. UNCHANGED <<setup, mprSet, dataPending, tcPending, failCount, exact, queue, timers,
                  selector, tcAir, dataAir>>
  BY DEF vars
<1>2. TypeOK'
  BY <1>1 DEF IInv, TypeOK
<1>3. TimersInv' /\ QueueInv' /\ RecordInv' /\ VerdictInv'
  BY <1>1 DEF IInv, TimersInv, QueueInv, RecordInv, VerdictInv, Monitored, TcQueued
<1>4. ~ Lossy' => DataInv' /\ TcInv'
  BY <1>1 DEF IInv, Lossy, DataInv, TcInv, OwedInQueue, OwedInAir, TcQueued, Forwarders, conduct
<1> QED BY <1>2, <1>3, <1>4 DEF IInv

LEMMA NextIInv ==
  ASSUME IInv, [Next]_vars
  PROVE  IInv'
<1>1. CASE MprComputation
  BY <1>1, MprComputationIInv
<1>2. CASE SendHello
  BY <1>2, SendHelloIInv
<1>3. CASE SendTc \/ NoTcToSend
  BY <1>3, SendTcIInv, NoTcToSendIInv
<1>4. CASE SendQueuedMessages
  BY <1>4, SendQueuedMessagesIInv
<1>5. ASSUME NEW n \in Neighbors, ReairTc(n) PROVE IInv'
  BY <1>5, ReairTcIInv
<1>6. ASSUME NEW u \in Uids, NEW n \in Neighbors, NEW lastHop \in BOOLEAN,
             RouteOutput(u, n, lastHop)
      PROVE  IInv'
  BY <1>6, RouteOutputIInv
<1>7. ASSUME NEW u \in Uids, ReairData(u) PROVE IInv'
  BY <1>7, ReairDataIInv
<1>8. CASE Sweep
  BY <1>8, SweepIInv
<1>9. CASE PeriodicCheck
  BY <1>9, PeriodicCheckIInv
<1>10. CASE Tick
  BY <1>10, TickIInv
<1>11. CASE UNCHANGED vars
  BY <1>11, StutterIInv
<1> QED BY <1>1, <1>2, <1>3, <1>4, <1>5, <1>6, <1>7, <1>8, <1>9, <1>10, <1>11 DEF Next

\* The inductive invariant: where a TC and data are that a relay owes.
THEOREM Invariance == Spec => []IInv
<1>1. IInv /\ [Next]_vars => IInv'
  BY NextIInv
<1> QED BY <1>1, InitIInv, PTL DEF Spec

\* Type correctness: no record outlives its deadline by a sweep interval, and
\* no mistrust by a defence period.
THEOREM TypeCorrect == Spec => []TypeOK
<1>1. IInv => TypeOK
  BY DEF IInv
<1> QED BY <1>1, Invariance, PTL

\* No neighbour that forwards is blamed on a lossless channel: what it owes is
\* under way for as long as its record has time left.
LEMMA NothingOwedExpires == IInv => NoFalseBlame
<1> SUFFICES ASSUME IInv, ~ Lossy
             PROVE  /\ \A n \in Forwarders("data") : ExpiredData(n) = {}
                    /\ \A n \in Forwarders("tc") : \A r \in ExpiredTc(n) : n \notin r.sure
  BY DEF NoFalseBlame
<1>1. ASSUME NEW n \in Forwarders("data"), NEW u \in ExpiredData(n) PROVE FALSE
  <2>1. u \in Uids /\ dataPending[u].hop = n /\ dataPending[u].left <= 0
    BY DEF ExpiredData
  <2>2. dataAir[u] # Off
    BY <2>1 DEF IInv, DataInv
  <2>3. dataAir[u] \in 0 .. MaxJitter
    BY <2>1, <2>2, Durations DEF IInv, TypeOK
  <2>4. dataPending[u] \in DataRecord
        /\ dataPending[u].left >= ForwardTimeout - MaxJitter + dataAir[u]
    BY <2>1, <2>2, Recs DEF IInv, RecordInv
  <2> QED BY <2>1, <2>3, <2>4, Durations DEF DataRecord
<1>2. ASSUME NEW n \in Forwarders("tc"), NEW r \in ExpiredTc(n), n \in r.sure PROVE FALSE
  <2>1. r \in tcPending /\ r.left <= 0 /\ n \in r.pending /\ n \in Neighbors
    BY DEF ExpiredTc, Forwarders
  <2>2. OwedInQueue(r, n) \/ OwedInAir(r, n)
    BY <1>2, <2>1 DEF IInv, TcInv
  <2>3. r.left \in Int /\ tcAir[n] \in Off .. MaxJitter /\ timers.send \in Off .. MaxJitter
    BY <2>1, Durations, TimerTypes DEF IInv, TypeOK
  <2>4. r.left >= ForwardTimeout - 2 * MaxJitter
    BY <2>2, <2>3, Durations DEF OwedInQueue, OwedInAir
  <2> QED BY <2>1, <2>3, <2>4, Durations
<1> QED BY <1>1, <1>2

\* The forward monitor is right on a lossless channel, for all intervals that
\* TrustAssumption admits.
THEOREM ForwardersAreNotBlamed == Spec => []NoFalseBlame
BY Invariance, NothingOwedExpires, PTL

-----------------------------------------------------------------------------
\* What is under way was taken by a neighbour that forwards it.
OwedByForwarders ==
  /\ \A n \in Neighbors : tcAir[n] # Off => n \in Forwarders("tc")
  /\ \A u \in Uids : dataAir[u] # Off => dataPending[u].hop \in Forwarders("data")

LEMMA OwedStep ==
  ASSUME IInv, OwedByForwarders, [Next]_vars
  PROVE  OwedByForwarders'
<1>1. setup' = setup /\ \A what \in {"tc", "data"} : Forwarders(what)' = Forwarders(what)
  <2>1. setup' = setup
    BY DEF Next, vars, neighbours, MprComputation, SendHello, SendTc, NoTcToSend,
           SendQueuedMessages, ReairTc, RouteOutput, ReairData, Sweep, PeriodicCheck, Tick
  <2> QED BY <2>1 DEF Forwarders, conduct
<1>2. IInv'
  BY NextIInv
<1> SUFFICES /\ \A n \in Neighbors : tcAir'[n] # Off => n \in Forwarders("tc")
             /\ \A u \in Uids : dataAir'[u] # Off => dataPending'[u].hop \in Forwarders("data")
  BY <1>1 DEF OwedByForwarders
<1>3. CASE \/ UNCHANGED <<tcAir, dataAir, dataPending>>
  BY <1>3 DEF OwedByForwarders
<1>4. CASE SendQueuedMessages
  BY <1>4 DEF SendQueuedMessages, OwedByForwarders, records
<1>5. ASSUME NEW n \in Neighbors, ReairTc(n)
      PROVE  /\ \A m \in Neighbors : tcAir'[m] # Off => m \in Forwarders("tc")
             /\ UNCHANGED <<dataAir, dataPending>>
  <2>1. tcAir' = [tcAir EXCEPT ![n] = Off] /\ tcAir \in [Neighbors -> Off .. MaxJitter]
    BY <1>5 DEF ReairTc, IInv, TypeOK
  <2> QED BY <1>5, <2>1 DEF ReairTc, OwedByForwarders
<1>6. ASSUME NEW u \in Uids, NEW n \in Neighbors, NEW lastHop \in BOOLEAN,
             RouteOutput(u, n, lastHop)
      PROVE  /\ \A v \in Uids : dataAir'[v] # Off => dataPending'[v].hop \in Forwarders("data")
             /\ UNCHANGED tcAir
  <2>1. /\ dataPending' = [dataPending EXCEPT ![u] = [hop |-> n, left |-> ForwardTimeout]]
        /\ \/ n \in Forwarders("data") /\ dataAir' = [dataAir EXCEPT ![u] = MaxJitter]
           \/ dataAir' = dataAir
        /\ dataPending[u] = NoRecord /\ tcAir' = tcAir
    BY <1>6 DEF RouteOutput
  <2>2. dataAir[u] = Off /\ dataPending \in [Uids -> {NoRecord} \cup DataRecord]
        /\ dataAir \in [Uids -> Off .. MaxJitter]
    BY <2>1, Recs DEF IInv, RecordInv, TypeOK
  <2>3. ASSUME NEW v \in Uids, dataAir'[v] # Off
        PROVE  dataPending'[v].hop \in Forwarders("data")
    <3>1. CASE v = u
      BY <2>1, <2>2, <2>3, <3>1
    <3>2. CASE v # u
      BY <2>1, <2>2, <2>3, <3>2 DEF OwedByForwarders
    <3> QED BY <3>1, <3>2
  <2> QED BY <2>1, <2>3
<1>7. ASSUME NEW u \in Uids, ReairData(u)
      PROVE  /\ \A v \in Uids : dataAir'[v] # Off => dataPending'[v].hop \in Forwarders("data")
             /\ UNCHANGED tcAir
  <2>1. dataAir' = [dataAir EXCEPT ![u] = Off] /\ tcAir' = tcAir
        /\ (dataPending' = [dataPending EXCEPT ![u] = NoRecord] \/ dataPending' = dataPending)
    BY <1>7 DEF ReairData
  <2>2. dataPending \in [Uids -> {NoRecord} \cup DataRecord] /\ dataAir \in [Uids -> Off .. MaxJitter]
    BY Recs DEF IInv, TypeOK
  <2> QED BY <2>1, <2>2 DEF OwedByForwarders
<1>8. CASE Sweep
  <2>1. UNCHANGED <<tcAir, dataAir>>
        /\ dataPending' = [u \in Uids |-> IF dataPending[u].left <= 0 THEN NoRecord
                                          ELSE dataPending[u]]
    BY <1>8 DEF Sweep, neighbours
  <2>2. ASSUME NEW u \in Uids, dataAir'[u] # Off PROVE dataPending'[u] = dataPending[u]
    <3>1. dataPending'[u] # NoRecord
      BY <1>2, <2>2 DEF IInv, RecordInv
    <3> QED BY <2>1, <3>1
  <2> QED BY <2>1, <2>2 DEF OwedByForwarders
<1>9. CASE Tick
  <2>1. /\ tcAir' = [n \in Neighbors |-> Elapse(tcAir[n])]
        /\ dataAir' = [u \in Uids |-> Elapse(dataAir[u])]
        /\ dataPending' = [u \in Uids |->
             IF dataPending[u] = NoRecord THEN NoRecord
             ELSE [dataPending[u] EXCEPT !.left = @ - 1]]
    BY <1>9 DEF Tick
  <2>2. ASSUME NEW u \in Uids PROVE dataPending'[u].hop = dataPending[u].hop
    <3>1. dataPending[u] \in {NoRecord} \cup DataRecord
      BY Recs DEF IInv
    <3> QED BY <2>1, <3>1 DEF DataRecord
  <2>3. /\ \A n \in Neighbors : tcAir'[n] # Off => tcAir[n] # Off
        /\ \A u \in Uids : dataAir'[u] # Off => dataAir[u] # Off
    BY <2>1, Elapsed
  <2> QED BY <2>2, <2>3 DEF OwedByForwarders
<1>10. CASE MprComputation \/ SendHello \/ SendTc \/ NoTcToSend \/ PeriodicCheck
            \/ UNCHANGED vars
  BY <1>10, <1>3 DEF MprComputation, SendHello, SendTc, NoTcToSend, PeriodicCheck, vars,
                     neighbours, records
<1> QED BY <1>4, <1>5, <1>6, <1>7, <1>8, <1>9, <1>10 DEF Next, OwedByForwarders

\* One step: what a neighbour does not forward leaves the records in a sweep
\* only, which counts it.
Uncredited(n) ==
  /\ conduct[n] = {} => failCount'[n] >= failCount[n]
  /\ "tc" \notin conduct[n] /\ TcAwaited(n) => TcAwaited(n)' \/ CountedAsMiss(n)
  /\ "data" \notin conduct[n] =>
       \A u \in Uids : dataPending[u].hop = n /\ dataPending'[u].hop # n => CountedAsMiss(n)

LEMMA MissesTyped ==
  ASSUME IInv, NEW n \in Neighbors
  PROVE  failCount[n] \in 0 .. MinForwardFailures
BY DEF IInv, TypeOK

LEMMA SweepCounts ==
  ASSUME IInv, Sweep, NEW n \in Neighbors
  PROVE  Uncredited(n)
<1>1. /\ failCount'[n] = Smaller(failCount[n] + Failures(n), MinForwardFailures)
      /\ Failures(n) > 0 /\ failCount[n] + Failures(n) >= MinForwardFailures
           => exact'[n] = MistrustDuration
  BY DEF Sweep, RaiseFailures, MistrustExact
<1>2. /\ failCount[n] \in 0 .. MinForwardFailures /\ Failures(n) \in Nat
      /\ ExpiredData(n) # {} \/ ExpiredTc(n) # {} => Failures(n) > 0
  BY MissesTyped, FailureCount
<1>3. failCount'[n] >= failCount[n]
  BY <1>1, <1>2, Durations DEF Smaller
<1>4. Failures(n) > 0 => CountedAsMiss(n)
  BY <1>1, <1>2, Durations DEF Smaller, CountedAsMiss
<1>5. ASSUME NEW r \in tcPending, n \in r.pending PROVE TcAwaited(n)' \/ CountedAsMiss(n)
  <2>1. r \in tcPending' \/ r \in ExpiredTc(n)
    <3>1. r.left \in Int /\ tcPending' = {s \in tcPending : s.left > 0}
      BY Recs, Durations DEF IInv, Record, Sweep
    <3> QED BY <1>5, <3>1 DEF ExpiredTc
  <2> QED BY <1>2, <1>4, <1>5, <2>1 DEF TcAwaited
<1>6. ASSUME NEW u \in Uids, dataPending[u].hop = n, dataPending'[u].hop # n
      PROVE  CountedAsMiss(n)
  <2>1. dataPending'[u] = IF dataPending[u].left <= 0 THEN NoRecord ELSE dataPending[u]
    BY DEF Sweep
  <2>2. u \in ExpiredData(n)
    BY <1>6, <2>1 DEF ExpiredData
  <2> QED BY <1>2, <1>4, <2>2
<1> QED BY <1>3, <1>5, <1>6 DEF Uncredited, TcAwaited

LEMMA CreditsGoToForwarders ==
  ASSUME IInv, OwedByForwarders, [Next]_vars, NEW n \in Neighbors
  PROVE  Uncredited(n)
<1>1. failCount[n] \in 0 .. MinForwardFailures /\ failCount[n] >= failCount[n]
  BY MissesTyped, Durations
<1>2. ASSUME failCount' = failCount,
             \A u \in Uids : dataPending[u].hop = n => dataPending'[u].hop = n,
             TcAwaited(n) => TcAwaited(n)'
      PROVE  Uncredited(n)
  BY <1>1, <1>2 DEF Uncredited
<1>3. CASE UNCHANGED <<failCount, dataPending, tcPending>>
  BY <1>2, <1>3 DEF TcAwaited
<1>4. CASE \/ MprComputation \/ SendHello \/ NoTcToSend \/ SendQueuedMessages
           \/ PeriodicCheck \/ UNCHANGED vars
  BY <1>3, <1>4 DEF MprComputation, SendHello, NoTcToSend, SendQueuedMessages, PeriodicCheck,
                    vars, records, verdicts
<1>5. CASE SendTc
  <2>1. ~ TcAwaited(n)
    BY <1>5, LastTcIsOver DEF SendTc, TcAwaited
  <2> QED BY <1>2, <1>5, <2>1 DEF SendTc, verdicts
<1>6. ASSUME NEW m \in Neighbors, ReairTc(m) PROVE Uncredited(n)
  <2>1. CASE UNCHANGED <<tcPending, failCount>>
    BY <1>3, <1>6, <2>1 DEF ReairTc
  <2>2. CASE CreditTcForward(m) /\ m # n
    <3>1. failCount'[n] = failCount[n] /\ (TcAwaited(n) => TcAwaited(n)')
      BY <2>2, Credited
    <3> QED BY <1>1, <1>6, <3>1 DEF ReairTc, Uncredited
  <2>3. CASE m = n
    <3>1. "tc" \in conduct[n]
      BY <1>6, <2>3 DEF ReairTc, OwedByForwarders, Forwarders
    <3> QED BY <1>6, <3>1 DEF ReairTc, Uncredited
  <2> QED BY <1>6, <2>1, <2>2, <2>3 DEF ReairTc
<1>7. ASSUME NEW u \in Uids, NEW m \in Neighbors, NEW lastHop \in BOOLEAN,
             RouteOutput(u, m, lastHop)
      PROVE  Uncredited(n)
  <2>1. /\ failCount' = failCount /\ tcPending' = tcPending /\ dataPending[u] = NoRecord
        /\ dataPending' = [dataPending EXCEPT ![u] = [hop |-> m, left |-> ForwardTimeout]]
    BY <1>7 DEF RouteOutput, verdicts
  <2>2. \A v \in Uids : dataPending[v].hop = n => dataPending'[v].hop = n
    BY <2>1, Recs, NoRecordIsNone DEF IInv
  <2> QED BY <1>2, <2>1, <2>2 DEF TcAwaited
<1>8. ASSUME NEW u \in Uids, ReairData(u) PROVE Uncredited(n)
  <2>1. CASE UNCHANGED <<failCount, dataPending>>
    BY <1>3, <1>8, <2>1 DEF ReairData
  <2>2. CASE /\ failCount' = [failCount EXCEPT ![dataPending[u].hop] = 0]
             /\ dataPending' = [dataPending EXCEPT ![u] = NoRecord]
    <3>1. dataPending[u].hop \in Forwarders("data")
      BY <1>8 DEF ReairData, OwedByForwarders
    <3>2. \A v \in Uids \ {u} : dataPending'[v] = dataPending[v]
      BY <2>2, Recs DEF IInv
    <3>3. tcPending' = tcPending
      BY <1>8 DEF ReairData
    <3>4. CASE dataPending[u].hop = n
      <4>1. "data" \in conduct[n]
        BY <3>1, <3>4 DEF Forwarders
      <4> QED BY <3>3, <4>1 DEF Uncredited, TcAwaited
    <3>5. CASE dataPending[u].hop # n
      <4>1. failCount'[n] = failCount[n]
        BY <2>2, <3>5 DEF IInv, TypeOK
      <4> QED BY <1>1, <3>2, <3>3, <3>5, <4>1 DEF Uncredited, TcAwaited
    <3> QED BY <3>4, <3>5
  <2> QED BY <1>8, <2>1, <2>2 DEF ReairData
<1>9. CASE Sweep
  BY <1>9, SweepCounts
<1>10. CASE Tick
  <2>1. failCount' = failCount
    BY <1>10 DEF Tick
  <2>2. ASSUME NEW u \in Uids, dataPending[u].hop = n PROVE dataPending'[u].hop = n
    <3>1. /\ dataPending[u] \in {NoRecord} \cup DataRecord
          /\ dataPending'[u] = IF dataPending[u] = NoRecord THEN NoRecord
                               ELSE [dataPending[u] EXCEPT !.left = @ - 1]
      BY <1>10, Recs DEF IInv, Tick
    <3> QED BY <2>2, <3>1 DEF DataRecord
  <2>3. ASSUME NEW r \in tcPending, n \in r.pending PROVE TcAwaited(n)'
    <3>1. r \in Record
      BY Recs DEF IInv
    <3>2. [r EXCEPT !.left = @ - 1] \in tcPending'
      BY <1>10 DEF Tick
    <3>3. [r EXCEPT !.left = @ - 1].pending = r.pending
      BY <3>1 DEF Record
    <3> QED BY <2>3, <3>2, <3>3 DEF TcAwaited
  <2> QED BY <1>2, <2>1, <2>2, <2>3 DEF TcAwaited
<1> QED BY <1>4, <1>5, <1>6, <1>7, <1>8, <1>9, <1>10 DEF Next

\* The invariant with which a credit is only given to a neighbour that forwards.
THEOREM OwedInvariance == Spec => []OwedByForwarders
<1>1. Init => OwedByForwarders
  BY DEF Init, OwedByForwarders
<1>2. IInv /\ OwedByForwarders /\ [Next]_vars => OwedByForwarders'
  BY OwedStep
<1> QED BY <1>1, <1>2, Invariance, PTL DEF Spec

\* A black hole gets away with nothing it drops: whatever is lost and whoever
\* else forwards, what is awaited of it leaves the records only as a miss.
THEOREM BlackHolesAreNotCredited == Spec => OnlyForwardingIsCredited
<1>1. IInv /\ OwedByForwarders /\ [Next]_vars => [\A n \in Neighbors : Uncredited(n)]_vars
  BY CreditsGoToForwarders
<1>2. (\A n \in Neighbors : Uncredited(n))
        <=> \A n \in Neighbors :
              /\ conduct[n] = {} => failCount'[n] >= failCount[n]
              /\ "tc" \notin conduct[n] /\ TcAwaited(n) => TcAwaited(n)' \/ CountedAsMiss(n)
              /\ "data" \notin conduct[n] =>
                   \A u \in Uids : dataPending[u].hop = n /\ dataPending'[u].hop # n
                                    => CountedAsMiss(n)
  BY DEF Uncredited
<1> QED BY <1>1, <1>2, Invariance, OwedInvariance, PTL DEF Spec, OnlyForwardingIsCredited
=============================================================================
