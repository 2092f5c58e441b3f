------------------------- MODULE Announcements_proofs -------------------------
(***************************************************************************)
(* Proofs about Announcements and HnaTable: whatever the lists, the        *)
(* interval, the delay of the flooding and the number of ANSNs are, the    *)
(* topology set holds one list of an originator at a time and nothing      *)
(* outlives its holding time. The invariants say what a message in the air *)
(* and a tuple know of their originator; a tuple is never better informed  *)
(* than the message it goes back to, and both grow old as fast as what the *)
(* originator has done. Of the HNA routing table they say how far in front *)
(* a route stands that has outlived so many computations.                  *)
(***************************************************************************)
EXTENDS HnaTable, FiniteSetTheorems, SequenceTheorems, TLAPS

-----------------------------------------------------------------------------
\* What the originator lists now is part of what its number stands for.
OriginatorInv ==
  /\ Watched \in advertised => dropped = 0
  /\ kind = "tc" => advertised \subseteq first[ansn]

\* A message is no younger than the change it knows nothing of.
MessageInv(m) ==
  /\ Watched \in m.list => dropped <= m.age
  /\ kind = "tc" => /\ m.list \subseteq first[m.seq]
                    /\ m.seq # ansn => steady <= m.age

\* The same of a tuple, whose message was in the air for MaxDelay at most.
TupleInv(i) ==
  /\ i = Watched => dropped + tuple[i].left <= Lifetime
  /\ kind = "tc" => /\ \A j \in Recorded : tuple[i].seq = tuple[j].seq
                    /\ i \in first[tuple[i].seq]
                    /\ tuple[i].seq # ansn => steady + tuple[i].left <= Lifetime

IInv ==
  /\ TypeOK
  /\ OriginatorInv
  /\ \A m \in air : MessageInv(m)
  /\ \A i \in Recorded : TupleInv(i)

LEMMA Durations ==
  /\ Interval \in Nat \ {0} /\ VTime \in Nat \ {0} /\ MaxDelay \in Nat
  /\ Lifetime = VTime + MaxDelay /\ Forgotten = VTime + MaxDelay + 1
  /\ Lifetime \in Nat /\ Forgotten \in Nat
  /\ AnsnModulus \in Nat \ {0, 1}
BY AnnouncementsAssumption DEF VTime, Lifetime, Forgotten

LEMMA TupleTypes ==
  ASSUME TypeOK, NEW i \in Recorded
  PROVE  /\ i \in Items /\ tuple[i] \in Tuple
         /\ tuple[i].seq \in Numbers /\ tuple[i].left \in -1 .. VTime
         /\ tuple[i].left \in Int
         /\ pending[i] \in -1 .. VTime /\ pending[i] <= tuple[i].left
         /\ Quiet => 0 <= tuple[i].left
<1>1. i \in Items /\ tuple[i] \in Tuple
  BY DEF TypeOK, Recorded
<1>2. tuple[i].seq \in Numbers /\ tuple[i].left \in -1 .. VTime
  BY <1>1 DEF Tuple
<1>3. pending[i] \in -1 .. VTime /\ pending[i] <= tuple[i].left
  BY <1>1, Durations DEF TypeOK, Off
<1>4. ASSUME Quiet PROVE 0 <= tuple[i].left
  BY <1>1, <1>2, <1>3, <1>4, Durations DEF Quiet, TimerDue
<1> QED BY <1>1, <1>2, <1>3, <1>4, Durations

LEMMA InitIInv == Init => IInv
<1> SUFFICES ASSUME Init PROVE IInv
  OBVIOUS
<1>1. Recorded = {}
  BY DEF Init, Recorded
<1>2. TypeOK
  BY <1>1, Durations DEF Init, TypeOK, Numbers, Off, Message
<1>3. OriginatorInv
  BY DEF Init, OriginatorInv
<1> QED BY <1>1, <1>2, <1>3 DEF Init, IInv

-----------------------------------------------------------------------------
\* A list is given a new number.
LEMMA BumpIInv ==
  ASSUME IInv, kind = "tc", NEW list \in SUBSET Items, IncrementAnsn(list),
         advertised' = list, UNCHANGED <<kind, timer, air, receiver>>,
         dropped' \in {0, dropped}, Watched \in list => dropped' = 0
  PROVE  IInv'
<1> DEFINE next == (ansn + 1) % AnsnModulus
<1>1. next \in Numbers
  BY Durations DEF IInv, TypeOK, Numbers
<1>2. /\ next \notin Borne /\ ansn' = next
      /\ first' = [k \in Numbers |-> IF k = next THEN list
                                     ELSE IF k \in Borne THEN first[k] ELSE {}]
      /\ steady' = IF Borne = {} THEN Forgotten ELSE 0
  BY DEF IncrementAnsn, IsForgotten
<1> HIDE DEF next
<1>3. Recorded' = Recorded /\ air' = air /\ tuple' = tuple /\ pending' = pending
      /\ kind' = kind /\ timer' = timer
  BY DEF Recorded, receiver
<1>4. first' \in [Numbers -> SUBSET Items] /\ first'[next] = list
  BY <1>1, <1>2 DEF IInv, TypeOK
<1>5. steady' \in 0 .. Forgotten /\ dropped' \in 0 .. Forgotten /\ dropped' <= dropped
  BY <1>2, Durations DEF IInv, TypeOK
<1>6. TypeOK'
  BY <1>1, <1>2, <1>3, <1>4, <1>5 DEF IInv, TypeOK
<1>7. OriginatorInv'
  BY <1>2, <1>3, <1>4 DEF OriginatorInv
<1>8. ASSUME NEW m \in air PROVE MessageInv(m)'
  <2>1. m.seq \in Borne /\ m.seq \in Numbers /\ m.age \in Nat
    BY Durations DEF IInv, TypeOK, Message, Borne
  <2>2. first'[m.seq] = first[m.seq]
    BY <1>2, <2>1
  <2>3. steady' = 0
    BY <1>2, <2>1
  <2>4. dropped \in Int /\ dropped' \in Int
    BY <1>5, Durations DEF IInv, TypeOK
  <2> QED BY <1>3, <1>5, <2>1, <2>2, <2>3, <2>4 DEF IInv, MessageInv
<1>9. ASSUME NEW i \in Recorded PROVE TupleInv(i)'
  <2>1. tuple[i].seq \in Borne /\ tuple[i].seq \in Numbers /\ tuple[i].left \in -1 .. VTime
    BY TupleTypes DEF Borne, IInv
  <2>2. first'[tuple[i].seq] = first[tuple[i].seq]
    BY <1>2, <2>1
  <2>3. steady' + tuple[i].left <= Lifetime
    BY <1>2, <2>1, Durations
  <2>4. dropped \in Int /\ dropped' \in Int
    BY <1>5, Durations DEF IInv, TypeOK
  <2>5. dropped + tuple[i].left <= Lifetime => dropped' + tuple[i].left <= Lifetime
    BY <1>5, <2>1, <2>4, Durations
  <2> QED BY <1>3, <2>2, <2>3, <2>5 DEF IInv, TupleInv
<1> QED BY <1>3, <1>6, <1>7, <1>8, <1>9 DEF IInv

\* A list changes under the same number: it only grows where no number is sent.
LEMMA KeepNumberIInv ==
  ASSUME IInv, advertised' \in SUBSET Items,
         kind = "tc" => advertised' \subseteq advertised,
         UNCHANGED <<kind, ansn, timer, air, receiver, first, steady>>,
         dropped' \in {0, dropped}, Watched \in advertised' => dropped' = 0
  PROVE  IInv'
<1>1. Recorded' = Recorded /\ air' = air /\ tuple' = tuple /\ pending' = pending
      /\ first' = first /\ steady' = steady /\ ansn' = ansn
      /\ kind' = kind /\ timer' = timer
  BY DEF Recorded, receiver
<1>2. dropped \in Int /\ dropped' \in 0 .. Forgotten /\ dropped' <= dropped
  BY Durations DEF IInv, TypeOK
<1>3. TypeOK'
  BY <1>1, <1>2 DEF IInv, TypeOK
<1>4. OriginatorInv'
  BY <1>1 DEF IInv, OriginatorInv
<1>5. ASSUME NEW m \in air PROVE MessageInv(m)'
  <2>1. m.age \in Int
    BY Durations DEF IInv, TypeOK, Message
  <2> QED BY <1>1, <1>2, <2>1, Durations DEF IInv, MessageInv
<1>6. ASSUME NEW i \in Recorded PROVE TupleInv(i)'
  <2>1. tuple[i].left \in Int
    BY TupleTypes DEF IInv
  <2>2. dropped + tuple[i].left <= Lifetime => dropped' + tuple[i].left <= Lifetime
    BY <1>2, <2>1, Durations
  <2> QED BY <1>1, <2>2 DEF IInv, TupleInv
<1> QED BY <1>1, <1>3, <1>4, <1>5, <1>6 DEF IInv

LEMMA ChangeIInv ==
  ASSUME IInv, Change
  PROVE  IInv'
<1>0. advertised \in SUBSET Items /\ (Watched \in advertised => dropped = 0)
  BY DEF IInv, TypeOK, OriginatorInv
<1>1. CASE ChangeNeighborTuple
  BY <1>0, <1>1, BumpIInv DEF ChangeNeighborTuple
<1>2. ASSUME NEW i \in Items, AddMprSelectorTuple(i) PROVE IInv'
  <2>1. advertised' \in SUBSET Items /\ dropped' \in {0, dropped}
        /\ (Watched \in advertised' => dropped' = 0)
    BY <1>0, <1>2 DEF AddMprSelectorTuple, Advertise
  <2> QED BY <1>2, <2>1, BumpIInv DEF AddMprSelectorTuple
<1>3. ASSUME NEW i \in Items, RemoveMprSelectorTuple(i) PROVE IInv'
  <2>1. advertised' \in SUBSET Items /\ dropped' = dropped
        /\ (Watched \in advertised' => dropped' = 0)
    BY <1>0, <1>3 DEF RemoveMprSelectorTuple
  <2> QED BY <1>3, <2>1, BumpIInv DEF RemoveMprSelectorTuple
<1>4. ASSUME NEW i \in Items, NeighborLoss(i) PROVE IInv'
  BY <1>0, <1>4, KeepNumberIInv DEF NeighborLoss
<1>5. ASSUME NEW i \in Items, AddHostNetworkAssociation(i) PROVE IInv'
  <2>1. advertised' \in SUBSET Items /\ dropped' \in {0, dropped}
        /\ (Watched \in advertised' => dropped' = 0) /\ kind # "tc"
    BY <1>0, <1>5 DEF AddHostNetworkAssociation, Advertise
  <2> QED BY <1>5, <2>1, KeepNumberIInv DEF AddHostNetworkAssociation
<1>6. ASSUME NEW i \in Items, RemoveHostNetworkAssociation(i) PROVE IInv'
  BY <1>0, <1>6, KeepNumberIInv DEF RemoveHostNetworkAssociation
<1> QED BY <1>1, <1>2, <1>3, <1>4, <1>5, <1>6 DEF Change

-----------------------------------------------------------------------------
LEMMA SendIInv ==
  ASSUME IInv, AnnouncementTimerExpire
  PROVE  IInv'
<1>1. UNCHANGED <<kind, advertised, ansn, receiver, first, steady, dropped>>
      /\ timer' = Interval /\ air' \subseteq air \cup {Announcement}
  BY DEF AnnouncementTimerExpire
<1>2. Recorded' = Recorded /\ tuple' = tuple /\ pending' = pending
  BY <1>1 DEF Recorded, receiver
<1>3. Announcement \in Message
  BY Durations DEF IInv, TypeOK, Announcement, Message
<1>4. MessageInv(Announcement)
  BY Durations DEF IInv, OriginatorInv, MessageInv, Announcement
<1>5. TypeOK'
  BY <1>1, <1>2, <1>3, Durations DEF IInv, TypeOK
<1>6. \A m \in air' : MessageInv(m)'
  BY <1>1, <1>4 DEF IInv, MessageInv
<1>7. \A i \in Recorded' : TupleInv(i)'
  BY <1>1, <1>2 DEF IInv, TupleInv
<1>8. OriginatorInv'
  BY <1>1 DEF IInv, OriginatorInv
<1> QED BY <1>5, <1>6, <1>7, <1>8 DEF IInv

\* What RefreshOrAdd leaves at i.
LEMMA Refreshed ==
  ASSUME TypeOK, Quiet, NEW m \in air, NEW kept \in SUBSET Recorded,
         RefreshOrAdd(m, kept), NEW i \in Items
  PROVE  /\ tuple'[i] \in Tuple \cup {NoTuple} /\ pending'[i] \in Off .. VTime
         /\ i \in Recorded' <=> i \in m.list \cup kept
         /\ i \in Recorded' =>
              /\ i \in m.list => tuple'[i].left = VTime
              /\ i \notin m.list => tuple'[i] = tuple[i]
              /\ tuple'[i].seq = IF i \in kept THEN tuple[i].seq ELSE m.seq
              /\ Off < pending'[i] /\ pending'[i] <= tuple'[i].left
<1>1. tuple'[i] = IF i \in m.list
                  THEN [seq |-> IF i \in kept THEN tuple[i].seq ELSE m.seq, left |-> VTime]
                  ELSE IF i \in kept THEN tuple[i] ELSE NoTuple
  BY DEF RefreshOrAdd
<1>2. pending'[i] = IF i \in m.list \ kept /\ pending[i] = Off THEN VTime ELSE pending[i]
  BY DEF RefreshOrAdd
<1>3. pending[i] \in Off .. VTime /\ pending[i] # -1 /\ m.seq \in Numbers
  BY DEF TypeOK, Quiet, TimerDue, Message
<1>4. i \in Recorded' <=> tuple'[i] # NoTuple
  BY DEF Recorded
<1>5. CASE i \in m.list
  <2>1. tuple'[i].left = VTime
        /\ tuple'[i].seq = (IF i \in kept THEN tuple[i].seq ELSE m.seq)
        /\ tuple'[i] \in [seq : {tuple'[i].seq}, left : {VTime}]
    BY <1>1, <1>5
  <2>2. i \in kept => tuple[i].seq \in Numbers /\ Off < pending[i] /\ pending[i] <= VTime
    BY TupleTypes, Durations DEF Off
  <2>3. tuple'[i].seq \in Numbers
    BY <1>3, <2>1, <2>2
  <2>4. tuple'[i] \in Tuple
    BY <2>1, <2>3, Durations DEF Tuple
  <2>5. tuple'[i] # NoTuple
    BY <2>3, <2>4, Durations DEF NoTuple, Numbers
  <2>6. Off < pending'[i] /\ pending'[i] <= VTime /\ pending'[i] \in Off .. VTime
    BY <1>2, <1>3, <1>5, <2>2, Durations DEF Off
  <2> QED BY <1>4, <1>5, <2>1, <2>4, <2>5, <2>6
<1>6. CASE i \notin m.list /\ i \in kept
  <2>1. tuple'[i] = tuple[i] /\ pending'[i] = pending[i]
    BY <1>1, <1>2, <1>6
  <2>2. tuple[i] \in Tuple /\ tuple[i] # NoTuple /\ Off < pending[i]
        /\ pending[i] <= tuple[i].left
    BY <1>6, TupleTypes, Durations DEF Off, Recorded
  <2> QED BY <1>3, <1>4, <1>6, <2>1, <2>2
<1>7. CASE i \notin m.list /\ i \notin kept
  BY <1>1, <1>2, <1>3, <1>4, <1>7
<1> QED BY <1>5, <1>6, <1>7

LEMMA ReceiveIInv ==
  ASSUME IInv, Quiet, NEW m \in air, NEW kept \in SUBSET Recorded,
         FirstCopy(m), RefreshOrAdd(m, kept), UNCHANGED originator,
         kind = "tc" => \A i \in kept : tuple[i].seq = m.seq
  PROVE  IInv'
<1>1. UNCHANGED <<kind, advertised, ansn, timer, first, steady, dropped>>
      /\ air' \subseteq air
  BY DEF originator, FirstCopy
<1>2. m \in Message /\ MessageInv(m) /\ m.age \in 0 .. MaxDelay
  BY Durations DEF IInv, TypeOK, Message
<1>3. DOMAIN tuple' = Items /\ tuple' = [i \in Items |-> tuple'[i]]
      /\ pending' = [i \in Items |-> pending'[i]]
  BY DEF RefreshOrAdd
<1>4. tuple' \in [Items -> Tuple \cup {NoTuple}] /\ pending' \in [Items -> Off .. VTime]
  BY <1>3, Refreshed DEF IInv
<1>5. Recorded' \subseteq Items
  BY DEF Recorded
<1>6. \A i \in Recorded' : Off < pending'[i] /\ pending'[i] <= tuple'[i].left
  BY <1>5, Refreshed DEF IInv
<1>7. TypeOK'
  BY <1>1, <1>4, <1>6 DEF IInv, TypeOK
<1>8. ASSUME NEW i \in Recorded' PROVE TupleInv(i)'
  <2>1. i \in m.list \cup kept
    BY <1>5, Refreshed DEF IInv
  <2>2. ASSUME kind = "tc", NEW j \in Recorded' PROVE tuple'[j].seq = m.seq
    BY <1>5, <2>2, Refreshed DEF IInv
  <2>3. steady \in Int /\ dropped \in Int
    BY Durations DEF IInv, TypeOK
  <2>4. CASE i \in m.list
    <3>1. tuple'[i].left = VTime
      BY <1>5, <2>4, Refreshed DEF IInv
    <3>2. Watched = i => dropped + VTime <= Lifetime
      BY <1>2, <2>3, <2>4, Durations DEF MessageInv
    <3>3. kind = "tc" /\ m.seq # ansn => steady + VTime <= Lifetime
      BY <1>2, <2>3, Durations DEF MessageInv
    <3>4. kind = "tc" => i \in first[m.seq]
      BY <1>2, <2>4 DEF MessageInv
    <3> QED BY <1>1, <2>2, <3>1, <3>2, <3>3, <3>4 DEF TupleInv
  <2>5. CASE i \notin m.list
    <3>1. i \in kept /\ tuple'[i] = tuple[i]
      BY <1>5, <2>1, <2>5, Refreshed DEF IInv
    <3>2. TupleInv(i)
      BY <3>1 DEF IInv
    <3> QED BY <1>1, <2>2, <3>1, <3>2 DEF TupleInv
  <2> QED BY <2>4, <2>5
<1>9. OriginatorInv' /\ \A n \in air' : MessageInv(n)'
  BY <1>1 DEF IInv, OriginatorInv, MessageInv
<1> QED BY <1>7, <1>8, <1>9 DEF IInv

LEMMA ProcessTcIInv ==
  ASSUME IInv, NEW m \in air, ProcessTc(m)
  PROVE  IInv'
<1> DEFINE kept == {i \in Recorded : tuple[i].seq >= m.seq}
<1>1. CASE HasNewer(m)
  <2>1. UNCHANGED <<kind, advertised, ansn, timer, first, steady, dropped>>
        /\ tuple' = tuple /\ pending' = pending /\ air' \subseteq air
    BY <1>1 DEF ProcessTc, originator, receiver, FirstCopy
  <2>2. Recorded' = Recorded
    BY <2>1 DEF Recorded
  <2>3. TypeOK' /\ OriginatorInv'
    BY <2>1, <2>2 DEF IInv, TypeOK, OriginatorInv
  <2>4. \A n \in air' : MessageInv(n)'
    BY <2>1 DEF IInv, MessageInv
  <2>5. \A i \in Recorded : TupleInv(i)'
    BY <2>1, <2>2 DEF IInv, TupleInv
  <2> QED BY <2>2, <2>3, <2>4, <2>5 DEF IInv
<1>2. CASE ~ HasNewer(m)
  <2>1. \A i \in kept : tuple[i].seq = m.seq
    <3> SUFFICES ASSUME NEW i \in kept PROVE tuple[i].seq = m.seq
      OBVIOUS
    <3>1. tuple[i].seq \in Int /\ m.seq \in Int
      BY TupleTypes, Durations DEF IInv, TypeOK, Message, Numbers
    <3>2. ~ (tuple[i].seq > m.seq) /\ tuple[i].seq >= m.seq
      BY <1>2 DEF HasNewer
    <3> QED BY <3>1, <3>2
  <2>2. Quiet /\ FirstCopy(m) /\ RefreshOrAdd(m, kept) /\ UNCHANGED originator
    BY <1>2 DEF ProcessTc
  <2> QED BY <2>1, <2>2, ReceiveIInv
<1> QED BY <1>1, <1>2

LEMMA ProcessHnaIInv ==
  ASSUME IInv, NEW m \in air, ProcessHna(m)
  PROVE  IInv'
BY ReceiveIInv DEF ProcessHna

-----------------------------------------------------------------------------
LEMMA ExpireIInv ==
  ASSUME IInv, NEW i \in Items, TupleTimerExpire(i), UNCHANGED <<originator, air>>
  PROVE  IInv'
<1>1. UNCHANGED <<kind, advertised, ansn, timer, first, steady, dropped, air>>
  BY DEF originator
<1>2. /\ tuple \in [Items -> Tuple \cup {NoTuple}] /\ pending \in [Items -> Off .. VTime]
      /\ Recorded \subseteq Items
  BY DEF IInv, TypeOK, Recorded
<1>3. Recorded' \subseteq Recorded /\ \A j \in Recorded' : tuple'[j] = tuple[j]
  BY <1>2 DEF TupleTimerExpire, Recorded
<1>4. tuple' \in [Items -> Tuple \cup {NoTuple}]
  BY <1>2 DEF TupleTimerExpire
<1>5. i \in Recorded => tuple[i].left \in -1 .. VTime
  BY TupleTypes DEF IInv
<1>6. /\ pending' \in [Items -> Off .. VTime]
      /\ \A j \in Items \ {i} : pending'[j] = pending[j]
      /\ i \in Recorded' => pending'[i] = tuple[i].left /\ 0 <= tuple[i].left
  <2>1. CASE tuple[i] = NoTuple
    BY <1>2, <2>1, Durations DEF TupleTimerExpire, Recorded, Off
  <2>2. CASE tuple[i] # NoTuple /\ tuple[i].left < 0
    BY <1>2, <2>2, Durations DEF TupleTimerExpire, Recorded, Off
  <2>3. CASE tuple[i] # NoTuple /\ ~ (tuple[i].left < 0)
    <3>1. tuple[i].left \in 0 .. VTime
      BY <1>5, <2>3, Durations DEF Recorded
    <3>2. pending' = [pending EXCEPT ![i] = tuple[i].left]
      BY <2>3 DEF TupleTimerExpire
    <3> QED BY <1>2, <3>1, <3>2, Durations DEF Off
  <2> QED BY <2>1, <2>2, <2>3
<1>7. \A j \in Recorded' : Off < pending'[j] /\ pending'[j] <= tuple'[j].left
  <2> SUFFICES ASSUME NEW j \in Recorded'
               PROVE  Off < pending'[j] /\ pending'[j] <= tuple'[j].left
    OBVIOUS
  <2>1. CASE j = i
    BY <1>3, <1>5, <1>6, <2>1, Durations DEF Off
  <2>2. CASE j # i
    BY <1>2, <1>3, <1>6, <2>2 DEF IInv, TypeOK
  <2> QED BY <2>1, <2>2
<1>8. TypeOK'
  BY <1>1, <1>4, <1>6, <1>7 DEF IInv, TypeOK
<1>9. OriginatorInv' /\ \A m \in air' : MessageInv(m)'
  BY <1>1 DEF IInv, OriginatorInv, MessageInv
<1>10. \A j \in Recorded' : TupleInv(j)'
  BY <1>1, <1>3 DEF IInv, TupleInv
<1> QED BY <1>8, <1>9, <1>10 DEF IInv

LEMMA TickIInv ==
  ASSUME IInv, Tick
  PROVE  IInv'
<1>1. UNCHANGED <<kind, advertised, ansn>> /\ Quiet /\ timer # 0 /\ timer' = timer - 1
  BY DEF Tick
<1>2. /\ tuple' = [i \in Items |-> IF tuple[i] = NoTuple THEN NoTuple
                                   ELSE [tuple[i] EXCEPT !.left = @ - 1]]
      /\ pending' = [i \in Items |-> IF pending[i] = Off THEN Off ELSE pending[i] - 1]
  BY DEF Tick
<1>3. ASSUME NEW i \in Recorded
      PROVE  /\ tuple'[i] \in Tuple /\ tuple'[i].seq = tuple[i].seq
             /\ tuple'[i].left = tuple[i].left - 1 /\ tuple[i].left \in 0 .. VTime
             /\ Off < pending'[i] /\ pending'[i] <= tuple'[i].left
  <2>1. /\ i \in Items /\ tuple[i] \in Tuple /\ tuple[i] # NoTuple
        /\ tuple[i].seq \in Numbers /\ tuple[i].left \in 0 .. VTime
        /\ pending[i] \in -1 .. VTime /\ pending[i] <= tuple[i].left
    BY <1>1, TupleTypes, Durations DEF IInv, Recorded
  <2>2. pending[i] # -1
    BY <1>1, <2>1 DEF Quiet, TimerDue
  <2>3. tuple'[i] = [tuple[i] EXCEPT !.left = @ - 1]
    BY <1>2, <2>1
  <2>4. tuple'[i].seq = tuple[i].seq /\ tuple'[i].left = tuple[i].left - 1
        /\ tuple'[i] = [seq |-> tuple[i].seq, left |-> tuple[i].left - 1]
    BY <2>1, <2>3 DEF Tuple
  <2>5. tuple[i].left - 1 \in -1 .. VTime
    BY <2>1, Durations
  <2>6. tuple'[i] \in Tuple
    BY <2>1, <2>4, <2>5 DEF Tuple
  <2>7. pending'[i] = pending[i] - 1
    BY <1>2, <2>1, Durations DEF Off
  <2> QED BY <2>1, <2>2, <2>4, <2>6, <2>7, Durations DEF Off
<1>4. Recorded' = Recorded
  <2>1. Recorded' \subseteq Recorded
    BY <1>2 DEF Recorded
  <2>2. ASSUME NEW i \in Recorded PROVE i \in Recorded'
    <3>1. tuple'[i].seq \in Numbers
      BY <1>3, TupleTypes DEF IInv
    <3>2. tuple'[i] # NoTuple
      BY <3>1, Durations DEF NoTuple, Numbers
    <3> QED BY <3>2 DEF Recorded
  <2> QED BY <2>1, <2>2
<1>5. tuple' \in [Items -> Tuple \cup {NoTuple}]
  BY <1>2, <1>3 DEF Recorded
<1>6. pending' \in [Items -> Off .. VTime]
  <2>1. \A i \in Items : pending[i] \in Off .. VTime /\ pending[i] # -1
    BY <1>1 DEF IInv, TypeOK, Quiet, TimerDue
  <2> QED BY <1>2, <2>1, Durations DEF Off
<1>7. ASSUME NEW m \in air'
      PROVE  \E n \in air : /\ m \in Message /\ n \in Message /\ n.age < MaxDelay
                            /\ m.seq = n.seq /\ m.list = n.list /\ m.age = n.age + 1
  <2>1. PICK n \in air : n.age < MaxDelay /\ m = [n EXCEPT !.age = @ + 1]
    BY DEF Tick
  <2>2. n \in Message
    BY DEF IInv, TypeOK
  <2>3. m.seq = n.seq /\ m.list = n.list /\ m.age = n.age + 1
        /\ m = [seq |-> n.seq, list |-> n.list, age |-> n.age + 1]
    BY <2>1, <2>2 DEF Message
  <2>4. n.age + 1 \in 0 .. MaxDelay
    BY <2>1, <2>2, Durations DEF Message
  <2> QED BY <2>1, <2>2, <2>3, <2>4 DEF Message
<1>8. /\ steady' = IF Borne \subseteq {ansn} THEN Forgotten ELSE Older(steady)
      /\ steady \in 0 .. Forgotten /\ steady' \in 0 .. Forgotten
      /\ Older(steady) <= steady + 1
  BY Durations DEF Tick, IInv, TypeOK, Older
<1>9. /\ dropped' = IF Watched \in advertised THEN 0
                    ELSE IF Watched \in Listed THEN Older(dropped) ELSE Forgotten
      /\ dropped \in 0 .. Forgotten /\ dropped' \in 0 .. Forgotten
      /\ Watched \in Listed => dropped' <= dropped + 1
  BY Durations DEF Tick, IInv, TypeOK, Older
<1>10. first' = [k \in Numbers |-> IF k \in Borne \cup {ansn} THEN first[k] ELSE {}]
  BY DEF Tick
<1>11. TypeOK'
  <2>1. timer' \in 0 .. Interval
    BY <1>1, Durations DEF IInv, TypeOK
  <2>2. first' \in [Numbers -> SUBSET Items]
    BY <1>10 DEF IInv, TypeOK
  <2>3. air' \subseteq Message
    BY <1>7
  <2>4. \A i \in Recorded' : Off < pending'[i] /\ pending'[i] <= tuple'[i].left
    BY <1>3, <1>4
  <2> QED BY <1>1, <1>5, <1>6, <1>8, <1>9, <2>1, <2>2, <2>3, <2>4 DEF IInv, TypeOK
<1>12. OriginatorInv'
  BY <1>1, <1>9, <1>10 DEF IInv, TypeOK, OriginatorInv
<1>13. ASSUME NEW m \in air' PROVE MessageInv(m)'
  <2>1. PICK n \in air : /\ n \in Message /\ n.seq \in Numbers /\ n.age \in 0 .. MaxDelay
                         /\ m.seq = n.seq /\ m.list = n.list /\ m.age = n.age + 1
    BY <1>7 DEF Message
  <2>2. MessageInv(n) /\ n.seq \in Borne
    BY DEF IInv, Borne
  <2>3. Watched \in n.list => Watched \in Listed
    BY DEF Listed
  <2>4. Watched \in m.list => dropped' <= m.age
    BY <1>9, <2>1, <2>2, <2>3, Durations DEF MessageInv
  <2>5. first'[m.seq] = first[n.seq]
    BY <1>10, <2>1, <2>2
  <2>6. kind = "tc" /\ m.seq # ansn => steady' <= m.age
    BY <1>8, <2>1, <2>2, Durations DEF MessageInv
  <2> QED BY <1>1, <2>1, <2>2, <2>4, <2>5, <2>6 DEF MessageInv
<1>14. ASSUME NEW i \in Recorded PROVE TupleInv(i)'
  <2>1. TupleInv(i) /\ tuple[i].seq \in Borne /\ tuple[i].seq \in Numbers
    BY TupleTypes DEF IInv, Borne
  <2>2. tuple'[i].left = tuple[i].left - 1 /\ tuple[i].left \in 0 .. VTime
        /\ tuple'[i].seq = tuple[i].seq
    BY <1>3
  <2>3. i = Watched => dropped' + tuple'[i].left <= Lifetime
    <3>1. i \in Listed
      BY DEF Listed
    <3> QED BY <1>9, <2>1, <2>2, <3>1, Durations DEF TupleInv
  <2>4. kind = "tc" /\ tuple[i].seq # ansn => steady' + tuple'[i].left <= Lifetime
    BY <1>8, <2>1, <2>2, Durations DEF TupleInv
  <2>5. first'[tuple[i].seq] = first[tuple[i].seq]
    BY <1>10, <2>1
  <2>6. kind = "tc" => \A j \in Recorded' : tuple'[i].seq = tuple'[j].seq
    BY <1>3, <1>4, <2>1 DEF TupleInv
  <2> QED BY <1>1, <2>1, <2>2, <2>3, <2>4, <2>5, <2>6 DEF TupleInv
<1> QED BY <1>4, <1>11, <1>12, <1>13, <1>14 DEF IInv

-----------------------------------------------------------------------------
LEMMA NextIInv ==
  ASSUME IInv, [Next]_vars
  PROVE  IInv'
<1>1. CASE Change
  BY <1>1, ChangeIInv
<1>2. ASSUME NEW m \in air, ProcessTc(m) \/ ProcessHna(m) PROVE IInv'
  BY <1>2, ProcessTcIInv, ProcessHnaIInv
<1>3. CASE TcTimerExpire \/ HnaTimerExpire
  BY <1>3, SendIInv DEF TcTimerExpire, HnaTimerExpire
<1>4. ASSUME NEW i \in Items, TopologyTupleTimerExpire(i) \/ AssociationTupleTimerExpire(i)
      PROVE  IInv'
  BY <1>4, ExpireIInv DEF TopologyTupleTimerExpire, AssociationTupleTimerExpire
<1>5. CASE Tick
  BY <1>5, TickIInv
<1>6. CASE UNCHANGED vars
  <2>1. UNCHANGED <<kind, advertised, ansn, timer, air, first, steady, dropped>>
        /\ tuple' = tuple /\ pending' = pending
    BY <1>6 DEF vars
  <2>2. Recorded' = Recorded
    BY <2>1 DEF Recorded
  <2>3. TypeOK' /\ OriginatorInv'
    BY <2>1, <2>2 DEF IInv, TypeOK, OriginatorInv
  <2>4. \A m \in air : MessageInv(m)'
    BY <2>1 DEF IInv, MessageInv
  <2>5. \A i \in Recorded : TupleInv(i)'
    BY <2>1, <2>2 DEF IInv, TupleInv
  <2> QED BY <2>1, <2>2, <2>3, <2>4, <2>5 DEF IInv
<1> QED BY <1>1, <1>2, <1>3, <1>4, <1>5, <1>6 DEF Next, Receive, Expire, RunEvent

\* The inductive invariant: what messages and tuples know of the originator.
THEOREM Invariance == Spec => []IInv
<1>1. IInv /\ [Next]_vars => IInv'
  BY NextIInv
<1> QED BY <1>1, InitIInv, PTL DEF Spec

\* Type correctness; every tuple has a timer that comes no later than it
\* expires.
THEOREM TypeCorrect == Spec => []TypeOK
<1>1. IInv => TypeOK
  BY DEF IInv
<1> QED BY <1>1, Invariance, PTL

\* The topology set never mixes two lists of one originator.
THEOREM OneAnnouncementAtATime == Spec => []OneAnnouncement
<1>1. IInv => OneAnnouncement
  BY DEF IInv, TupleInv, OneAnnouncement
<1> QED BY <1>1, Invariance, PTL

\* What the originator no longer advertises is gone after Lifetime.
THEOREM StaleTuplesGo == Spec => []NothingStale
<1>1. ASSUME IInv PROVE NothingStale
  <2> SUFFICES ASSUME Quiet, Watched \in Recorded PROVE dropped <= Lifetime
    BY DEF NothingStale
  <2>1. 0 <= tuple[Watched].left /\ tuple[Watched].left \in Int
    BY <1>1, TupleTypes DEF IInv
  <2>2. dropped + tuple[Watched].left <= Lifetime /\ dropped \in Int
    BY <1>1, Durations DEF IInv, TupleInv, TypeOK
  <2> QED BY <2>1, <2>2, Durations
<1> QED BY <1>1, Invariance, PTL

\* The topology set holds no number but the present one when that has been in
\* force for Lifetime, wrapped or not.
THEOREM OldNumbersGo == Spec => []OldNumbersFade
<1>1. ASSUME IInv PROVE OldNumbersFade
  <2> SUFFICES ASSUME kind = "tc", Quiet, NEW i \in Recorded, tuple[i].seq # ansn
               PROVE  steady <= Lifetime
    BY DEF OldNumbersFade
  <2>1. 0 <= tuple[i].left /\ tuple[i].left \in Int
    BY <1>1, TupleTypes DEF IInv
  <2>2. steady + tuple[i].left <= Lifetime /\ steady \in Int
    BY <1>1, Durations DEF IInv, TupleInv, TypeOK
  <2> QED BY <2>1, <2>2, Durations
<1> QED BY <1>1, Invariance, PTL

-----------------------------------------------------------------------------
\* The HNA routing table: one route for a network, and a route stands so far in
\* front as the computations it has outlived say.
Route == [net : Items, metric : Distances, weight : Nat \ {0}]
OneRouteEach(routes) == \A i, j \in 1 .. Len(routes) : routes[i].net = routes[j].net => i = j
InFront(routes) == \A i \in 1 .. Len(routes) : i * routes[i].weight <= Cardinality(Items)

RoutesInv(routes) ==
  /\ routes \in Seq(Route)
  /\ OneRouteEach(routes)
  /\ InFront(routes)

LEMMA ItemsFinite == IsFiniteSet(Items) /\ Cardinality(Items) \in Nat
BY HnaTableAssumption, FS_CardinalityType

LEMMA FirstNumbers ==
  ASSUME NEW n \in Nat
  PROVE  IsFiniteSet(1 .. n) /\ Cardinality(1 .. n) = n
<1>1. 1 \in Int /\ n \in Int /\ (IF 1 > n THEN 0 ELSE n - 1 + 1) = n
  OBVIOUS
<1> QED BY <1>1, FS_Interval

\* No more routes than networks.
LEMMA RoutesAreFew ==
  ASSUME NEW routes \in Seq(Route), OneRouteEach(routes)
  PROVE  Len(routes) \in Nat /\ Len(routes) <= Cardinality(Items)
<1> DEFINE net == [i \in 1 .. Len(routes) |-> routes[i].net]
<1>1. Len(routes) \in Nat /\ \A i \in 1 .. Len(routes) : routes[i] \in Route
  BY LenProperties, ElementOfSeq
<1>2. net \in Injection(1 .. Len(routes), Items)
  BY <1>1 DEF Injection, IsInjective, OneRouteEach, Route
<1>3. Cardinality(1 .. Len(routes)) <= Cardinality(Items)
  BY <1>2, ItemsFinite, FS_Injection
<1>4. Cardinality(1 .. Len(routes)) = Len(routes)
  BY <1>1, FirstNumbers
<1> QED BY <1>1, <1>3, <1>4

\* A route that moves to half its place may weigh twice as much.
LEMMA HalfThePlace ==
  ASSUME NEW i \in Nat, NEW j \in Nat, NEW w \in Nat, NEW c \in Nat,
         i * w <= c, 2 * j <= i
  PROVE  j * (2 * w) <= c
<1>1. (2 * j) * w <= i * w
  BY Z3
<1>2. j * (2 * w) = (2 * j) * w
  BY Z3
<1>3. i * w \in Nat /\ j * (2 * w) \in Nat /\ (2 * j) * w \in Nat
  OBVIOUS
<1> QED BY <1>1, <1>2, <1>3

\* What the clearing loop leaves.
LEMMA HalfClearedInv ==
  ASSUME RoutesInv(hna)
  PROVE  RoutesInv(HalfCleared)
<1> DEFINE n == Len(hna) \div 2
           at(i) == Len(hna) - n + i
<1>1. Len(hna) \in Nat /\ n \in Nat /\ n <= Len(hna) /\ 2 * n <= Len(hna)
  BY LenProperties DEF RoutesInv
<1>2. ASSUME NEW i \in 1 .. n
      PROVE  /\ at(i) \in 1 .. Len(hna) /\ 2 * i <= at(i) /\ hna[at(i)] \in Route
             /\ HalfCleared[i] = [hna[at(i)] EXCEPT !.weight = 2 * @]
             /\ HalfCleared[i] \in Route /\ HalfCleared[i].net = hna[at(i)].net
             /\ HalfCleared[i].weight = 2 * hna[at(i)].weight
  <2>1. at(i) \in 1 .. Len(hna) /\ 2 * i <= at(i)
    BY <1>1
  <2>2. hna[at(i)] \in Route
    BY <2>1, ElementOfSeq DEF RoutesInv
  <2>3. HalfCleared[i] = [hna[at(i)] EXCEPT !.weight = 2 * @]
    BY DEF HalfCleared
  <2> HIDE DEF at, n
  <2>4. 2 * hna[at(i)].weight \in Nat \ {0}
    BY <2>2 DEF Route
  <2> QED BY <2>1, <2>2, <2>3, <2>4 DEF Route
<1>3. HalfCleared = [i \in 1 .. n |-> HalfCleared[i]] /\ Len(HalfCleared) = n
  BY <1>1 DEF HalfCleared
<1> HIDE DEF n
<1>4. HalfCleared \in Seq(Route)
  <2>1. \A i \in 1 .. n : HalfCleared[i] \in Route
    BY <1>2
  <2>2. [i \in 1 .. n |-> HalfCleared[i]] \in Seq(Route)
    BY <1>1, <2>1
  <2> QED BY <1>3, <2>2
<1>5. OneRouteEach(HalfCleared)
  <2> SUFFICES ASSUME NEW i \in 1 .. n, NEW j \in 1 .. n,
                      HalfCleared[i].net = HalfCleared[j].net
               PROVE  i = j
    BY <1>3 DEF OneRouteEach
  <2>1. /\ at(i) \in 1 .. Len(hna) /\ at(j) \in 1 .. Len(hna)
        /\ hna[at(i)].net = hna[at(j)].net
    BY <1>2
  <2>2. at(i) = at(j)
    BY <2>1 DEF RoutesInv, OneRouteEach
  <2> QED BY <1>1, <2>2
<1>6. InFront(HalfCleared)
  <2> SUFFICES ASSUME NEW i \in 1 .. n
               PROVE  i * HalfCleared[i].weight <= Cardinality(Items)
    BY <1>3 DEF InFront
  <2>1. at(i) \in 1 .. Len(hna) /\ 2 * i <= at(i) /\ hna[at(i)] \in Route
    BY <1>2
  <2> HIDE DEF at
  <2>2. at(i) \in Nat /\ i \in Nat /\ hna[at(i)].weight \in Nat
    BY <1>1, <2>1 DEF Route
  <2>3. at(i) * hna[at(i)].weight <= Cardinality(Items)
    BY <2>1 DEF RoutesInv, InFront
  <2>4. i * (2 * hna[at(i)].weight) <= Cardinality(Items)
    BY <2>1, <2>2, <2>3, HalfThePlace, ItemsFinite
  <2> QED BY <1>2, <2>4 DEF at
<1> QED BY <1>4, <1>5, <1>6 DEF RoutesInv

-----------------------------------------------------------------------------
\* A set of naturals that is not empty has a least element.
LEMMA LeastOf ==
  ASSUME NEW S \in SUBSET Nat, S # {}
  PROVE  \E x \in S : \A y \in S : x <= y
<1> DEFINE T == {1 .. x : x \in S}
<1>1. T \subseteq FiniteSubsetsOf(Nat) /\ T # {}
  <2>1. \A x \in S : IsFiniteSet(1 .. x) /\ 1 .. x \in SUBSET Nat
    BY FS_Interval
  <2>2. PICK x \in S : TRUE
    OBVIOUS
  <2>3. 1 .. x \in T
    OBVIOUS
  <2>4. ASSUME NEW V \in T PROVE V \in FiniteSubsetsOf(Nat)
    BY <2>1 DEF FiniteSubsetsOf
  <2> QED BY <2>3, <2>4
<1>2. PICK U \in T : \A V \in T : <<V, U>> \notin StrictSubsetOrdering(Nat)
  BY <1>1, FS_StrictSubsetOrderingWellFounded, WFMin
<1>3. PICK x \in S : U = 1 .. x
  BY <1>2
<1>4. ASSUME NEW y \in S, ~ x <= y PROVE FALSE
  <2>1. 1 .. y \subseteq 1 .. x /\ x \in 1 .. x /\ x \notin 1 .. y
    BY <1>4
  <2>2. <<1 .. y, 1 .. x>> \in StrictSubsetOrdering(Nat)
    BY <2>1 DEF StrictSubsetOrdering
  <2> QED BY <1>2, <1>3, <2>2
<1> QED BY <1>4

\* Picks in ascending order are no lower than their place.
LEMMA PicksAscend ==
  ASSUME NEW m \in Nat, NEW pick \in [1 .. m -> Nat \ {0}],
         \A j, k \in 1 .. m : j < k => pick[j] < pick[k],
         NEW k \in 1 .. m
  PROVE  k <= pick[k]
<1> DEFINE low == {j \in 1 .. m : pick[j] < j}
<1> SUFFICES ASSUME low # {} PROVE FALSE
  OBVIOUS
<1>0. low \in SUBSET Nat
  OBVIOUS
<1>1. PICK j \in low : \A i \in low : j <= i
  BY <1>0, LeastOf
<1>2. j # 1 /\ j - 1 \in 1 .. m
  BY <1>1
<1>3. j - 1 \notin low
  BY <1>1, <1>2
<1>4. pick[j - 1] < pick[j] /\ j - 1 <= pick[j - 1]
  BY <1>1, <1>2, <1>3
<1> QED BY <1>1, <1>2, <1>4

\* Removing routes moves others to the front only.
LEMMA WithoutInv ==
  ASSUME NEW routes, RoutesInv(routes), NEW nets, NEW kept \in Without(routes, nets)
  PROVE  RoutesInv(kept) /\ \A k \in 1 .. Len(kept) : kept[k].net \notin nets
<1> DEFINE stay == {i \in DOMAIN routes : routes[i].net \notin nets}
           m == Cardinality(stay)
<1>1. PICK pick \in [1 .. m -> stay] :
        /\ \A j, k \in DOMAIN pick : j < k => pick[j] < pick[k]
        /\ kept = [k \in 1 .. m |-> routes[pick[k]]]
  BY DEF Without
<1>2. Len(routes) \in Nat /\ DOMAIN routes = 1 .. Len(routes)
      /\ \A i \in 1 .. Len(routes) : routes[i] \in Route
  BY LenProperties, ElementOfSeq DEF RoutesInv
<1>3. m \in Nat /\ stay \subseteq 1 .. Len(routes)
  <2>1. IsFiniteSet(stay)
    BY <1>2, FirstNumbers, FS_Subset
  <2> QED BY <1>2, <2>1, FS_CardinalityType
<1> HIDE DEF m
<1>4. Len(kept) = m /\ \A k \in 1 .. m : /\ pick[k] \in 1 .. Len(routes)
                                         /\ kept[k] = routes[pick[k]]
                                         /\ kept[k] \in Route /\ kept[k].net \notin nets
  BY <1>1, <1>2, <1>3
<1>5. kept \in Seq(Route)
  BY <1>1, <1>3, <1>4
<1>6. \A j, k \in 1 .. m : pick[j] = pick[k] => j = k
  <2> SUFFICES ASSUME NEW j \in 1 .. m, NEW k \in 1 .. m, j # k PROVE pick[j] # pick[k]
    OBVIOUS
  <2>1. j < k \/ k < j
    OBVIOUS
  <2> QED BY <1>1, <1>4, <2>1
<1>7. OneRouteEach(kept)
  BY <1>4, <1>6 DEF RoutesInv, OneRouteEach
<1>8. InFront(kept)
  <2> SUFFICES ASSUME NEW k \in 1 .. m PROVE k * kept[k].weight <= Cardinality(Items)
    BY <1>4 DEF InFront
  <2> DEFINE w == kept[k].weight
  <2>1. w \in Nat /\ k \in Nat /\ pick[k] \in Nat
    BY <1>4 DEF Route
  <2>2. k <= pick[k]
    <3>1. pick \in [1 .. m -> Nat \ {0}] /\ \A i, j \in 1 .. m : i < j => pick[i] < pick[j]
      BY <1>1, <1>2, <1>3
    <3> QED BY <1>3, <3>1, PicksAscend
  <2>3. pick[k] * w <= Cardinality(Items)
    BY <1>4 DEF RoutesInv, InFront
  <2> HIDE DEF w
  <2>4. k * w <= pick[k] * w
    BY <2>1, <2>2, Z3
  <2>5. k * w \in Nat /\ pick[k] * w \in Nat /\ Cardinality(Items) \in Nat
    BY <2>1, ItemsFinite
  <2>6. k * w <= Cardinality(Items)
    BY <2>3, <2>4, <2>5
  <2> QED BY <2>6 DEF w
<1> QED BY <1>4, <1>5, <1>7, <1>8 DEF RoutesInv

\* Each network occurs once in whatever order.
LEMMA InAnyOrderOnce ==
  ASSUME NEW nets, IsFiniteSet(nets), NEW s \in InAnyOrder(nets)
  PROVE  /\ Cardinality(nets) \in Nat /\ s \in [1 .. Cardinality(nets) -> nets]
         /\ \A i, j \in 1 .. Cardinality(nets) : s[i] = s[j] => i = j
<1>1. /\ Cardinality(nets) \in Nat /\ s \in [1 .. Cardinality(nets) -> nets]
      /\ {s[i] : i \in DOMAIN s} = nets
  BY FS_CardinalityType DEF InAnyOrder
<1>2. s \in Surjection(1 .. Cardinality(nets), nets)
  BY <1>1 DEF Surjection
<1>3. IsFiniteSet(1 .. Cardinality(nets)) /\ Cardinality(1 .. Cardinality(nets)) = Cardinality(nets)
  BY <1>1, FirstNumbers
<1>4. s \in Injection(1 .. Cardinality(nets), nets)
  BY <1>2, <1>3, FS_SurjSameCardinalityImpliesInj
<1> QED BY <1>1, <1>4 DEF Injection, IsInjective

\* New routes are added behind the others and weigh nothing yet.
LEMMA AppendInv ==
  ASSUME NEW kept, RoutesInv(kept), NEW new \in SUBSET Items,
         \A k \in 1 .. Len(kept) : kept[k].net \notin new,
         NEW s \in InAnyOrder(new), NEW d \in Distances
  PROVE  RoutesInv(kept \o [i \in DOMAIN s |-> [net |-> s[i], metric |-> d, weight |-> 1]])
<1> DEFINE added == [i \in DOMAIN s |-> [net |-> s[i], metric |-> d, weight |-> 1]]
           m == Cardinality(new)
           all == kept \o added
<1>1. m \in Nat /\ s \in [1 .. m -> new] /\ \A i, j \in 1 .. m : s[i] = s[j] => i = j
  BY InAnyOrderOnce, ItemsFinite, FS_Subset
<1> HIDE DEF m
<1>2. added \in Seq(Route) /\ Len(added) = m
      /\ \A i \in 1 .. m : added[i].net = s[i] /\ added[i].weight = 1
  BY <1>1 DEF Route
<1> HIDE DEF added
<1>3. kept \in Seq(Route) /\ Len(kept) \in Nat
  BY LenProperties DEF RoutesInv
<1>4. /\ all \in Seq(Route) /\ Len(all) = Len(kept) + m
      /\ \A i \in 1 .. Len(kept) + m : all[i] = IF i <= Len(kept) THEN kept[i]
                                                ELSE added[i - Len(kept)]
  BY <1>2, <1>3, ConcatProperties
<1> HIDE DEF all
<1>5. \A i \in 1 .. Len(kept) + m : i <= Len(kept) \/ i - Len(kept) \in 1 .. m
  BY <1>1, <1>3
<1>6. OneRouteEach(all)
  <2> SUFFICES ASSUME NEW i \in 1 .. Len(kept) + m, NEW j \in 1 .. Len(kept) + m,
                      all[i].net = all[j].net
               PROVE  i = j
    BY <1>4 DEF OneRouteEach
  <2>1. CASE i <= Len(kept) /\ j <= Len(kept)
    <3>1. i \in 1 .. Len(kept) /\ j \in 1 .. Len(kept) /\ kept[i].net = kept[j].net
      BY <1>1, <1>3, <1>4, <2>1
    <3> QED BY <3>1 DEF RoutesInv, OneRouteEach
  <2>2. CASE i <= Len(kept) /\ ~ (j <= Len(kept))
    <3>1. i \in 1 .. Len(kept) /\ kept[i].net = s[j - Len(kept)] /\ s[j - Len(kept)] \in new
      BY <1>1, <1>2, <1>3, <1>4, <1>5, <2>2
    <3> QED BY <3>1
  <2>3. CASE ~ (i <= Len(kept)) /\ j <= Len(kept)
    <3>1. j \in 1 .. Len(kept) /\ kept[j].net = s[i - Len(kept)] /\ s[i - Len(kept)] \in new
      BY <1>1, <1>2, <1>3, <1>4, <1>5, <2>3
    <3> QED BY <3>1
  <2>4. CASE ~ (i <= Len(kept)) /\ ~ (j <= Len(kept))
    <3>1. s[i - Len(kept)] = s[j - Len(kept)]
      BY <1>2, <1>4, <1>5, <2>4
    <3>2. i - Len(kept) = j - Len(kept)
      BY <1>1, <1>5, <2>4, <3>1
    <3> QED BY <1>3, <3>2
  <2> QED BY <2>1, <2>2, <2>3, <2>4
<1>7. InFront(all)
  <2>1. Len(all) <= Cardinality(Items)
    BY <1>4, <1>6, RoutesAreFew
  <2> SUFFICES ASSUME NEW i \in 1 .. Len(kept) + m
               PROVE  i * all[i].weight <= Cardinality(Items)
    BY <1>4 DEF InFront
  <2>2. CASE i <= Len(kept)
    <3>1. i \in 1 .. Len(kept) /\ all[i] = kept[i]
      BY <1>1, <1>3, <1>4, <2>2
    <3> QED BY <3>1 DEF RoutesInv, InFront
  <2>3. CASE ~ (i <= Len(kept))
    <3>1. all[i].weight = 1
      BY <1>2, <1>4, <1>5, <2>3
    <3> QED BY <1>1, <1>3, <1>4, <2>1, <3>1, ItemsFinite
  <2> QED BY <2>2, <2>3
<1> QED BY <1>4, <1>6, <1>7 DEF RoutesInv, all, added

-----------------------------------------------------------------------------
\* Step 5 of RoutingTableComputation as a whole.
LEMMA ComputationInv ==
  ASSUME RoutesInv(hna), RoutingTableComputation
  PROVE  RoutesInv(hna')
<1>1. RoutesInv(HalfCleared)
  BY HalfClearedInv
<1>2. PICK distance \in {NoEntry} \cup Distances :
        IF distance = NoEntry THEN hna' = HalfCleared
        ELSE LET new == ToRoute(HalfCleared, distance)
             IN  \E kept \in Without(HalfCleared, new), s \in InAnyOrder(new) :
                   hna' = kept \o [i \in DOMAIN s |->
                                     [net |-> s[i], metric |-> distance, weight |-> 1]]
  BY DEF RoutingTableComputation
<1>3. CASE distance = NoEntry
  BY <1>1, <1>2, <1>3
<1>4. CASE distance # NoEntry
  <2> DEFINE new == ToRoute(HalfCleared, distance)
  <2>1. PICK kept \in Without(HalfCleared, new), s \in InAnyOrder(new) :
          hna' = kept \o [i \in DOMAIN s |->
                            [net |-> s[i], metric |-> distance, weight |-> 1]]
    BY <1>2, <1>4
  <2>2. new \in SUBSET Items
    BY DEF ToRoute, Associations, Recorded
  <2> HIDE DEF new
  <2>3. RoutesInv(kept) /\ \A k \in 1 .. Len(kept) : kept[k].net \notin new
    BY <1>1, WithoutInv
  <2> QED BY <1>4, <2>1, <2>2, <2>3, AppendInv
<1> QED BY <1>3, <1>4

LEMMA InitRoutesInv == HnaInit => RoutesInv(hna)
BY DEF HnaInit, RoutesInv, OneRouteEach, InFront

LEMMA NextRoutesInv == RoutesInv(hna) /\ [HnaNext]_hnaVars => RoutesInv(hna)'
<1>1. ASSUME RoutesInv(hna), HnaNext PROVE RoutesInv(hna')
  <2>1. CASE hna' = hna
    BY <1>1, <2>1
  <2>2. CASE RoutingTableComputation
    BY <1>1, <2>2, ComputationInv
  <2> QED BY <1>1, <2>1, <2>2 DEF HnaNext, RecvAnnouncement, Recompute
<1> QED BY <1>1 DEF hnaVars

\* A table of the invariant holds one route for a network, and none that has
\* outlived more computations than the networks can be halved.
LEMMA FadingRoutes == RoutesInv(hna) => StaleRoutesFade
<1> SUFFICES ASSUME RoutesInv(hna) PROVE StaleRoutesFade
  OBVIOUS
<1>1. DOMAIN hna = 1 .. Len(hna) /\ Len(hna) \in Nat
  BY LenProperties DEF RoutesInv
<1>2. ASSUME NEW i \in 1 .. Len(hna) PROVE hna[i].weight <= Cardinality(Items)
  <2>0. hna[i] \in Route
    BY <1>2, ElementOfSeq DEF RoutesInv
  <2>1. hna[i].weight \in Nat /\ i \in Nat /\ 1 <= i
    BY <1>1, <1>2, <2>0 DEF Route
  <2>2. i * hna[i].weight <= Cardinality(Items)
    BY <1>2 DEF RoutesInv, InFront
  <2> DEFINE w == hna[i].weight
  <2> HIDE DEF w
  <2>3. w \in Nat /\ i * w <= Cardinality(Items)
    BY <2>1, <2>2 DEF w
  <2>4. w <= i * w /\ i * w \in Nat
    BY <2>1, <2>3, Z3
  <2>5. w <= Cardinality(Items)
    BY <2>3, <2>4, ItemsFinite
  <2> QED BY <2>5 DEF w
<1> QED BY <1>1, <1>2 DEF StaleRoutesFade, RoutesInv, OneRouteEach

\* Routes that nothing renews fade away, however many networks there are and
\* however often the gateway is lost and found again.
THEOREM StaleRoutesGo == HnaSpec => []StaleRoutesFade
<1> QED BY InitRoutesInv, NextRoutesInv, FadingRoutes, PTL DEF HnaSpec

\* With the HNA routing table the originator, the flooding and the tuples do
\* what they do without.
THEOREM HnaImplementsAnnouncements == HnaSpec => Spec
<1>1. HnaInit => Init
  BY DEF HnaInit
<1>2. [HnaNext]_hnaVars => [Next]_vars
  BY DEF HnaNext, hnaVars, RecvAnnouncement, Recompute, Next
<1> QED BY <1>1, <1>2, PTL DEF HnaSpec, Spec
=============================================================================
