--------------------------- MODULE Flooding_proofs ---------------------------
(***************************************************************************)
(* Flooding is correct in every finite network: relays suffice to reach    *)
(* every node that a chain of willing nodes connects to the originator, no *)
(* node transmits a message twice, and the flooding ends.                  *)
(***************************************************************************)
EXTENDS Flooding, FiniteSetTheorems, TLAPS

Sent == {n \in Nodes : sent[n] > 0}
Rest == Cardinality(Nodes) - Cardinality(Sent) - 1

\* A copy is queued once, at a node that has the message and has not yet
\* transmitted it; its TTL has lost at most one hop per transmission.
CopiesAreFresh ==
  /\ \A c \in copies : /\ c.at \in reached
                       /\ sent[c.at] = 0
                       /\ c.ttl >= Ttl - Cardinality(Sent)
  /\ \A c, d \in copies : c.at = d.at => c = d
  /\ \A n \in Nodes : sent[n] <= 1
  /\ Sent \subseteq reached

\* Duplicate tuples outlast all that queued copies can still cause: each of
\* the nodes that have not transmitted may add one jitter.
DuplicatesLast ==
  /\ Origin \in reached /\ dup[Origin] = Off
  /\ \A n \in Nodes : n \notin reached => dup[n] = Off
  /\ \A c \in copies, n \in reached \ {Origin} : dup[n] > c.left + MaxJitter * Rest

\* A node that has not been reached, next to a willing node that has been, is
\* next to a node where a copy is queued.
RelayIsComing ==
  ~ lossy => \A a \in reached, n \in Nodes \ reached :
               Willing(a) /\ n \in near[a] => \E c \in copies : n \in near[c.at]

IInv == TypeOK /\ CopiesAreFresh /\ DuplicatesLast /\ RelayIsComing

-----------------------------------------------------------------------------
\* Counting the nodes that have transmitted.
LEMMA SentIsFinite ==
  /\ IsFiniteSet(Nodes) /\ Cardinality(Nodes) \in Nat
  /\ IsFiniteSet(Sent) /\ Cardinality(Sent) \in Nat
  /\ Cardinality(Sent) <= Cardinality(Nodes)
BY FloodingAssumption, FS_CardinalityType, FS_Subset DEF Sent

LEMMA RoomForOne ==
  ASSUME NEW m \in Nodes \ Sent
  PROVE  Cardinality(Sent) + 1 <= Cardinality(Nodes)
<1>1. Sent \cup {m} \subseteq Nodes
  BY DEF Sent
<1>2. Cardinality(Sent \cup {m}) = Cardinality(Sent) + 1
  BY SentIsFinite, FS_AddElement
<1> QED BY <1>1, <1>2, SentIsFinite, FS_Subset

LEMMA RoomForThree ==
  ASSUME NEW l \in Nodes \ Sent, NEW m \in Nodes \ Sent, NEW n \in Nodes \ Sent,
         l # m, m # n, l # n
  PROVE  Cardinality(Sent) + 3 <= Cardinality(Nodes)
<1> DEFINE one == Sent \cup {l}
           two == one \cup {m}
           three == two \cup {n}
<1>1. IsFiniteSet(one) /\ Cardinality(one) = Cardinality(Sent) + 1
  BY SentIsFinite, FS_AddElement
<1>2. m \notin one /\ n \notin two
  OBVIOUS
<1> HIDE DEF one
<1>3. IsFiniteSet(two) /\ Cardinality(two) = Cardinality(Sent) + 2
  BY <1>1, <1>2, SentIsFinite, FS_AddElement
<1>4. two \subseteq Nodes
  BY DEF one, Sent
<1> HIDE DEF two
<1>5. Cardinality(three) = Cardinality(Sent) + 3
  <2>1. Cardinality(three) = Cardinality(two) + 1
    BY <1>2, <1>3, FS_AddElement
  <2> QED BY <1>3, <2>1, SentIsFinite
<1>6. three \subseteq Nodes
  BY <1>4
<1> HIDE DEF three
<1> QED BY <1>5, <1>6, SentIsFinite, FS_Subset

\* A transmission makes its sender one of the nodes that have transmitted.
LEMMA SenderCounted ==
  ASSUME IInv, NEW c \in copies, Transmit(c)
  PROVE  /\ c.at \in Nodes \ Sent
         /\ Sent' = Sent \cup {c.at}
         /\ Cardinality(Sent)' = Cardinality(Sent) + 1
         /\ sent' = [sent EXCEPT ![c.at] = 1]
<1>1. c.at \in Nodes /\ sent[c.at] = 0 /\ sent \in [Nodes -> 0 .. 2]
  BY DEF IInv, TypeOK, CopiesAreFresh
<1>2. sent' = [sent EXCEPT ![c.at] = 1]
  BY <1>1 DEF Transmit
<1>3. c.at \notin Sent /\ Sent' = Sent \cup {c.at}
  BY <1>1, <1>2 DEF Sent
<1> QED BY <1>1, <1>2, <1>3, SentIsFinite, FS_AddElement

\* While a copy is queued the recorded nodes are those that were reached.
LEMMA NotRecordedNotReached ==
  ASSUME IInv, copies # {}
  PROVE  /\ NotRecorded = Nodes \ reached
         /\ \A n \in reached \ {Origin} : dup[n] > 0
<1>1. PICK c \in copies : TRUE
  OBVIOUS
<1>2. c.left \in Nat /\ c.at \in Nodes \ Sent
  <2>1. c \in [at : Nodes, ttl : 1 .. Ttl, left : 0 .. MaxJitter]
    BY <1>1 DEF IInv, TypeOK
  <2>2. sent[c.at] = 0
    BY <1>1 DEF IInv, CopiesAreFresh
  <2> QED BY <2>1, <2>2, FloodingAssumption DEF Sent
<1>3. Rest \in Nat
  BY <1>2, RoomForOne, SentIsFinite DEF Rest
<1>4. MaxJitter * Rest \in Nat
  BY <1>3, FloodingAssumption
<1>5. \A n \in reached \ {Origin} : dup[n] > 0 /\ dup[n] # Off
  BY <1>1, <1>2, <1>4 DEF IInv, TypeOK, DuplicatesLast, Off
<1> QED BY <1>5 DEF IInv, DuplicatesLast, NotRecorded

\* What a transmission does, in terms of the nodes reached before.
LEMMA TransmitEffect ==
  ASSUME IInv, NEW c \in copies, Transmit(c)
  PROVE  \E M \in Relays(c.at), heard \in SUBSET (near[c.at] \ reached) :
           /\ ~ lossy => heard = near[c.at] \ reached
           /\ heard \subseteq Nodes
           /\ copies' = (copies \ {c}) \cup
                          {Queued(r, c.ttl - 1) : r \in Forwarders(heard, M, c.ttl)}
           /\ dup' = [n \in Nodes |-> IF n \in heard THEN DupHold ELSE dup[n]]
           /\ reached' = reached \cup heard
<1>1. c.at \in Nodes /\ near[c.at] \subseteq Nodes
  BY DEF IInv, TypeOK
<1>2. near[c.at] \cap NotRecorded = near[c.at] \ reached
  BY <1>1, NotRecordedNotReached
<1>3. PICK M \in Relays(c.at), heard \in SUBSET (near[c.at] \cap NotRecorded) :
        /\ ~ lossy => heard = near[c.at] \cap NotRecorded
        /\ copies' = (copies \ {c}) \cup
                       {Queued(r, c.ttl - 1) : r \in Forwarders(heard, M, c.ttl)}
        /\ dup' = [n \in Nodes |-> IF n \in heard THEN DupHold ELSE dup[n]]
        /\ reached' = reached \cup heard
  BY DEF Transmit, Record
<1>4. heard \in SUBSET (near[c.at] \ reached) /\ heard \subseteq Nodes
  BY <1>1, <1>2, <1>3
<1> QED BY <1>2, <1>3, <1>4

-----------------------------------------------------------------------------
LEMMA InitIInv == Init => IInv
<1> SUFFICES ASSUME Init PROVE IInv
  OBVIOUS
<1>1. \A c \in copies : c = [at |-> Origin, ttl |-> Ttl, left |-> MaxJitter]
  BY DEF Init, Queued
<1>2. Sent = {}
  BY DEF Init, Sent
<1>3. TypeOK
  BY <1>1, FloodingAssumption DEF Init, TypeOK, Off
<1>4. CopiesAreFresh
  <2>1. Cardinality(Sent) = 0
    BY <1>2, FS_EmptySet
  <2>2. \A n \in Nodes : sent[n] = 0
    BY DEF Init
  <2>3. copies = {[at |-> Origin, ttl |-> Ttl, left |-> MaxJitter]} /\ reached = {Origin}
    BY DEF Init, Queued
  <2> QED BY <1>2, <2>1, <2>2, <2>3, FloodingAssumption DEF CopiesAreFresh
<1>5. DuplicatesLast
  BY FloodingAssumption DEF Init, DuplicatesLast
<1>6. RelayIsComing
  BY <1>1 DEF Init, RelayIsComing
<1> QED BY <1>3, <1>4, <1>5, <1>6 DEF IInv

-----------------------------------------------------------------------------
\* Transmit keeps each part of the invariant.
LEMMA TransmitTypeOK ==
  ASSUME IInv, NEW c \in copies, Transmit(c)
  PROVE  TypeOK'
<1>1. PICK M \in Relays(c.at), heard \in SUBSET (near[c.at] \ reached) :
        /\ heard \subseteq Nodes
        /\ copies' = (copies \ {c}) \cup
                       {Queued(r, c.ttl - 1) : r \in Forwarders(heard, M, c.ttl)}
        /\ dup' = [n \in Nodes |-> IF n \in heard THEN DupHold ELSE dup[n]]
        /\ reached' = reached \cup heard
  BY TransmitEffect
<1>2. TypeOK /\ c \in [at : Nodes, ttl : 1 .. Ttl, left : 0 .. MaxJitter]
  BY DEF IInv, TypeOK
<1>3. \A r \in Forwarders(heard, M, c.ttl) :
        Queued(r, c.ttl - 1) \in [at : Nodes, ttl : 1 .. Ttl, left : 0 .. MaxJitter]
  BY <1>1, <1>2, FloodingAssumption DEF Forwarders, Queued
<1>4. copies' \subseteq [at : Nodes, ttl : 1 .. Ttl, left : 0 .. MaxJitter]
  BY <1>1, <1>2, <1>3 DEF TypeOK
<1>5. dup' \in [Nodes -> Off .. DupHold]
  BY <1>1, <1>2, FloodingAssumption DEF TypeOK, Off
<1>6. sent' \in [Nodes -> 0 .. 2]
  BY <1>2, SenderCounted DEF TypeOK
<1>7. UNCHANGED network
  BY DEF Transmit
<1> QED BY <1>1, <1>2, <1>4, <1>5, <1>6, <1>7 DEF TypeOK, network

LEMMA TransmitCopiesAreFresh ==
  ASSUME IInv, NEW c \in copies, Transmit(c)
  PROVE  CopiesAreFresh'
<1>1. PICK M \in Relays(c.at), heard \in SUBSET (near[c.at] \ reached) :
        /\ heard \subseteq Nodes
        /\ copies' = (copies \ {c}) \cup
                       {Queued(r, c.ttl - 1) : r \in Forwarders(heard, M, c.ttl)}
        /\ reached' = reached \cup heard
  BY TransmitEffect
<1>2. /\ c \in [at : Nodes, ttl : 1 .. Ttl, left : 0 .. MaxJitter]
      /\ copies \subseteq [at : Nodes, ttl : 1 .. Ttl, left : 0 .. MaxJitter]
      /\ sent \in [Nodes -> 0 .. 2]
      /\ CopiesAreFresh
  BY DEF IInv, TypeOK
<1>3. /\ c.at \in Nodes \ Sent
      /\ Sent' = Sent \cup {c.at}
      /\ Cardinality(Sent)' = Cardinality(Sent) + 1
      /\ sent' = [sent EXCEPT ![c.at] = 1]
  BY SenderCounted
<1>4. \A r \in Forwarders(heard, M, c.ttl) : r \in heard /\ r \in Nodes
  BY <1>1 DEF Forwarders
<1>5. \A r \in heard : r \notin reached /\ sent[r] = 0 /\ r # c.at
  <2> SUFFICES ASSUME NEW r \in heard PROVE r \notin reached /\ sent[r] = 0 /\ r # c.at
    OBVIOUS
  <2>1. r \in Nodes /\ r \notin reached /\ r # c.at
    BY <1>1, <1>2 DEF CopiesAreFresh
  <2>2. r \notin Sent
    BY <1>2, <2>1 DEF CopiesAreFresh
  <2> QED BY <1>2, <2>1, <2>2 DEF Sent
<1>6. \A d \in copies' : \/ d \in copies /\ d # c
                         \/ /\ d.at \in heard /\ d = Queued(d.at, c.ttl - 1)
                            /\ d.ttl = c.ttl - 1
  BY <1>1, <1>4 DEF Queued
<1>7. \A d \in copies' : d.at \in reached' /\ sent'[d.at] = 0
  <2> SUFFICES ASSUME NEW d \in copies' PROVE d.at \in reached' /\ sent'[d.at] = 0
    OBVIOUS
  <2>1. CASE d \in copies /\ d # c
    BY <2>1, <1>1, <1>2, <1>3 DEF CopiesAreFresh
  <2>2. CASE d.at \in heard
    BY <2>2, <1>1, <1>2, <1>3, <1>5
  <2> QED BY <1>6, <2>1, <2>2
<1>8. \A d \in copies' : d.ttl >= Ttl - Cardinality(Sent)'
  BY <1>2, <1>3, <1>6, SentIsFinite, FloodingAssumption DEF CopiesAreFresh
<1>9. \A d, e \in copies' : d.at = e.at => d = e
  BY <1>2, <1>5, <1>6 DEF CopiesAreFresh
<1>10. \A n \in Nodes : sent'[n] <= 1
  BY <1>2, <1>3 DEF CopiesAreFresh
<1>11. Sent' \subseteq reached'
  BY <1>1, <1>2, <1>3 DEF CopiesAreFresh
<1> QED BY <1>7, <1>8, <1>9, <1>10, <1>11 DEF CopiesAreFresh

LEMMA TransmitDuplicatesLast ==
  ASSUME IInv, NEW c \in copies, Transmit(c)
  PROVE  DuplicatesLast'
<1>1. PICK M \in Relays(c.at), heard \in SUBSET (near[c.at] \ reached) :
        /\ heard \subseteq Nodes
        /\ copies' = (copies \ {c}) \cup
                       {Queued(r, c.ttl - 1) : r \in Forwarders(heard, M, c.ttl)}
        /\ dup' = [n \in Nodes |-> IF n \in heard THEN DupHold ELSE dup[n]]
        /\ reached' = reached \cup heard
  BY TransmitEffect
<1>2. /\ copies \subseteq [at : Nodes, ttl : 1 .. Ttl, left : 0 .. MaxJitter]
      /\ dup \in [Nodes -> Off .. DupHold]
      /\ reached \subseteq Nodes
      /\ DuplicatesLast
  BY DEF IInv, TypeOK
<1>3. c.left \in 0 .. MaxJitter
  BY <1>2
<1>4. Cardinality(Sent)' = Cardinality(Sent) + 1 /\ Cardinality(Sent) + 1 <= Cardinality(Nodes)
  BY SenderCounted, RoomForOne
<1>5. MaxJitter * Rest' = MaxJitter * Rest - MaxJitter /\ MaxJitter * Rest \in Int
  <2>1. Rest' = Rest - 1 /\ Rest \in Int
    BY <1>4, SentIsFinite DEF Rest
  <2> QED BY <2>1, FloodingAssumption
<1>6. MaxJitter + MaxJitter * Rest' < DupHold
  <2>1. Rest' <= Cardinality(Nodes) - 2 /\ Rest' \in Int /\ Cardinality(Nodes) \in Nat
    BY <1>4, SentIsFinite DEF Rest
  <2>2. MaxJitter * Rest' <= MaxJitter * (Cardinality(Nodes) - 2)
    BY <2>1, FloodingAssumption
  <2>3. MaxJitter + MaxJitter * (Cardinality(Nodes) - 2) = MaxJitter * (Cardinality(Nodes) - 1)
    BY <2>1, FloodingAssumption
  <2>4. DupHold \in Nat /\ DupHold > MaxJitter * (Cardinality(Nodes) - 1) /\ MaxJitter \in Nat
    BY FloodingAssumption
  <2>5. MaxJitter * Rest' \in Int /\ MaxJitter * (Cardinality(Nodes) - 2) \in Int
    BY <2>1, <2>4
  <2> QED BY <2>2, <2>3, <2>4, <2>5
<1>7. \A d \in copies' : /\ d.left \in 0 .. MaxJitter
                         /\ d \in copies \/ d.left = MaxJitter
  BY <1>1, <1>2, FloodingAssumption DEF Queued
<1>8. ASSUME NEW d \in copies', NEW n \in reached' \ {Origin}
      PROVE  dup'[n] > d.left + MaxJitter * Rest'
  <2> n \in Nodes
    BY <1>1, <1>2
  <2>1. MaxJitter * Rest' \in Int
    BY <1>5, FloodingAssumption
  <2>2. CASE n \in heard
    <3>1. dup'[n] = DupHold
      BY <1>1, <2>2
    <3> QED BY <1>6, <1>7, <2>1, <3>1, FloodingAssumption
  <2>3. CASE n \notin heard
    <3>1. dup'[n] = dup[n] /\ n \in reached /\ dup[n] \in Int
      BY <1>1, <1>2, <2>3 DEF Off
    <3>2. CASE d \in copies
      <4>1. dup[n] > d.left + MaxJitter * Rest
        BY <1>2, <3>1, <3>2 DEF DuplicatesLast
      <4> QED BY <1>5, <1>7, <3>1, <4>1, FloodingAssumption
    <3>3. CASE d.left = MaxJitter
      <4>1. dup[n] > c.left + MaxJitter * Rest
        BY <1>2, <3>1 DEF DuplicatesLast
      <4> QED BY <1>3, <1>5, <3>1, <3>3, <4>1, FloodingAssumption
    <3> QED BY <1>7, <3>2, <3>3
  <2> QED BY <2>2, <2>3
<1>9. \A n \in Nodes : n \notin reached' => dup'[n] = Off
  BY <1>1, <1>2 DEF DuplicatesLast
<1> QED BY <1>1, <1>2, <1>8, <1>9 DEF DuplicatesLast

\* The heart of the argument: a node n that the transmission leaves out is a
\* strict 2-hop neighbour of the sender over any neighbour a it has just
\* reached, so a relay m of the sender covers n.  Either m has just queued the
\* message, or it had it before, and then a relay next to n was coming already.
LEMMA TransmitRelayIsComing ==
  ASSUME IInv, NEW c \in copies, Transmit(c)
  PROVE  RelayIsComing'
<1>1. PICK M \in Relays(c.at), heard \in SUBSET (near[c.at] \ reached) :
        /\ ~ lossy => heard = near[c.at] \ reached
        /\ heard \subseteq Nodes
        /\ copies' = (copies \ {c}) \cup
                       {Queued(r, c.ttl - 1) : r \in Forwarders(heard, M, c.ttl)}
        /\ reached' = reached \cup heard
  BY TransmitEffect
<1>2. /\ near \in [Nodes -> SUBSET Nodes]
      /\ c \in [at : Nodes, ttl : 1 .. Ttl, left : 0 .. MaxJitter]
      /\ reached \subseteq Nodes /\ Origin \in reached
      /\ c.at \in reached
      /\ Sent \subseteq reached
      /\ c.ttl >= Ttl - Cardinality(Sent)
  BY DEF IInv, TypeOK, CopiesAreFresh, DuplicatesLast
<1>3. UNCHANGED <<near, will, lossy>>
  BY DEF Transmit, network
<1> SUFFICES ASSUME ~ lossy, NEW a \in reached', NEW n \in Nodes \ reached',
                    Willing(a), n \in near[a]
             PROVE  \E d \in copies' : n \in near[d.at]
  BY <1>3 DEF RelayIsComing, Willing
<1>4. n \notin near[c.at] /\ n \notin reached
  BY <1>1, <1>2
<1>5. ASSUME NEW b \in reached, Willing(b), n \in near[b]
      PROVE  \E d \in copies' : n \in near[d.at]
  <2>1. PICK d \in copies : n \in near[d.at]
    BY <1>4, <1>5 DEF IInv, RelayIsComing
  <2> QED BY <1>1, <1>4, <2>1
<1>6. CASE a \in reached
  BY <1>5, <1>6
<1>7. CASE a \in heard
  <2> DEFINE N2 == StrictTwoHop(near[c.at], will, TwoHop(c.at), c.at)
  <2>1. a \in near[c.at] /\ will[a] # NEVER /\ n # c.at
    BY <1>1, <1>2, <1>4, <1>7 DEF Willing
  <2>2. <<a, n>> \in TwoHop(c.at)
    BY <2>1 DEF TwoHop
  <2>3. <<a, n>> \in N2
    BY <2>1, <2>2, <1>4 DEF StrictTwoHop
  <2>4. PICK q \in N2 : q[1] \in M /\ q[2] = n
    BY <1>1, <2>3 DEF Relays, MprChoices, Covers
  <2> DEFINE m == q[1]
  <2>5. m \in near[c.at] /\ will[m] # NEVER /\ m \in M
    BY <2>4 DEF StrictTwoHop
  <2>6. n \in near[m]
    BY <2>4 DEF StrictTwoHop, TwoHop
  <2> HIDE DEF m
  <2>7. CASE m \in reached
    BY <1>5, <2>5, <2>6, <2>7 DEF Willing
  <2>8. CASE m \notin reached
    <3>1. m \in heard /\ m \in Nodes /\ m # n
      BY <1>1, <1>4, <2>5, <2>8
    <3>2. c.at \in Nodes \ Sent /\ m \in Nodes \ Sent /\ n \in Nodes \ Sent
      BY <1>2, <1>4, <2>8, <3>1, SenderCounted
    <3>3. Cardinality(Sent) + 3 <= Cardinality(Nodes)
      BY <1>2, <2>1, <2>8, <3>1, <3>2, RoomForThree
    <3>4. c.ttl > 1
      BY <1>2, <3>3, SentIsFinite, FloodingAssumption
    <3>5. m \in Forwarders(heard, M, c.ttl)
      BY <2>5, <3>1, <3>4 DEF Forwarders
    <3>6. Queued(m, c.ttl - 1) \in copies' /\ Queued(m, c.ttl - 1).at = m
      BY <1>1, <3>5 DEF Queued
    <3> QED BY <2>6, <3>6
  <2> QED BY <2>7, <2>8
<1> QED BY <1>1, <1>6, <1>7

-----------------------------------------------------------------------------
LEMMA DupExpiresIInv ==
  ASSUME IInv, NEW n \in Nodes, DupExpires(n)
  PROVE  IInv'
<1>1. UNCHANGED <<near, will, lossy, copies, reached, sent>>
  BY DEF DupExpires, network
<1>2. dup[n] = 0 /\ dup' = [dup EXCEPT ![n] = Off] /\ dup \in [Nodes -> Off .. DupHold]
  BY DEF DupExpires, IInv, TypeOK
<1>3. TypeOK'
  BY <1>1, <1>2, FloodingAssumption DEF IInv, TypeOK, Off
<1>4. CopiesAreFresh' /\ RelayIsComing'
  BY <1>1 DEF IInv, CopiesAreFresh, RelayIsComing, Sent, Willing
<1>5. copies # {} => n \notin reached \ {Origin}
  BY <1>2, NotRecordedNotReached
<1>6. DuplicatesLast'
  BY <1>1, <1>2, <1>5 DEF IInv, TypeOK, DuplicatesLast, Rest, Sent
<1> QED BY <1>3, <1>4, <1>6 DEF IInv

LEMMA TickIInv ==
  ASSUME IInv, Tick
  PROVE  IInv'
<1>1. UNCHANGED <<near, will, lossy, reached, sent>>
  BY DEF Tick, network
<1>2. /\ copies \subseteq [at : Nodes, ttl : 1 .. Ttl, left : 0 .. MaxJitter]
      /\ dup \in [Nodes -> Off .. DupHold]
      /\ reached \subseteq Nodes
  BY DEF IInv, TypeOK
<1>3. \A c \in copies' : \E d \in copies :
        /\ c = [d EXCEPT !.left = d.left - 1]
        /\ c.at = d.at /\ c.ttl = d.ttl /\ c.left = d.left - 1 /\ d.left > 0
        /\ c \in [at : Nodes, ttl : 1 .. Ttl, left : 0 .. MaxJitter]
  BY <1>2, FloodingAssumption DEF Tick
<1>4. \A n \in Nodes : dup'[n] = IF dup[n] > 0 THEN dup[n] - 1 ELSE dup[n]
  BY DEF Tick
<1>5. TypeOK'
  <2>1. dup' \in [Nodes -> Off .. DupHold]
    BY <1>2, FloodingAssumption DEF Tick, Off
  <2> QED BY <1>1, <1>3, <2>1 DEF IInv, TypeOK
<1>6. CopiesAreFresh'
  <2>1. Sent' = Sent
    BY <1>1 DEF Sent
  <2>2. \A c, d \in copies' : c.at = d.at => c = d
    BY <1>3 DEF IInv, CopiesAreFresh
  <2>3. \A c \in copies' : /\ c.at \in reached'
                           /\ sent'[c.at] = 0
                           /\ c.ttl >= Ttl - Cardinality(Sent')
    BY <1>1, <1>3, <2>1 DEF IInv, CopiesAreFresh
  <2> QED BY <1>1, <2>1, <2>2, <2>3 DEF IInv, CopiesAreFresh
<1>7. DuplicatesLast'
  <2>1. ASSUME NEW c \in copies', NEW n \in reached' \ {Origin}
        PROVE  dup'[n] > c.left + MaxJitter * Rest'
    <3>1. PICK d \in copies : c.left = d.left - 1 /\ d.left \in Nat
      BY <1>2, <1>3, FloodingAssumption
    <3>2. n \in Nodes /\ n \in reached \ {Origin} /\ dup[n] > 0
      BY <1>1, <1>2, <2>1, <3>1, NotRecordedNotReached
    <3>3. dup[n] > d.left + MaxJitter * Rest
      BY <3>1, <3>2 DEF IInv, DuplicatesLast
    <3>4. Rest' = Rest /\ MaxJitter * Rest \in Int
      BY <1>1, SentIsFinite, FloodingAssumption DEF Rest, Sent
    <3>5. dup'[n] = dup[n] - 1 /\ dup[n] \in Int
      BY <1>2, <1>4, <3>2 DEF Off
    <3> QED BY <3>1, <3>3, <3>4, <3>5
  <2>2. \A n \in Nodes : n \notin reached' => dup'[n] = Off
    BY <1>1, <1>4 DEF IInv, DuplicatesLast, Off
  <2>3. dup'[Origin] = Off
    BY <1>4, FloodingAssumption DEF IInv, DuplicatesLast, Off
  <2> QED BY <1>1, <2>1, <2>2, <2>3 DEF IInv, DuplicatesLast
<1>8. RelayIsComing'
  <2>1. ASSUME NEW d \in copies PROVE \E c \in copies' : c.at = d.at
    <3> DEFINE aged == [d EXCEPT !.left = d.left - 1]
    <3>1. aged \in copies'
      BY DEF Tick
    <3>2. aged.at = d.at
      BY DEF IInv, TypeOK
    <3> QED BY <3>1, <3>2
  <2> QED BY <1>1, <2>1 DEF IInv, RelayIsComing, Willing
<1> QED BY <1>5, <1>6, <1>7, <1>8 DEF IInv

LEMMA NextIInv == IInv /\ [Next]_vars => IInv'
<1> SUFFICES ASSUME IInv, [Next]_vars PROVE IInv'
  OBVIOUS
<1>1. ASSUME NEW c \in copies, Transmit(c) PROVE IInv'
  BY <1>1, TransmitTypeOK, TransmitCopiesAreFresh, TransmitDuplicatesLast,
     TransmitRelayIsComing DEF IInv
<1>2. ASSUME NEW n \in Nodes, DupExpires(n) PROVE IInv'
  BY <1>2, DupExpiresIInv
<1>3. CASE Tick
  BY <1>3, TickIInv
<1>4. CASE UNCHANGED vars
  BY <1>4 DEF vars, IInv, TypeOK, CopiesAreFresh, DuplicatesLast, RelayIsComing,
              Rest, Sent, Willing
<1> QED BY <1>1, <1>2, <1>3, <1>4 DEF Next

-----------------------------------------------------------------------------
\* The inductive invariant holds in every reachable state.
THEOREM Invariance == Spec => []IInv
<1> QED BY InitIInv, NextIInv, PTL DEF Spec

\* The state of RecvOlsr and ForwardDefault stays well typed.
THEOREM TypeCorrect == Spec => []TypeOK
<1>1. IInv => TypeOK
  BY DEF IInv
<1> QED BY <1>1, Invariance, PTL

\* ForwardDefault retransmits a message at most once per node, in every
\* network whose size the holding time of duplicate tuples allows.
THEOREM EachRelaysOnce == Spec => []RelayedOnce
<1>1. IInv => RelayedOnce
  BY DEF IInv, CopiesAreFresh, RelayedOnce
<1> QED BY <1>1, Invariance, PTL

\* The relays that MprComputation may choose suffice to flood the network.
THEOREM FloodingCovers == Spec => []Coverage
<1>1. ASSUME IInv, copies = {}, ~ lossy, NEW a \in reached, Willing(a)
      PROVE  near[a] \subseteq reached
  <2>1. near[a] \subseteq Nodes
    BY <1>1 DEF IInv, TypeOK
  <2> QED BY <1>1, <2>1 DEF IInv, RelayIsComing
<1>2. IInv => Coverage
  BY <1>1 DEF Coverage
<1> QED BY <1>2, Invariance, PTL

-----------------------------------------------------------------------------
\* The sets with the originator that no chain of willing nodes leads out of,
\* and what lies in all of them: the nodes such a chain leads to.
Closed(S) == Origin \in S /\ \A m \in S : Willing(m) => near[m] \subseteq S
Component == {n \in Nodes : \A S \in SUBSET Nodes : Closed(S) => n \in S}

\* Copies are queued by willing nodes, so that they do not lead out either.
Inside == reached \subseteq Component /\ \A c \in copies : Willing(c.at)

LEMMA InitInside == Init => Inside
<1> SUFFICES ASSUME Init PROVE Inside
  OBVIOUS
<1>1. \A c \in copies : c.at = Origin
  BY DEF Init, Queued
<1>2. reached = {Origin} /\ Origin \in Nodes
  BY FloodingAssumption DEF Init
<1> QED BY <1>1, <1>2 DEF Inside, Component, Closed, Willing

LEMMA NextInside ==
  ASSUME IInv, Inside, [Next]_vars
  PROVE  Inside'
<1>1. near' = near /\ will' = will
  BY DEF Next, vars, network, Transmit, DupExpires, Tick
<1>2. Component' = Component /\ \A n \in Nodes : Willing(n)' = Willing(n)
  BY <1>1 DEF Component, Closed, Willing
<1>3. ASSUME NEW c \in copies, Transmit(c) PROVE Inside'
  <2>1. PICK M \in Relays(c.at), heard \in SUBSET (near[c.at] \ reached) :
          /\ heard \subseteq Nodes
          /\ copies' = (copies \ {c}) \cup
                         {Queued(r, c.ttl - 1) : r \in Forwarders(heard, M, c.ttl)}
          /\ reached' = reached \cup heard
    BY <1>3, TransmitEffect
  <2>2. c.at \in Component /\ Willing(c.at)
    BY <1>3 DEF Inside, IInv, CopiesAreFresh
  <2>3. heard \subseteq Component
    BY <2>1, <2>2 DEF Component, Closed
  <2>4. \A r \in M : will[r] # NEVER
    BY <2>1 DEF Relays, MprChoices, Candidates, StrictTwoHop, NEVER, ALWAYS
  <2>5. \A d \in copies' : d \in copies \/ (d.at \in M /\ d.at \in Nodes)
    BY <2>1 DEF Forwarders, Queued
  <2>6. \A d \in copies' : Willing(d.at)'
    BY <1>1, <2>4, <2>5 DEF Inside, Willing
  <2> QED BY <1>2, <2>1, <2>3, <2>6 DEF Inside
<1>4. CASE Tick
  <2>1. reached' = reached /\ copies' = {[c EXCEPT !.left = @ - 1] : c \in copies}
    BY <1>4 DEF Tick
  <2>2. \A d \in copies' : \E c \in copies : d.at = c.at
    BY <2>1 DEF IInv, TypeOK
  <2> QED BY <1>1, <1>2, <2>1, <2>2 DEF Inside, Willing
<1>5. ASSUME NEW n \in Nodes, DupExpires(n) PROVE Inside'
  BY <1>1, <1>2, <1>5 DEF DupExpires, Inside, Willing
<1>6. CASE UNCHANGED vars
  BY <1>1, <1>2, <1>6 DEF vars, Inside, Willing
<1> QED BY <1>3, <1>4, <1>5, <1>6 DEF Next

THEOREM InsideInvariance == Spec => []Inside
<1>1. IInv /\ Inside /\ [Next]_vars => Inside'
  BY NextInside
<1> QED BY <1>1, InitInside, Invariance, PTL DEF Spec

\* From one hop to the whole network: a message reaches no node but those a
\* chain of willing nodes leads to and, when nothing is lost, all of them.
FloodsComponent ==
  /\ reached \subseteq Component
  /\ copies = {} /\ ~ lossy => reached = Component

THEOREM FloodingReachesComponent == Spec => []FloodsComponent
<1>1. ASSUME IInv, Inside, Coverage PROVE FloodsComponent
  <2>1. reached \subseteq Component /\ reached \in SUBSET Nodes
    BY <1>1 DEF Inside, IInv, TypeOK
  <2>2. ASSUME copies = {}, ~ lossy PROVE Closed(reached)
    BY <1>1, <2>2 DEF Coverage, Closed, IInv, DuplicatesLast
  <2> QED BY <2>1, <2>2 DEF FloodsComponent, Component
<1> QED BY <1>1, Invariance, InsideInvariance, FloodingCovers, PTL

-----------------------------------------------------------------------------
\* A set of naturals has a least element.
LEMMA LeastOf ==
  ASSUME NEW S \in SUBSET Nat, S # {}
  PROVE  \E x \in S : \A y \in S : x <= y
<1> DEFINE T == {1 .. x : x \in S}
<1>1. T \subseteq FiniteSubsetsOf(Nat) /\ T # {}
  <2>1. \A x \in S : IsFiniteSet(1 .. x) /\ 1 .. x \in SUBSET Nat
    BY FS_Interval
  <2>2. PICK x \in S : TRUE
    OBVIOUS
  <2>3. 1 .. x \in T
    OBVIOUS
  <2>4. ASSUME NEW V \in T PROVE V \in FiniteSubsetsOf(Nat)
    BY <2>1 DEF FiniteSubsetsOf
  <2> QED BY <2>3, <2>4
<1>2. PICK U \in T : \A V \in T : <<V, U>> \notin StrictSubsetOrdering(Nat)
  BY <1>1, FS_StrictSubsetOrderingWellFounded, WFMin
<1>3. PICK x \in S : U = 1 .. x
  BY <1>2
<1>4. ASSUME NEW y \in S, ~ x <= y PROVE FALSE
  <2>1. 1 .. y \subseteq 1 .. x /\ x \in 1 .. x /\ x \notin 1 .. y
    BY <1>4
  <2>2. <<1 .. y, 1 .. x>> \in StrictSubsetOrdering(Nat)
    BY <2>1 DEF StrictSubsetOrdering
  <2> QED BY <1>2, <1>3, <2>2
<1> QED BY <1>4

\* How many nodes may still transmit, and how many instants are left until the
\* first of the queued copies is due, that one included.
NodesLeft == Cardinality(Nodes) - Cardinality(Sent)
Instants == {k \in 0 .. MaxJitter : \A c \in copies : c.left >= k}
InstantsLeft == Cardinality(Instants)

LEMMA InstantsAreFinite ==
  /\ IsFiniteSet(Instants) /\ InstantsLeft \in Nat
  /\ NodesLeft \in Nat
<1>1. IsFiniteSet(0 .. MaxJitter)
  BY FloodingAssumption, FS_Interval
<1>2. IsFiniteSet(Instants)
  BY <1>1, FS_Subset DEF Instants
<1> QED BY <1>2, SentIsFinite, FS_CardinalityType DEF InstantsLeft, NodesLeft

LEMMA TickIsAnInstant ==
  ASSUME IInv, Tick, copies # {}
  PROVE  InstantsLeft' < InstantsLeft
<1>1. /\ copies \subseteq [at : Nodes, ttl : 1 .. Ttl, left : 0 .. MaxJitter]
      /\ copies' = {[c EXCEPT !.left = @ - 1] : c \in copies}
      /\ \A c \in copies : c.left > 0
      /\ MaxJitter \in Nat
  BY FloodingAssumption DEF IInv, TypeOK, Tick
<1>2. \A k \in Nat : k \in Instants' <=> k \in 0 .. MaxJitter /\ k + 1 \in Instants
  <2>1. ASSUME NEW c \in copies, NEW k \in Nat
        PROVE  [c EXCEPT !.left = @ - 1].left >= k <=> c.left >= k + 1
    BY <1>1
  <2>2. \A k \in Nat : (\A c \in copies' : c.left >= k) <=> \A c \in copies : c.left >= k + 1
    BY <1>1, <2>1
  <2>3. ASSUME NEW k \in Nat, \A c \in copies : c.left >= k + 1 PROVE k + 1 \in 0 .. MaxJitter
    BY <1>1, <2>3
  <2> QED BY <2>2, <2>3 DEF Instants
<1>3. PICK m \in Instants : m + 1 \notin Instants
  <2> DEFINE S == {k \in Nat : k \notin Instants}
  <2>1. MaxJitter + 1 \in S
    BY <1>1 DEF Instants
  <2>2. PICK k \in S : \A l \in S : k <= l
    BY <2>1, LeastOf
  <2>3. 0 \in Instants
    BY <1>1 DEF Instants
  <2>4. k \in Nat \ {0} /\ k \notin Instants
    BY <2>2, <2>3
  <2>5. k - 1 \in Nat /\ ~ k <= k - 1 /\ (k - 1) + 1 = k
    BY <2>4
  <2>6. k - 1 \in Instants
    BY <2>2, <2>5
  <2> QED BY <2>4, <2>5, <2>6
<1>4. Instants' \subseteq Instants \ {m}
  <2>1. ASSUME NEW k \in Instants' PROVE k \in Instants /\ k # m
    <3>1. k \in 0 .. MaxJitter /\ k + 1 \in Instants
      BY <1>2, <2>1 DEF Instants
    <3>2. \A c \in copies : c.left >= k
      BY <1>1, <3>1 DEF Instants
    <3> QED BY <1>3, <3>1, <3>2 DEF Instants
  <2> QED BY <2>1
<1>5. IsFiniteSet(Instants) /\ IsFiniteSet(Instants \ {m})
      /\ Cardinality(Instants \ {m}) = Cardinality(Instants) - 1
  BY <1>3, InstantsAreFinite, FS_RemoveElement
<1>6. Cardinality(Instants') <= Cardinality(Instants \ {m}) /\ Cardinality(Instants') \in Nat
  <2>1. IsFiniteSet(Instants')
    BY <1>4, <1>5, FS_Subset
  <2> QED BY <1>4, <1>5, <2>1, FS_Subset, FS_CardinalityType
<1>7. Cardinality(Instants) \in Nat
  BY InstantsAreFinite DEF InstantsLeft
<1> QED BY <1>5, <1>6, <1>7 DEF InstantsLeft

\* A message does not circulate: while it is queued anywhere, every step is one
\* of the transmissions that are left, one at most for a node, or brings the
\* next of them nearer.  So the flooding ends, and then has covered.
EveryStepCounts ==
  [][copies # {} => \/ NodesLeft' < NodesLeft
                    \/ NodesLeft' = NodesLeft /\ InstantsLeft' < InstantsLeft]_vars

THEOREM FloodingEnds ==
  Spec => [](NodesLeft \in Nat /\ InstantsLeft \in Nat) /\ EveryStepCounts
<1>1. NodesLeft \in Nat /\ InstantsLeft \in Nat
  BY InstantsAreFinite
<1> DEFINE Counts == copies # {} => \/ NodesLeft' < NodesLeft
                                    \/ NodesLeft' = NodesLeft /\ InstantsLeft' < InstantsLeft
<1>2. IInv /\ [Next]_vars => [Counts]_vars
  <2> SUFFICES ASSUME IInv, Next, copies # {}
               PROVE  \/ NodesLeft' < NodesLeft
                      \/ NodesLeft' = NodesLeft /\ InstantsLeft' < InstantsLeft
    OBVIOUS
  <2>1. ASSUME NEW c \in copies, Transmit(c) PROVE NodesLeft' < NodesLeft
    BY <2>1, SenderCounted, SentIsFinite DEF NodesLeft
  <2>2. CASE Tick
    <3>1. NodesLeft' = NodesLeft
      BY <2>2 DEF Tick, NodesLeft, Sent
    <3> QED BY <2>2, <3>1, TickIsAnInstant
  <2>3. ASSUME NEW n \in Nodes, DupExpires(n) PROVE FALSE
    <3>1. dup[n] = 0 /\ n \notin reached \ {Origin}
      BY <2>3, NotRecordedNotReached DEF DupExpires
    <3>2. dup[n] # Off
      BY <3>1 DEF Off
    <3> QED BY <3>1, <3>2 DEF IInv, DuplicatesLast
  <2> QED BY <2>1, <2>2, <2>3 DEF Next
<1> QED BY <1>1, <1>2, Invariance, PTL DEF Spec, EveryStepCounts
=============================================================================
