------------------------------ MODULE Flooding ------------------------------
(***************************************************************************)
(* The flooding of one message (a TC, MID or HNA message) from its         *)
(* originator through a network of nodes that run RecvOlsr and             *)
(* ForwardDefault: a node that has not recorded the message in its         *)
(* duplicate set processes it, records it and, when the sender is one of   *)
(* its MPR selectors, queues it again with a jitter.                       *)
(*                                                                         *)
(* Nodes have one interface, so the interface list of a duplicate tuple    *)
(* names the receiving interface and a recorded message is ignored.  The   *)
(* neighbourhood is stable and known: link, 2-hop and selector sets agree  *)
(* with the network.  A copy heard over a link that is not symmetric is    *)
(* dropped without a trace, so the network has symmetric links only.  No   *)
(* defence strategy is attached.  What a node chooses for its relays is    *)
(* looked up when it transmits.  Other messages are independent: a         *)
(* duplicate tuple is keyed by originator and sequence number.             *)
(***************************************************************************)
EXTENDS MprRules, FiniteSets

CONSTANTS Nodes,
          Origin,     \* the originator of the message
          Networks,   \* networks to look at: the symmetric neighbours of each node
          Levels,     \* willingness values the nodes may have
          Ttl,        \* the time to live the originator gives it
          MaxJitter,  \* OLSR_MAXJITTER
          DupHold     \* OLSR_DUP_HOLD_TIME

ASSUME FloodingAssumption ==
  /\ IsFiniteSet(Nodes)
  /\ Origin \in Nodes
  /\ Networks \subseteq [Nodes -> SUBSET Nodes]
  /\ \A net \in Networks : \A m, n \in Nodes : m \in net[n] => n \in net[m] /\ m # n
  /\ Levels \subseteq 0 .. 7
  /\ Ttl \in Nat /\ Ttl >= 1 /\ Ttl >= Cardinality(Nodes) - 1
  /\ MaxJitter \in Nat
  /\ DupHold \in Nat /\ DupHold > MaxJitter * (Cardinality(Nodes) - 1)

VARIABLES near,     \* near[n]: the symmetric neighbours of n
          will,     \* will[n]: the willingness n announces
          lossy,    \* whether frames may be lost
          copies,   \* copies in output queues: at a node, with a TTL and a deadline
          dup,      \* dup[n]: time left of the duplicate tuple of n, or Off
          reached,  \* the originator, and the nodes that have processed the message
          sent      \* sent[n]: how often n has transmitted it, counted up to two

vars == <<near, will, lossy, copies, dup, reached, sent>>
network == <<near, will, lossy>>

Off == -1
Queued(n, ttl) == [at |-> n, ttl |-> ttl, left |-> MaxJitter]

-----------------------------------------------------------------------------
\* The tuples in the 2-hop set of s, and the relay sets s may have chosen.
TwoHop(s) == UNION {{m} \X near[m] : m \in near[s]}
Relays(s) == MprChoices(near[s], will, StrictTwoHop(near[s], will, TwoHop(s), s))

\* The originator ignores its own message, other nodes a recorded one.
NotRecorded == {r \in Nodes \ {Origin} : dup[r] = Off}

\* Mutant: counts the hop before it looks at the time to live.
ForwardersDecremented(heard, M, ttl) == IF ttl > 2 THEN heard \cap M ELSE {}

\* Mutant: forgets to look at the time to live.
ForwardersUnguarded(heard, M, ttl) == heard \cap M

\* ForwardDefault: who of those that hear a copy retransmits it, M being the
\* relays of the sender.
Forwarders(heard, M, ttl) == IF ttl > 1 THEN heard \cap M ELSE {}

Init ==
  /\ near \in Networks
  /\ will \in [Nodes -> Levels]
  /\ lossy \in BOOLEAN
  /\ copies = {Queued(Origin, Ttl)}
  /\ dup = [n \in Nodes |-> Off]
  /\ reached = {Origin}
  /\ sent = [n \in Nodes |-> 0]

\* Mutant: recorded for one jitter only.
RecordBriefly(heard) == dup' = [n \in Nodes |-> IF n \in heard THEN MaxJitter ELSE dup[n]]

\* AddDuplicateTuple.
Record(heard) == dup' = [n \in Nodes |-> IF n \in heard THEN DupHold ELSE dup[n]]

\* SendPacket at one node, RecvOlsr and ForwardDefault at its neighbours.
Transmit(c) ==
  /\ \E M \in Relays(c.at), heard \in SUBSET (near[c.at] \cap NotRecorded) :
       /\ ~ lossy => heard = near[c.at] \cap NotRecorded
       /\ copies' = (copies \ {c}) \cup
                      {Queued(r, c.ttl - 1) : r \in Forwarders(heard, M, c.ttl)}
       /\ Record(heard)
       /\ reached' = reached \cup heard
  /\ sent' = [sent EXCEPT ![c.at] = IF @ = 0 THEN 1 ELSE 2]
  /\ UNCHANGED network

\* DupTupleTimerExpire.
DupExpires(n) ==
  /\ dup[n] = 0
  /\ dup' = [dup EXCEPT ![n] = Off]
  /\ UNCHANGED <<network, copies, reached, sent>>

\* One unit of time passes when no timer is due.
Tick ==
  /\ \A c \in copies : c.left > 0
  /\ \A n \in Nodes : dup[n] # 0
  /\ copies' = {[c EXCEPT !.left = @ - 1] : c \in copies}
  /\ dup' = [n \in Nodes |-> IF dup[n] > 0 THEN dup[n] - 1 ELSE dup[n]]
  /\ UNCHANGED <<network, reached, sent>>

Next ==
  \/ \E c \in copies : Transmit(c)
  \/ \E n \in Nodes : DupExpires(n)
  \/ Tick

Spec == Init /\ [][Next]_vars

-----------------------------------------------------------------------------
\* Type correctness.
TypeOK ==
  /\ near \in [Nodes -> SUBSET Nodes]
  /\ will \in [Nodes -> Levels]
  /\ lossy \in BOOLEAN
  /\ copies \subseteq [at : Nodes, ttl : 1 .. Ttl, left : 0 .. MaxJitter]
  /\ dup \in [Nodes -> Off .. DupHold]
  /\ reached \subseteq Nodes
  /\ sent \in [Nodes -> 0 .. 2]

\* Nodes that pass the message on when they are chosen.
Willing(n) == n = Origin \/ will[n] # NEVER

\* Relays suffice: once no copy is queued, every neighbour of the originator
\* and of a willing node that has the message has it too, although a node
\* that hears it first from a neighbour that did not choose it will never
\* forward it.  Holds without losses, for every choice of relays and every
\* order of the jitters.
Coverage ==
  copies = {} /\ ~ lossy => \A n \in reached : Willing(n) => near[n] \subseteq reached

\* No node transmits the message twice: duplicate tuples are held for longer
\* than copies can travel.
RelayedOnce == \A n \in Nodes : sent[n] <= 1
=============================================================================
