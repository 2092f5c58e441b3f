---------------------------- MODULE Announcements ----------------------------
(***************************************************************************)
(* What a node knows of another, possibly distant, node from the messages  *)
(* that one floods: the topology tuples of its TCs (an originator and its  *)
(* MPR selectors) or the association tuples of its HNA messages (a gateway *)
(* and its networks).  The same shape twice: the originator's list changes *)
(* and is sent periodically, the flooding loses, repeats and reorders      *)
(* messages within a bounded delay, the receiver refreshes or adds a tuple *)
(* for each listed item and a timer of the tuple removes it.  Only TCs     *)
(* carry a number, the ANSN, that tells new lists from old.                *)
(*                                                                         *)
(* Time is relative, as in TrustDefense: a deadline is the time left until *)
(* it.  DELAY schedules a timer a microsecond after the time it is given,  *)
(* so the timer of a tuple with -1 left is due and runs before anything    *)
(* else does at that instant.  A copy from a sender whose link is not      *)
(* symmetric is discarded without a trace, so it counts as lost.  Nodes    *)
(* have one interface, no defence strategy is attached and the originator  *)
(* does not attack.                                                        *)
(***************************************************************************)
EXTENDS Integers, FiniteSets

CONSTANTS Kinds,        \* the message types to look at: "tc" and "hna"
          Items,        \* possible MPR selectors or networks
          Interval,     \* m_tcInterval or m_hnaInterval
          Watched,      \* the item of which NothingStale keeps account
          MaxDelay,     \* how long the flooding of a message may take
          AnsnModulus   \* OLSR_MAX_SEQ_NUM + 1

ASSUME AnnouncementsAssumption ==
  /\ Kinds \subseteq {"tc", "hna"}
  /\ Watched \in Items
  /\ Interval \in Nat \ {0}
  /\ MaxDelay \in Nat
  /\ AnsnModulus \in Nat \ {0, 1}

\* OLSR_TOP_HOLD_TIME and OLSR_HNA_HOLD_TIME.
VTime == 3 * Interval

VARIABLES kind,       \* which message type this behaviour is about
          advertised, \* the MPR selectors or local associations of the originator
          ansn,       \* m_ansn of the originator
          timer,      \* time left of its TC or HNA timer
          air,        \* messages whose flooding may still reach the receiver
          tuple,      \* tuple[i]: the receiver's tuple for i, or NoTuple
          pending     \* pending[i]: time left of the next timer scheduled for i, or Off

\* What only the properties read.
VARIABLES first,      \* first[k]: the list when the originator took on number k
          steady,     \* for how long its number has not changed
          dropped     \* how long ago it stopped to advertise Watched, 0 while it does

vars == <<kind, advertised, ansn, timer, air, tuple, pending, first, steady, dropped>>
originator == <<kind, advertised, ansn, timer, first, steady, dropped>>
receiver == <<tuple, pending>>

\* A tuple stands for something its originator sent no longer ago than this.
Lifetime == VTime + MaxDelay
Forgotten == Lifetime + 1

Off == -2
NoTuple == [seq |-> -1, left |-> -1]
Numbers == 0 .. AnsnModulus - 1
Recorded == {i \in Items : tuple[i] # NoTuple}

Tuple == [seq : Numbers, left : -1 .. VTime]
Message == [seq : Numbers, list : SUBSET Items, age : 0 .. MaxDelay]

\* The timers run before anything else does.
TimerDue(i) == pending[i] = -1
Quiet == \A i \in Items : ~ TimerDue(i)

-----------------------------------------------------------------------------
Init ==
  /\ kind \in Kinds
  /\ advertised = {}
  /\ ansn = AnsnModulus - 1
  /\ timer = Interval
  /\ air = {}
  /\ tuple = [i \in Items |-> NoTuple]
  /\ pending = [i \in Items |-> Off]
  /\ first = [k \in Numbers |-> {}]
  /\ steady = Forgotten
  /\ dropped = Forgotten

\* Numbers that a message or a tuple bears.  A bound on how fast the number
\* changes, which the code does not check: it has 65536 numbers, so that it does
\* not come back to one of them before it is forgotten.
Borne == {m.seq : m \in air} \cup {tuple[i].seq : i \in Recorded}
IsForgotten(k) == k \notin Borne

\* IncrementAnsn, with the list that is advertised from now on.
IncrementAnsn(list) ==
  LET next == (ansn + 1) % AnsnModulus
  IN  /\ IsForgotten(next)
      /\ ansn' = next
      /\ first' = [k \in Numbers |-> IF k = next THEN list
                                     ELSE IF k \in Borne THEN first[k] ELSE {}]
      /\ steady' = IF Borne = {} THEN Forgotten ELSE 0

Advertise(i) ==
  /\ advertised' = advertised \cup {i}
  /\ dropped' = IF i = Watched THEN 0 ELSE dropped

\* Mutant: a new selector does not change the number.
AddMprSelectorTupleSilently(i) ==
  /\ kind = "tc" /\ i \notin advertised
  /\ Advertise(i)
  /\ UNCHANGED <<kind, ansn, timer, air, receiver, first, steady>>

AddMprSelectorTuple(i) ==
  /\ kind = "tc" /\ i \notin advertised
  /\ Advertise(i)
  /\ IncrementAnsn(advertised')
  /\ UNCHANGED <<kind, timer, air, receiver>>

RemoveMprSelectorTuple(i) ==
  /\ kind = "tc" /\ i \in advertised
  /\ advertised' = advertised \ {i}
  /\ IncrementAnsn(advertised')
  /\ UNCHANGED <<kind, timer, air, receiver, dropped>>

\* AddNeighborTuple and RemoveNeighborTuple: the number changes, the list does
\* not.
ChangeNeighborTuple ==
  /\ kind = "tc"
  /\ IncrementAnsn(advertised)
  /\ UNCHANGED <<kind, advertised, timer, air, receiver, dropped>>

\* NeighborLoss erases the selector tuple itself: the number stays.
NeighborLoss(i) ==
  /\ kind = "tc" /\ i \in advertised
  /\ advertised' = advertised \ {i}
  /\ UNCHANGED <<kind, ansn, timer, air, receiver, first, steady, dropped>>

AddHostNetworkAssociation(i) ==
  /\ kind = "hna" /\ i \notin advertised
  /\ Advertise(i)
  /\ UNCHANGED <<kind, ansn, timer, air, receiver, first, steady>>

RemoveHostNetworkAssociation(i) ==
  /\ kind = "hna" /\ i \in advertised
  /\ advertised' = advertised \ {i}
  /\ UNCHANGED <<kind, ansn, timer, air, receiver, first, steady, dropped>>

\* SendTc and SendHna.
Announcement == [seq |-> ansn, list |-> advertised, age |-> 0]

\* TcTimerExpire and HnaTimerExpire: an empty list is not sent.
AnnouncementTimerExpire ==
  /\ timer = 0
  /\ air' = IF advertised # {} THEN air \cup {Announcement} ELSE air
  /\ timer' = Interval
  /\ UNCHANGED <<kind, advertised, ansn, receiver, first, steady, dropped>>
TcTimerExpire == kind = "tc" /\ AnnouncementTimerExpire
HnaTimerExpire == kind = "hna" /\ AnnouncementTimerExpire

-----------------------------------------------------------------------------
\* The duplicate set lets each message through once.
FirstCopy(m) == air' = air \ {m}

\* Mutant: whatever is kept of the originator is refreshed, not what is listed.
RefreshAllOrAdd(m, kept) ==
  /\ tuple' = [i \in Items |->
       IF i \in m.list \cup kept
       THEN [seq |-> IF i \in kept THEN tuple[i].seq ELSE m.seq, left |-> VTime]
       ELSE NoTuple]
  /\ pending' = [i \in Items |->
       IF i \in m.list \ kept /\ pending[i] = Off THEN VTime ELSE pending[i]]

\* A listed item is refreshed, its timer left alone, or added with a timer.
RefreshOrAdd(m, kept) ==
  /\ tuple' = [i \in Items |->
       IF i \in m.list
       THEN [seq |-> IF i \in kept THEN tuple[i].seq ELSE m.seq, left |-> VTime]
       ELSE IF i \in kept THEN tuple[i] ELSE NoTuple]
  /\ pending' = [i \in Items |->
       IF i \in m.list \ kept /\ pending[i] = Off THEN VTime ELSE pending[i]]

\* FindNewerTopologyTuple: numbers are compared as they are.
HasNewer(m) == \E i \in Recorded : tuple[i].seq > m.seq

\* Mutant: numbers are not looked at.
ProcessTcUnordered(m) ==
  /\ kind = "tc" /\ Quiet
  /\ FirstCopy(m)
  /\ RefreshOrAdd(m, Recorded)
  /\ UNCHANGED originator

\* Mutant: tuples with an older number are kept.
ProcessTcKeepsOlder(m) ==
  /\ kind = "tc" /\ Quiet
  /\ FirstCopy(m)
  /\ IF HasNewer(m) THEN UNCHANGED receiver ELSE RefreshOrAdd(m, Recorded)
  /\ UNCHANGED originator

\* ProcessTc: nothing is done when a newer tuple is recorded; otherwise
\* EraseOlderTopologyTuples and the addresses of the list.
ProcessTc(m) ==
  /\ kind = "tc" /\ Quiet
  /\ FirstCopy(m)
  /\ IF HasNewer(m) THEN UNCHANGED receiver
     ELSE RefreshOrAdd(m, {i \in Recorded : tuple[i].seq >= m.seq})
  /\ UNCHANGED originator

ProcessHna(m) ==
  /\ kind = "hna" /\ Quiet
  /\ FirstCopy(m)
  /\ RefreshOrAdd(m, Recorded)
  /\ UNCHANGED originator

\* Mutant: the tuple is given another period instead of what it has left.
TupleTimerExpireInFull(i) ==
  /\ TimerDue(i)
  /\ IF tuple[i] = NoTuple
     THEN pending' = [pending EXCEPT ![i] = Off] /\ UNCHANGED tuple
     ELSE IF tuple[i].left < 0
     THEN /\ tuple' = [tuple EXCEPT ![i] = NoTuple]
          /\ pending' = [pending EXCEPT ![i] = Off]
     ELSE pending' = [pending EXCEPT ![i] = VTime] /\ UNCHANGED tuple

\* The timer finds no tuple, or one that has expired, or one that was
\* refreshed, or erased and added again, since: then it waits for what that
\* one has left.  A tuple that is added again gets another timer beside the
\* one it finds; the later of two timers finds nothing the earlier one has not
\* seen to, so that only the earlier is kept here.
TupleTimerExpire(i) ==
  /\ TimerDue(i)
  /\ IF tuple[i] = NoTuple
     THEN pending' = [pending EXCEPT ![i] = Off] /\ UNCHANGED tuple
     ELSE IF tuple[i].left < 0
     THEN /\ tuple' = [tuple EXCEPT ![i] = NoTuple]
          /\ pending' = [pending EXCEPT ![i] = Off]
     ELSE pending' = [pending EXCEPT ![i] = tuple[i].left] /\ UNCHANGED tuple

TopologyTupleTimerExpire(i) ==
  kind = "tc" /\ TupleTimerExpire(i) /\ UNCHANGED <<originator, air>>
AssociationTupleTimerExpire(i) ==
  kind = "hna" /\ TupleTimerExpire(i) /\ UNCHANGED <<originator, air>>

-----------------------------------------------------------------------------
\* Items that a message or a tuple still names: what the properties remember
\* of others and of their numbers is forgotten.
Listed == Recorded \cup UNION {m.list : m \in air}
Older(n) == IF n < Forgotten THEN n + 1 ELSE n

\* One unit of time passes when nothing is due.
Tick ==
  /\ timer # 0 /\ Quiet
  /\ timer' = timer - 1
  /\ air' = {[m EXCEPT !.age = @ + 1] : m \in {n \in air : n.age < MaxDelay}}
  /\ tuple' = [i \in Items |-> IF tuple[i] = NoTuple THEN NoTuple
                               ELSE [tuple[i] EXCEPT !.left = @ - 1]]
  /\ pending' = [i \in Items |-> IF pending[i] = Off THEN Off ELSE pending[i] - 1]
  /\ steady' = IF Borne \subseteq {ansn} THEN Forgotten ELSE Older(steady)
  /\ dropped' = IF Watched \in advertised THEN 0
                ELSE IF Watched \in Listed THEN Older(dropped) ELSE Forgotten
  /\ first' = [k \in Numbers |-> IF k \in Borne \cup {ansn} THEN first[k] ELSE {}]
  /\ UNCHANGED <<kind, advertised, ansn>>

Change ==
  \/ ChangeNeighborTuple
  \/ \E i \in Items :
       \/ AddMprSelectorTuple(i) \/ RemoveMprSelectorTuple(i) \/ NeighborLoss(i)
       \/ AddHostNetworkAssociation(i) \/ RemoveHostNetworkAssociation(i)
Receive == \E m \in air : ProcessTc(m) \/ ProcessHna(m)
Expire == \E i \in Items : TopologyTupleTimerExpire(i) \/ AssociationTupleTimerExpire(i)

\* The timers that are due run, then the clock advances.
RunEvent == TcTimerExpire \/ HnaTimerExpire \/ Expire \/ Tick

Next == Change \/ Receive \/ RunEvent

Spec == Init /\ [][Next]_vars

-----------------------------------------------------------------------------
\* Type correctness; every tuple has a timer that looks at it no later than
\* it expires, although a refresh does not move the timer and a tuple that is
\* erased and added again leaves the old one behind.
TypeOK ==
  /\ kind \in Kinds
  /\ advertised \subseteq Items
  /\ ansn \in Numbers
  /\ timer \in 0 .. Interval
  /\ air \subseteq Message
  /\ tuple \in [Items -> Tuple \cup {NoTuple}]
  /\ pending \in [Items -> Off .. VTime]
  /\ \A i \in Recorded : Off < pending[i] /\ pending[i] <= tuple[i].left
  /\ first \in [Numbers -> SUBSET Items]
  /\ steady \in 0 .. Forgotten
  /\ dropped \in 0 .. Forgotten

\* All tuples of one originator in the topology set bear one ANSN, and the
\* originator advertised their destinations together: the set never mixes two
\* lists, whatever order TCs arrive in and although NeighborLoss shortens the
\* list without a new number.
OneAnnouncement ==
  kind = "tc" =>
    \A i, j \in Recorded : tuple[i].seq = tuple[j].seq /\ i \in first[tuple[j].seq]

\* What the originator has stopped to advertise is gone after Lifetime, also
\* when its last selector left and it fell silent, whatever was lost and
\* however late the last message that listed it came.
NothingStale ==
  Quiet /\ Watched \in Recorded => dropped <= Lifetime

\* Once a number has been in force for Lifetime the topology set holds no
\* other: the deafness after the number wraps to zero, when every new TC looks
\* older than what is recorded, ends then at the latest.
OldNumbersFade ==
  kind = "tc" /\ Quiet =>
    \A i \in Recorded : tuple[i].seq # ansn => steady <= Lifetime

\* The simulator goes on running the events that are due; of the
\* messages that keep being sent some are received.
Fairness == WF_vars(RunEvent) /\ SF_vars(Receive)
FairSpec == Spec /\ Fairness

\* When the originator's list and number settle the receiver comes to hold the
\* whole list again and again, and from some time on nothing else, whatever it
\* held before, wrapped numbers included.
Settled == <>[][FALSE]_<<advertised, ansn>>
Converges ==
  Settled => <>[](Recorded \subseteq advertised) /\ []<>(Recorded = advertised)
=============================================================================
