------------------------------ MODULE MprRules ------------------------------
(***************************************************************************)
(* The vocabulary of multipoint relay selection: which 2-hop tuples a      *)
(* relay set must cover and which relay sets a computation may choose.     *)
(***************************************************************************)
EXTENDS Integers

\* Willingness of olsr-repositories.h; the order of the numbers matters.
NEVER  == 0
ALWAYS == 7
Willingness == NEVER .. ALWAYS

\* The 2-hop tuples an MPR computation has to cover: their neighbour is in N
\* and not unwilling, their 2-hop address is neither the node itself nor in N.
StrictTwoHop(N, will, twoHop, self) ==
  {p \in twoHop : /\ p[1] \in N
                  /\ will[p[1]] # NEVER
                  /\ p[2] # self
                  /\ p[2] \notin N}

\* M reaches every 2-hop address of the tuples N2 over one of these tuples.
Covers(M, N2) == \A p \in N2 : \E q \in N2 : q[1] \in M /\ q[2] = p[2]

\* Neighbours that may be relays: the always willing ones, and those that
\* provide reachability to some strict 2-hop address.
Candidates(N, will, N2) == {n \in N : will[n] = ALWAYS} \cup {p[1] : p \in N2}

\* The relay sets a computation over N and N2 may choose.
MprChoices(N, will, N2) ==
  {M \in SUBSET Candidates(N, will, N2) :
     /\ Covers(M, N2)
     /\ \A n \in N : will[n] = ALWAYS => n \in M}
=============================================================================
