---------------------------- MODULE MprSelection ----------------------------
(***************************************************************************)
(* What one multipoint relay (MPR) computation promises, whatever          *)
(* algorithm makes it: given the usable neighbours, their willingness and  *)
(* the 2-hop tuples, the MPR set it publishes is one of MprChoices.        *)
(* MprComputation implements this specification; Neighborhood uses its     *)
(* choices as the outcomes of a computation.                               *)
(***************************************************************************)
EXTENDS MprRules

CONSTANTS Neighbors,   \* main addresses a neighbour tuple may have
          Addresses,   \* addresses a 2-hop tuple may have
          Self         \* the node's own main address

VARIABLES usable,   \* symmetric neighbours that are not mistrusted (the set N)
          will,     \* willingness recorded in each neighbour tuple
          twoHop,   \* the 2-hop tuples
          published,  \* whether the computation has finished
          result      \* the MPR set in force

Init ==
  /\ usable \in SUBSET Neighbors
  /\ will \in [Neighbors -> Willingness]
  /\ twoHop \in SUBSET (Neighbors \X Addresses)
  /\ published = FALSE
  /\ result \in SUBSET Neighbors

Publish ==
  /\ ~ published
  /\ published' = TRUE
  /\ result' \in MprChoices(usable, will, StrictTwoHop(usable, will, twoHop, Self))
  /\ UNCHANGED <<usable, will, twoHop>>

Spec == Init /\ [][Publish]_<<usable, will, twoHop, published, result>>
=============================================================================
