----------------------------- MODULE RouteRules -----------------------------
(***************************************************************************)
(* What the routing table of a node may hold, given its repositories r:    *)
(*   r.self        the node's main address                                 *)
(*   r.sym         the neighbour tuples with STATUS_SYM                    *)
(*   r.linked      the neighbours with a link tuple that has not expired   *)
(*   r.willing     the neighbour tuples, of any status, whose willingness  *)
(*                 is not NEVER                                            *)
(*   r.mistrusted  the addresses IsMalicious answers true for              *)
(*   r.twoHop      the 2-hop tuples <<neighbour, 2-hop address>>           *)
(*   r.topology    the topology tuples <<last address, destination>>       *)
(***************************************************************************)
EXTENDS Integers

\* The neighbours that become destinations of distance 1.
FirstHops(r) == (r.sym \cap r.linked) \ r.mistrusted

\* The 2-hop tuples that may yield a destination of distance 2.
TwoHopLinks(r) ==
  {t \in r.twoHop : t[1] \in r.willing /\ t[2] \notin r.sym \cup {r.self}}

\* The topology tuples that may yield a destination farther away.
FarLinks(r) == {t \in r.topology : t[1] \notin r.mistrusted}

\* The entries <<destination, next hop, distance>> a breadth-first search over
\* these links may find, up to distance H.
EntriesWithin(r, H) ==
  LET within[h \in 1 .. H] ==
        IF h = 1 THEN {<<n, n, 1>> : n \in FirstHops(r)}
        ELSE LET nearer == within[h - 1]
                 found == {e[1] : e \in nearer}
             IN  nearer \cup
                   IF h = 2
                   THEN {<<t[2], t[1], 2>> : t \in {u \in TwoHopLinks(r) : u[1] \in FirstHops(r)}}
                   ELSE UNION {{<<t[2], e[2], h>> :
                                  e \in {d \in nearer : d[1] = t[1] /\ d[3] = h - 1}} :
                               t \in {u \in FarLinks(r) : u[2] \notin found}}
  IN  within[H]
=============================================================================
