--------------------------- MODULE MCAnnouncements ---------------------------
(***************************************************************************)
(* Two possible items of one originator, the number wraps after two and    *)
(* the flooding may take as long as an interval.  Items differ in Watched  *)
(* and in the local association: there is no symmetry.                     *)
(***************************************************************************)
EXTENDS HnaTable

CONSTANTS i1, i2

MCLocals == {{}, {i2}}
=============================================================================
