--------------------------- MODULE MCRestingTable ---------------------------
(***************************************************************************)
(* A small resting table: two slots that use the same client ids.          *)
(***************************************************************************)
EXTENDS RestingTable, TLC

CONSTANTS s1, s2, o1, o2

Symmetric == Permutations({s1, s2}) \cup Permutations({o1, o2})
=============================================================================
