------------------------- MODULE MCServerLifecycle -------------------------
(* Small instances of ServerLifecycle for TLC.                             *)
EXTENDS ServerLifecycle, TLC

CONSTANTS c1, c2, c3

(* Connections are compared for equality and never ordered.                *)
Symmetry == Permutations(Conns)
============================================================================
