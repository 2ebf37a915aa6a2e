--------------------------- MODULE MCGrassClient ---------------------------
(* Small instances of GrassClient for TLC.                                 *)
EXTENDS GrassClient, TLC

CONSTANTS f1, f2

(* Files are only compared for equality.                                   *)
Symmetry == Permutations(Files)
=============================================================================
