--------------------------- MODULE MCGrassSystem ---------------------------
(* A small instance of GrassSystem for TLC.                                *)
EXTENDS GrassSystemProofs, TLC
=============================================================================
