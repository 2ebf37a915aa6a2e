----------------------------- MODULE MCFileCopy -----------------------------
(* FileCopy for TLC, with an int and a size_t of four bits.                *)
EXTENDS FileCopy, TLC
=============================================================================
