-------------------------- MODULE MCCommandSession --------------------------
(* A small instance of CommandSession for TLC.                             *)
EXTENDS CommandSession, TLC

CONSTANTS c1, c2, user, longname, right, wrong

(* One configured user; the other name is one of more than 32 characters.  *)
OneUser == {<<user, right>>}

(* Clients are only compared for equality.                                 *)
Symmetry == Permutations(Clients)
=============================================================================
