---------------------------- MODULE MCFtpServer ----------------------------
(* Small instances of FtpServer for TLC.                                   *)
EXTENDS FtpServerProofs, TLC

CONSTANTS f1, f2, f3, f4, r1, r2

(* Requests and the descriptors of one owner can be exchanged: they are    *)
(* compared for equality and never ordered.                                *)
Symmetry == Permutations(Fds \ ForeignFds) \cup Permutations(Requests)
============================================================================
