--------------------------- MODULE SharedChannel ---------------------------
(***************************************************************************)
(* What the file-transfer engine promises about its data connection: one   *)
(* connection shared by the transfers that claimed it.  It is opened on    *)
(* behalf of a claimant, it stays open while anybody moves data over it,   *)
(* and it is closed by the step in which the last claim is released.       *)
(***************************************************************************)
CONSTANT Users

VARIABLES
  claimed,   \* users that hold a claim on the connection
  using,     \* claimants that are moving data over it
  open       \* is the connection established?

channelVars == <<claimed, using, open>>

Init ==
  /\ claimed = {}
  /\ using = {}
  /\ open = FALSE

(* A user announces that it is going to need the connection. *)
Claim(u) ==
  /\ u \notin claimed
  /\ claimed' = claimed \cup {u}
  /\ UNCHANGED <<using, open>>

(* A claimant starts to move data, establishing the connection if needed. *)
Use(u) ==
  /\ u \in claimed \ using
  /\ using' = using \cup {u}
  /\ open' = TRUE
  /\ UNCHANGED claimed

(* Some users stop: one of them, or all of them when the process dies. *)
StopUse ==
  /\ \E S \in SUBSET using : using' = using \ S
  /\ UNCHANGED <<claimed, open>>

(* A claim is given up; the last one takes the connection down with it. *)
Release(u) ==
  /\ u \in claimed \ using
  /\ claimed' = claimed \ {u}
  /\ open' = (open /\ claimed' # {})
  /\ UNCHANGED using

Next ==
  \/ \E u \in Users : Claim(u) \/ Use(u) \/ Release(u)
  \/ StopUse

Spec == Init /\ [][Next]_channelVars
=============================================================================
