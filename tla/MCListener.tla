----------------------------- MODULE MCListener -----------------------------
(***************************************************************************)
(* Instances of Listener for TLC: the names of the clients.                *)
(***************************************************************************)
EXTENDS Listener

CONSTANTS c1, c2, c3
=============================================================================
