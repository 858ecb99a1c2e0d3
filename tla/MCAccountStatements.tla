------------------------- MODULE MCAccountStatements -------------------------
(***************************************************************************)
(* Instances of AccountStatements for TLC: every client has a certificate  *)
(* of its own.                                                             *)
(***************************************************************************)
EXTENDS AccountStatements

CONSTANTS a, b, c, ca, cb, cc

OwnCertificates == [l \in Login |-> CASE l = a -> ca [] l = b -> cb [] OTHER -> cc]
=============================================================================
