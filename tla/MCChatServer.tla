--------------------------- MODULE MCChatServer ---------------------------
(***************************************************************************)
(* Instances of ChatServer for TLC: names and hashes.                      *)
(***************************************************************************)
EXTENDS ChatRefinement, ChatInvariant, TLC

CONSTANTS c1, c2, c3, A, B, accueil, R

\* No two names share a bucket.
ApartUsers == [l \in Login |-> l]
ApartRooms == [r \in RoomName |-> r]

Connections == Permutations(Conn)
=============================================================================
