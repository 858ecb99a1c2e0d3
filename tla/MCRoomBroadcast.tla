--------------------------- MODULE MCRoomBroadcast ---------------------------
(***************************************************************************)
(* Instances of RoomBroadcast for TLC: the users of the room.              *)
(***************************************************************************)
EXTENDS RoomBroadcast

CONSTANTS a, b, c

Three == <<a, b, c>>
=============================================================================
