--------------------------- MODULE ChatRefinement ---------------------------
(***************************************************************************)
(* ChatServer implements ChatService: what the service promises is read    *)
(* off the two tables.                                                     *)
(***************************************************************************)
EXTENDS ChatServer

\* The login under which a table of users knows a connection.
KnownIn(map, c) ==
  LET entries == {x \in Users(map) : x.socket = c}
  IN IF entries = {} THEN NULL ELSE (CHOOSE x \in entries : TRUE).name

KnownAs(c) == KnownIn(server_user_map, c)

\* The connections that are in a room of a table, and the one that may delete it.
SocketsIn(r, table) == {x.socket : x \in get_users(r, table)}

AdminIn(r, table) ==
  IF get_admin(r, table) = NULL THEN NULL ELSE get_admin(r, table).socket

Service == INSTANCE ChatService WITH
  online  <- [c \in Conn |-> KnownAs(c)],
  open    <- RoomNames(rooms),
  members <- [r \in RoomName |-> SocketsIn(r, rooms)],
  admin   <- [r \in RoomName |-> AdminIn(r, rooms)]

(***************************************************************************)
(* Every step of the server, with its handlers cut at every message and    *)
(* its unlocked cleanups interleaved with them, is one step of the service *)
(* or none: a login, a join, a departure or a deletion takes effect once,  *)
(* at once, and for the client that asked for it (server.c:55-360).        *)
(***************************************************************************)
ImplementsService == Service!Spec

(***************************************************************************)
(* What the two tables say together: whoever is in a room is online under  *)
(* a login of its own, and a room whose creator left it, by any command or *)
(* by vanishing, does not stay behind with nobody to delete it             *)
(* (server.c:181-236, 340-351).                                            *)
(***************************************************************************)
ServiceIsConsistent == Service!Consistent
=============================================================================
