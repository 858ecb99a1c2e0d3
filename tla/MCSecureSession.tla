-------------------------- MODULE MCSecureSession --------------------------
(***************************************************************************)
(* Instances of SecureSession for TLC: what each client types.             *)
(***************************************************************************)
EXTENDS SecureSession

CONSTANTS a, b, c, R

AboutRooms == {"CREATE_ROOM_SEC", "ACCEPT_JOIN_ROOM_SEC", "EJECT_FROM_ROOM_SEC",
               "QUIT_ROOM_SEC", "DELETE_ROOM_SEC"}
ALogin == {"CONNECT_SEC", "DISCONNECT_SEC", "DEL_ACCOUNT_SEC", "SIGINT", "MESSAGE"}

\* What a types, and what b does, and c; and how much of it.
Types(byA, byB, byC) == [d \in Client |-> CASE d = a -> byA [] d = b -> byB [] d = c -> byC]

\* Everything about a room, which a makes.  Both log in first.
Rooms ==
  [inside |-> {}, taken |-> {}, refused |-> {}, foreign |-> {}, patient |-> TRUE, typed |-> Types(3, 2, 0),
   commands |-> Types(AboutRooms \cup {"CONNECT_SEC"}, {"CONNECT_SEC", "JOIN_ROOM_SEC", "QUIT_ROOM_SEC"}, {})]

\* b goes and comes again.
Readmitted ==
  [Rooms EXCEPT !.inside = {a, b}, !.typed = Types(4, 2, 0),
   !.commands = Types({"CREATE_ROOM_SEC", "ACCEPT_JOIN_ROOM_SEC", "EJECT_FROM_ROOM_SEC"},
                      {"JOIN_ROOM_SEC"}, {})]

\* The room that a makes is there on the plain server.
ForeignRoom == [Rooms EXCEPT !.foreign = {R}, !.typed = Types(3, 3, 0)]

\* b quits the room while c is let in.
Three ==
  [Rooms EXCEPT !.inside = {a, b, c}, !.typed = Types(3, 2, 1),
   !.commands = Types({"CREATE_ROOM_SEC", "ACCEPT_JOIN_ROOM_SEC"}, {"JOIN_ROOM_SEC", "QUIT_ROOM_SEC"},
                      {"JOIN_ROOM_SEC"})]

\* Impatient users log in and out; the login of b is taken.
Logins ==
  [inside |-> {}, taken |-> {b}, refused |-> {}, foreign |-> {}, patient |-> FALSE, typed |-> Types(2, 1, 0),
   commands |-> Types(ALogin, {"CONNECT_SEC", "SIGINT"}, {})]

\* The certificate of b is another's.
Refused ==
  [Logins EXCEPT !.taken = {}, !.refused = {b}, !.typed = Types(1, 1, 0),
   !.commands = Types(ALogin, ALogin \ {"DEL_ACCOUNT_SEC"}, {})]

\* One client calls; it may end over a room it talks to before it has its keys, and
\* both may ask for that room.
Calls ==
  [inside |-> {}, taken |-> {}, refused |-> {}, foreign |-> {}, patient |-> TRUE, typed |-> Types(2, 1, 0),
   commands |-> Types({"CONNECT_SEC", "CREATE_ROOM_SEC", "MP_SEC", "MESSAGE"},
                      {"CONNECT_SEC", "CREATE_ROOM_SEC"}, {})]

AllSettings == {Rooms, Readmitted, ForeignRoom, Three, Logins, Refused, Calls}
=============================================================================
