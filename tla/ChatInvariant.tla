--------------------------- MODULE ChatInvariant ---------------------------
(***************************************************************************)
(* Why no table ever points at a user that was freed: the inductive        *)
(* invariant behind NoFreedUserInTables of ChatServer, for any hash        *)
(* function, any number of connections, with and without vanishing         *)
(* clients and reused stacks.  Then what more may be said when no two      *)
(* names share a bucket, and when no client vanishes either.               *)
(***************************************************************************)
EXTENDS ChatServer

\* The tables are what the managers take them for.
TablesWellKept == WellHashed(server_user_map) /\ WellKept(RoomName, rooms)

\* A user that some table points at belongs to a thread that is running, and
\* is that thread's u.
ListedIsOwned ==
  \A x \in ListedUsers :
    u[x.socket] = x /\ pc[x.socket] \notin {"closed", "exited"}

\* What u may hold: nothing, the thread's own user, or one that was freed.
Own(c) == u[c] # NULL /\ u[c].socket = c

OwnOrStale ==
  \A c \in Conn : Own(c) \/ u[c] = NULL \/ pc[u[c].socket] = "exited"

\* What a thread may rely on where it stands: a command is only handled for
\* somebody, a broadcast is about a room, the list of rooms is for a departure,
\* and whoever enters or leaves a room for good is the thread's own user.
Departing(c) == Leaving(c) /\ pc[c] \in {"leave", "quit", "delete"}

StandsWell(c) ==
  /\ pc[c] = "lock" /\ buffer[c].code \notin {"CONNECT", "DISCONNECT"} => u[c] # NULL
  /\ pc[c] \in {"join_new", "join_admin", "join_list", "quit", "delete", "message"}
       => target[c] \in RoomName
  /\ pc[c] = "leave" => Leaving(c)
  /\ pc[c] \in {"join_new", "join_admin", "join_list", "quit"} \/ Departing(c) => Own(c)

AllStandWell == \A c \in Conn : StandsWell(c)

\* A thread that is leaving has every room its user is still in on its list.
LeavesEveryRoom ==
  \A c \in Conn : Departing(c) =>
    \A r \in AllRooms(rooms) : u[c] \in Users(r.users) => r.name \in visit[c]

IInv ==
  /\ TypeOK
  /\ TablesWellKept
  /\ ListedIsOwned
  /\ OwnOrStale
  /\ AllStandWell
  /\ LeavesEveryRoom

----------------------------------------------------------------------------
(***************************************************************************)
(* Why the server is the service of ChatService as long as no two names    *)
(* share a bucket: what holds besides IInv when none do.                   *)
(***************************************************************************)
Apart ==
  /\ \A k, l \in Login : UserHash[k] = UserHash[l] => k = l
  /\ \A q, r \in RoomName : RoomHash[q] = RoomHash[r] => q = r

\* The home room is there and nobody's; every other room has its admin in it.
RoomsHaveAdmins ==
  /\ is_room_used(HomeRoom, rooms) /\ get_admin(HomeRoom, rooms) = NULL
  /\ \A r \in RoomNames(rooms) \ {HomeRoom} : get_admin(r, rooms) \in get_users(r, rooms)

\* A room is being deleted by its admin, and left by somebody else.
AdminDeletes(c) ==
  LET r == target[c] IN
  /\ pc[c] = "delete" => Own(c) /\ is_room_used(r, rooms) /\ u[c] = get_admin(r, rooms)
  /\ pc[c] = "quit" => u[c] # get_admin(r, rooms)

AdminsDelete == \A c \in Conn : AdminDeletes(c)

ApartInv == IInv /\ LoggedInIsListed /\ RoomsHaveAdmins /\ AdminsDelete
----------------------------------------------------------------------------
(***************************************************************************)
(* Why nothing freed is ever used when clients do not vanish and stacks    *)
(* are fresh: every handler then runs with the mutex, from the first look  *)
(* at a table to the last.                                                 *)
(***************************************************************************)
InHandler(c) ==
  pc[c] \in {"join_new", "join_admin", "join_list", "quit", "delete", "message", "leave", "unlock"}

\* The client is there, and the thread's user is its own.
Attended(c) ==
  /\ pc[c] \notin {"closed", "exited"} => connected[c]
  /\ buffer[c].code # "EOF"
  /\ u[c] = NULL \/ Own(c)

\* What a handler read from the tables is still so.
StillTrue(c) ==
  /\ pc[c] \in {"join_new", "join_list", "quit", "delete", "message"} =>
       todo[c] \subseteq get_users(target[c], rooms)
  /\ pc[c] = "join_admin" => get_admin(target[c], rooms) # NULL

\* The list of the rooms to leave: only the thread that made it crosses them off.
Crossing(c) ==
  /\ visit[c] # {} => Departing(c)
  /\ FreedRoom \notin visit[c]
  /\ Leaving(c) /\ pc[c] \in {"quit", "delete"} => target[c] \in visit[c]

HandlesAlone(c) ==
  (InHandler(c) => mutex = c) /\ Attended(c) /\ StillTrue(c) /\ Crossing(c)

AloneInv == ApartInv /\ status # "undefined" /\ \A c \in Conn : HandlesAlone(c)
----------------------------------------------------------------------------
(***************************************************************************)
(* Why the clients display what is so, when none vanishes and stacks are   *)
(* fresh: what each is shown at every point of a broadcast.                *)
(***************************************************************************)

\* A tab with these users, each on one line.
Shown(users) ==
  [tabs |-> 1, known |-> TRUE,
   lines |-> [l \in Login |-> IF \E x \in users : x.name = l THEN 1 ELSE 0]]

\* The client of d has been told that its room r is gone.
ToldGone(d, r) ==
  mutex \in Conn /\ target[mutex] = r /\ pc[mutex] = "delete" /\ u[d] \notin todo[mutex]

\* The users that the client of d has been told are in room r, when d is: the
\* newcomer, and who leaves, is in some lists and not yet in others.
Told(d, r) ==
  LET users == get_users(r, rooms)
      reached(label) == /\ mutex \in Conn /\ target[mutex] = r /\ pc[mutex] = label
                        /\ u[d] \notin todo[mutex]
      enters(label) == mutex = d /\ target[d] = r /\ pc[d] = label
  IN CASE reached("join_new")  -> users \cup {u[mutex]}
       [] reached("quit")      -> users \ {u[mutex]}
       [] enters("join_admin") -> {}
       [] enters("join_list")  -> (users \ todo[d]) \cup ({get_admin(r, rooms)} \ {NULL})
       [] OTHER                -> users

\* The client of d is about to be told that it is out of room r, or of all.
Parting(d, r) ==
  \/ Departing(d)
  \/ pc[d] \in {"unlock", "reply"} /\ response[d] = "DELETE_ROOM" /\ target[d] = r

\* The client of d has a tab for room r, as far as the server has told it.
HasTab(d, r) == u[d] \in get_users(r, rooms) /\ ~ ToldGone(d, r)

Displays(d, r) ==
  IF HasTab(d, r)
  THEN client[d][r] = Shown(Told(d, r))
  ELSE IF Parting(d, r) THEN client[d][r].tabs <= 1
                        ELSE client[d][r] = Roster!ClosedRoom

\* What a handler knows of the room it works on.
KnowsItsRoom(c) ==
  LET users == get_users(target[c], rooms) IN
  /\ pc[c] = "join_new" => is_room_used(target[c], rooms) /\ u[c] \notin users
  /\ pc[c] \in {"join_admin", "join_list"} => u[c] \in users
  /\ response[c] = "DELETE_ROOM" =>
       pc[c] \in {"unlock", "reply"} /\ target[c] \in RoomName /\ u[c] \notin users

DisplayInv ==
  /\ AloneInv
  /\ \A c \in Conn : KnowsItsRoom(c) /\ (connected[c] => pc[c] \notin {"closed", "exited"})
  /\ \A d \in Watched, r \in RoomName : pc[d] # "exited" => Displays(d, r)
=============================================================================
