---------------------------- MODULE RoomManager ----------------------------
(***************************************************************************)
(* The hash table of rooms of src/src/common/room_manager.c, as operators  *)
(* on its value.  A room has its name, the user that created it (NULL for  *)
(* the home room) and its own table of users.                              *)
(***************************************************************************)
EXTENDS UserManager

CONSTANTS
  RoomName,   \* the names of rooms
  RoomHash,   \* hash_room_name: the bucket of each name
  NULL        \* the null pointer, and "no thread"

RoomBucket == {RoomHash[r] : r \in RoomName}

room == [name : RoomName, admin : user \cup {NULL}, users : user_map]

room_map == [RoomBucket -> Seq(room)]

init_rooms == [b \in RoomBucket |-> <<>>]

RoomChain(name, rooms) == rooms[RoomHash[name]]

\* Where the name is in its chain; the code always walks to the first match.
Position(name, rooms) ==
  CHOOSE i \in DOMAIN RoomChain(name, rooms) :
    /\ RoomChain(name, rooms)[i].name = name
    /\ \A j \in 1 .. i - 1 : RoomChain(name, rooms)[j].name # name

is_room_used(name, rooms) ==
  \E i \in DOMAIN RoomChain(name, rooms) : RoomChain(name, rooms)[i].name = name

RoomOf(name, rooms) == RoomChain(name, rooms)[Position(name, rooms)]

\* The creator becomes admin and first user; the room heads its chain.
add_room(name, admin, rooms) ==
  LET users == IF admin = NULL THEN create_user_map
                               ELSE add_user(admin, create_user_map)
      r     == [name |-> name, admin |-> admin, users |-> users]
  IN IF is_room_used(name, rooms)
     THEN rooms
     ELSE [rooms EXCEPT ![RoomHash[name]] = <<r>> \o @]

(***************************************************************************)
(* A room found deeper in its chain is unlinked.  When it heads the chain  *)
(* the bucket becomes NULL, and the rooms that followed are lost too.      *)
(***************************************************************************)
Unlink(chain, k) ==
  [i \in 1 .. Len(chain) - 1 |-> IF i < k THEN chain[i] ELSE chain[i + 1]]

\* Mutant: the node stays in the chain, pointing at nothing.
remove_room_leaving_a_node(name, rooms) ==
  IF is_room_used(name, rooms) THEN [rooms EXCEPT ![RoomHash[name]] = <<NULL>>]
                               ELSE rooms

remove_room(name, rooms) ==
  IF ~ is_room_used(name, rooms)
  THEN rooms
  ELSE LET k == Position(name, rooms) IN
       [rooms EXCEPT ![RoomHash[name]] = IF k = 1 THEN <<>> ELSE Unlink(@, k)]

get_admin(name, rooms) ==
  IF is_room_used(name, rooms) THEN RoomOf(name, rooms).admin ELSE NULL

WithUsers(name, map, rooms) ==
  [rooms EXCEPT ![RoomHash[name]][Position(name, rooms)].users = map]

add_user_in_room(u, name, rooms) ==
  IF is_room_used(name, rooms)
  THEN WithUsers(name, add_user(u, RoomOf(name, rooms).users), rooms)
  ELSE rooms

remove_user_from_room_defined(u, name, rooms) ==
  is_room_used(name, rooms)
    => remove_user_defined(u, RoomOf(name, rooms).users)

\* Mutant: the user is announced as gone and stays.
remove_user_from_no_room(u, name, rooms) == rooms

remove_user_from_room(u, name, rooms) ==
  IF is_room_used(name, rooms)
  THEN WithUsers(name, remove_user(u, RoomOf(name, rooms).users), rooms)
  ELSE rooms

\* A fresh list of the users, which later changes to the room do not touch.
\* Its order follows the buckets, hence the hash: any order is possible.
get_users(name, rooms) ==
  IF is_room_used(name, rooms) THEN Users(RoomOf(name, rooms).users) ELSE {}

\* By name, not by identity.
is_user_in_room(u, name, rooms) ==
  \E v \in get_users(name, rooms) : v.name = u.name

\* The rooms that a walk of the chains meets.
AllRooms(rooms) == UNION {{rooms[b][i] : i \in DOMAIN rooms[b]} : b \in DOMAIN rooms}

RoomNames(rooms) == {name \in RoomName : is_room_used(name, rooms)}

\* Mutant: only the rooms the user created.
get_owned_rooms(u, rooms) ==
  {name \in RoomNames(rooms) : get_admin(name, rooms) = u}

get_user_rooms(u, rooms) ==
  {name \in RoomNames(rooms) : is_user_in_room(u, name, rooms)}

(***************************************************************************)
(* What the code relies on when it is given one of some names: a room of   *)
(* such a name sits in the bucket of its name and no other room does, no   *)
(* chain holds two of one name, and their users are well kept.             *)
(***************************************************************************)
WellKept(names, rooms) ==
  \A b \in DOMAIN rooms : \A i \in DOMAIN rooms[b] :
    /\ rooms[b][i].name \in names <=> RoomHash[rooms[b][i].name] = b
    /\ WellHashed(rooms[b][i].users)
    /\ rooms[b][i].name \in names =>
         \A j \in DOMAIN rooms[b] : rooms[b][j].name = rooms[b][i].name => j = i
=============================================================================
