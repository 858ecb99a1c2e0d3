---------------------------- MODULE UserManager ----------------------------
(***************************************************************************)
(* The hash table of users of src/src/common/user_manager.c, as operators  *)
(* on its value.  A table maps each bucket to a chain of users; the same   *)
(* code keeps the users of the server and the users of every room.         *)
(*                                                                         *)
(* A user is the struct USER that a connection allocates when it logs in:  *)
(* its name, and the socket it is reached through, which also identifies   *)
(* the struct: two users with the same name and different sockets are      *)
(* different pointers.                                                     *)
(***************************************************************************)
EXTENDS Naturals, Sequences, FiniteSets

CONSTANTS
  Login,      \* the names a client may ask for
  Conn,       \* the sockets: the accepted connections or, where one may log in
              \* again, a connection and the number of its login
  UserHash    \* hash_user: the bucket of each login (collisions are possible)

UserBucket == {UserHash[l] : l \in Login}

user == [name : Login, socket : Conn]

\* Every table the server can hold: any chain in any bucket.
user_map == [UserBucket -> Seq(user)]

\* create_user_map: every bucket is NULL.
create_user_map == [b \in UserBucket |-> <<>>]

Chain(login, map) == map[UserHash[login]]

\* The users that a walk of the chains meets.
Users(map) == UNION {{map[b][i] : i \in DOMAIN map[b]} : b \in DOMAIN map}

is_login_used(login, map) ==
  \E i \in DOMAIN Chain(login, map) : Chain(login, map)[i].name = login

\* Prepends to the chain, unless the login is already there.
add_user(u, map) ==
  IF is_login_used(u.name, map)
  THEN map
  ELSE [map EXCEPT ![UserHash[u.name]] = <<u>> \o @]

(***************************************************************************)
(* remove_user frees every node it walks over, up to the first one whose   *)
(* user has this name.  If that one heads the chain, the bucket becomes    *)
(* NULL and whatever followed is lost.  If it is deeper, the bucket keeps  *)
(* pointing at nodes that were freed: what any later walk of the bucket    *)
(* does is undefined, and the table has no value in the model.             *)
(***************************************************************************)
remove_user_defined(u, map) ==
  is_login_used(u.name, map) => Head(Chain(u.name, map)).name = u.name

remove_user(u, map) ==
  IF is_login_used(u.name, map)
  THEN [map EXCEPT ![UserHash[u.name]] = <<>>]
  ELSE map

\* The first user of that name in its chain; the callers have checked that
\* there is one.
get_user(login, map) ==
  LET chain == Chain(login, map)
      first == CHOOSE i \in DOMAIN chain :
                 /\ chain[i].name = login
                 /\ \A j \in 1 .. i - 1 : chain[j].name # login
  IN chain[first]

(***************************************************************************)
(* What the code relies on: a user sits in the bucket of its name, and no  *)
(* chain holds two users of the same name.                                 *)
(***************************************************************************)
WellHashed(map) ==
  \A b \in DOMAIN map : \A i \in DOMAIN map[b] :
    /\ UserHash[map[b][i].name] = b
    /\ \A j \in DOMAIN map[b] : map[b][j].name = map[b][i].name => j = i
=============================================================================
