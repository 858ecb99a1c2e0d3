---------------------------- MODULE ChatService ----------------------------
(***************************************************************************)
(* What the plain chat server promises, without threads, messages, tables  *)
(* or a mutex: who is online under which login, which rooms are open, who  *)
(* is in them and who may delete them.                                     *)
(***************************************************************************)
CONSTANTS Login, Conn, RoomName, HomeRoom, NULL

VARIABLES online, open, members, admin

svars == <<online, open, members, admin>>

Online(c) == online[c] # NULL

Init ==
  /\ online = [c \in Conn |-> NULL]
  /\ open = {HomeRoom}
  /\ members = [r \in RoomName |-> {}]
  /\ admin = [r \in RoomName |-> NULL]

\* A login belongs to one client at a time.
LogIn(c) ==
  /\ ~ Online(c)
  /\ \E l \in Login \ {online[d] : d \in Conn} : online' = [online EXCEPT ![c] = l]
  /\ UNCHANGED <<open, members, admin>>

Create(c, r) ==
  /\ Online(c) /\ r \notin open
  /\ open' = open \cup {r}
  /\ members' = [members EXCEPT ![r] = {c}]
  /\ admin' = [admin EXCEPT ![r] = c]
  /\ UNCHANGED online

Join(c, r) ==
  /\ Online(c) /\ r \in open
  /\ members' = [members EXCEPT ![r] = @ \cup {c}]
  /\ UNCHANGED <<online, open, admin>>

\* The admin does not leave its room: it deletes it, for everybody at once.
Leave(c, r) ==
  /\ c \in members[r] /\ admin[r] # c
  /\ members' = [members EXCEPT ![r] = @ \ {c}]
  /\ UNCHANGED <<online, open, admin>>

Delete(c, r) ==
  /\ r \in open /\ admin[r] = c
  /\ open' = open \ {r}
  /\ members' = [members EXCEPT ![r] = {}]
  /\ admin' = [admin EXCEPT ![r] = NULL]
  /\ UNCHANGED online

\* A client goes offline once it is out of every room.
LogOut(c) ==
  /\ Online(c)
  /\ \A r \in open : c \notin members[r]
  /\ online' = [online EXCEPT ![c] = NULL]
  /\ UNCHANGED <<open, members, admin>>

Next ==
  \E c \in Conn :
    \/ LogIn(c) \/ LogOut(c)
    \/ \E r \in RoomName : Create(c, r) \/ Join(c, r) \/ Leave(c, r) \/ Delete(c, r)

Spec == Init /\ [][Next]_svars

----------------------------------------------------------------------------
(***************************************************************************)
(* Whoever is in a room is online; every open room but the home room has   *)
(* its admin among its members, and a closed one has nobody.               *)
(***************************************************************************)
Consistent ==
  /\ HomeRoom \in open
  /\ \A r \in RoomName :
       /\ members[r] \subseteq {c \in Conn : Online(c)}
       /\ r \notin open => members[r] = {}
       /\ r \in open \ {HomeRoom} => admin[r] \in members[r]
  /\ \A c, d \in Conn : Online(c) /\ online[c] = online[d] => c = d
=============================================================================
