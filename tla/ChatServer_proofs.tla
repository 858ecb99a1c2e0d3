------------------------- MODULE ChatServer_proofs -------------------------
(***************************************************************************)
(* Theorems about ChatServer, for every value of its constants: its types, *)
(* and that no table points at a user that was freed.  Then that it        *)
(* implements ChatService, and what clients display.                       *)
(***************************************************************************)
EXTENDS ChatRefinement, ChatInvariant, ManagerLemmas

----------------------------------------------------------------------------
(***************************************************************************)
(* Types of what a client displays, and of a write.                        *)
(***************************************************************************)

\* A count of equal lines stays within its bound.
LEMMA CountsAreBounded ==
  ASSUME NEW n \in 0 .. MaxLines
  PROVE  Roster!OneMore(n) \in 0 .. MaxLines /\ Roster!OneLess(n) \in 0 .. MaxLines
  BY ConstantsAssumption DEF Roster!OneMore, Roster!OneLess

\* Every message leaves a display of the right shape.
LEMMA ViewTypes ==
  ASSUME NEW view \in Roster!View, NEW r, NEW l
  PROVE  /\ Roster!EmptyView \in Roster!View
         /\ Roster!OnCreateRoom(view, r) \in Roster!View
         /\ Roster!OnDeleteRoom(view, r) \in Roster!View
         /\ Roster!OnArrival(view, r, l) \in Roster!View
         /\ Roster!OnRmUser(view, r, l) \in Roster!View
<1>1. Roster!NoLines \in [Login -> 0 .. MaxLines]
  BY ConstantsAssumption DEF Roster!NoLines
<1>2. Roster!EmptyView \in Roster!View
  BY <1>1, ConstantsAssumption
    DEF Roster!EmptyView, Roster!ClosedRoom, Roster!View, Roster!RoomView
<1>3. ASSUME NEW q \in Roster!RoomView
      PROVE  [view EXCEPT ![r] = q] \in Roster!View
  BY <1>3 DEF Roster!View
<1>4. CASE r \notin RoomName
  BY <1>2, <1>4 DEF Roster!View, Roster!OnCreateRoom, Roster!OnDeleteRoom,
                    Roster!OnArrival, Roster!OnRmUser
<1>5. CASE r \in RoomName
  <2> DEFINE old == view[r]
  <2>1. /\ old \in Roster!RoomView
        /\ old.tabs \in 0 .. MaxLines /\ old.lines \in [Login -> 0 .. MaxLines]
    BY <1>5 DEF Roster!View, Roster!RoomView
  <2>2. Roster!OnCreateRoom(view, r) \in Roster!View
    BY <1>1, <1>3, <2>1, CountsAreBounded DEF Roster!OnCreateRoom, Roster!RoomView
  <2>3. Roster!OnDeleteRoom(view, r) \in Roster!View
    BY <1>1, <1>3, <2>1, CountsAreBounded DEF Roster!OnDeleteRoom, Roster!RoomView
  <2>4. Roster!OnArrival(view, r, l) \in Roster!View
    BY <1>3, <2>1, CountsAreBounded DEF Roster!OnArrival, Roster!RoomView
  <2>5. Roster!OnRmUser(view, r, l) \in Roster!View
    BY <1>3, <2>1, CountsAreBounded DEF Roster!OnRmUser, Roster!RoomView
  <2>6. QED
    BY <1>2, <2>2, <2>3, <2>4, <2>5
<1>6. QED
  BY <1>4, <1>5

\* Writing a well-shaped display to a client keeps all displays well-shaped.
LEMMA WriteTypes ==
  ASSUME client \in [Conn -> Roster!View],
         NEW d \in Conn, NEW view \in Roster!View,
         WriteTo(d, view)
  PROVE  /\ client' \in [Conn -> Roster!View]
         /\ status' \in {"running", "killed", "undefined"}
  BY DEF WriteTo

----------------------------------------------------------------------------
(***************************************************************************)
(* The initial state, and the steps that leave the tables alone.           *)
(***************************************************************************)

\* The null pointer is told apart from everything a variable points at.
LEMMA NullIsNoUser == NULL \notin user /\ NULL \notin Conn /\ NULL \notin RoomName
  BY ConstantsAssumption

\* The server starts with one empty room and no thread.
LEMMA InitEstablishes == Init => IInv
<1> SUFFICES ASSUME Init PROVE IInv
  OBVIOUS
<1>1. /\ rooms \in room_map /\ WellKept(RoomName, rooms)
      /\ \A r \in AllRooms(rooms) : Users(r.users) = {}
  <2>1. rooms = add_room(HomeRoom, NULL, init_rooms)
    BY DEF Init
  <2>2. /\ rooms \in room_map /\ WellKept(RoomName, rooms)
        /\ \A r \in AllRooms(rooms) :
             r \in AllRooms(init_rooms) \/ Users(r.users) \subseteq user \cap {NULL}
    BY <2>1, InitRooms, AddRoom, ConstantsAssumption
  <2>3. QED
    BY <2>2, InitRooms, NullIsNoUser
<1>2. /\ server_user_map \in user_map /\ WellHashed(server_user_map)
      /\ Users(server_user_map) = {}
  BY CreateUserMap DEF Init
<1>3. ListedUsers = {}
  BY <1>1, <1>2 DEF ListedUsers
<1>4. Roster!EmptyView \in Roster!View
  BY ConstantsAssumption
    DEF Roster!EmptyView, Roster!ClosedRoom, Roster!NoLines, Roster!View, Roster!RoomView
<1>5. TypeOK
  BY <1>1, <1>2, <1>4 DEF Init, TypeOK, Label
<1>6. AllStandWell
  BY DEF Init, AllStandWell, StandsWell, Departing, Leaving, NoRequest, Req
<1>7. LeavesEveryRoom
  BY DEF Init, LeavesEveryRoom, Departing
<1>8. OwnOrStale
  BY DEF Init, OwnOrStale
<1>9. QED
  BY <1>1, <1>2, <1>3, <1>5, <1>6, <1>7, <1>8 DEF IInv, TablesWellKept, ListedIsOwned

\* A thread that moves on without touching the tables, its u or its list.
LEMMA QuietStep ==
  ASSUME IInv, TypeOK', NEW c \in Conn,
         UNCHANGED <<tables, u, visit>>,
         \A d \in Conn \ {c} :
           pc'[d] = pc[d] /\ buffer'[d] = buffer[d] /\ target'[d] = target[d],
         pc[c] = "exited" => pc'[c] = "exited",
         pc[c] # "closed" /\ pc[c] # "exited" =>
           pc'[c] # "closed" /\ pc'[c] # "exited",
         StandsWell(c)',
         Departing(c)' => Departing(c)
  PROVE  IInv'
<1>1. TablesWellKept'
  BY DEF IInv, TablesWellKept, tables
<1>2. ListedUsers' = ListedUsers /\ ListedUsers \subseteq user
  <2>1. ListedUsers' = ListedUsers
    BY DEF ListedUsers, tables
  <2>2. \A r \in AllRooms(rooms) : Users(r.users) \subseteq user
    BY AllRoomsOf, UsersOf DEF IInv, TypeOK, room
  <2>3. QED
    BY <2>1, <2>2, UsersOf DEF ListedUsers, IInv, TypeOK
<1>3. ListedIsOwned'
  <2> SUFFICES ASSUME NEW x \in ListedUsers
               PROVE  u'[x.socket] = x /\ pc'[x.socket] \notin {"closed", "exited"}
    BY <1>2 DEF ListedIsOwned
  <2>1. x.socket \in Conn
    BY <1>2 DEF user
  <2>2. u[x.socket] = x /\ pc[x.socket] \notin {"closed", "exited"}
    BY DEF IInv, ListedIsOwned
  <2>3. QED
    BY <2>1, <2>2
<1>4. OwnOrStale'
  <2> SUFFICES ASSUME NEW d \in Conn
               PROVE  Own(d) \/ u[d] = NULL \/ pc'[u[d].socket] = "exited"
    BY DEF OwnOrStale, Own
  <2>1. u[d] = NULL \/ u[d].socket \in Conn
    BY DEF IInv, TypeOK, user
  <2>2. Own(d) \/ u[d] = NULL \/ pc[u[d].socket] = "exited"
    BY DEF IInv, OwnOrStale
  <2>3. QED
    BY <2>1, <2>2
<1>5. ASSUME NEW d \in Conn, d # c
      PROVE  /\ StandsWell(d)'
             /\ Departing(d)' <=> Departing(d)
  <2>1. StandsWell(d)
    BY DEF IInv, AllStandWell
  <2>2. QED
    BY <1>5, <2>1 DEF StandsWell, Departing, Leaving, Own
<1>6. AllStandWell'
  BY <1>5 DEF AllStandWell
<1>7. LeavesEveryRoom'
  BY <1>5 DEF LeavesEveryRoom, IInv, tables
<1>8. QED
  BY <1>1, <1>3, <1>4, <1>6, <1>7 DEF IInv

----------------------------------------------------------------------------
(***************************************************************************)
(* Every step keeps the types.                                             *)
(***************************************************************************)

\* What the invariant says of the thread that takes a step.
LEMMA StandsTyped ==
  ASSUME IInv, NEW c \in Conn
  PROVE  /\ u[c] \in user \cup {NULL}
         /\ u[c] \in user => u[c].name \in Login /\ u[c].socket \in Conn
         /\ pc[c] \in {"join_new", "join_admin", "join_list", "quit", "delete", "message"}
              => target[c] \in RoomName
         /\ pc[c] \in {"join_new", "join_admin", "join_list", "quit"} \/ Departing(c)
              => Own(c) /\ u[c] \in user
         /\ buffer[c].code \in RoomCommand => buffer[c].room \in RoomName
         /\ buffer[c].code \in {"CONNECT", "MP"} => buffer[c].name \in Login
         /\ todo[c] \subseteq user
         /\ client[c] \in Roster!View
<1>1. StandsWell(c) /\ TypeOK
  BY DEF IInv, AllStandWell
<1>2. buffer[c] \in Request \cup {NoRequest, EndOfFile}
  BY <1>1 DEF TypeOK
<1>3. /\ buffer[c].code \in RoomCommand => buffer[c].room \in RoomName
      /\ buffer[c].code \in {"CONNECT", "MP"} => buffer[c].name \in Login
  BY <1>2 DEF Request, NoRequest, EndOfFile, Req, RoomCommand
<1>4. QED
  BY <1>1, <1>3, NullIsNoUser DEF TypeOK, StandsWell, Own, user

\* The steps of a connection and of its client.
LEMMA AcceptTypes ==
  ASSUME IInv, NEW c \in Conn,
         Accept(c) \/ PeerGone(c) \/ Receive(c) \/ Rejected(c)
  PROVE  TypeOK'
<1>1. TypeOK /\ Roster!EmptyView \in Roster!View
  BY StandsTyped, ViewTypes DEF IInv
<1>2. CASE Accept(c)
  BY <1>1, <1>2 DEF TypeOK, Accept, Step, Goto, Label, tables
<1>3. CASE PeerGone(c)
  BY <1>1, <1>3 DEF TypeOK, PeerGone, tables, locals
<1>4. CASE Receive(c)
  BY <1>1, <1>4 DEF TypeOK, Receive, Step, Goto, Answer, Label, Reply, Sent, tables, peers
<1>5. CASE Rejected(c)
  BY <1>1, <1>5 DEF TypeOK, Rejected, Step, Goto, Label, tables, peers
<1>6. QED
  BY <1>2, <1>3, <1>4, <1>5

\* A command that is refused.
LEMMA RefuseTypes ==
  ASSUME TypeOK, NEW c \in Conn, NEW code \in Reply, Refuse(c, code)
  PROVE  TypeOK'
  BY DEF TypeOK, Refuse, Goto, Answer, Label, tables, peers

\* A handler that begins to broadcast.
LEMMA BroadcastTypes ==
  ASSUME TypeOK, NEW c \in Conn, NEW r \in RoomName, NEW users, users \subseteq user,
         NEW label \in Label,
         Broadcast(c, r, users, label)
  PROVE  /\ target' \in [Conn -> RoomName \cup {NULL}]
         /\ todo' \in [Conn -> SUBSET user]
         /\ pc' \in [Conn -> Label]
  BY DEF TypeOK, Broadcast, Goto

\* The handlers that change the tables at once.
LEMMA CreateTypes ==
  ASSUME IInv, NEW c \in Conn, CreateRoom(c) \/ Connect(c)
  PROVE  TypeOK'
<1>1. /\ TypeOK
      /\ WellKept(RoomName, rooms) /\ WellHashed(server_user_map)
      /\ rooms \in room_map /\ server_user_map \in user_map
      /\ client \in [Conn -> Roster!View]
  BY DEF IInv, TablesWellKept, TypeOK
<1>2. CASE CreateRoom(c)
  <2> DEFINE r == buffer[c].room
             view == Roster!OnArrival(Roster!OnCreateRoom(client[c], r), r, u[c].name)
  <2>1. r \in RoomName /\ buffer[c].code = "CREATE_ROOM" /\ view \in Roster!View
    BY <1>2, StandsTyped, ViewTypes DEF CreateRoom, Handle, RoomCommand
  <2>2. u[c] \in user
    <3>1. u[c] # NULL
      BY <1>2, <2>1 DEF CreateRoom, Handle, Step, IInv, AllStandWell, StandsWell
    <3>2. QED
      BY <3>1, StandsTyped
  <2>3. CASE Refuse(c, "CREATE_ROOM_KO")
    BY <1>1, <2>3, RefuseTypes DEF Reply
  <2>4. CASE ~ is_room_used(r, rooms)
    <3> DEFINE added == add_room(r, u[c], rooms)
    <3>1. added \in room_map /\ WellKept(RoomName, added)
      BY <1>1, <2>1, <2>2, AddRoom
    <3> HIDE DEF added
    <3>2. add_user_in_room(u[c], r, added) \in room_map
      BY <2>1, <2>2, <3>1, AddUserInRoom
    <3>3. /\ rooms' \in room_map
          /\ WriteTo(c, view)
          /\ mutex' = c /\ Answer(c, "OK") /\ Goto(c, "unlock")
          /\ UNCHANGED <<server_user_map, u, buffer, target, todo, visit, connected>>
      BY <1>2, <2>4, <3>2 DEF CreateRoom, Refuse, added
    <3> HIDE DEF view
    <3>4. client' \in [Conn -> Roster!View] /\ status' \in {"running", "killed", "undefined"}
      BY <1>1, <2>1, <3>3, WriteTypes
    <3>5. QED
      BY <1>1, <3>3, <3>4 DEF TypeOK, Answer, Goto, Reply, Label
  <2>5. QED
    BY <1>2, <2>3, <2>4 DEF CreateRoom
<1>3. CASE Connect(c)
  <2> DEFINE new == [name |-> buffer[c].name, socket |-> c]
  <2>1. new \in user
    BY <1>3, StandsTyped DEF Connect, Handle, user
  <2>2. CASE Refuse(c, "CONNECT_KO")
    BY <1>1, <2>2, RefuseTypes DEF Reply
  <2>3. CASE ~ Refuse(c, "CONNECT_KO")
    <3>1. /\ WriteTo(c, client[c])
          /\ u' = [u EXCEPT ![c] = new]
          /\ server_user_map' = add_user(new, server_user_map)
          /\ mutex' = c
          /\ Broadcast(c, HomeRoom, get_users(HomeRoom, rooms), "join_new")
          /\ UNCHANGED <<rooms, buffer, response, visit, connected>>
      BY <1>3, <2>3 DEF Connect
    <3>2. server_user_map' \in user_map
      BY <1>1, <2>1, <3>1, AddUser
    <3>3. client' \in [Conn -> Roster!View] /\ status' \in {"running", "killed", "undefined"}
      BY <1>1, <3>1, WriteTypes, StandsTyped
    <3>4. HomeRoom \in RoomName /\ get_users(HomeRoom, rooms) \subseteq user
      BY <1>1, GetUsers, ConstantsAssumption
    <3>5. /\ target' \in [Conn -> RoomName \cup {NULL}]
          /\ todo' \in [Conn -> SUBSET user]
          /\ pc' \in [Conn -> Label]
      BY <1>1, <3>1, <3>4, BroadcastTypes DEF Label
    <3> HIDE DEF new
    <3>6. QED
      BY <1>1, <2>1, <3>1, <3>2, <3>3, <3>5 DEF TypeOK
  <2>4. QED
    BY <2>2, <2>3
<1>4. QED
  BY <1>2, <1>3

\* The commands that only read the tables.
LEMMA CommandTypes ==
  ASSUME IInv, NEW c \in Conn,
         JoinRoom(c) \/ QuitRoom(c) \/ DeleteRoom(c) \/ Message(c) \/ PrivateMessage(c)
  PROVE  TypeOK'
<1> DEFINE r == buffer[c].room
<1>1. /\ TypeOK
      /\ WellKept(RoomName, rooms) /\ WellHashed(server_user_map)
      /\ rooms \in room_map /\ server_user_map \in user_map
      /\ client \in [Conn -> Roster!View]
  BY DEF IInv, TablesWellKept, TypeOK
<1>2. ASSUME NEW code \in {"JOIN_ROOM_KO", "QUIT_ROOM_KO", "DELETE_ROOM_KO", "MESSAGE_KO", "MP_KO"},
             Refuse(c, code)
      PROVE  TypeOK'
  BY <1>1, <1>2, RefuseTypes DEF Reply
<1>3. ASSUME r \in RoomName, NEW label \in Label,
             mutex' = c, Broadcast(c, r, get_users(r, rooms), label),
             UNCHANGED <<tables, u, buffer, visit, peers, status>>,
             response' = response \/ Answer(c, "OK")
      PROVE  TypeOK'
  <2>1. /\ target' \in [Conn -> RoomName \cup {NULL}]
        /\ todo' \in [Conn -> SUBSET user]
        /\ pc' \in [Conn -> Label]
    BY <1>1, <1>3, GetUsers, BroadcastTypes
  <2>2. QED
    BY <1>1, <1>3, <2>1 DEF TypeOK, Answer, Reply, tables, peers
<1>4. r \in RoomName \/ PrivateMessage(c)
  BY StandsTyped DEF JoinRoom, QuitRoom, DeleteRoom, Message, Handle, RoomCommand
<1>5. CASE JoinRoom(c)
  BY <1>2, <1>3, <1>4, <1>5 DEF JoinRoom, Label, Handle, PrivateMessage
<1>6. CASE QuitRoom(c)
  BY <1>2, <1>3, <1>4, <1>6 DEF QuitRoom, Label, Handle, PrivateMessage
<1>7. CASE DeleteRoom(c)
  BY <1>2, <1>3, <1>4, <1>7 DEF DeleteRoom, Label, Handle, PrivateMessage
<1>8. CASE Message(c)
  BY <1>2, <1>3, <1>4, <1>8 DEF Message, Label, Handle, PrivateMessage
<1>9. CASE PrivateMessage(c)
  <2> DEFINE receiver == get_user(buffer[c].name, server_user_map)
  <2>1. CASE Refuse(c, "MP_KO")
    BY <1>2, <2>1
  <2>2. CASE ~ Refuse(c, "MP_KO")
    <3>1. /\ is_login_used(buffer[c].name, server_user_map)
          /\ WriteTo(receiver.socket, client[receiver.socket])
          /\ mutex' = c /\ Answer(c, "MP") /\ Goto(c, "unlock")
          /\ UNCHANGED <<tables, u, buffer, target, todo, visit, connected>>
      BY <1>9, <2>2 DEF PrivateMessage
    <3>2. buffer[c].name \in Login
      BY <1>9, StandsTyped DEF PrivateMessage, Handle
    <3>3. receiver \in user
      BY <1>1, <3>1, <3>2, GetUser, UsersOf
    <3> HIDE DEF receiver
    <3>4. receiver.socket \in Conn
      BY <3>3 DEF user
    <3>5. client' \in [Conn -> Roster!View] /\ status' \in {"running", "killed", "undefined"}
      BY <1>1, <3>1, <3>4, WriteTypes, StandsTyped
    <3>6. QED
      BY <1>1, <3>1, <3>5 DEF TypeOK, Answer, Goto, Reply, Label, tables
  <2>3. QED
    BY <2>1, <2>2
<1>10. QED
  BY <1>5, <1>6, <1>7, <1>8, <1>9

\* The steps of a broadcast, of a room being joined or left, and of a reply.
LEMMA BroadcastStepTypes ==
  ASSUME IInv, NEW c \in Conn,
         \/ JoinNotify(c) \/ JoinEnter(c) \/ JoinAdmin(c) \/ JoinList(c) \/ JoinDone(c)
         \/ Notify(c) \/ MessageDone(c)
  PROVE  TypeOK'
<1>1. /\ TypeOK
      /\ WellKept(RoomName, rooms)
      /\ rooms \in room_map
      /\ client \in [Conn -> Roster!View]
  BY DEF IInv, TablesWellKept, TypeOK
<1>2. \A t \in user : t.socket \in Conn /\ t.name \in Login
  BY DEF user
<1>3. ASSUME NEW d \in Conn, NEW view \in Roster!View, WriteTo(d, view)
      PROVE  /\ client' \in [Conn -> Roster!View]
             /\ status' \in {"running", "killed", "undefined"}
  BY <1>1, <1>3, WriteTypes
<1>4. CASE JoinNotify(c)
  <2>1. PICK t \in todo[c] :
          /\ WriteTo(t.socket, Roster!OnArrival(client[t.socket], target[c], u[c].name))
          /\ todo' = [todo EXCEPT ![c] = @ \ {t}]
    BY <1>4 DEF JoinNotify
  <2>2. t.socket \in Conn
    BY <1>2, StandsTyped
  <2>3. client' \in [Conn -> Roster!View] /\ status' \in {"running", "killed", "undefined"}
    BY <1>3, <2>1, <2>2, StandsTyped, ViewTypes
  <2>4. QED
    BY <1>1, <1>4, <2>1, <2>3 DEF TypeOK, JoinNotify, tables
<1>5. CASE JoinEnter(c)
  <2> DEFINE r    == target[c]
             view == Roster!OnCreateRoom(client[c], r)
  <2>1. r \in RoomName /\ u[c] \in user
    BY <1>5, StandsTyped DEF JoinEnter, Step
  <2>2. rooms' = add_user_in_room(u[c], r, rooms)
    BY <1>5 DEF JoinEnter
  <2>3. rooms' \in room_map /\ WellKept(RoomName, rooms')
    BY <1>1, <2>1, <2>2, AddUserInRoom
  <2>4. get_users(r, rooms') \subseteq user
    BY <2>1, <2>3, GetUsers
  <2>5. view \in Roster!View
    BY StandsTyped, ViewTypes
  <2>6. WriteTo(c, view)
    BY <1>5 DEF JoinEnter
  <2>7. client' \in [Conn -> Roster!View] /\ status' \in {"running", "killed", "undefined"}
    BY <1>3, <2>5, <2>6
  <2>8. /\ todo' \in {todo, [todo EXCEPT ![c] = get_users(r, rooms')]}
        /\ Goto(c, "join_list") \/ Goto(c, "join_admin")
        /\ UNCHANGED <<server_user_map, mutex, u, buffer, response, target, visit, connected>>
    BY <1>5 DEF JoinEnter, ListRoom
  <2> HIDE DEF view, r
  <2>9. QED
    BY <1>1, <2>3, <2>4, <2>7, <2>8 DEF TypeOK, Goto, Label
<1>6. CASE JoinList(c)
  <2>1. PICK t \in todo[c] :
          /\ todo' = [todo EXCEPT ![c] = @ \ {t}]
          /\ \/ UNCHANGED <<client, status>>
             \/ WriteTo(c, Roster!OnArrival(client[c], target[c], t.name))
    BY <1>6 DEF JoinList
  <2>2. client' \in [Conn -> Roster!View] /\ status' \in {"running", "killed", "undefined"}
    BY <1>1, <1>3, <2>1, StandsTyped, ViewTypes DEF TypeOK
  <2>3. QED
    BY <1>1, <1>6, <2>1, <2>2 DEF TypeOK, JoinList, tables
<1>7. CASE JoinDone(c)
  BY <1>1, <1>7 DEF TypeOK, JoinDone, Answer, Goto, Reply, Label, tables, peers
<1>8. CASE Notify(c)
  <2>1. PICK t \in todo[c] :
          /\ \E view \in {client[t.socket],
                          Roster!OnDeleteRoom(client[t.socket], target[c]),
                          Roster!OnRmUser(client[t.socket], target[c], u[c].name)} :
               WriteTo(t.socket, view)
          /\ todo' = [todo EXCEPT ![c] = @ \ {t}]
    BY <1>8 DEF Notify
  <2>2. t.socket \in Conn
    BY <1>2, StandsTyped
  <2>3. client' \in [Conn -> Roster!View] /\ status' \in {"running", "killed", "undefined"}
    BY <1>3, <2>1, <2>2, StandsTyped, ViewTypes
  <2>4. QED
    BY <1>1, <1>8, <2>1, <2>3 DEF TypeOK, Notify, tables
<1>9. CASE MessageDone(c)
  BY <1>1, <1>9 DEF TypeOK, MessageDone, Goto, Label, tables, locals, peers
<1>10. CASE JoinAdmin(c)
  <2>1. target[c] \in RoomName
    BY <1>10, StandsTyped DEF JoinAdmin, Step
  <2>2. get_users(target[c], rooms) \subseteq user
    BY <1>1, <2>1, GetUsers
  <2>3. client' \in [Conn -> Roster!View] /\ status' \in {"running", "killed", "undefined"}
    BY <1>3, <1>10, StandsTyped, ViewTypes DEF JoinAdmin
  <2>4. QED
    BY <1>1, <1>10, <2>2, <2>3 DEF TypeOK, JoinAdmin, ListRoom, Goto, Label, tables
<1>11. QED
  BY <1>4, <1>5, <1>6, <1>7, <1>8, <1>9, <1>10

\* Leaving a room, deleting it, and leaving for good.
LEMMA LeavingTypes ==
  ASSUME IInv, NEW c \in Conn,
         \/ QuitDone(c) \/ DeleteDone(c) \/ Unlock(c) \/ Answered(c)
         \/ Disconnect(c) \/ ConnectionStopped(c) \/ LeaveRoom(c) \/ LeaveDone(c)
         \/ Undefined(c)
  PROVE  TypeOK'
<1>1. /\ TypeOK
      /\ WellKept(RoomName, rooms) /\ WellHashed(server_user_map)
      /\ rooms \in room_map /\ server_user_map \in user_map
      /\ client \in [Conn -> Roster!View]
      /\ Roster!EmptyView \in Roster!View
  BY StandsTyped, ViewTypes DEF IInv, TablesWellKept, TypeOK
<1>2. ASSUME NEW view \in Roster!View, WriteTo(c, view)
      PROVE  /\ client' \in [Conn -> Roster!View]
             /\ status' \in {"running", "killed", "undefined"}
  BY <1>1, <1>2, WriteTypes
<1>3. ASSUME Resume(c)
      PROVE  pc' \in [Conn -> Label] /\ response' \in [Conn -> Reply \cup {"NONE"}]
  BY <1>1, <1>3 DEF TypeOK, Resume, Goto, Answer, Label, Reply
<1>4. ASSUME Exit(c)
      PROVE  /\ pc' \in [Conn -> Label]
             /\ buffer' \in [Conn -> Request \cup {NoRequest, EndOfFile}]
             /\ target' \in [Conn -> RoomName \cup {NULL}]
             /\ connected' \in [Conn -> BOOLEAN]
  BY <1>1, <1>4 DEF TypeOK, Exit, Goto, Label
<1>5. CASE QuitDone(c)
  <2>1. target[c] \in RoomName /\ u[c] \in user
    BY <1>5, StandsTyped DEF QuitDone, Step
  <2>2. rooms' \in room_map
    BY <1>1, <1>5, <2>1, RemoveUserFromRoom DEF QuitDone
  <2>3. QED
    BY <1>1, <1>3, <1>5, <2>2 DEF TypeOK, QuitDone, peers
<1>6. CASE DeleteDone(c)
  <2>1. target[c] \in RoomName
    BY <1>6, StandsTyped DEF DeleteDone, Step
  <2>2. rooms' \in room_map
    BY <1>1, <1>6, <2>1, RemoveRoom DEF DeleteDone
  <2>3. visit' \in [Conn -> SUBSET (RoomName \cup {FreedRoom})]
    <3>1. \A d \in Conn : visit[d] \subseteq RoomName \cup {FreedRoom}
      BY <1>1 DEF TypeOK
    <3>2. /\ visit' = [d \in Conn |-> visit'[d]]
          /\ \A d \in Conn : visit'[d] \subseteq visit[d] \cup {FreedRoom}
      BY <1>6 DEF DeleteDone
    <3>3. QED
      BY <3>1, <3>2
  <2>4. QED
    BY <1>1, <1>3, <1>6, <2>2, <2>3 DEF TypeOK, DeleteDone, peers
<1>7. CASE Unlock(c)
  BY <1>1, <1>7 DEF TypeOK, Unlock, Goto, Label, tables, locals, peers
<1>8. CASE Answered(c)
  <2>1. client' \in [Conn -> Roster!View] /\ status' \in {"running", "killed", "undefined"}
    BY <1>2, <1>8, StandsTyped, ViewTypes DEF Answered
  <2>2. QED
    BY <1>1, <1>8, <2>1 DEF TypeOK, Answered, Goto, Label, tables
<1>9. ASSUME BeginLeaving(c)
      PROVE  /\ visit' \in [Conn -> SUBSET (RoomName \cup {FreedRoom})]
             /\ pc' \in [Conn -> Label]
  <2>1. get_user_rooms(u[c], rooms) \subseteq RoomName
    BY <1>1, GetUserRooms
  <2>2. QED
    BY <1>1, <1>9, <2>1 DEF TypeOK, BeginLeaving, Goto, Label
<1>10. CASE Disconnect(c)
  <2>1. CASE u[c] = NULL
    <3>1. client' \in [Conn -> Roster!View] /\ status' \in {"running", "killed", "undefined"}
      BY <1>1, <1>2, <1>10, <2>1 DEF Disconnect
    <3>2. QED
      BY <1>1, <1>4, <1>10, <2>1, <3>1 DEF TypeOK, Disconnect, tables
  <2>2. CASE u[c] # NULL
    BY <1>1, <1>9, <1>10, <2>2 DEF TypeOK, Disconnect, BeginLeaving, tables, peers
  <2>3. QED
    BY <2>1, <2>2
<1>11. CASE ConnectionStopped(c)
  <2>1. CASE u[c] = NULL
    BY <1>1, <1>4, <1>11, <2>1 DEF TypeOK, ConnectionStopped, tables
  <2>2. CASE u[c] # NULL
    BY <1>1, <1>9, <1>11, <2>2 DEF TypeOK, ConnectionStopped, BeginLeaving, tables, peers
  <2>3. QED
    BY <2>1, <2>2
<1>12. CASE LeaveRoom(c)
  <2>1. PICK r \in visit[c] \ {FreedRoom} :
          Broadcast(c, r, get_users(r, rooms), IF IsAdmin(c, r) THEN "delete" ELSE "quit")
    BY <1>12 DEF LeaveRoom
  <2>2. r \in RoomName
    BY <1>1 DEF TypeOK
  <2>3. /\ target' \in [Conn -> RoomName \cup {NULL}]
        /\ todo' \in [Conn -> SUBSET user]
        /\ pc' \in [Conn -> Label]
    BY <1>1, <2>1, <2>2, GetUsers, BroadcastTypes DEF Label
  <2>4. QED
    BY <1>1, <1>12, <2>3 DEF TypeOK, LeaveRoom, tables, peers
<1>13. CASE LeaveDone(c)
  <2>1. u[c] \in user
    BY <1>13, StandsTyped DEF LeaveDone, Step, IInv, AllStandWell, StandsWell, Departing
  <2>2. server_user_map' \in user_map
    BY <1>1, <1>13, <2>1, RemoveUser DEF LeaveDone
  <2>3. client' \in [Conn -> Roster!View] /\ status' \in {"running", "killed", "undefined"}
    BY <1>1, <1>2, <1>13 DEF LeaveDone, TypeOK
  <2>4. mutex' \in Conn \cup {NULL}
    BY <1>1, <1>13 DEF LeaveDone, TypeOK
  <2>5. QED
    BY <1>1, <1>4, <1>13, <2>2, <2>3, <2>4 DEF TypeOK, LeaveDone
<1>14. CASE Undefined(c)
  BY <1>1, <1>14 DEF TypeOK, Undefined, tables, locals, peers
<1>15. QED
  BY <1>5, <1>6, <1>7, <1>8, <1>10, <1>11, <1>12, <1>13, <1>14

----------------------------------------------------------------------------
(***************************************************************************)
(* Every step keeps the invariant.                                         *)
(***************************************************************************)

\* A step of c brings into the tables nobody but the user of c, and takes from
\* the list of another thread no room that is still there.
LEMMA TableStep ==
  ASSUME IInv, TypeOK', TablesWellKept', NEW c \in Conn,
         \A d \in Conn \ {c} :
           /\ pc'[d] = pc[d] /\ buffer'[d] = buffer[d] /\ target'[d] = target[d]
           /\ u'[d] = u[d],
         pc[c] # "exited",
         \A x \in Users(server_user_map') :
           x \in Users(server_user_map) \/ (x = u'[c] /\ x.socket = c),
         \A r \in AllRooms(rooms') : \A x \in Users(r.users) :
           \/ x = u'[c] /\ x.socket = c
           \/ \E q \in AllRooms(rooms) : q.name = r.name /\ x \in Users(q.users),
         \A d \in Conn \ {c} : \A r \in AllRooms(rooms') :
           r.name \in visit[d] => r.name \in visit'[d],
         \A x \in ListedUsers' : x.socket = c =>
           u'[c] = x /\ pc'[c] \notin {"closed", "exited"},
         Own(c)' \/ u'[c] = NULL \/ pc'[u'[c].socket] = "exited",
         StandsWell(c)',
         Departing(c)' =>
           \A r \in AllRooms(rooms') : u'[c] \in Users(r.users) => r.name \in visit'[c]
  PROVE  IInv'
<1>1. ASSUME NEW x \in ListedUsers', x.socket # c
      PROVE  x \in ListedUsers /\ x \in user
  <2>1. CASE x \in Users(server_user_map')
    <3>1. x \in Users(server_user_map)
      BY <1>1, <2>1
    <3>2. x \in user
      BY <3>1, UsersOf DEF IInv, TypeOK
    <3>3. QED
      BY <3>1, <3>2 DEF ListedUsers
  <2>2. CASE x \notin Users(server_user_map')
    <3>1. PICK r \in AllRooms(rooms') : x \in Users(r.users)
      BY <2>2 DEF ListedUsers
    <3>2. PICK q \in AllRooms(rooms) : x \in Users(q.users)
      BY <1>1, <3>1
    <3>3. q.users \in user_map
      BY AllRoomsOf DEF IInv, TypeOK, room
    <3>4. QED
      BY <3>2, <3>3, UsersOf DEF ListedUsers
  <2>3. QED
    BY <2>1, <2>2
<1>2. ListedIsOwned'
  <2> SUFFICES ASSUME NEW x \in ListedUsers', x.socket # c
               PROVE  u'[x.socket] = x /\ pc'[x.socket] \notin {"closed", "exited"}
    BY DEF ListedIsOwned
  <2>1. x.socket \in Conn /\ x \in ListedUsers
    BY <1>1 DEF user
  <2>2. u[x.socket] = x /\ pc[x.socket] \notin {"closed", "exited"}
    BY <2>1 DEF IInv, ListedIsOwned
  <2>3. QED
    BY <2>1, <2>2
<1>3. OwnOrStale'
  <2> SUFFICES ASSUME NEW d \in Conn, d # c
               PROVE  Own(d)' \/ u'[d] = NULL \/ pc'[u'[d].socket] = "exited"
    BY DEF OwnOrStale
  <2>1. u'[d] = u[d]
    OBVIOUS
  <2>2. u[d] = NULL \/ u[d].socket \in Conn
    BY DEF IInv, TypeOK, user
  <2>3. Own(d) \/ u[d] = NULL \/ pc[u[d].socket] = "exited"
    BY DEF IInv, OwnOrStale
  <2>4. QED
    BY <2>1, <2>2, <2>3 DEF Own
<1>4. ASSUME NEW d \in Conn, d # c
      PROVE  /\ StandsWell(d)'
             /\ Departing(d)' <=> Departing(d)
  <2>1. StandsWell(d)
    BY DEF IInv, AllStandWell
  <2>2. QED
    BY <1>4, <2>1 DEF StandsWell, Departing, Leaving, Own
<1>5. AllStandWell'
  BY <1>4 DEF AllStandWell
<1>6. LeavesEveryRoom'
  <2> SUFFICES ASSUME NEW d \in Conn, d # c, Departing(d)',
                      NEW r \in AllRooms(rooms'), u'[d] \in Users(r.users)
               PROVE  r.name \in visit'[d]
    BY DEF LeavesEveryRoom
  <2>1. Departing(d) /\ u'[d] = u[d]
    BY <1>4
  <2>2. u[d].socket = d
    BY <2>1, StandsTyped DEF Own
  <2>3. PICK q \in AllRooms(rooms) : q.name = r.name /\ u[d] \in Users(q.users)
    BY <2>1, <2>2
  <2>4. r.name \in visit[d]
    BY <2>1, <2>3 DEF IInv, LeavesEveryRoom
  <2>5. QED
    BY <2>4
<1>7. QED
  BY <1>2, <1>3, <1>5, <1>6 DEF IInv

\* The tables hold users only, and at most one of each connection: its u.
LEMMA ListedHere ==
  ASSUME IInv, NEW c \in Conn
  PROVE  /\ ListedUsers \subseteq user
         /\ \A x \in Users(server_user_map) : x \in ListedUsers
         /\ \A r \in AllRooms(rooms) : \A x \in Users(r.users) : x \in ListedUsers
         /\ \A x \in ListedUsers : x.socket = c =>
              u[c] = x /\ u[c] # NULL /\ pc[c] \notin {"closed", "exited"}
<1>1. /\ Users(server_user_map) \subseteq user
      /\ \A r \in AllRooms(rooms) : Users(r.users) \subseteq user
  BY UsersOf, AllRoomsOf DEF IInv, TypeOK, room
<1>2. ListedUsers \subseteq user
  BY <1>1 DEF ListedUsers
<1>3. QED
  BY <1>2, NullIsNoUser DEF ListedUsers, IInv, ListedIsOwned

\* A thread whose u was not freed, and is not null, works for its own user.
LEMMA NotFreedIsOwn ==
  ASSUME IInv, NEW c \in Conn, u[c] # NULL, ~ Freed(u[c])
  PROVE  Own(c) /\ u[c] \in user
  BY StandsTyped DEF IInv, OwnOrStale, Own, Freed

\* The commands that only read the tables, and every command that is refused.
LEMMA QuietCommands ==
  ASSUME IInv, NEW c \in Conn, TypeOK',
         \/ \E code \in Reply : Step(c, "lock") /\ Refuse(c, code)
         \/ JoinRoom(c) \/ QuitRoom(c) \/ DeleteRoom(c) \/ Message(c) \/ PrivateMessage(c)
  PROVE  IInv'
<1> DEFINE r == buffer[c].room
<1>1. /\ TypeOK
      /\ pc \in [Conn -> Label] /\ target \in [Conn -> RoomName \cup {NULL}]
  BY DEF IInv, TypeOK
<1>2. ASSUME NEW code \in Reply, Step(c, "lock"), Refuse(c, code)
      PROVE  IInv'
  <2>1. /\ pc[c] = "lock" /\ pc'[c] = "unlock"
        /\ \A d \in Conn \ {c} : pc'[d] = pc[d]
        /\ UNCHANGED <<tables, u, buffer, target, visit>>
    BY <1>1, <1>2 DEF Refuse, Step, Goto
  <2>2. StandsWell(c)' /\ ~ Departing(c)'
    BY <2>1 DEF StandsWell, Departing
  <2>3. QED
    BY <2>1, <2>2, QuietStep
<1>3. ASSUME NEW label \in {"join_new", "quit", "delete", "message"},
             NEW users, r \in RoomName, pc[c] = "lock", ~ Leaving(c),
             label \in {"join_new", "quit"} => Own(c),
             Broadcast(c, r, users, label),
             UNCHANGED <<tables, u, buffer, visit, peers, status>>
      PROVE  IInv'
  <2>1. /\ pc'[c] = label /\ target'[c] = r
        /\ \A d \in Conn \ {c} : pc'[d] = pc[d] /\ target'[d] = target[d]
    BY <1>1, <1>3 DEF Broadcast, Goto
  <2>2. StandsWell(c)' /\ ~ Departing(c)'
    BY <1>3, <2>1 DEF StandsWell, Departing, Leaving, Own
  <2>3. QED
    BY <1>3, <2>1, <2>2, QuietStep
<1>4. pc[c] = "lock" /\ buffer[c].code \in RoomCommand => r \in RoomName /\ ~ Leaving(c) /\ u[c] # NULL
  BY StandsTyped DEF RoomCommand, Leaving, IInv, AllStandWell, StandsWell
<1>5. CASE \E code \in Reply : Step(c, "lock") /\ Refuse(c, code)
  BY <1>2, <1>5
<1>6. CASE JoinRoom(c)
  BY <1>2, <1>3, <1>4, <1>6, NotFreedIsOwn DEF JoinRoom, Handle, Step, RoomCommand, Reply
<1>7. CASE QuitRoom(c)
  BY <1>2, <1>3, <1>4, <1>7, NotFreedIsOwn DEF QuitRoom, Handle, Step, RoomCommand, Reply
<1>8. CASE DeleteRoom(c)
  BY <1>2, <1>3, <1>4, <1>8 DEF DeleteRoom, Handle, Step, RoomCommand, Reply
<1>9. CASE Message(c)
  BY <1>2, <1>3, <1>4, <1>9 DEF Message, Handle, Step, RoomCommand, Reply
<1>10. CASE PrivateMessage(c)
  <2>1. CASE Refuse(c, "MP_KO")
    BY <1>2, <1>10, <2>1 DEF PrivateMessage, Handle, Reply
  <2>2. CASE ~ Refuse(c, "MP_KO")
    <3>1. /\ pc[c] = "lock" /\ pc'[c] = "unlock"
          /\ \A d \in Conn \ {c} : pc'[d] = pc[d]
          /\ UNCHANGED <<tables, u, buffer, target, visit>>
      BY <1>1, <1>10, <2>2 DEF PrivateMessage, Handle, Step, Goto
    <3>2. StandsWell(c)' /\ ~ Departing(c)'
      BY <3>1 DEF StandsWell, Departing
    <3>3. QED
      BY <3>1, <3>2, QuietStep
  <2>3. QED
    BY <2>1, <2>2
<1>11. QED
  BY <1>5, <1>6, <1>7, <1>8, <1>9, <1>10

\* The steps of a broadcast, of the end of a handler, and of a client.
LEMMA QuietMoves ==
  ASSUME IInv, NEW c \in Conn, TypeOK',
         \/ PeerGone(c) \/ Receive(c) \/ Rejected(c)
         \/ JoinNotify(c) \/ JoinAdmin(c) \/ JoinList(c) \/ JoinDone(c)
         \/ Notify(c) \/ MessageDone(c)
         \/ Unlock(c) \/ Answered(c) \/ LeaveRoom(c) \/ Undefined(c)
  PROVE  IInv'
<1>1. /\ pc \in [Conn -> Label] /\ target \in [Conn -> RoomName \cup {NULL}]
      /\ buffer \in [Conn -> Request \cup {NoRequest, EndOfFile}]
      /\ visit[c] \subseteq RoomName \cup {FreedRoom}
      /\ StandsWell(c)
  BY DEF IInv, TypeOK, AllStandWell
<1>2. ASSUME UNCHANGED <<tables, pc, u, buffer, target, visit>>
      PROVE  IInv'
  BY <1>1, <1>2, QuietStep DEF StandsWell, Departing, Leaving, Own
<1>3. CASE PeerGone(c) \/ JoinNotify(c) \/ JoinList(c) \/ Notify(c) \/ Undefined(c)
  BY <1>2, <1>3 DEF PeerGone, JoinNotify, JoinList, Notify, Undefined, locals, tables
<1>4. ASSUME UNCHANGED <<tables, u, visit>>,
             \A d \in Conn \ {c} :
               pc'[d] = pc[d] /\ buffer'[d] = buffer[d] /\ target'[d] = target[d],
             pc[c] \notin {"closed", "exited"},
             pc'[c] \in {"read", "rejected", "unlock", "reply"}
      PROVE  IInv'
  BY <1>4, QuietStep DEF StandsWell, Departing
<1>5. CASE Receive(c)
  <2>1. CASE pc'[c] = "rejected"
    BY <1>1, <1>4, <1>5, <2>1 DEF Receive, Step, Goto
  <2>2. CASE pc'[c] # "rejected"
    <3>1. /\ UNCHANGED <<tables, u, target, visit>>
          /\ pc[c] = "read" /\ pc'[c] = "lock"
          /\ \A d \in Conn \ {c} : pc'[d] = pc[d] /\ buffer'[d] = buffer[d]
          /\ buffer'[c].code \in {"CONNECT", "DISCONNECT"} \/ u[c] # NULL
      BY <1>1, <1>5, <2>2 DEF Receive, Step, Goto
    <3>2. StandsWell(c)' /\ ~ Departing(c)'
      BY <3>1 DEF StandsWell, Departing
    <3>3. QED
      BY <3>1, <3>2, QuietStep
  <2>3. QED
    BY <2>1, <2>2
<1>6. CASE Rejected(c)
  BY <1>1, <1>4, <1>6 DEF Rejected, Step, Goto
<1>7. CASE JoinDone(c) \/ MessageDone(c) \/ Unlock(c)
  BY <1>1, <1>4, <1>7 DEF JoinDone, MessageDone, Unlock, Step, Goto, locals
<1>8. CASE Answered(c)
  BY <1>1, <1>4, <1>8 DEF Answered, Step, Goto
<1>9. CASE LeaveRoom(c)
  <2>1. PICK r \in visit[c] \ {FreedRoom} :
          Broadcast(c, r, get_users(r, rooms), IF IsAdmin(c, r) THEN "delete" ELSE "quit")
    BY <1>9 DEF LeaveRoom
  <2>2. /\ r \in RoomName
        /\ pc[c] = "leave" /\ pc'[c] \in {"quit", "delete"}
        /\ target'[c] = r
        /\ \A d \in Conn \ {c} : pc'[d] = pc[d] /\ target'[d] = target[d]
        /\ UNCHANGED <<tables, u, buffer, visit>>
    BY <1>1, <1>9, <2>1 DEF LeaveRoom, Step, Broadcast, Goto
  <2>3. Departing(c)
    BY <1>1, <2>2 DEF StandsWell, Departing
  <2>4. StandsWell(c)'
    BY <1>1, <2>2, <2>3 DEF StandsWell, Own
  <2>5. QED
    BY <2>2, <2>3, <2>4, QuietStep
<1>10. CASE JoinAdmin(c)
  <2>1. /\ UNCHANGED <<tables, u, buffer, target, visit>>
        /\ pc[c] = "join_admin" /\ pc'[c] = "join_list"
        /\ \A d \in Conn \ {c} : pc'[d] = pc[d]
    BY <1>1, <1>10 DEF JoinAdmin, ListRoom, Step, Goto
  <2>2. StandsWell(c)' /\ ~ Departing(c)'
    BY <1>1, <2>1 DEF StandsWell, Departing, Own
  <2>3. QED
    BY <2>1, <2>2, QuietStep
<1>11. QED
  BY <1>3, <1>5, <1>6, <1>7, <1>8, <1>9, <1>10

\* A thread that starts may find in its u a user that was freed, never a user
\* that some table still points at.
LEMMA AcceptStep ==
  ASSUME IInv, NEW c \in Conn, TypeOK', Accept(c)
  PROVE  IInv'
<1>1. /\ pc[c] = "closed" /\ pc'[c] = "read"
      /\ \A d \in Conn \ {c} : pc'[d] = pc[d] /\ u'[d] = u[d]
      /\ UNCHANGED <<tables, buffer, target, visit>>
  BY DEF Accept, Step, Goto, IInv, TypeOK
<1>2. TablesWellKept' /\ ListedUsers' = ListedUsers
  BY <1>1 DEF IInv, TablesWellKept, ListedUsers, tables
<1>3. Own(c)' \/ u'[c] = NULL \/ pc'[u'[c].socket] = "exited"
  <2>1. PICK left \in {NULL} \cup {u[d] : d \in {e \in Conn : StackReuse /\ pc[e] = "exited"}} :
          u' = [u EXCEPT ![c] = left]
    BY DEF Accept
  <2>2. u'[c] = left
    BY <2>1 DEF IInv, TypeOK
  <2>3. CASE left # NULL
    <3>1. PICK d \in Conn : pc[d] = "exited" /\ left = u[d]
      BY <2>3
    <3>2. u[d].socket \in Conn /\ (Own(d) \/ pc[u[d].socket] = "exited")
      BY <2>3, <3>1, StandsTyped DEF IInv, OwnOrStale
    <3>3. pc[u[d].socket] = "exited" /\ u[d].socket # c
      BY <1>1, <3>1, <3>2 DEF Own
    <3>4. QED
      BY <1>1, <2>2, <3>1, <3>2, <3>3
  <2>4. QED
    BY <2>2, <2>3
<1>4. StandsWell(c)' /\ ~ Departing(c)'
  BY <1>1 DEF StandsWell, Departing
<1>5. \A x \in ListedUsers : x.socket # c
  BY <1>1, ListedHere
<1>6. QED
  BY <1>1, <1>2, <1>3, <1>4, <1>5, TableStep DEF tables

\* A new room holds its creator.
LEMMA CreateRoomStep ==
  ASSUME IInv, NEW c \in Conn, TypeOK', CreateRoom(c)
  PROVE  IInv'
<1> DEFINE r     == buffer[c].room
           added == add_room(r, u[c], rooms)
<1>1. CASE Refuse(c, "CREATE_ROOM_KO")
  BY <1>1, QuietCommands DEF CreateRoom, Handle, Reply
<1>2. CASE ~ Refuse(c, "CREATE_ROOM_KO")
  <2>1. /\ ~ Freed(u[c])
        /\ rooms' = add_user_in_room(u[c], r, added)
        /\ pc[c] = "lock" /\ pc'[c] = "unlock"
        /\ \A d \in Conn \ {c} : pc'[d] = pc[d]
        /\ UNCHANGED <<server_user_map, u, buffer, target, visit>>
    BY <1>2 DEF CreateRoom, Handle, Step, Goto, IInv, TypeOK
  <2>2. r \in RoomName /\ u[c] # NULL
    BY <2>1, StandsTyped
      DEF CreateRoom, Handle, RoomCommand, IInv, AllStandWell, StandsWell
  <2>3. Own(c) /\ u[c] \in user
    BY <2>1, <2>2, NotFreedIsOwn
  <2>4. rooms \in room_map /\ WellKept(RoomName, rooms)
    BY DEF IInv, TypeOK, TablesWellKept
  <2>5. /\ added \in room_map /\ WellKept(RoomName, added)
        /\ \A q \in AllRooms(added) :
             q \in AllRooms(rooms) \/ Users(q.users) \subseteq user \cap {u[c]}
    BY <2>2, <2>3, <2>4, AddRoom
  <2> HIDE DEF added
  <2>6. /\ WellKept(RoomName, rooms')
        /\ \A q \in AllRooms(rooms'), y \in user :
             y \in Users(q.users) =>
               \/ y = u[c]
               \/ \E p \in AllRooms(added) : p.name = q.name /\ y \in Users(p.users)
    BY <2>1, <2>2, <2>3, <2>5, AddUserInRoom
  <2>7. TablesWellKept'
    BY <2>1, <2>6 DEF IInv, TablesWellKept
  <2>8. \A q \in AllRooms(rooms') : \A x \in Users(q.users) :
          \/ x = u'[c] /\ x.socket = c
          \/ \E p \in AllRooms(rooms) : p.name = q.name /\ x \in Users(p.users)
    <3> SUFFICES ASSUME NEW q \in AllRooms(rooms'), NEW x \in Users(q.users), x # u[c]
                 PROVE  \E p \in AllRooms(rooms) : p.name = q.name /\ x \in Users(p.users)
      BY <2>1, <2>3 DEF Own
    <3>1. x \in user
      BY AllRoomsOf, UsersOf DEF TypeOK, room
    <3>2. PICK p \in AllRooms(added) : p.name = q.name /\ x \in Users(p.users)
      BY <2>6, <3>1
    <3>3. QED
      BY <2>5, <3>2
  <2>9. \A x \in ListedUsers' : x.socket = c => u'[c] = x
    <3> SUFFICES ASSUME NEW x \in ListedUsers', x.socket = c, x # u[c]
                 PROVE  FALSE
      BY <2>1
    <3>1. x \in ListedUsers
      BY <2>1, <2>8, ListedHere DEF ListedUsers
    <3>2. QED
      BY <3>1, ListedHere
  <2>10. StandsWell(c)' /\ ~ Departing(c)' /\ Own(c)'
    BY <2>1, <2>3 DEF StandsWell, Departing, Own
  <2>11. QED
    BY <2>1, <2>7, <2>8, <2>9, <2>10, TableStep
<1>3. QED
  BY <1>1, <1>2

\* A user that logs in is the first one of its connection.
LEMMA ConnectStep ==
  ASSUME IInv, NEW c \in Conn, TypeOK', Connect(c)
  PROVE  IInv'
<1> DEFINE new == [name |-> buffer[c].name, socket |-> c]
<1>1. CASE Refuse(c, "CONNECT_KO")
  BY <1>1, QuietCommands DEF Connect, Handle, Reply
<1>2. CASE ~ Refuse(c, "CONNECT_KO")
  <2>1. /\ u[c] = NULL
        /\ u'[c] = new
        /\ server_user_map' = add_user(new, server_user_map)
        /\ pc[c] = "lock" /\ pc'[c] = "join_new"
        /\ target'[c] = HomeRoom
        /\ \A d \in Conn \ {c} : pc'[d] = pc[d] /\ target'[d] = target[d] /\ u'[d] = u[d]
        /\ buffer[c].code = "CONNECT"
        /\ UNCHANGED <<rooms, buffer, visit>>
    BY <1>2 DEF Connect, LoginRefused, Handle, Step, Goto, Broadcast, IInv, TypeOK
  <2>2. new \in user
    BY <2>1, StandsTyped DEF user
  <2>3. new.socket = c
    OBVIOUS
  <2> HIDE DEF new
  <2>4. server_user_map \in user_map /\ WellHashed(server_user_map)
    BY DEF IInv, TypeOK, TablesWellKept
  <2>5. /\ WellHashed(server_user_map')
        /\ Users(server_user_map') \subseteq Users(server_user_map) \cup {new}
    BY <2>1, <2>2, <2>4, AddUser
  <2>6. TablesWellKept'
    BY <2>1, <2>5 DEF IInv, TablesWellKept
  <2>7. \A x \in ListedUsers' : x.socket = c => u'[c] = x
    <3> SUFFICES ASSUME NEW x \in ListedUsers', x.socket = c, x # new
                 PROVE  FALSE
      BY <2>1
    <3>1. x \in ListedUsers
      BY <2>1, <2>5 DEF ListedUsers
    <3>2. QED
      BY <2>1, <3>1, ListedHere
  <2>8. StandsWell(c)' /\ ~ Departing(c)' /\ Own(c)'
    BY <2>1, <2>2, <2>3, NullIsNoUser, ConstantsAssumption DEF StandsWell, Departing, Own
  <2>9. QED
    BY <2>1, <2>3, <2>5, <2>6, <2>7, <2>8, TableStep
<1>3. QED
  BY <1>1, <1>2

\* Who enters a room is the thread's own user.
LEMMA JoinEnterStep ==
  ASSUME IInv, NEW c \in Conn, TypeOK', JoinEnter(c)
  PROVE  IInv'
<1>1. /\ rooms' = add_user_in_room(u[c], target[c], rooms)
      /\ pc[c] = "join_new" /\ pc'[c] \in {"join_admin", "join_list"}
      /\ \A d \in Conn \ {c} : pc'[d] = pc[d]
      /\ UNCHANGED <<server_user_map, u, buffer, target, visit>>
  BY DEF JoinEnter, ListRoom, Step, Goto, IInv, TypeOK
<1>2. target[c] \in RoomName /\ Own(c) /\ u[c] \in user
  BY <1>1, StandsTyped
<1>3. rooms \in room_map /\ WellKept(RoomName, rooms)
  BY DEF IInv, TypeOK, TablesWellKept
<1>4. /\ WellKept(RoomName, rooms')
      /\ \A q \in AllRooms(rooms'), y \in user :
           y \in Users(q.users) =>
             \/ y = u[c]
             \/ \E p \in AllRooms(rooms) : p.name = q.name /\ y \in Users(p.users)
  BY <1>1, <1>2, <1>3, AddUserInRoom
<1>5. TablesWellKept'
  BY <1>1, <1>4 DEF IInv, TablesWellKept
<1>6. \A q \in AllRooms(rooms') : Users(q.users) \subseteq user
  BY AllRoomsOf, UsersOf DEF TypeOK, room
<1>7. \A q \in AllRooms(rooms') : \A x \in Users(q.users) :
        \/ x = u'[c] /\ x.socket = c
        \/ \E p \in AllRooms(rooms) : p.name = q.name /\ x \in Users(p.users)
  BY <1>1, <1>2, <1>4, <1>6 DEF Own
<1>8. \A x \in ListedUsers' : x.socket = c => u'[c] = x
  <2> SUFFICES ASSUME NEW x \in ListedUsers', x.socket = c, x # u[c]
               PROVE  FALSE
    BY <1>1
  <2>1. x \in ListedUsers
    BY <1>1, <1>7, ListedHere DEF ListedUsers
  <2>2. QED
    BY <2>1, ListedHere
<1>9. StandsWell(c)' /\ ~ Departing(c)' /\ Own(c)'
  BY <1>1, <1>2 DEF StandsWell, Departing, Own
<1>10. QED
  BY <1>1, <1>5, <1>7, <1>8, <1>9, TableStep

\* A room that is left or deleted, by a command or on the way out.
LEMMA RoomLeftStep ==
  ASSUME IInv, NEW c \in Conn, TypeOK', QuitDone(c) \/ DeleteDone(c)
  PROVE  IInv'
<1> DEFINE r == target[c]
<1>1. /\ pc[c] \in {"quit", "delete"} /\ pc'[c] \in {"leave", "unlock"}
      /\ pc'[c] = "leave" <=> Leaving(c)
      /\ \A d \in Conn \ {c} : pc'[d] = pc[d]
      /\ UNCHANGED <<server_user_map, u, buffer, target>>
  BY DEF QuitDone, DeleteDone, Step, Resume, Goto, IInv, TypeOK
<1>2. /\ r \in RoomName
      /\ Leaving(c) => Own(c) /\ u[c] \in user
      /\ pc[c] = "quit" => Own(c) /\ u[c] \in user
  BY <1>1, StandsTyped DEF Departing
<1>3. rooms \in room_map /\ WellKept(RoomName, rooms)
  BY DEF IInv, TypeOK, TablesWellKept
<1>4. \A q \in AllRooms(rooms') : Users(q.users) \subseteq user
  BY AllRoomsOf, UsersOf DEF TypeOK, room
<1>5. /\ WellKept(RoomName, rooms')
      /\ \A q \in AllRooms(rooms') : \A y \in Users(q.users) :
           /\ q.name = r => pc[c] = "quit" /\ y # u[c]
           /\ \E p \in AllRooms(rooms) : p.name = q.name /\ y \in Users(p.users)
  <2>1. CASE QuitDone(c)
    <3>1. rooms' = remove_user_from_room(u[c], r, rooms) /\ pc[c] = "quit"
      BY <2>1 DEF QuitDone, Step
    <3>2. /\ WellKept(RoomName, rooms')
          /\ \A q \in AllRooms(rooms'), y \in user :
               y \in Users(q.users) =>
                 /\ q.name = r => y # u[c]
                 /\ \E p \in AllRooms(rooms) : p.name = q.name /\ y \in Users(p.users)
      BY <1>2, <1>3, <3>1, RemoveUserFromRoom
    <3>3. QED
      BY <1>4, <3>1, <3>2
  <2>2. CASE DeleteDone(c)
    BY <1>2, <1>3, <2>2, RemoveRoom DEF DeleteDone
  <2>3. QED
    BY <2>1, <2>2
<1>6. /\ \A n \in visit[c] : n # r => n \in visit'[c]
      /\ \A d \in Conn \ {c} : \A q \in AllRooms(rooms') :
           q.name \in visit[d] => q.name \in visit'[d]
  <2>1. CASE QuitDone(c)
    BY <2>1 DEF QuitDone, IInv, TypeOK
  <2>2. CASE DeleteDone(c)
    <3>1. \A d \in Conn : \A n \in visit[d] : n # r => n \in visit'[d]
      BY <2>2 DEF DeleteDone
    <3>2. \A q \in AllRooms(rooms') : q.name # r
      BY <1>2, <1>3, <2>2, RemoveRoom DEF DeleteDone
    <3>3. QED
      BY <3>1, <3>2
  <2>3. QED
    BY <2>1, <2>2
<1>7. TablesWellKept'
  BY <1>1, <1>5 DEF IInv, TablesWellKept
<1>8. ListedUsers' \subseteq ListedUsers
  BY <1>1, <1>5 DEF ListedUsers
<1>9. \A x \in ListedUsers' : x.socket = c =>
        u'[c] = x /\ pc'[c] \notin {"closed", "exited"}
  BY <1>1, <1>8, ListedHere
<1>10. StandsWell(c)' /\ (Departing(c)' => Departing(c))
  BY <1>1, <1>2 DEF StandsWell, Departing, Leaving, Own
<1>11. Own(c)' \/ u'[c] = NULL \/ pc'[u'[c].socket] = "exited"
  <2>1. Own(c) \/ u[c] = NULL \/ (u[c].socket \in Conn /\ pc[u[c].socket] = "exited")
    BY StandsTyped DEF IInv, OwnOrStale
  <2>2. QED
    BY <1>1, <2>1 DEF Own
<1>12. Departing(c)' =>
         \A q \in AllRooms(rooms') : u'[c] \in Users(q.users) => q.name \in visit'[c]
  BY <1>1, <1>2, <1>5, <1>6, <1>10 DEF IInv, LeavesEveryRoom
<1>13. QED
  BY <1>1, <1>5, <1>6, <1>7, <1>9, <1>10, <1>11, <1>12, TableStep

\* A user on its way out lists every room it is in; a thread without a user
\* ends at once.
LEMMA BeginLeavingStep ==
  ASSUME IInv, NEW c \in Conn, TypeOK', Disconnect(c) \/ ConnectionStopped(c)
  PROVE  IInv'
<1>1. /\ pc[c] \in {"lock", "read"}
      /\ \A d \in Conn \ {c} :
           pc'[d] = pc[d] /\ buffer'[d] = buffer[d] /\ target'[d] = target[d]
      /\ UNCHANGED <<tables, u>>
      /\ \A d \in Conn \ {c} : visit'[d] = visit[d]
  BY DEF Disconnect, ConnectionStopped, Handle, Step, Exit, BeginLeaving, Goto, IInv, TypeOK
<1>2. TablesWellKept' /\ ListedUsers' = ListedUsers
  BY <1>1 DEF IInv, TablesWellKept, ListedUsers, tables
<1>3. CASE u[c] = NULL
  <2>1. pc'[c] = "exited"
    BY <1>3 DEF Disconnect, ConnectionStopped, Exit, Goto, IInv, TypeOK
  <2>2. \A x \in ListedUsers : x.socket # c
    BY <1>3, ListedHere
  <2>3. StandsWell(c)' /\ ~ Departing(c)'
    BY <2>1 DEF StandsWell, Departing
  <2>4. QED
    BY <1>1, <1>2, <1>3, <2>1, <2>2, <2>3, TableStep DEF tables
<1>4. CASE u[c] # NULL
  <2>1. /\ ~ Freed(u[c])
        /\ pc'[c] = "leave"
        /\ visit'[c] = get_user_rooms(u[c], rooms)
        /\ buffer'[c].code \in {"DISCONNECT", "EOF"}
    BY <1>4 DEF Disconnect, ConnectionStopped, Handle, BeginLeaving, Goto,
                EndOfFile, Req, IInv, TypeOK
  <2>2. Own(c) /\ Own(c)'
    BY <1>1, <1>4, <2>1, NotFreedIsOwn DEF Own
  <2>3. \A q \in AllRooms(rooms) : u[c] \in Users(q.users) => q.name \in visit'[c]
    <3>1. \A q \in AllRooms(rooms) : q.name \in RoomName
      BY AllRoomsOf DEF IInv, TypeOK, room
    <3>2. QED
      BY <2>1, <3>1, GetUserRooms DEF IInv, TablesWellKept, TypeOK
  <2>4. StandsWell(c)'
    BY <2>1, <2>2 DEF StandsWell, Leaving
  <2>5. \A x \in ListedUsers : x.socket = c => u'[c] = x
    BY <1>1, ListedHere
  <2>6. QED
    BY <1>1, <1>2, <2>1, <2>2, <2>3, <2>4, <2>5, TableStep DEF tables
<1>5. QED
  BY <1>3, <1>4

\* When the thread exits its user is in no table: it left every room of its
\* list, the list has every room it was in, and remove_user took it out.
LEMMA LeaveDoneStep ==
  ASSUME IInv, NEW c \in Conn, TypeOK', LeaveDone(c)
  PROVE  IInv'
<1>1. /\ pc[c] = "leave" /\ pc'[c] = "exited"
      /\ visit[c] = {}
      /\ server_user_map' = remove_user(u[c], server_user_map)
      /\ \A d \in Conn \ {c} :
           pc'[d] = pc[d] /\ buffer'[d] = buffer[d] /\ target'[d] = target[d]
      /\ UNCHANGED <<rooms, u, visit>>
  BY DEF LeaveDone, Step, Exit, Goto, IInv, TypeOK
<1>2. Departing(c)
  BY <1>1 DEF IInv, AllStandWell, StandsWell, Departing
<1>3. Own(c) /\ u[c] \in user
  BY <1>2, StandsTyped
<1>4. /\ WellHashed(server_user_map')
      /\ Users(server_user_map') \subseteq Users(server_user_map)
      /\ u[c] \notin Users(server_user_map')
  BY <1>1, <1>3, RemoveUser DEF IInv, TypeOK, TablesWellKept
<1>5. TablesWellKept'
  BY <1>1, <1>4 DEF IInv, TablesWellKept
<1>6. \A q \in AllRooms(rooms) : u[c] \notin Users(q.users)
  BY <1>1, <1>2 DEF IInv, LeavesEveryRoom
<1>7. \A x \in ListedUsers' : x.socket # c
  <2> SUFFICES ASSUME NEW x \in ListedUsers', x.socket = c
               PROVE  FALSE
    OBVIOUS
  <2>1. x \in ListedUsers /\ x # u[c]
    BY <1>1, <1>4, <1>6 DEF ListedUsers
  <2>2. QED
    BY <2>1, ListedHere
<1>8. StandsWell(c)' /\ ~ Departing(c)' /\ Own(c)'
  BY <1>1, <1>3 DEF StandsWell, Departing, Own
<1>9. QED
  BY <1>1, <1>4, <1>5, <1>7, <1>8, TableStep

\* The invariant is inductive.
LEMMA StepPreserves == IInv /\ [Next]_vars => IInv'
<1> SUFFICES ASSUME IInv, [Next]_vars PROVE IInv'
  OBVIOUS
<1>1. CASE UNCHANGED vars
  BY <1>1 DEF IInv, TypeOK, TablesWellKept, ListedIsOwned, ListedUsers, OwnOrStale,
     AllStandWell, StandsWell, Departing, Leaving, Own, LeavesEveryRoom,
     vars, tables, locals, peers
<1>2. ASSUME NEW c \in Conn, Accept(c) \/ PeerGone(c) \/ Receive(c) \/ Work(c)
      PROVE  IInv'
  <2>1. TypeOK'
    BY <1>2, AcceptTypes, CreateTypes, CommandTypes, BroadcastStepTypes, LeavingTypes DEF Work
  <2>2. QED
    BY <1>2, <2>1, AcceptStep, CreateRoomStep, ConnectStep, JoinEnterStep, RoomLeftStep,
       BeginLeavingStep, LeaveDoneStep, QuietCommands, QuietMoves DEF Work
<1>3. QED
  BY <1>1, <1>2 DEF Next, Stopped

----------------------------------------------------------------------------
(***************************************************************************)
(* The theorems.                                                           *)
(***************************************************************************)

\* The invariant that the theorems below rest on holds of every run of the
\* server (server.c:111-355).
THEOREM InvariantHolds == Spec => []IInv
  BY InitEstablishes, StepPreserves, PTL DEF Spec

\* The state of the server always has its types: every pointer in a table or
\* in a snapshot is to a user struct, every chain is a list of rooms.
THEOREM TypeCorrect == Spec => []TypeOK
<1>1. IInv => TypeOK
  BY DEF IInv
<1>2. QED
  BY <1>1, InvariantHolds, PTL

\* No table ever points at a user that its thread has freed (server.c:220-243
\* and 338-355), for any number of connections, any logins and names, any hash
\* functions, and clients that vanish at any time.
THEOREM UsersInTablesAreLive == Spec => []NoFreedUserInTables
<1>1. IInv => NoFreedUserInTables
  BY DEF IInv, ListedIsOwned, NoFreedUserInTables, Freed
<1>2. QED
  BY <1>1, InvariantHolds, PTL

----------------------------------------------------------------------------
(***************************************************************************)
(* ChatServer implements ChatService whenever no two logins and no two     *)
(* names of rooms share a bucket, for any number of connections, clients   *)
(* that vanish at any time, and stacks that are used again.                *)
(*                                                                         *)
(* Then, for clients that do not vanish and stacks that are fresh: nothing *)
(* that was freed is ever used, and clients display the rooms as they are. *)
(***************************************************************************)

\* What ApartInv adds to IInv.
Kept == LoggedInIsListed /\ RoomsHaveAdmins /\ AdminsDelete

\* What a step of thread c has to show.
Serves == Kept' /\ [Service!Next]_(Service!svars)

----------------------------------------------------------------------------
(***************************************************************************)
(* What the tables say, in the terms of the service.                       *)
(***************************************************************************)

\* A table with at most one user of a connection knows it as that user.
LEMMA Known ==
  ASSUME NEW map, NEW c, NEW w,
         \A y \in Users(map) : y.socket = c => y = w
  PROVE  KnownIn(map, c) = IF w \in Users(map) /\ w.socket = c THEN w.name ELSE NULL
<1> DEFINE entries == {x \in Users(map) : x.socket = c}
<1>1. CASE w \in Users(map) /\ w.socket = c
  <2>1. entries = {w}
    BY <1>1
  <2>2. QED
    BY <1>1, <2>1 DEF KnownIn
<1>2. CASE ~ (w \in Users(map) /\ w.socket = c)
  <2>1. entries = {}
    BY <1>2
  <2>2. QED
    BY <1>2, <2>1 DEF KnownIn
<1>3. QED
  BY <1>1, <1>2

\* Two tables with the same users of a connection know it alike.
LEMMA KnownAlike ==
  ASSUME NEW old, NEW new, NEW c,
         \A x : x.socket = c => (x \in Users(new) <=> x \in Users(old))
  PROVE  KnownIn(new, c) = KnownIn(old, c)
<1> DEFINE Entries(map) == {x \in Users(map) : x.socket = c}
           Value(entries) ==
             IF entries = {} THEN NULL ELSE (CHOOSE x \in entries : TRUE).name
<1>1. Entries(new) = Entries(old)
  OBVIOUS
<1>2. KnownIn(new, c) = Value(Entries(new)) /\ KnownIn(old, c) = Value(Entries(old))
  BY DEF KnownIn
<1> HIDE DEF Entries, Value
<1>3. QED
  BY <1>1, <1>2

\* Whoever is logged in is in the table of users, under a login of its own, and
\* the service knows it by that login; everybody else is offline.
LEMMA KnownNow ==
  ASSUME ApartInv, NEW c \in Conn
  PROVE  /\ LoggedIn(c) => u[c] \in user /\ u[c] \in Users(server_user_map)
         /\ KnownIn(server_user_map, c) = IF LoggedIn(c) THEN u[c].name ELSE NULL
         /\ KnownIn(server_user_map, c) # NULL <=> LoggedIn(c)
<1>1. IInv
  BY DEF ApartInv
<1>2. \A y \in Users(server_user_map) :
        y.socket = c => y = u[c] /\ u[c] # NULL /\ pc[c] # "exited"
  BY <1>1, ListedHere
<1>3. LoggedIn(c) <=> u[c] \in Users(server_user_map) /\ u[c].socket = c
  BY <1>2 DEF ApartInv, LoggedInIsListed, LoggedIn
<1>4. KnownIn(server_user_map, c) = IF LoggedIn(c) THEN u[c].name ELSE NULL
  BY <1>2, <1>3, Known
<1>5. LoggedIn(c) => u[c] \in user /\ u[c].name \in Login
  BY <1>1, StandsTyped DEF LoggedIn
<1>6. QED
  BY <1>3, <1>4, <1>5, ConstantsAssumption

\* A user that is in a room is that of a thread that is logged in, and no other
\* user of the room has its login or its socket.
LEMMA InRoomIsLoggedIn ==
  ASSUME ApartInv, NEW n \in RoomName, NEW x \in get_users(n, rooms)
  PROVE  /\ x \in user /\ x.socket \in Conn
         /\ u[x.socket] = x /\ LoggedIn(x.socket)
         /\ x \in Users(server_user_map)
<1>1. IInv
  BY DEF ApartInv
<1>2. rooms \in room_map /\ WellKept(RoomName, rooms)
  BY <1>1 DEF IInv, TypeOK, TablesWellKept
<1>3. x \in user
  BY <1>2, GetUsers
<1>4. PICK r \in AllRooms(rooms) : x \in Users(r.users)
  BY <1>2, GetUsers
<1>5. x \in ListedUsers
  BY <1>4 DEF ListedUsers
<1>6. x.socket \in Conn
  BY <1>3 DEF user
<1>7. u[x.socket] = x /\ u[x.socket] # NULL /\ pc[x.socket] # "exited"
  BY <1>1, <1>5, <1>6, ListedHere
<1>8. LoggedIn(x.socket)
  BY <1>7 DEF LoggedIn
<1>9. QED
  BY <1>3, <1>6, <1>7, <1>8, KnownNow

\* Who has the login of a thread that is logged in, or its socket, is its user.
LEMMA OnlyOne ==
  ASSUME ApartInv, NEW c \in Conn, LoggedIn(c), NEW n \in RoomName,
         NEW x \in get_users(n, rooms), x.name = u[c].name \/ x.socket = c
  PROVE  x = u[c]
<1>1. x \in Users(server_user_map) /\ u[x.socket] = x
  BY InRoomIsLoggedIn
<1>2. u[c] \in Users(server_user_map)
  BY KnownNow
<1>3. server_user_map \in user_map /\ WellHashed(server_user_map)
  BY DEF ApartInv, IInv, TypeOK, TablesWellKept
<1>4. QED
  BY <1>1, <1>2, <1>3, OneOfALogin

\* A room with an admin has it among its users.
LEMMA AdminIsIn ==
  ASSUME ApartInv, NEW n \in RoomName, get_admin(n, rooms) # NULL
  PROVE  /\ is_room_used(n, rooms) /\ n # HomeRoom
         /\ get_admin(n, rooms) \in get_users(n, rooms)
<1>1. is_room_used(n, rooms)
  BY DEF get_admin
<1>2. n # HomeRoom
  BY DEF ApartInv, RoomsHaveAdmins
<1>3. QED
  BY <1>1, <1>2 DEF ApartInv, RoomsHaveAdmins, RoomNames

----------------------------------------------------------------------------
(***************************************************************************)
(* The steps of the service, read off the tables.                          *)
(***************************************************************************)

\* A step that leaves the tables alone, and logs nobody in, is no step of the
\* service.
LEMMA Unmoved ==
  ASSUME ApartInv, NEW c \in Conn,
         UNCHANGED tables,
         \A d \in Conn \ {c} : pc'[d] = pc[d] /\ u'[d] = u[d] /\ target'[d] = target[d],
         LoggedIn(c)' => LoggedIn(c) /\ u'[c] = u[c],
         AdminDeletes(c)'
  PROVE  Serves
<1>1. LoggedInIsListed'
  <2> SUFFICES ASSUME NEW d \in Conn, LoggedIn(d)'
               PROVE  u'[d] \in Users(server_user_map')
    BY DEF LoggedInIsListed
  <2>1. LoggedIn(d) /\ u'[d] = u[d]
    BY DEF LoggedIn
  <2>2. QED
    BY <2>1 DEF ApartInv, LoggedInIsListed, tables
<1>2. RoomsHaveAdmins'
  BY DEF ApartInv, RoomsHaveAdmins, RoomNames, tables
<1>3. ASSUME NEW d \in Conn, d # c
      PROVE  AdminDeletes(d)'
  <2>1. AdminDeletes(d)
    BY DEF ApartInv, AdminsDelete
  <2>2. QED
    BY <1>3, <2>1 DEF AdminDeletes, Own, tables
<1>4. AdminsDelete'
  BY <1>3 DEF AdminsDelete
<1>5. UNCHANGED Service!svars
  BY DEF Service!svars, tables, KnownAs, RoomNames
<1>6. QED
  BY <1>1, <1>2, <1>4, <1>5 DEF Serves, Kept

\* A step that changes one room, for the user of its thread, disturbs no other
\* thread that is leaving or deleting a room.
LEMMA OthersUndisturbed ==
  ASSUME ApartInv, NEW c \in Conn, Own(c), u'[c] = u[c],
         \A d \in Conn \ {c} : pc'[d] = pc[d] /\ u'[d] = u[d] /\ target'[d] = target[d],
         pc'[c] \notin {"delete", "quit"},
         \A n \in RoomName :
           \/ /\ is_room_used(n, rooms') <=> is_room_used(n, rooms)
              /\ get_admin(n, rooms') = get_admin(n, rooms)
           \/ ~ is_room_used(n, rooms) /\ get_admin(n, rooms') = u[c]
           \/ get_admin(n, rooms) = u[c] /\ get_admin(n, rooms') = NULL
  PROVE  AdminsDelete'
<1> SUFFICES ASSUME NEW d \in Conn, d # c, pc[d] \in {"delete", "quit"}
             PROVE  AdminDeletes(d)'
  BY DEF AdminsDelete, AdminDeletes
<1> DEFINE n == target[d]
<1>1. n \in RoomName /\ StandsWell(d)
  BY StandsTyped DEF ApartInv, IInv, AllStandWell
<1>2. AdminDeletes(d)
  BY DEF ApartInv, AdminsDelete
<1>3. Own(d)
  BY <1>1, <1>2 DEF StandsWell, AdminDeletes
<1>4. u[d] # u[c] /\ u[d] # NULL
  BY <1>3 DEF Own
<1>5. QED
  BY <1>1, <1>2, <1>3, <1>4 DEF AdminDeletes, Own

\* Nobody's login changes when the table of users does not.
LEMMA UsersUnmoved ==
  ASSUME ApartInv, NEW c \in Conn, UNCHANGED <<server_user_map, u>>,
         pc[c] # "exited",
         \A d \in Conn \ {c} : pc'[d] = pc[d]
  PROVE  LoggedInIsListed'
<1> SUFFICES ASSUME NEW d \in Conn, LoggedIn(d)'
             PROVE  u[d] \in Users(server_user_map)
  BY DEF LoggedInIsListed
<1>1. LoggedIn(d)
  BY DEF LoggedIn
<1>2. QED
  BY <1>1 DEF ApartInv, LoggedInIsListed

\* A step of the service that changes one room.
LEMMA RoomStep ==
  ASSUME NEW c \in Conn, NEW r \in RoomName,
         UNCHANGED server_user_map,
         \A n \in RoomName \ {r} :
           /\ is_room_used(n, rooms') <=> is_room_used(n, rooms)
           /\ SocketsIn(n, rooms') = SocketsIn(n, rooms)
           /\ AdminIn(n, rooms') = AdminIn(n, rooms),
         KnownIn(server_user_map, c) # NULL
  PROVE  /\ /\ ~ is_room_used(r, rooms) /\ is_room_used(r, rooms')
            /\ SocketsIn(r, rooms') = {c} /\ AdminIn(r, rooms') = c
            => Service!Next
         /\ /\ is_room_used(r, rooms) /\ is_room_used(r, rooms')
            /\ SocketsIn(r, rooms') = SocketsIn(r, rooms) \cup {c}
            /\ AdminIn(r, rooms') = AdminIn(r, rooms)
            => Service!Next
         /\ /\ is_room_used(r, rooms) /\ is_room_used(r, rooms')
            /\ c \in SocketsIn(r, rooms) /\ AdminIn(r, rooms) # c
            /\ SocketsIn(r, rooms') = SocketsIn(r, rooms) \ {c}
            /\ AdminIn(r, rooms') = AdminIn(r, rooms)
            => Service!Next
         /\ /\ is_room_used(r, rooms) /\ ~ is_room_used(r, rooms')
            /\ AdminIn(r, rooms) = c
            /\ SocketsIn(r, rooms') = {} /\ AdminIn(r, rooms') = NULL
            => Service!Next
<1> DEFINE online == [d \in Conn |-> KnownAs(d)]
<1>1. online' = online /\ Service!Online(c)
  BY DEF KnownAs, Service!Online
<1>2. ASSUME ~ is_room_used(r, rooms), is_room_used(r, rooms'),
             SocketsIn(r, rooms') = {c}, AdminIn(r, rooms') = c
      PROVE  Service!Next
  <2>1. RoomNames(rooms)' = RoomNames(rooms) \cup {r} /\ r \notin RoomNames(rooms)
    BY <1>2 DEF RoomNames
  <2>2. [n \in RoomName |-> SocketsIn(n, rooms')]
          = [[n \in RoomName |-> SocketsIn(n, rooms)] EXCEPT ![r] = {c}]
    BY <1>2
  <2>3. [n \in RoomName |-> AdminIn(n, rooms')]
          = [[n \in RoomName |-> AdminIn(n, rooms)] EXCEPT ![r] = c]
    BY <1>2
  <2>4. Service!Create(c, r)
    BY <1>1, <2>1, <2>2, <2>3 DEF Service!Create
  <2>5. QED
    BY <2>4 DEF Service!Next
<1>3. ASSUME is_room_used(r, rooms), is_room_used(r, rooms'),
             SocketsIn(r, rooms') = SocketsIn(r, rooms) \cup {c},
             AdminIn(r, rooms') = AdminIn(r, rooms)
      PROVE  Service!Next
  <2>1. RoomNames(rooms)' = RoomNames(rooms) /\ r \in RoomNames(rooms)
    BY <1>3 DEF RoomNames
  <2>2. [n \in RoomName |-> SocketsIn(n, rooms')]
          = [[n \in RoomName |-> SocketsIn(n, rooms)] EXCEPT ![r] = @ \cup {c}]
    BY <1>3
  <2>3. [n \in RoomName |-> AdminIn(n, rooms')] = [n \in RoomName |-> AdminIn(n, rooms)]
    BY <1>3
  <2>4. Service!Join(c, r)
    BY <1>1, <2>1, <2>2, <2>3 DEF Service!Join
  <2>5. QED
    BY <2>4 DEF Service!Next
<1>4. ASSUME is_room_used(r, rooms), is_room_used(r, rooms'),
             c \in SocketsIn(r, rooms), AdminIn(r, rooms) # c,
             SocketsIn(r, rooms') = SocketsIn(r, rooms) \ {c},
             AdminIn(r, rooms') = AdminIn(r, rooms)
      PROVE  Service!Next
  <2>1. RoomNames(rooms)' = RoomNames(rooms)
    BY <1>4 DEF RoomNames
  <2>2. [n \in RoomName |-> SocketsIn(n, rooms')]
          = [[n \in RoomName |-> SocketsIn(n, rooms)] EXCEPT ![r] = @ \ {c}]
    BY <1>4
  <2>3. [n \in RoomName |-> AdminIn(n, rooms')] = [n \in RoomName |-> AdminIn(n, rooms)]
    BY <1>4
  <2>4. Service!Leave(c, r)
    BY <1>1, <1>4, <2>1, <2>2, <2>3 DEF Service!Leave
  <2>5. QED
    BY <2>4 DEF Service!Next
<1>5. ASSUME is_room_used(r, rooms), ~ is_room_used(r, rooms'),
             AdminIn(r, rooms) = c,
             SocketsIn(r, rooms') = {}, AdminIn(r, rooms') = NULL
      PROVE  Service!Next
  <2>1. RoomNames(rooms)' = RoomNames(rooms) \ {r} /\ r \in RoomNames(rooms)
    BY <1>5 DEF RoomNames
  <2>2. [n \in RoomName |-> SocketsIn(n, rooms')]
          = [[n \in RoomName |-> SocketsIn(n, rooms)] EXCEPT ![r] = {}]
    BY <1>5
  <2>3. [n \in RoomName |-> AdminIn(n, rooms')]
          = [[n \in RoomName |-> AdminIn(n, rooms)] EXCEPT ![r] = NULL]
    BY <1>5
  <2>4. Service!Delete(c, r)
    BY <1>1, <1>5, <2>1, <2>2, <2>3 DEF Service!Delete
  <2>5. QED
    BY <2>4 DEF Service!Next
<1>6. QED
  BY <1>2, <1>3, <1>4, <1>5

----------------------------------------------------------------------------
(***************************************************************************)
(* The steps that leave the tables alone.                                  *)
(***************************************************************************)

\* A new thread finds nobody, or somebody else, in its u.
LEMMA AcceptServes ==
  ASSUME ApartInv, NEW c \in Conn, Accept(c)
  PROVE  Serves
<1>1. /\ pc[c] = "closed" /\ pc'[c] = "read"
      /\ \A d \in Conn \ {c} : pc'[d] = pc[d] /\ u'[d] = u[d] /\ target'[d] = target[d]
      /\ UNCHANGED tables
  BY DEF Accept, Step, Goto, ApartInv, IInv, TypeOK
<1>2. PICK left \in {NULL} \cup {u[d] : d \in {e \in Conn : StackReuse /\ pc[e] = "exited"}} :
        u' = [u EXCEPT ![c] = left]
  BY DEF Accept
<1>3. u'[c] = left
  BY <1>2 DEF ApartInv, IInv, TypeOK
<1>4. left # NULL => left.socket # c
  <2> SUFFICES ASSUME NEW d \in Conn, pc[d] = "exited", left = u[d], u[d] # NULL
               PROVE  u[d].socket # c
    BY <1>2
  <2>1. Own(d) \/ pc[u[d].socket] = "exited"
    BY DEF ApartInv, IInv, OwnOrStale
  <2>2. QED
    BY <1>1, <2>1 DEF Own
<1>5. ~ LoggedIn(c)'
  BY <1>3, <1>4 DEF LoggedIn
<1>6. AdminDeletes(c)'
  BY <1>1 DEF AdminDeletes
<1>7. QED
  BY <1>1, <1>5, <1>6, Unmoved

\* A thread that moves on, without its u, to anything but a room it empties.
LEMMA MovesOn ==
  ASSUME ApartInv, NEW c \in Conn,
         UNCHANGED <<tables, u>>,
         \A d \in Conn \ {c} : pc'[d] = pc[d] /\ target'[d] = target[d],
         pc[c] # "exited",
         \/ pc'[c] \notin {"delete", "quit"}
         \/ pc'[c] = pc[c] /\ target'[c] = target[c]
         \/ /\ pc'[c] = "delete" /\ Own(c)
            /\ is_room_used(target'[c], rooms)
            /\ u[c] = get_admin(target'[c], rooms)
         \/ /\ pc'[c] = "quit"
            /\ u[c] # get_admin(target'[c], rooms)
  PROVE  Serves
<1>1. LoggedIn(c)' => LoggedIn(c) /\ u'[c] = u[c]
  BY DEF LoggedIn
<1>2. AdminDeletes(c)
  BY DEF ApartInv, AdminsDelete
<1>3. AdminDeletes(c)'
  BY <1>2 DEF AdminDeletes, Own, tables
<1>4. QED
  BY <1>1, <1>3, Unmoved

\* The client goes away, or the program does.
LEMMA FateServes ==
  ASSUME ApartInv, NEW c \in Conn, PeerGone(c) \/ Undefined(c)
  PROVE  Serves
<1>1. UNCHANGED <<tables, pc, u, target>>
  BY DEF PeerGone, Undefined, locals
<1>2. AdminDeletes(c)
  BY DEF ApartInv, AdminsDelete
<1>3. AdminDeletes(c)' /\ (LoggedIn(c)' => LoggedIn(c))
  BY <1>1, <1>2 DEF AdminDeletes, Own, LoggedIn, tables
<1>4. QED
  BY <1>1, <1>3, Unmoved

\* The steps of a broadcast, of the end of a handler, and of a client.
LEMMA MovesServe ==
  ASSUME ApartInv, NEW c \in Conn,
         \/ Receive(c) \/ Rejected(c)
         \/ JoinNotify(c) \/ JoinAdmin(c) \/ JoinList(c) \/ JoinDone(c)
         \/ Notify(c) \/ MessageDone(c) \/ Unlock(c) \/ Answered(c)
         \/ Disconnect(c) \/ ConnectionStopped(c)
  PROVE  Serves
<1>1. /\ pc \in [Conn -> Label] /\ target \in [Conn -> RoomName \cup {NULL}]
  BY DEF ApartInv, IInv, TypeOK
<1>2. CASE JoinNotify(c) \/ JoinList(c) \/ Notify(c)
  <2>1. UNCHANGED <<tables, pc, u, target>> /\ pc[c] # "exited"
    BY <1>2 DEF JoinNotify, JoinList, Notify, Step
  <2>2. QED
    BY <2>1, MovesOn
<1>3. CASE Receive(c) \/ Rejected(c) \/ JoinAdmin(c) \/ JoinDone(c)
  BY <1>1, <1>3, MovesOn DEF Receive, Rejected, JoinAdmin, ListRoom, JoinDone, Step, Goto
<1>4. CASE MessageDone(c) \/ Unlock(c) \/ Answered(c)
  BY <1>1, <1>4, MovesOn DEF MessageDone, Unlock, Answered, Step, Goto, locals
<1>5. CASE Disconnect(c) \/ ConnectionStopped(c)
  BY <1>1, <1>5, MovesOn
    DEF Disconnect, ConnectionStopped, Handle, Step, Exit, BeginLeaving, Goto
<1>6. QED
  BY <1>2, <1>3, <1>4, <1>5

\* A command that is refused.
LEMMA RefuseServes ==
  ASSUME ApartInv, NEW c \in Conn, NEW code, Step(c, "lock"), Refuse(c, code)
  PROVE  Serves
<1>1. pc \in [Conn -> Label]
  BY DEF ApartInv, IInv, TypeOK
<1>2. QED
  BY <1>1, MovesOn DEF Step, Refuse, Goto

\* The commands that only read the tables: a room is deleted by its admin, and
\* left by anybody else.
LEMMA CommandServes ==
  ASSUME ApartInv, NEW c \in Conn,
         JoinRoom(c) \/ QuitRoom(c) \/ DeleteRoom(c) \/ Message(c) \/ PrivateMessage(c)
  PROVE  Serves
<1> DEFINE r == buffer[c].room
<1>1. /\ pc \in [Conn -> Label] /\ target \in [Conn -> RoomName \cup {NULL}]
  BY DEF ApartInv, IInv, TypeOK
<1>2. /\ pc[c] = "lock" /\ Step(c, "lock")
      /\ ~ PrivateMessage(c) => r \in RoomName /\ u[c] # NULL
  BY StandsTyped
    DEF JoinRoom, QuitRoom, DeleteRoom, Message, PrivateMessage, Handle, Step, RoomCommand,
        ApartInv, IInv, AllStandWell, StandsWell
<1>3. ASSUME NEW users, NEW label, label \in {"join_new", "message"},
             Broadcast(c, r, users, label), UNCHANGED <<tables, u>>
      PROVE  Serves
  BY <1>1, <1>2, <1>3, MovesOn DEF Broadcast, Goto
<1>4. CASE JoinRoom(c)
  BY <1>2, <1>3, <1>4, RefuseServes DEF JoinRoom
<1>5. CASE Message(c)
  BY <1>2, <1>3, <1>5, RefuseServes DEF Message
<1>6. CASE PrivateMessage(c)
  <2>1. CASE Refuse(c, "MP_KO")
    BY <1>2, <2>1, RefuseServes
  <2>2. CASE ~ Refuse(c, "MP_KO")
    BY <1>1, <1>2, <1>6, <2>2, MovesOn DEF PrivateMessage, Goto
  <2>3. QED
    BY <2>1, <2>2
<1>7. ASSUME NEW users, NEW label, Broadcast(c, r, users, label), UNCHANGED <<tables, u>>
      PROVE  /\ pc'[c] = label /\ target'[c] = r
             /\ \A d \in Conn \ {c} : pc'[d] = pc[d] /\ target'[d] = target[d]
  BY <1>1, <1>7 DEF Broadcast, Goto
<1>8. CASE QuitRoom(c)
  <2>1. CASE Refuse(c, "QUIT_ROOM_KO")
    BY <1>2, <2>1, RefuseServes
  <2>2. CASE ~ Refuse(c, "QUIT_ROOM_KO")
    <3>1. /\ is_room_used(r, rooms) /\ ~ Freed(u[c])
          /\ Broadcast(c, r, get_users(r, rooms), IF IsAdmin(c, r) THEN "delete" ELSE "quit")
          /\ UNCHANGED <<tables, u>>
      BY <1>8, <2>2 DEF QuitRoom
    <3>2. Own(c)
      BY <1>2, <1>8, <3>1, NotFreedIsOwn
        DEF QuitRoom, PrivateMessage, Handle, ApartInv
    <3>3. QED
      BY <1>2, <1>7, <3>1, <3>2, MovesOn DEF IsAdmin
  <2>3. QED
    BY <2>1, <2>2
<1>9. CASE DeleteRoom(c)
  <2>1. CASE Refuse(c, "DELETE_ROOM_KO")
    BY <1>2, <2>1, RefuseServes
  <2>2. CASE ~ Refuse(c, "DELETE_ROOM_KO")
    <3>1. /\ is_room_used(r, rooms) /\ u[c] = get_admin(r, rooms)
          /\ Broadcast(c, r, get_users(r, rooms), "delete")
          /\ UNCHANGED <<tables, u>>
      BY <1>9, <2>2 DEF DeleteRoom, IsAdmin
    <3>2. r \in RoomName /\ u[c] # NULL
      BY <1>2, <1>9 DEF DeleteRoom, PrivateMessage, Handle
    <3>3. u[c] \in get_users(r, rooms)
      BY <3>1, <3>2, AdminIsIn
    <3>4. LoggedIn(u[c].socket)
      BY <3>2, <3>3, InRoomIsLoggedIn
    <3>5. ~ Freed(u[c])
      BY <3>4 DEF LoggedIn, Freed
    <3>6. Own(c)
      BY <3>2, <3>5, NotFreedIsOwn DEF ApartInv
    <3>7. QED
      BY <1>2, <1>7, <3>1, <3>6, MovesOn
  <2>3. QED
    BY <2>1, <2>2
<1>10. QED
  BY <1>4, <1>5, <1>6, <1>8, <1>9

\* A departing user deletes the rooms it is the admin of, and leaves the others.
LEMMA LeaveRoomServes ==
  ASSUME ApartInv, NEW c \in Conn, LeaveRoom(c)
  PROVE  Serves
<1>1. PICK r \in visit[c] \ {FreedRoom} :
        Broadcast(c, r, get_users(r, rooms), IF IsAdmin(c, r) THEN "delete" ELSE "quit")
  BY DEF LeaveRoom
<1>2. /\ pc[c] = "leave" /\ pc'[c] = (IF IsAdmin(c, r) THEN "delete" ELSE "quit")
      /\ target'[c] = r
      /\ \A d \in Conn \ {c} : pc'[d] = pc[d] /\ target'[d] = target[d]
      /\ UNCHANGED <<tables, u>>
  BY <1>1 DEF LeaveRoom, Step, Broadcast, Goto, ApartInv, IInv, TypeOK
<1>3. Own(c)
  BY <1>2 DEF ApartInv, IInv, AllStandWell, StandsWell, Departing
<1>4. IsAdmin(c, r) => is_room_used(r, rooms)
  BY <1>3 DEF IsAdmin, get_admin, Own
<1>5. QED
  BY <1>2, <1>3, <1>4, MovesOn DEF IsAdmin

----------------------------------------------------------------------------
(***************************************************************************)
(* The steps that change a table.                                          *)
(***************************************************************************)

\* A room that keeps its users and its admin is the same to the service.
LEMMA SameToService ==
  ASSUME NEW n, NEW old, NEW new,
         get_users(n, new) = get_users(n, old), get_admin(n, new) = get_admin(n, old)
  PROVE  SocketsIn(n, new) = SocketsIn(n, old) /\ AdminIn(n, new) = AdminIn(n, old)
  BY DEF SocketsIn, AdminIn

\* A user enters the room it was told about, and no other.
LEMMA OneUserEnters ==
  ASSUME ApartInv, NEW c \in Conn, JoinEnter(c), is_room_used(target[c], rooms)
  PROVE  LET r == target[c] IN
         /\ r \in RoomName /\ LoggedIn(c)
         /\ is_room_used(r, rooms') /\ get_admin(r, rooms') = get_admin(r, rooms)
         /\ get_users(r, rooms') = get_users(r, rooms) \cup {u[c]}
         /\ \A m \in RoomName \ {r} :
              /\ is_room_used(m, rooms') <=> is_room_used(m, rooms)
              /\ get_admin(m, rooms') = get_admin(m, rooms)
              /\ get_users(m, rooms') = get_users(m, rooms)
<1> DEFINE r == target[c]
<1>1. rooms' = add_user_in_room(u[c], r, rooms) /\ pc[c] = "join_new"
  BY DEF JoinEnter, Step
<1>2. r \in RoomName /\ Own(c) /\ u[c] \in user
  BY <1>1, StandsTyped DEF ApartInv
<1>3. LoggedIn(c)
  BY <1>1, <1>2 DEF LoggedIn, Own
<1>4. rooms \in room_map /\ WellKept(RoomName, rooms)
  BY DEF ApartInv, IInv, TypeOK, TablesWellKept
<1>5. \A y \in get_users(r, rooms) : y.name = u[c].name => y = u[c]
  BY <1>2, <1>3, OnlyOne
<1>6. QED
  BY <1>1, <1>2, <1>3, <1>4, <1>5, EnterExactly

\* A user that enters a room which is still there joins it.
LEMMA JoinEnterServes ==
  ASSUME ApartInv, NEW c \in Conn, JoinEnter(c)
  PROVE  Serves
<1> DEFINE r == target[c]
<1>1. /\ rooms' = add_user_in_room(u[c], r, rooms)
      /\ pc[c] = "join_new" /\ pc'[c] \in {"join_admin", "join_list"}
      /\ \A d \in Conn \ {c} : pc'[d] = pc[d] /\ u'[d] = u[d] /\ target'[d] = target[d]
      /\ UNCHANGED <<server_user_map, u, target>>
  BY DEF JoinEnter, ListRoom, Step, Goto, ApartInv, IInv, TypeOK
<1>2. r \in RoomName /\ Own(c) /\ u[c] \in user
  BY <1>1, StandsTyped DEF ApartInv
<1>3. LoggedIn(c)
  BY <1>1, <1>2 DEF LoggedIn, Own
<1>4. CASE ~ is_room_used(r, rooms)
  <2>1. rooms' = rooms
    BY <1>1, <1>4 DEF add_user_in_room
  <2>2. QED
    BY <1>1, <2>1, MovesOn DEF tables
<1>5. CASE is_room_used(r, rooms)
  <2>1. /\ is_room_used(r, rooms') /\ get_admin(r, rooms') = get_admin(r, rooms)
        /\ get_users(r, rooms') = get_users(r, rooms) \cup {u[c]}
        /\ \A m \in RoomName \ {r} :
             /\ is_room_used(m, rooms') <=> is_room_used(m, rooms)
             /\ get_admin(m, rooms') = get_admin(m, rooms)
             /\ get_users(m, rooms') = get_users(m, rooms)
    BY <1>5, OneUserEnters
  <2>2. LoggedInIsListed'
    BY <1>1, UsersUnmoved
  <2>3. RoomsHaveAdmins'
    BY <1>2, <1>5, <2>1, ConstantsAssumption DEF ApartInv, RoomsHaveAdmins, RoomNames
  <2>4. AdminsDelete'
    BY <1>1, <1>2, <1>5, <2>1, OthersUndisturbed
  <2>5. /\ SocketsIn(r, rooms') = SocketsIn(r, rooms) \cup {c}
        /\ AdminIn(r, rooms') = AdminIn(r, rooms)
    BY <1>2, <2>1 DEF SocketsIn, AdminIn, Own
  <2>6. \A n \in RoomName \ {r} :
          /\ SocketsIn(n, rooms') = SocketsIn(n, rooms)
          /\ AdminIn(n, rooms') = AdminIn(n, rooms)
    BY <2>1, SameToService
  <2>7. KnownIn(server_user_map, c) # NULL
    BY <1>3, KnownNow
  <2>8. Service!Next
    BY <1>1, <1>2, <1>5, <2>1, <2>5, <2>6, <2>7, RoomStep
  <2>9. QED
    BY <2>2, <2>3, <2>4, <2>8 DEF Serves, Kept
<1>6. QED
  BY <1>4, <1>5

\* A room is created with one user, and no other room is touched.
LEMMA OneRoomCreated ==
  ASSUME ApartInv, NEW c \in Conn, CreateRoom(c), ~ Refuse(c, "CREATE_ROOM_KO")
  PROVE  LET r == buffer[c].room IN
         /\ r \in RoomName /\ Own(c) /\ ~ is_room_used(r, rooms)
         /\ is_room_used(r, rooms') /\ get_admin(r, rooms') = u[c]
         /\ get_users(r, rooms') = {u[c]}
         /\ \A m \in RoomName \ {r} :
              /\ is_room_used(m, rooms') <=> is_room_used(m, rooms)
              /\ get_admin(m, rooms') = get_admin(m, rooms)
              /\ get_users(m, rooms') = get_users(m, rooms)
<1> DEFINE r     == buffer[c].room
           added == add_room(r, u[c], rooms)
<1>1. /\ ~ Freed(u[c]) /\ ~ is_room_used(r, rooms)
      /\ rooms' = add_user_in_room(u[c], r, added)
      /\ pc[c] = "lock"
  BY DEF CreateRoom, Handle, Step
<1>2. r \in RoomName /\ u[c] # NULL
  BY <1>1, StandsTyped
    DEF CreateRoom, Handle, RoomCommand, ApartInv, IInv, AllStandWell, StandsWell
<1>3. Own(c) /\ u[c] \in user
  BY <1>1, <1>2, NotFreedIsOwn DEF ApartInv
<1>4. rooms \in room_map /\ WellKept(RoomName, rooms)
  BY DEF ApartInv, IInv, TypeOK, TablesWellKept
<1>5. added \in room_map /\ WellKept(RoomName, added)
  BY <1>2, <1>3, <1>4, AddRoom
<1>6. /\ is_room_used(r, added) /\ get_admin(r, added) = u[c]
      /\ get_users(r, added) = {u[c]} \ {NULL}
      /\ \A m \in RoomName \ {r} :
           /\ is_room_used(m, added) <=> is_room_used(m, rooms)
           /\ get_admin(m, added) = get_admin(m, rooms)
           /\ get_users(m, added) = get_users(m, rooms)
  BY <1>1, <1>2, <1>3, <1>4, NullIsNoUser, AddRoomExactly
<1> HIDE DEF added
<1>7. get_users(r, added) = {u[c]}
  BY <1>2, <1>6
<1>8. /\ is_room_used(r, rooms') /\ get_admin(r, rooms') = get_admin(r, added)
      /\ get_users(r, rooms') = get_users(r, added) \cup {u[c]}
      /\ \A m \in RoomName \ {r} :
           /\ is_room_used(m, rooms') <=> is_room_used(m, added)
           /\ get_admin(m, rooms') = get_admin(m, added)
           /\ get_users(m, rooms') = get_users(m, added)
  BY <1>1, <1>2, <1>3, <1>5, <1>6, <1>7, EnterExactly
<1>9. QED
  BY <1>1, <1>2, <1>3, <1>6, <1>7, <1>8

\* A user that creates a room is its admin and first member.
LEMMA CreateRoomServes ==
  ASSUME ApartInv, NEW c \in Conn, CreateRoom(c)
  PROVE  Serves
<1> DEFINE r == buffer[c].room
<1>1. CASE Refuse(c, "CREATE_ROOM_KO")
  BY <1>1, RefuseServes DEF CreateRoom, Handle
<1>2. CASE ~ Refuse(c, "CREATE_ROOM_KO")
  <2>1. /\ ~ Freed(u[c]) /\ ~ is_room_used(r, rooms)
        /\ pc[c] = "lock" /\ pc'[c] = "unlock"
        /\ \A d \in Conn \ {c} : pc'[d] = pc[d] /\ u'[d] = u[d] /\ target'[d] = target[d]
        /\ UNCHANGED <<server_user_map, u, target>>
    BY <1>2 DEF CreateRoom, Handle, Step, Goto, ApartInv, IInv, TypeOK
  <2>2. r \in RoomName
    BY <1>2, OneRoomCreated
  <2>3. Own(c)
    BY <1>2, OneRoomCreated
  <2>4. LoggedIn(c)
    BY <2>1, <2>3 DEF LoggedIn, Own
  <2>5. /\ is_room_used(r, rooms') /\ get_admin(r, rooms') = u[c]
        /\ get_users(r, rooms') = {u[c]}
        /\ \A m \in RoomName \ {r} :
             /\ is_room_used(m, rooms') <=> is_room_used(m, rooms)
             /\ get_admin(m, rooms') = get_admin(m, rooms)
             /\ get_users(m, rooms') = get_users(m, rooms)
    BY <1>2, OneRoomCreated
  <2>6. LoggedInIsListed'
    BY <2>1, UsersUnmoved
  <2>7. RoomsHaveAdmins'
    BY <2>1, <2>2, <2>5, ConstantsAssumption DEF ApartInv, RoomsHaveAdmins, RoomNames
  <2>8. AdminsDelete'
    BY <2>1, <2>2, <2>3, <2>5, OthersUndisturbed
  <2>9. SocketsIn(r, rooms') = {c} /\ AdminIn(r, rooms') = c
    BY <2>2, <2>3, <2>5 DEF SocketsIn, AdminIn, Own
  <2>10. \A n \in RoomName \ {r} :
           /\ SocketsIn(n, rooms') = SocketsIn(n, rooms)
           /\ AdminIn(n, rooms') = AdminIn(n, rooms)
    BY <2>5, SameToService
  <2>11. KnownIn(server_user_map, c) # NULL
    BY <2>4, KnownNow
  <2>12. Service!Next
    BY <2>1, <2>2, <2>5, <2>9, <2>10, <2>11, RoomStep
  <2>13. QED
    BY <2>6, <2>7, <2>8, <2>12 DEF Serves, Kept
<1>3. QED
  BY <1>1, <1>2

\* A user leaves the room it was told about, and no other.
LEMMA OneUserLeaves ==
  ASSUME Apart, ApartInv, NEW c \in Conn, QuitDone(c), is_room_used(target[c], rooms)
  PROVE  LET r == target[c] IN
         /\ is_room_used(r, rooms') /\ get_admin(r, rooms') = get_admin(r, rooms)
         /\ get_users(r, rooms') = get_users(r, rooms) \ {u[c]}
         /\ \A m \in RoomName \ {r} :
              /\ is_room_used(m, rooms') <=> is_room_used(m, rooms)
              /\ get_admin(m, rooms') = get_admin(m, rooms)
              /\ get_users(m, rooms') = get_users(m, rooms)
<1> DEFINE r == target[c]
<1>1. rooms' = remove_user_from_room(u[c], r, rooms) /\ pc[c] = "quit"
  BY DEF QuitDone, Step
<1>2. r \in RoomName /\ Own(c) /\ u[c] \in user
  BY <1>1, StandsTyped DEF ApartInv
<1>3. LoggedIn(c)
  BY <1>1, <1>2 DEF LoggedIn, Own
<1>4. rooms \in room_map /\ WellKept(RoomName, rooms)
  BY DEF ApartInv, IInv, TypeOK, TablesWellKept
<1>5. \A y \in get_users(r, rooms) : y.name = u[c].name => y = u[c]
  BY <1>2, <1>3, OnlyOne
<1>6. QED
  BY <1>1, <1>2, <1>4, <1>5, LeaveExactly DEF Apart

\* A user that leaves a room it is in, and is not the admin of, leaves it.
LEMMA QuitDoneServes ==
  ASSUME Apart, ApartInv, NEW c \in Conn, QuitDone(c)
  PROVE  Serves
<1> DEFINE r == target[c]
<1>1. /\ rooms' = remove_user_from_room(u[c], r, rooms)
      /\ pc[c] = "quit" /\ pc'[c] \in {"leave", "unlock"}
      /\ \A d \in Conn \ {c} : pc'[d] = pc[d] /\ u'[d] = u[d] /\ target'[d] = target[d]
      /\ UNCHANGED <<server_user_map, u, target>>
  BY DEF QuitDone, Resume, Step, Goto, ApartInv, IInv, TypeOK
<1>2. r \in RoomName /\ Own(c) /\ u[c] \in user
  BY <1>1, StandsTyped DEF ApartInv
<1>3. LoggedIn(c)
  BY <1>1, <1>2 DEF LoggedIn, Own
<1>4. CASE ~ is_room_used(r, rooms)
  <2>1. rooms' = rooms
    BY <1>1, <1>4 DEF remove_user_from_room
  <2>2. QED
    BY <1>1, <2>1, MovesOn DEF tables
<1>5. CASE is_room_used(r, rooms)
  <2>1. \A y \in get_users(r, rooms) : y.name = u[c].name \/ y.socket = c => y = u[c]
    BY <1>2, <1>3, OnlyOne
  <2>2. /\ is_room_used(r, rooms') /\ get_admin(r, rooms') = get_admin(r, rooms)
        /\ get_users(r, rooms') = get_users(r, rooms) \ {u[c]}
        /\ \A m \in RoomName \ {r} :
             /\ is_room_used(m, rooms') <=> is_room_used(m, rooms)
             /\ get_admin(m, rooms') = get_admin(m, rooms)
             /\ get_users(m, rooms') = get_users(m, rooms)
    BY <1>5, OneUserLeaves
  <2>3. LoggedInIsListed'
    BY <1>1, UsersUnmoved
  <2>4. u[c] # get_admin(r, rooms)
    BY <1>1 DEF ApartInv, AdminsDelete, AdminDeletes
  <2>5. RoomsHaveAdmins'
    BY <1>2, <1>5, <2>2, <2>4, ConstantsAssumption DEF ApartInv, RoomsHaveAdmins, RoomNames
  <2>6. AdminsDelete'
    BY <1>1, <1>2, <1>5, <2>2, OthersUndisturbed
  <2>7. /\ SocketsIn(r, rooms') = SocketsIn(r, rooms) \ {c}
        /\ AdminIn(r, rooms') = AdminIn(r, rooms)
    BY <1>2, <2>1, <2>2 DEF SocketsIn, AdminIn, Own
  <2>8. \A n \in RoomName \ {r} :
          /\ SocketsIn(n, rooms') = SocketsIn(n, rooms)
          /\ AdminIn(n, rooms') = AdminIn(n, rooms)
    BY <2>2, SameToService
  <2>9. AdminIn(r, rooms) # c
    <3>1. CASE get_admin(r, rooms) = NULL
      BY <3>1, NullIsNoUser DEF AdminIn
    <3>2. CASE get_admin(r, rooms) # NULL
      <4>1. get_admin(r, rooms) \in get_users(r, rooms)
        BY <1>2, <3>2, AdminIsIn
      <4>2. QED
        BY <2>1, <2>4, <3>2, <4>1 DEF AdminIn
    <3>3. QED
      BY <3>1, <3>2
  <2>10. KnownIn(server_user_map, c) # NULL
    BY <1>3, KnownNow
  <2>11. CASE c \in SocketsIn(r, rooms)
    <3>1. Service!Next
      BY <1>1, <1>2, <1>5, <2>2, <2>7, <2>8, <2>9, <2>10, <2>11, RoomStep
    <3>2. QED
      BY <2>3, <2>5, <2>6, <3>1 DEF Serves, Kept
  <2>12. CASE c \notin SocketsIn(r, rooms)
    <3>1. \A n \in RoomName :
            /\ SocketsIn(n, rooms') = SocketsIn(n, rooms)
            /\ AdminIn(n, rooms') = AdminIn(n, rooms)
      BY <2>7, <2>8, <2>12
    <3>2. RoomNames(rooms)' = RoomNames(rooms)
      BY <1>5, <2>2 DEF RoomNames
    <3>3. UNCHANGED Service!svars
      BY <1>1, <3>1, <3>2 DEF Service!svars, KnownAs
    <3>4. QED
      BY <2>3, <2>5, <2>6, <3>3 DEF Serves, Kept
  <2>13. QED
    BY <2>11, <2>12
<1>6. QED
  BY <1>4, <1>5

\* The room that is deleted is its admin's, and the only one to go.
LEMMA OneRoomDeleted ==
  ASSUME Apart, ApartInv, NEW c \in Conn, DeleteDone(c)
  PROVE  LET r == target[c] IN
         /\ r \in RoomName /\ r # HomeRoom /\ Own(c)
         /\ is_room_used(r, rooms) /\ get_admin(r, rooms) = u[c]
         /\ ~ is_room_used(r, rooms') /\ get_admin(r, rooms') = NULL
         /\ get_users(r, rooms') = {}
         /\ \A m \in RoomName \ {r} :
              /\ is_room_used(m, rooms') <=> is_room_used(m, rooms)
              /\ get_admin(m, rooms') = get_admin(m, rooms)
              /\ get_users(m, rooms') = get_users(m, rooms)
<1> DEFINE r == target[c]
<1>1. pc[c] = "delete" /\ rooms' = remove_room(r, rooms)
  BY DEF DeleteDone, Step
<1>2. r \in RoomName
  BY <1>1, StandsTyped DEF ApartInv
<1>3. Own(c) /\ is_room_used(r, rooms) /\ get_admin(r, rooms) = u[c]
  BY <1>1 DEF ApartInv, AdminsDelete, AdminDeletes
<1>4. r # HomeRoom
  BY <1>2, <1>3, AdminIsIn DEF Own
<1>5. rooms \in room_map /\ WellKept(RoomName, rooms)
  BY DEF ApartInv, IInv, TypeOK, TablesWellKept
<1>6. /\ ~ is_room_used(r, rooms') /\ get_admin(r, rooms') = NULL
      /\ get_users(r, rooms') = {}
      /\ \A m \in RoomName \ {r} :
           /\ is_room_used(m, rooms') <=> is_room_used(m, rooms)
           /\ get_admin(m, rooms') = get_admin(m, rooms)
           /\ get_users(m, rooms') = get_users(m, rooms)
  BY <1>1, <1>2, <1>5, RemoveRoomExactly DEF Apart
<1>7. QED
  BY <1>2, <1>3, <1>4, <1>6

\* A room is deleted for everybody at once.
LEMMA DeleteDoneServes ==
  ASSUME Apart, ApartInv, NEW c \in Conn, DeleteDone(c)
  PROVE  Serves
<1> DEFINE r == target[c]
<1>1. /\ pc[c] = "delete" /\ pc'[c] \in {"leave", "unlock"}
      /\ \A d \in Conn \ {c} : pc'[d] = pc[d] /\ u'[d] = u[d] /\ target'[d] = target[d]
      /\ UNCHANGED <<server_user_map, u, target>>
  BY DEF DeleteDone, Resume, Step, Goto, ApartInv, IInv, TypeOK
<1>2. /\ r \in RoomName /\ r # HomeRoom /\ Own(c)
      /\ is_room_used(r, rooms) /\ get_admin(r, rooms) = u[c]
      /\ ~ is_room_used(r, rooms') /\ get_admin(r, rooms') = NULL
      /\ get_users(r, rooms') = {}
      /\ \A m \in RoomName \ {r} :
           /\ is_room_used(m, rooms') <=> is_room_used(m, rooms)
           /\ get_admin(m, rooms') = get_admin(m, rooms)
           /\ get_users(m, rooms') = get_users(m, rooms)
  BY OneRoomDeleted
<1>3. LoggedIn(c)
  BY <1>1, <1>2 DEF LoggedIn, Own
<1>4. LoggedInIsListed'
  BY <1>1, UsersUnmoved
<1>5. RoomsHaveAdmins'
  BY <1>2, ConstantsAssumption DEF ApartInv, RoomsHaveAdmins, RoomNames
<1>6. AdminsDelete'
  BY <1>1, <1>2, OthersUndisturbed
<1>7. /\ SocketsIn(r, rooms') = {} /\ AdminIn(r, rooms') = NULL
      /\ AdminIn(r, rooms) = c
  BY <1>2 DEF SocketsIn, AdminIn, Own
<1>8. \A n \in RoomName \ {r} :
        /\ SocketsIn(n, rooms') = SocketsIn(n, rooms)
        /\ AdminIn(n, rooms') = AdminIn(n, rooms)
  BY <1>2, SameToService
<1>9. KnownIn(server_user_map, c) # NULL
  BY <1>3, KnownNow
<1>10. Service!Next
  BY <1>1, <1>2, <1>7, <1>8, <1>9, RoomStep
<1>11. QED
  BY <1>4, <1>5, <1>6, <1>10 DEF Serves, Kept

\* A user that logs in comes online under a login that nobody had.
LEMMA ConnectServes ==
  ASSUME ApartInv, NEW c \in Conn, Connect(c)
  PROVE  Serves
<1> DEFINE new == [name |-> buffer[c].name, socket |-> c]
<1>1. CASE Refuse(c, "CONNECT_KO")
  BY <1>1, RefuseServes DEF Connect, Handle
<1>2. CASE ~ Refuse(c, "CONNECT_KO")
  <2>1. /\ u[c] = NULL
        /\ ~ is_login_used(new.name, server_user_map)
        /\ u'[c] = new
        /\ server_user_map' = add_user(new, server_user_map)
        /\ pc[c] = "lock" /\ pc'[c] = "join_new"
        /\ \A d \in Conn \ {c} : pc'[d] = pc[d] /\ u'[d] = u[d] /\ target'[d] = target[d]
        /\ UNCHANGED rooms
    BY <1>2 DEF Connect, LoginRefused, Handle, Step, Goto, Broadcast, ApartInv, IInv, TypeOK
  <2>2. new \in user /\ new.name \in Login
    BY <1>2, StandsTyped DEF Connect, Handle, user, ApartInv
  <2>3. new.socket = c
    OBVIOUS
  <2> HIDE DEF new
  <2>4. server_user_map \in user_map /\ WellHashed(server_user_map)
    BY DEF ApartInv, IInv, TypeOK, TablesWellKept
  <2>5. Users(server_user_map') = Users(server_user_map) \cup {new}
    BY <2>1, <2>2, <2>4, AddUserExactly
  <2>6. LoggedInIsListed'
    <3> SUFFICES ASSUME NEW d \in Conn, LoggedIn(d)'
                 PROVE  u'[d] \in Users(server_user_map')
      BY DEF LoggedInIsListed
    <3>1. CASE d = c
      BY <2>1, <2>5, <3>1
    <3>2. CASE d # c
      <4>1. LoggedIn(d) /\ u'[d] = u[d]
        BY <2>1, <3>2 DEF LoggedIn
      <4>2. QED
        BY <2>5, <4>1 DEF ApartInv, LoggedInIsListed
    <3>3. QED
      BY <3>1, <3>2
  <2>7. RoomsHaveAdmins'
    BY <2>1 DEF ApartInv, RoomsHaveAdmins, RoomNames
  <2>8. AdminsDelete'
    <3> SUFFICES ASSUME NEW d \in Conn PROVE AdminDeletes(d)'
      BY DEF AdminsDelete
    <3>1. AdminDeletes(d)
      BY DEF ApartInv, AdminsDelete
    <3>2. QED
      BY <2>1, <3>1 DEF AdminDeletes, Own
  <2>9. KnownIn(server_user_map, c) = NULL
    BY <2>1, KnownNow DEF LoggedIn
  <2>10. \A y \in Users(server_user_map) : y.socket # c
    BY <2>1, ListedHere DEF ApartInv
  <2>11. KnownIn(server_user_map', c) = new.name
    <3>1. \A y \in Users(server_user_map') : y.socket = c => y = new
      BY <2>5, <2>10
    <3>2. QED
      BY <2>3, <2>5, <3>1, Known
  <2>12. \A d \in Conn \ {c} : KnownIn(server_user_map', d) = KnownIn(server_user_map, d)
    BY <2>3, <2>5, KnownAlike
  <2>13. \A d \in Conn : KnownIn(server_user_map, d) # new.name
    <3> SUFFICES ASSUME NEW d \in Conn, KnownIn(server_user_map, d) = new.name
                 PROVE  FALSE
      OBVIOUS
    <3>1. LoggedIn(d)
      BY <2>2, ConstantsAssumption, KnownNow
    <3>2. u[d] \in Users(server_user_map) /\ u[d].name = new.name
      BY <3>1, KnownNow
    <3>3. QED
      BY <2>1, <2>2, <2>4, <3>2, LoginUsed
  <2>14. Service!LogIn(c)
    <3> DEFINE online == [d \in Conn |-> KnownAs(d)]
    <3>1. ~ Service!Online(c)
      BY <2>9 DEF Service!Online, KnownAs
    <3>2. new.name \in Login \ {online[d] : d \in Conn}
      BY <2>2, <2>13 DEF KnownAs
    <3>3. online' = [online EXCEPT ![c] = new.name]
      BY <2>11, <2>12 DEF KnownAs
    <3>4. QED
      BY <2>1, <3>1, <3>2, <3>3 DEF Service!LogIn, RoomNames
  <2>15. Service!Next
    BY <2>14 DEF Service!Next
  <2>16. QED
    BY <2>6, <2>7, <2>8, <2>15 DEF Serves, Kept
<1>3. QED
  BY <1>1, <1>2

\* A user that is taken out of the table of users goes offline, and is then in
\* no room.
LEMMA LeaveDoneServes ==
  ASSUME Apart, ApartInv, NEW c \in Conn, LeaveDone(c)
  PROVE  Serves
<1>1. /\ pc[c] = "leave" /\ pc'[c] = "exited"
      /\ visit[c] = {}
      /\ server_user_map' = remove_user(u[c], server_user_map)
      /\ \A d \in Conn \ {c} : pc'[d] = pc[d] /\ u'[d] = u[d] /\ target'[d] = target[d]
      /\ UNCHANGED <<rooms, u>>
  BY DEF LeaveDone, Step, Exit, Goto, ApartInv, IInv, TypeOK
<1>2. Departing(c)
  BY <1>1 DEF ApartInv, IInv, AllStandWell, StandsWell, Departing
<1>3. Own(c) /\ u[c] \in user
  BY <1>2, StandsTyped DEF ApartInv
<1>4. LoggedIn(c) /\ u[c].socket = c
  BY <1>1, <1>3 DEF LoggedIn, Own
<1>5. server_user_map \in user_map /\ WellHashed(server_user_map)
  BY DEF ApartInv, IInv, TypeOK, TablesWellKept
<1>6. u[c] \in Users(server_user_map)
  BY <1>4, KnownNow
<1>7. \A y : y \in Users(server_user_map') <=> y \in Users(server_user_map) /\ y # u[c]
  <2>1. Users(server_user_map') = {y \in Users(server_user_map) : y.name # u[c].name}
    BY <1>1, <1>3, <1>5, RemoveUserExactly DEF Apart
  <2>2. QED
    BY <1>5, <1>6, <2>1, OneOfALogin
<1>8. LoggedInIsListed'
  <2> SUFFICES ASSUME NEW d \in Conn, LoggedIn(d)'
               PROVE  u[d] \in Users(server_user_map')
    BY <1>1 DEF LoggedInIsListed
  <2>1. d # c /\ LoggedIn(d) /\ u[d].socket = d
    BY <1>1 DEF LoggedIn
  <2>2. QED
    BY <1>4, <1>7, <2>1 DEF ApartInv, LoggedInIsListed
<1>9. RoomsHaveAdmins'
  BY <1>1 DEF ApartInv, RoomsHaveAdmins, RoomNames
<1>10. AdminsDelete'
  <2> SUFFICES ASSUME NEW d \in Conn PROVE AdminDeletes(d)'
    BY DEF AdminsDelete
  <2>1. AdminDeletes(d)
    BY DEF ApartInv, AdminsDelete
  <2>2. QED
    BY <1>1, <2>1 DEF AdminDeletes, Own
<1>11. \A y \in Users(server_user_map) : y.socket = c => y = u[c]
  BY ListedHere DEF ApartInv
<1>12. KnownIn(server_user_map', c) = NULL
  <2>1. \A y \in Users(server_user_map') : y.socket # c
    BY <1>7, <1>11
  <2>2. QED
    BY <2>1, Known
<1>13. \A d \in Conn \ {c} : KnownIn(server_user_map', d) = KnownIn(server_user_map, d)
  BY <1>4, <1>7, KnownAlike
<1>14. \A n \in RoomName : c \notin SocketsIn(n, rooms)
  <2> SUFFICES ASSUME NEW n \in RoomName, NEW x \in get_users(n, rooms), x.socket = c
               PROVE  FALSE
    BY DEF SocketsIn
  <2>1. x = u[c]
    BY InRoomIsLoggedIn
  <2>2. PICK q \in AllRooms(rooms) : u[c] \in Users(q.users)
    BY <2>1, GetUsers DEF ApartInv, IInv, TypeOK, TablesWellKept
  <2>3. q.name \in visit[c]
    BY <1>2, <2>2 DEF ApartInv, IInv, LeavesEveryRoom
  <2>4. QED
    BY <1>1, <2>3
<1>15. Service!LogOut(c)
  <2> DEFINE online == [d \in Conn |-> KnownAs(d)]
  <2>1. Service!Online(c)
    BY <1>4, KnownNow DEF Service!Online, KnownAs
  <2>2. online' = [online EXCEPT ![c] = NULL]
    BY <1>12, <1>13 DEF KnownAs
  <2>3. QED
    BY <1>1, <1>14, <2>1, <2>2 DEF Service!LogOut, RoomNames
<1>16. Service!Next
  BY <1>15 DEF Service!Next
<1>17. QED
  BY <1>8, <1>9, <1>10, <1>16 DEF Serves, Kept

----------------------------------------------------------------------------
(***************************************************************************)
(* All steps, and the initial state.                                       *)
(***************************************************************************)

\* Every step keeps the invariant and is one step of the service or none.
LEMMA StepServes ==
  ASSUME Apart, ApartInv, [Next]_vars
  PROVE  ApartInv' /\ [Service!Next]_(Service!svars)
<1>1. IInv'
  BY StepPreserves DEF ApartInv
<1>2. CASE UNCHANGED vars
  <2>1. Kept'
    BY <1>2 DEF ApartInv, Kept, LoggedInIsListed, LoggedIn, RoomsHaveAdmins, RoomNames,
       AdminsDelete, AdminDeletes, Own, vars, tables, locals
  <2>2. UNCHANGED Service!svars
    BY <1>2 DEF Service!svars, vars, tables, KnownAs, RoomNames
  <2>3. QED
    BY <1>1, <2>1, <2>2 DEF ApartInv, Kept
<1>3. ASSUME NEW c \in Conn, Accept(c) \/ PeerGone(c) \/ Receive(c) \/ Work(c)
      PROVE  Serves
  BY <1>3, AcceptServes, FateServes, MovesServe, CommandServes, LeaveRoomServes,
     JoinEnterServes, CreateRoomServes, QuitDoneServes, DeleteDoneServes, ConnectServes,
     LeaveDoneServes DEF Work
<1>4. CASE \E c \in Conn : Accept(c) \/ PeerGone(c) \/ Receive(c) \/ Work(c)
  BY <1>1, <1>3, <1>4 DEF Serves, ApartInv, Kept
<1>5. QED
  BY <1>2, <1>4 DEF Next, Stopped

\* The server starts as the service does: nobody is online, and only the home
\* room is open.
LEMMA InitServes == Init => ApartInv /\ Service!Init
<1> SUFFICES ASSUME Init PROVE ApartInv /\ Service!Init
  OBVIOUS
<1>1. IInv
  BY InitEstablishes
<1>2. /\ rooms = add_room(HomeRoom, NULL, init_rooms)
      /\ server_user_map = create_user_map
      /\ \A c \in Conn : u[c] = NULL /\ pc[c] = "closed"
  BY DEF Init
<1>3. init_rooms \in room_map /\ WellKept(RoomName, init_rooms)
  BY InitRooms
<1>4. \A n \in RoomName :
        /\ ~ is_room_used(n, init_rooms) /\ get_admin(n, init_rooms) = NULL
        /\ get_users(n, init_rooms) = {}
  BY <1>3, InitRooms, RoomUsed DEF get_admin, get_users
<1>5. HomeRoom \in RoomName
  BY ConstantsAssumption
<1>6. /\ is_room_used(HomeRoom, rooms) /\ get_admin(HomeRoom, rooms) = NULL
      /\ get_users(HomeRoom, rooms) = {NULL} \ {NULL}
      /\ \A m \in RoomName \ {HomeRoom} :
           /\ is_room_used(m, rooms) <=> is_room_used(m, init_rooms)
           /\ get_admin(m, rooms) = get_admin(m, init_rooms)
           /\ get_users(m, rooms) = get_users(m, init_rooms)
  BY <1>2, <1>3, <1>4, <1>5, NullIsNoUser, AddRoomExactly
<1>7. RoomNames(rooms) = {HomeRoom}
  BY <1>4, <1>5, <1>6 DEF RoomNames
<1>8. \A n \in RoomName : get_users(n, rooms) = {} /\ get_admin(n, rooms) = NULL
  BY <1>4, <1>6
<1>9. ApartInv
  BY <1>1, <1>2, <1>6, <1>7
    DEF ApartInv, LoggedInIsListed, LoggedIn, RoomsHaveAdmins, AdminsDelete, AdminDeletes
<1>10. \A c \in Conn : KnownIn(server_user_map, c) = NULL
  BY <1>2, CreateUserMap DEF KnownIn
<1>11. \A n \in RoomName : SocketsIn(n, rooms) = {} /\ AdminIn(n, rooms) = NULL
  BY <1>8 DEF SocketsIn, AdminIn
<1>12. Service!Init
  BY <1>7, <1>10, <1>11 DEF Service!Init, KnownAs
<1>13. QED
  BY <1>9, <1>12

\* What the two tables say together, in the terms of the service.
LEMMA TablesAreConsistent ==
  ASSUME ApartInv
  PROVE  ServiceIsConsistent
<1>1. HomeRoom \in RoomNames(rooms)
  BY ConstantsAssumption DEF ApartInv, RoomsHaveAdmins, RoomNames
<1>2. \A c \in Conn : Service!Online(c) <=> LoggedIn(c)
  BY KnownNow DEF Service!Online, KnownAs
<1>3. ASSUME NEW r \in RoomName
      PROVE  /\ SocketsIn(r, rooms) \subseteq {c \in Conn : Service!Online(c)}
             /\ r \notin RoomNames(rooms) => SocketsIn(r, rooms) = {}
             /\ r \in RoomNames(rooms) \ {HomeRoom} =>
                  AdminIn(r, rooms) \in SocketsIn(r, rooms)
  <2>1. SocketsIn(r, rooms) \subseteq {c \in Conn : Service!Online(c)}
    BY <1>2, InRoomIsLoggedIn DEF SocketsIn
  <2>2. r \notin RoomNames(rooms) => SocketsIn(r, rooms) = {}
    BY DEF RoomNames, SocketsIn, get_users
  <2>3. ASSUME r \in RoomNames(rooms) \ {HomeRoom}
        PROVE  AdminIn(r, rooms) \in SocketsIn(r, rooms)
    <3>1. get_admin(r, rooms) \in get_users(r, rooms)
      BY <2>3 DEF ApartInv, RoomsHaveAdmins
    <3>2. get_admin(r, rooms) # NULL
      BY <3>1, InRoomIsLoggedIn, NullIsNoUser
    <3>3. QED
      BY <3>1, <3>2 DEF AdminIn, SocketsIn
  <2>4. QED
    BY <2>1, <2>2, <2>3
<1>4. ASSUME NEW c \in Conn, NEW d \in Conn, Service!Online(c), KnownAs(c) = KnownAs(d)
      PROVE  c = d
  <2>1. LoggedIn(c) /\ LoggedIn(d) /\ u[c].name = u[d].name
    BY <1>2, <1>4, KnownNow DEF KnownAs, Service!Online
  <2>2. u[c] = u[d]
    BY <2>1, KnownNow, OneOfALogin DEF ApartInv, IInv, TypeOK, TablesWellKept
  <2>3. QED
    BY <2>1, <2>2 DEF LoggedIn
<1>5. QED
  BY <1>1, <1>3, <1>4 DEF ServiceIsConsistent, Service!Consistent

\* No room comes or goes with its users.
LEMMA RoomsStay ==
  ASSUME NEW table \in room_map, WellKept(RoomName, table), NEW n \in RoomName, NEW x \in user,
         NEW m \in RoomName
  PROVE  /\ is_room_used(m, add_user_in_room(x, n, table)) <=> is_room_used(m, table)
         /\ is_room_used(m, remove_user_from_room(x, n, table)) <=> is_room_used(m, table)
<1>1. CASE ~ is_room_used(n, table)
  BY <1>1 DEF add_user_in_room, remove_user_from_room
<1>2. CASE is_room_used(n, table)
  <2>1. RoomOf(n, table).users \in user_map /\ WellHashed(RoomOf(n, table).users)
    BY <1>2, FindRoom DEF room
  <2>2. ASSUME NEW map \in user_map, WellHashed(map)
        PROVE  is_room_used(m, WithUsers(n, map, table)) <=> is_room_used(m, table)
    <3>1. /\ is_room_used(n, WithUsers(n, map, table))
          /\ \A k \in RoomName \ {n} :
               is_room_used(k, WithUsers(n, map, table)) <=> is_room_used(k, table)
      BY <1>2, <2>2, ReplaceUsersExactly
    <3>2. QED
      BY <1>2, <3>1
  <2>3. QED
    BY <1>2, <2>1, <2>2, AddUser, RemoveUser DEF add_user_in_room, remove_user_from_room
<1>3. QED
  BY <1>1, <1>2

\* A step takes out no room but the one its admin deletes.
LEMMA OnlyTheDeletedRoomGoes ==
  ASSUME Apart, ApartInv, [Next]_vars,
         NEW r \in RoomNames(rooms), ~ is_room_used(r, rooms')
  PROVE  \E c \in Conn : pc[c] = "delete" /\ target[c] = r /\ u[c] = get_admin(r, rooms)
<1>1. is_room_used(r, rooms) /\ r \in RoomName
  BY DEF RoomNames
<1>2. rooms' # rooms
  BY <1>1
<1>3. PICK c \in Conn :
        CreateRoom(c) \/ JoinEnter(c) \/ QuitDone(c) \/ DeleteDone(c)
  <2>1. ~ UNCHANGED vars /\ ~ Stopped
    BY <1>2 DEF Stopped, vars, tables
  <2>2. PICK c \in Conn : Accept(c) \/ PeerGone(c) \/ Receive(c) \/ Work(c)
    BY <2>1 DEF Next
  <2>3. ~ Accept(c) /\ ~ PeerGone(c) /\ ~ Receive(c)
    BY <1>2 DEF Accept, PeerGone, Receive, tables
  <2>4. /\ ~ Rejected(c) /\ ~ ConnectionStopped(c) /\ ~ JoinRoom(c) /\ ~ Connect(c)
        /\ ~ QuitRoom(c) /\ ~ DeleteRoom(c) /\ ~ Message(c) /\ ~ PrivateMessage(c)
        /\ ~ Disconnect(c)
    BY <1>2 DEF tables, Rejected, ConnectionStopped, Exit, BeginLeaving, JoinRoom, Connect,
       QuitRoom, DeleteRoom, Message, PrivateMessage, Refuse, Disconnect
  <2>5. QED
    BY <1>2, <2>2, <2>3, <2>4 DEF Work, tables, Exit, BeginLeaving, Refuse, JoinNotify,
       JoinAdmin, JoinList, JoinDone, Notify, MessageDone, LeaveRoom, LeaveDone, Unlock,
       Answered, Undefined
<1>4. rooms \in room_map /\ WellKept(RoomName, rooms)
  BY DEF ApartInv, IInv, TypeOK, TablesWellKept
<1>5. CASE DeleteDone(c)
  <2>1. /\ target[c] \in RoomName
        /\ get_admin(target[c], rooms) = u[c]
        /\ \A m \in RoomName \ {target[c]} :
             is_room_used(m, rooms') <=> is_room_used(m, rooms)
    BY <1>5, OneRoomDeleted
  <2>2. r = target[c]
    BY <1>1, <2>1
  <2>3. QED
    BY <1>5, <2>1, <2>2 DEF DeleteDone, Step
<1>6. ASSUME JoinEnter(c) \/ QuitDone(c)
      PROVE  FALSE
  <2>1. /\ \/ rooms' = add_user_in_room(u[c], target[c], rooms)
           \/ rooms' = remove_user_from_room(u[c], target[c], rooms)
        /\ pc[c] \in {"join_new", "quit"}
    BY <1>6 DEF JoinEnter, QuitDone, Step
  <2>2. target[c] \in RoomName /\ u[c] \in user
    BY <2>1, StandsTyped DEF ApartInv
  <2>3. QED
    BY <1>1, <1>4, <2>1, <2>2, RoomsStay
<1>7. ASSUME CreateRoom(c)
      PROVE  FALSE
  <2> DEFINE n     == buffer[c].room
             added == add_room(n, u[c], rooms)
  <2>1. /\ ~ Freed(u[c]) /\ ~ is_room_used(n, rooms)
        /\ rooms' = add_user_in_room(u[c], n, added)
    BY <1>2, <1>7 DEF CreateRoom, Refuse, tables
  <2>2. n \in RoomName /\ u[c] # NULL
    BY <1>7, StandsTyped
      DEF CreateRoom, Handle, Step, RoomCommand, ApartInv, IInv, AllStandWell, StandsWell
  <2>3. u[c] \in user
    BY <2>1, <2>2, NotFreedIsOwn DEF ApartInv
  <2>4. added \in room_map /\ WellKept(RoomName, added)
    BY <1>4, <2>2, <2>3, AddRoom
  <2>5. \A m \in RoomName \ {n} : is_room_used(m, added) <=> is_room_used(m, rooms)
    BY <1>4, <2>1, <2>2, <2>3, NullIsNoUser, AddRoomExactly
  <2> HIDE DEF added
  <2>6. is_room_used(r, added)
    BY <1>1, <2>1, <2>5
  <2>7. QED
    BY <1>1, <2>1, <2>2, <2>3, <2>4, <2>6, RoomsStay
<1>8. QED
  BY <1>3, <1>5, <1>6, <1>7

----------------------------------------------------------------------------
(***************************************************************************)
(* The theorems.  Apart is not true of any constants, and is needed: when  *)
(* two logins share a bucket, the departure of one user takes another one  *)
(* out of the table, and the server is no longer the service.              *)
(***************************************************************************)

\* The invariant that the theorems below rest on (server.c:55-360).
THEOREM ApartInvariantHolds ==
  ASSUME Apart
  PROVE  Spec => []ApartInv
<1>1. Init => ApartInv
  BY InitServes
<1>2. ApartInv /\ [Next]_vars => ApartInv'
  BY StepServes
<1>3. QED
  BY <1>1, <1>2, PTL DEF Spec

\* A user that has logged in is known to the server until its own thread takes
\* it out (server.c:233,350).
THEOREM LoggedInStaysListed ==
  ASSUME Apart
  PROVE  Spec => []LoggedInIsListed
<1>1. ApartInv => LoggedInIsListed
  BY DEF ApartInv
<1>2. QED
  BY <1>1, ApartInvariantHolds, PTL

\* A room disappears only when its admin deletes it, by a command or on its way
\* out (server.c:106-119, 220-236, 340-351).
THEOREM RoomsGoByTheirAdmin ==
  ASSUME Apart
  PROVE  Spec => OnlyItsAdminRemovesARoom
<1>1. ApartInv /\ [Next]_vars =>
        [\A r \in RoomNames(rooms) :
           ~ is_room_used(r, rooms') =>
             \E c \in Conn : /\ pc[c] = "delete" /\ target[c] = r
                             /\ u[c] = get_admin(r, rooms)]_vars
  BY OnlyTheDeletedRoomGoes
<1>2. QED
  BY <1>1, ApartInvariantHolds, PTL DEF Spec, OnlyItsAdminRemovesARoom

\* Whoever is in a room is online under a login of its own, and every room but
\* the home room has its admin in it (server.c:181-236, 340-351).
THEOREM TablesStayConsistent ==
  ASSUME Apart
  PROVE  Spec => []ServiceIsConsistent
<1>1. ApartInv => ServiceIsConsistent
  BY TablesAreConsistent
<1>2. QED
  BY <1>1, ApartInvariantHolds, PTL

\* The server, with its handlers cut at every message and its unlocked cleanups
\* interleaved with them, implements the service (server.c:55-360).
THEOREM ServerImplementsService ==
  ASSUME Apart
  PROVE  Spec => ImplementsService
<1>1. Init => Service!Init
  BY InitServes
<1>2. ApartInv /\ [Next]_vars => [Service!Next]_(Service!svars)
  BY StepServes
<1>3. QED
  BY <1>1, <1>2, ApartInvariantHolds, PTL DEF Spec, ImplementsService, Service!Spec

----------------------------------------------------------------------------
(***************************************************************************)
(* When clients do not vanish and stacks are fresh, handlers exclude one   *)
(* another from the first look at a table to the last.                     *)
(***************************************************************************)

\* When names do not collide, remove_user never leaves a chain that it freed.
LEMMA RemovalIsDefined ==
  ASSUME Apart, NEW map \in user_map, WellHashed(map), NEW x \in user
  PROVE  remove_user_defined(x, map)
<1> DEFINE chain == map[UserHash[x.name]]
<1> SUFFICES ASSUME is_login_used(x.name, map) PROVE Head(chain).name = x.name
  BY DEF remove_user_defined, Chain
<1>1. x.name \in Login /\ UserHash[x.name] \in UserBucket
  BY BucketOfLogin DEF user
<1>2. chain \in Seq(user) /\ DOMAIN chain # {}
  BY <1>1 DEF is_login_used, Chain, user_map
<1>3. 1 \in DOMAIN chain /\ Head(chain) = chain[1] /\ chain[1] \in user
  BY <1>2
<1>4. UserHash[chain[1].name] = UserHash[x.name]
  BY <1>1, <1>3 DEF WellHashed, user_map
<1>5. QED
  BY <1>1, <1>3, <1>4 DEF Apart, user

\* The same for a user that leaves a room.
LEMMA RoomRemovalIsDefined ==
  ASSUME Apart, ApartInv, NEW r \in RoomName, NEW x \in user
  PROVE  remove_user_from_room_defined(x, r, rooms)
<1>1. rooms \in room_map /\ WellKept(RoomName, rooms)
  BY DEF ApartInv, IInv, TypeOK, TablesWellKept
<1>2. is_room_used(r, rooms) =>
        RoomOf(r, rooms).users \in user_map /\ WellHashed(RoomOf(r, rooms).users)
  BY <1>1, FindRoom DEF room
<1>3. QED
  BY <1>2, RemovalIsDefined DEF remove_user_from_room_defined

\* What a step of thread c leaves alone.
OthersRest(c) ==
  \A d \in Conn \ {c} :
    /\ pc'[d] = pc[d] /\ u'[d] = u[d] /\ buffer'[d] = buffer[d] /\ target'[d] = target[d]
    /\ todo'[d] = todo[d] /\ visit'[d] = visit[d] /\ connected'[d] = connected[d]

\* The threads that do not hold the mutex rely on no table.
LEMMA OthersAlone ==
  ASSUME AloneInv, NEW c \in Conn, OthersRest(c), mutex \in {c, NULL} \/ UNCHANGED <<mutex, rooms>>
  PROVE  \A d \in Conn \ {c} : HandlesAlone(d)'
<1> SUFFICES ASSUME NEW d \in Conn \ {c} PROVE HandlesAlone(d)'
  OBVIOUS
<1>1. HandlesAlone(d) /\ (InHandler(d)' <=> InHandler(d))
  BY DEF AloneInv, OthersRest, InHandler
<1>2. Attended(d)' /\ Crossing(d)'
  BY <1>1 DEF HandlesAlone, Attended, Crossing, Departing, Own, Leaving, OthersRest
<1>3. CASE ~ InHandler(d)
  BY <1>1, <1>2, <1>3 DEF HandlesAlone, StillTrue, InHandler, OthersRest
<1>4. CASE InHandler(d)
  <2>1. UNCHANGED <<mutex, rooms>> /\ mutex = d
    BY <1>1, <1>4, NullIsNoUser DEF HandlesAlone
  <2>2. StillTrue(d)'
    BY <1>1, <2>1 DEF HandlesAlone, StillTrue, OthersRest
  <2>3. QED
    BY <1>1, <1>2, <2>1, <2>2 DEF HandlesAlone
<1>5. QED
  BY <1>3, <1>4

\* Nothing that a thread is about to use was freed.
LEMMA NothingFreedIsUsed == ASSUME Apart, AloneInv, NEW c \in Conn PROVE ~ Undefined(c)
<1>1. HandlesAlone(c) /\ ApartInv /\ StandsWell(c)
  BY DEF AloneInv, ApartInv, IInv, AllStandWell
<1>2. /\ pc[c] \in Label /\ target[c] \in RoomName \cup {NULL} /\ todo[c] \subseteq user
      /\ visit[c] \subseteq RoomName \cup {FreedRoom} /\ u[c] \in user \cup {NULL}
  BY <1>1 DEF ApartInv, IInv, TypeOK
<1>3. ~ UsesFreedSelf(c)
  BY <1>1 DEF HandlesAlone, Attended, UsesFreedSelf, Freed, Own
<1>4. \A r \in RoomName : \A x \in get_users(r, rooms) : ~ Freed(x)
  BY <1>1, InRoomIsLoggedIn DEF LoggedIn, Freed
<1>5. pc[c] \in {"join_new", "join_admin", "join_list", "quit", "delete", "message"}
        => target[c] \in RoomName
  BY <1>1 DEF StandsWell
<1>6. \A r \in RoomName : ~ Freed(get_admin(r, rooms))
  BY <1>1, <1>4, AdminIsIn DEF Freed
<1>7. ~ UsesFreedUser(c)
  BY <1>1, <1>4, <1>5, <1>6 DEF HandlesAlone, StillTrue, UsesFreedUser
<1>8. ~ UsesNoAdmin(c)
  BY <1>1 DEF HandlesAlone, StillTrue, UsesNoAdmin
<1>12. ~ UsesNoReceiver(c)
  <2>1. \A d \in Conn : pc[d] = "leave" => mutex = d
    BY DEF AloneInv, HandlesAlone, InHandler
  <2>2. NULL \notin Conn
    BY ConstantsAssumption
  <2>3. QED
    BY <2>1, <2>2 DEF UsesNoReceiver
<1>9. ~ UsesFreedRoom(c)
  BY <1>1 DEF HandlesAlone, Crossing, UsesFreedRoom, TargetFreed
<1>10. ~ LeavesFreedChain(c)
  <2>1. CASE pc[c] = "quit"
    <3>1. u[c] \in user /\ target[c] \in RoomName
      BY <1>1, <1>2, <1>5, <2>1 DEF StandsWell, Own
    <3>2. QED
      BY <1>1, <2>1, <3>1, RoomRemovalIsDefined DEF LeavesFreedChain
  <2>2. CASE pc[c] = "leave"
    <3>1. u[c] \in user
      BY <1>1, <1>2, <2>2 DEF StandsWell, Departing, Own
    <3>2. server_user_map \in user_map /\ WellHashed(server_user_map)
      BY <1>1 DEF ApartInv, IInv, TypeOK, TablesWellKept
    <3>3. QED
      BY <2>2, <3>1, <3>2, RemovalIsDefined DEF LeavesFreedChain
  <2>3. QED
    BY <2>1, <2>2 DEF LeavesFreedChain
<1>11. QED
  BY <1>3, <1>7, <1>8, <1>9, <1>10, <1>12 DEF Undefined

\* A thread that has nothing of the tables to remember.
LEMMA ThreadAlone ==
  ASSUME AloneInv, NEW c \in Conn, pc[c] \notin {"closed", "exited"},
         pc'[c] \in {"read", "rejected", "lock", "unlock", "reply"},
         InHandler(c)' => mutex' = c,
         u'[c] = u[c] \/ u'[c] = NULL, buffer'[c].code # "EOF", visit'[c] = {},
         connected'[c] = connected[c]
  PROVE  HandlesAlone(c)'
<1>1. Attended(c)
  BY DEF AloneInv, HandlesAlone
<1>2. Attended(c)'
  BY <1>1 DEF Attended, Own
<1>3. StillTrue(c)' /\ Crossing(c)'
  BY DEF StillTrue, Crossing, Departing
<1>4. QED
  BY <1>2, <1>3 DEF HandlesAlone

\* The requests a client can send.
LEMMA SentHasNoEnd == \A request \in Request \cup {NoRequest} : request.code # "EOF"
  BY DEF Request, Req, NoRequest, RoomCommand

\* A new thread finds nobody in its u.
LEMMA AcceptAlone ==
  ASSUME ~ StackReuse, AloneInv, NEW c \in Conn, Accept(c)
  PROVE  OthersRest(c) /\ UNCHANGED <<mutex, rooms>> /\ HandlesAlone(c)' /\ status' = status
<1>1. TypeOK /\ HandlesAlone(c) /\ pc[c] = "closed"
  BY DEF AloneInv, ApartInv, IInv, Accept, Step
<1>2. u' = [u EXCEPT ![c] = NULL]
  BY DEF Accept
<1>3. /\ pc' = [pc EXCEPT ![c] = "read"] /\ connected' = [connected EXCEPT ![c] = TRUE]
      /\ UNCHANGED <<mutex, rooms, buffer, target, todo, visit, status>>
  BY DEF Accept, Goto, tables
<1>4. OthersRest(c)
  BY <1>1, <1>2, <1>3 DEF TypeOK, OthersRest
<1>5. HandlesAlone(c)'
  BY <1>1, <1>2, <1>3 DEF TypeOK, HandlesAlone, Attended, StillTrue, Crossing, Departing, InHandler
<1>6. QED
  BY <1>3, <1>4, <1>5

\* The steps outside the handlers.
LEMMA OutsideAlone ==
  ASSUME AloneInv, NEW c \in Conn, Receive(c) \/ Rejected(c) \/ Answered(c)
  PROVE  OthersRest(c) /\ UNCHANGED <<mutex, rooms>> /\ HandlesAlone(c)' /\ status' # "undefined"
<1>1. TypeOK /\ HandlesAlone(c)
  BY DEF AloneInv, ApartInv, IInv
<1>2. /\ pc[c] \in {"read", "rejected", "reply"} /\ status = "running"
      /\ UNCHANGED <<mutex, rooms, u, todo, visit, connected>>
  BY DEF Receive, Rejected, Answered, Step, tables, peers
<1>3. status' # "undefined"
  BY <1>2 DEF Receive, Rejected, Answered, WriteTo, peers
<1>4. PICK request \in Request \cup {NoRequest} : buffer' = [buffer EXCEPT ![c] = request]
  BY DEF Receive, Rejected, Answered, Sent
<1>5. PICK label \in {"read", "rejected", "lock"} : pc' = [pc EXCEPT ![c] = label]
  BY DEF Receive, Rejected, Answered, Goto
<1>6. \A d \in Conn \ {c} : target'[d] = target[d]
  BY <1>1 DEF Receive, Rejected, Answered, TypeOK
<1>7. OthersRest(c)
  BY <1>1, <1>2, <1>4, <1>5, <1>6 DEF TypeOK, OthersRest
<1>8. visit[c] = {}
  BY <1>1, <1>2 DEF HandlesAlone, Crossing, Departing
<1>9. buffer'[c].code # "EOF" /\ pc'[c] = label
  BY <1>1, <1>4, <1>5, SentHasNoEnd DEF TypeOK
<1>10. HandlesAlone(c)'
  BY <1>2, <1>5, <1>8, <1>9, ThreadAlone DEF InHandler
<1>11. QED
  BY <1>2, <1>3, <1>7, <1>10

\* A handler that takes the mutex and goes somewhere.
LEMMA TakesMutex ==
  ASSUME AloneInv, NEW c \in Conn, mutex = NULL, pc[c] = "lock", status = "running",
         mutex' = c, UNCHANGED <<buffer, visit, connected>>, status' # "undefined",
         u' = u \/ \E x \in user : u' = [u EXCEPT ![c] = x] /\ x.socket = c,
         \/ UNCHANGED <<target, todo>> /\ Goto(c, "unlock")
         \/ \E r, label : /\ Broadcast(c, r, get_users(r, rooms), label)
                          /\ label \in {"join_new", "quit", "delete", "message"}
                          /\ UNCHANGED rooms
                          /\ ~ Leaving(c)
  PROVE  OthersRest(c) /\ HandlesAlone(c)'
<1>1. TypeOK /\ HandlesAlone(c)
  BY DEF AloneInv, ApartInv, IInv
<1>2. visit[c] = {} /\ connected[c] /\ buffer[c].code # "EOF" /\ (u[c] = NULL \/ Own(c))
  BY <1>1 DEF HandlesAlone, Crossing, Departing, Attended
<1>3. (u'[c] = NULL \/ Own(c)') /\ \A d \in Conn \ {c} : u'[d] = u[d]
  <2>1. CASE u' = u
    BY <1>2, <2>1 DEF Own
  <2>2. CASE \E x \in user : u' = [u EXCEPT ![c] = x] /\ x.socket = c
    BY <1>1, <2>2, NullIsNoUser DEF TypeOK, Own
  <2>3. QED
    BY <2>1, <2>2
<1>4. CASE UNCHANGED <<target, todo>> /\ Goto(c, "unlock")
  <2>1. pc'[c] = "unlock" /\ \A d \in Conn \ {c} : pc'[d] = pc[d]
    BY <1>1, <1>4 DEF Goto, TypeOK
  <2>2. OthersRest(c)
    BY <1>3, <1>4, <2>1 DEF OthersRest
  <2>3. QED
    BY <1>2, <1>3, <2>1, <2>2 DEF HandlesAlone, Attended, StillTrue, Crossing, Departing
<1>5. CASE \E r, label : /\ Broadcast(c, r, get_users(r, rooms), label)
                         /\ label \in {"join_new", "quit", "delete", "message"}
                         /\ UNCHANGED rooms
                         /\ ~ Leaving(c)
  <2>1. PICK r, label : /\ Broadcast(c, r, get_users(r, rooms), label)
                        /\ label \in {"join_new", "quit", "delete", "message"}
                        /\ UNCHANGED rooms
                        /\ ~ Leaving(c)
    BY <1>5
  <2> DEFINE users == get_users(r, rooms)
  <2>2. /\ target' = [target EXCEPT ![c] = r] /\ todo' = [todo EXCEPT ![c] = users]
        /\ pc' = [pc EXCEPT ![c] = label]
    BY <2>1 DEF Broadcast, Goto
  <2> HIDE DEF users
  <2>3. target'[c] = r /\ todo'[c] = users /\ pc'[c] = label
    BY <1>1, <2>2 DEF TypeOK
  <2>4. OthersRest(c)
    BY <1>1, <1>3, <2>2 DEF OthersRest, TypeOK
  <2>5. StillTrue(c)'
    BY <2>1, <2>3 DEF StillTrue, users
  <2>6. QED
    BY <1>2, <1>3, <2>1, <2>3, <2>4, <2>5 DEF HandlesAlone, Attended, Crossing, Departing, Leaving
<1>6. QED
  BY <1>4, <1>5

\* The requests: whatever they look up, they look up with the mutex.
LEMMA CommandAlone ==
  ASSUME AloneInv, NEW c \in Conn,
         \/ CreateRoom(c) \/ JoinRoom(c) \/ Connect(c) \/ QuitRoom(c) \/ DeleteRoom(c)
         \/ Message(c) \/ PrivateMessage(c)
  PROVE  OthersRest(c) /\ mutex = NULL /\ HandlesAlone(c)' /\ status' # "undefined"
<1>1. /\ mutex = NULL /\ pc[c] = "lock" /\ status = "running" /\ mutex' = c
      /\ UNCHANGED <<buffer, visit, connected>> /\ ~ Leaving(c)
  BY DEF CreateRoom, JoinRoom, Connect, QuitRoom, DeleteRoom, Message, PrivateMessage,
         Handle, Step, Refuse, Leaving, peers
<1>2. CASE \E code : Refuse(c, code)
  <2>1. UNCHANGED <<u, target, todo, status>> /\ Goto(c, "unlock")
    BY <1>2 DEF Refuse
  <2>2. QED
    BY <1>1, <2>1, TakesMutex
<1>3. CASE CreateRoom(c) \/ PrivateMessage(c)
  <2>1. CASE ~ \E code : Refuse(c, code)
    <3>1. UNCHANGED <<u, target, todo>> /\ Goto(c, "unlock") /\ status' # "undefined"
      BY <1>3, <2>1 DEF CreateRoom, PrivateMessage, WriteTo
    <3>2. QED
      BY <1>1, <3>1, TakesMutex
  <2>2. QED
    BY <1>2, <2>1
<1>4. CASE JoinRoom(c) \/ QuitRoom(c) \/ DeleteRoom(c) \/ Message(c)
  <2>1. CASE ~ \E code : Refuse(c, code)
    <3>1. /\ UNCHANGED <<u, rooms, status>>
          /\ \E r, label : /\ Broadcast(c, r, get_users(r, rooms), label)
                           /\ label \in {"join_new", "quit", "delete", "message"}
      BY <1>4, <2>1 DEF JoinRoom, QuitRoom, DeleteRoom, Message, tables, peers
    <3>2. QED
      BY <1>1, <3>1, TakesMutex
  <2>2. QED
    BY <1>2, <2>1
<1>5. CASE Connect(c)
  <2>1. CASE ~ \E code : Refuse(c, code)
    <3> DEFINE new == [name |-> buffer[c].name, socket |-> c]
    <3>1. buffer[c] \in Request \cup {NoRequest, EndOfFile} /\ buffer[c].code = "CONNECT"
      BY <1>5 DEF Connect, Handle, AloneInv, ApartInv, IInv, TypeOK
    <3>2. new \in user /\ new.socket = c
      BY <3>1 DEF Request, Req, NoRequest, EndOfFile, RoomCommand, user
    <3>3. /\ u' = [u EXCEPT ![c] = new] /\ UNCHANGED rooms /\ status' # "undefined"
          /\ Broadcast(c, HomeRoom, get_users(HomeRoom, rooms), "join_new")
      BY <1>5, <2>1 DEF Connect, WriteTo
    <3> HIDE DEF new
    <3>4. QED
      BY <1>1, <3>2, <3>3, TakesMutex
  <2>2. QED
    BY <1>2, <2>1
<1>6. QED
  BY <1>3, <1>4, <1>5

\* The steps of a broadcast cross users off the list, and look at no table.
LEMMA BroadcastAlone ==
  ASSUME AloneInv, NEW c \in Conn, JoinNotify(c) \/ JoinList(c) \/ Notify(c)
  PROVE  OthersRest(c) /\ UNCHANGED <<mutex, rooms>> /\ HandlesAlone(c)' /\ status' # "undefined"
<1>1. TypeOK /\ HandlesAlone(c)
  BY DEF AloneInv, ApartInv, IInv
<1>2. /\ UNCHANGED <<mutex, rooms, pc, u, buffer, target, visit, connected>>
      /\ status' # "undefined"
  BY DEF JoinNotify, JoinList, Notify, Step, WriteTo, tables
<1>3. PICK t : todo' = [todo EXCEPT ![c] = @ \ {t}]
  BY DEF JoinNotify, JoinList, Notify
<1>4. todo'[c] \subseteq todo[c] /\ \A d \in Conn \ {c} : todo'[d] = todo[d]
  BY <1>1, <1>3 DEF TypeOK
<1>5. OthersRest(c)
  BY <1>2, <1>4 DEF OthersRest
<1>6. StillTrue(c)'
  BY <1>1, <1>2, <1>4 DEF HandlesAlone, StillTrue
<1>7. InHandler(c)' => mutex' = c
  BY <1>1, <1>2 DEF HandlesAlone, InHandler
<1>8. Attended(c)' /\ Crossing(c)'
  BY <1>1, <1>2 DEF HandlesAlone, Attended, Crossing, Departing, Leaving, Own
<1>9. QED
  BY <1>2, <1>5, <1>6, <1>7, <1>8 DEF HandlesAlone

\* A handler that enters a room finds its admin there at the second look too.
LEMMA JoinAlone ==
  ASSUME AloneInv, NEW c \in Conn, JoinEnter(c) \/ JoinAdmin(c) \/ JoinDone(c)
  PROVE  OthersRest(c) /\ mutex = c /\ HandlesAlone(c)' /\ status' # "undefined"
<1>1. TypeOK /\ HandlesAlone(c)
  BY DEF AloneInv, ApartInv, IInv
<1>2. /\ UNCHANGED <<mutex, u, buffer, target, visit, connected>> /\ status' # "undefined"
      /\ pc[c] \in {"join_new", "join_admin", "join_list"}
  BY DEF JoinEnter, JoinAdmin, JoinDone, Step, WriteTo, tables, peers
<1>3. mutex = c /\ visit[c] = {}
  BY <1>1, <1>2 DEF HandlesAlone, InHandler, Crossing, Departing
<1>4. CASE \E users : ListRoom(c, users) /\ users = get_users(target[c], rooms')
  <2>1. PICK users : ListRoom(c, users) /\ users = get_users(target[c], rooms')
    BY <1>4
  <2>2. todo' = [todo EXCEPT ![c] = users] /\ pc' = [pc EXCEPT ![c] = "join_list"]
    BY <2>1 DEF ListRoom, Goto
  <2>3. todo'[c] = users /\ pc'[c] = "join_list" /\ OthersRest(c)
    BY <1>1, <1>2, <2>2 DEF OthersRest, TypeOK
  <2>4. StillTrue(c)'
    BY <1>2, <2>1, <2>3 DEF StillTrue
  <2>5. Attended(c)' /\ Crossing(c)'
    BY <1>1, <1>2, <1>3, <2>3 DEF HandlesAlone, Attended, Crossing, Departing, Own
  <2>6. QED
    BY <1>2, <1>3, <2>3, <2>4, <2>5 DEF HandlesAlone
<1>5. CASE \/ Goto(c, "join_admin") /\ UNCHANGED todo /\ get_admin(target[c], rooms') # NULL
           \/ Goto(c, "unlock") /\ UNCHANGED todo
  <2>1. /\ pc'[c] \in {"join_admin", "unlock"} /\ OthersRest(c)
        /\ pc'[c] = "join_admin" => get_admin(target[c], rooms') # NULL
    BY <1>1, <1>2, <1>5 DEF OthersRest, TypeOK, Goto
  <2>2. StillTrue(c)'
    BY <1>2, <2>1 DEF StillTrue
  <2>3. Attended(c)' /\ Crossing(c)'
    BY <1>1, <1>2, <1>3, <2>1 DEF HandlesAlone, Attended, Crossing, Departing, Own
  <2>4. QED
    BY <1>2, <1>3, <2>1, <2>2, <2>3 DEF HandlesAlone
<1>6. QED
  BY <1>2, <1>4, <1>5 DEF JoinEnter, JoinAdmin, JoinDone, tables

\* The end of a broadcast, and of a handler.
LEMMA UnlockAlone ==
  ASSUME AloneInv, NEW c \in Conn, MessageDone(c) \/ Unlock(c)
  PROVE  OthersRest(c) /\ mutex = c /\ HandlesAlone(c)' /\ status' # "undefined"
<1>1. TypeOK /\ HandlesAlone(c)
  BY DEF AloneInv, ApartInv, IInv
<1>2. /\ pc[c] \in {"message", "unlock"} /\ status = "running"
      /\ UNCHANGED <<u, buffer, target, todo, visit, connected, status>>
  BY DEF MessageDone, Unlock, Step, locals, peers
<1>3. mutex = c /\ visit[c] = {}
  BY <1>1, <1>2 DEF HandlesAlone, InHandler, Crossing, Departing
<1>4. PICK label \in {"unlock", "reply"} :
        pc' = [pc EXCEPT ![c] = label] /\ (label = "unlock" => mutex' = mutex)
  BY DEF MessageDone, Unlock, Goto
<1>5. pc'[c] = label /\ OthersRest(c)
  BY <1>1, <1>2, <1>4 DEF OthersRest, TypeOK
<1>6. InHandler(c)' => mutex' = c
  BY <1>3, <1>4, <1>5 DEF InHandler
<1>7. buffer[c].code # "EOF"
  BY <1>1 DEF HandlesAlone, Attended
<1>8. HandlesAlone(c)'
  BY <1>2, <1>3, <1>5, <1>6, <1>7, ThreadAlone
<1>9. QED
  BY <1>2, <1>3, <1>5, <1>8

\* A room is left or deleted: no other thread has it on a list.
LEMMA RoomLeftAlone ==
  ASSUME AloneInv, NEW c \in Conn, QuitDone(c) \/ DeleteDone(c)
  PROVE  OthersRest(c) /\ mutex = c /\ HandlesAlone(c)' /\ status' # "undefined"
<1>1. TypeOK /\ HandlesAlone(c)
  BY DEF AloneInv, ApartInv, IInv
<1>2. /\ pc[c] \in {"quit", "delete"} /\ status = "running"
      /\ UNCHANGED <<mutex, u, buffer, target, todo, connected, status>>
  BY DEF QuitDone, DeleteDone, Step, peers
<1>3. mutex = c
  BY <1>1, <1>2 DEF HandlesAlone, InHandler
<1>4. \A d \in Conn \ {c} : visit[d] = {}
  BY <1>3 DEF AloneInv, HandlesAlone, InHandler, Crossing, Departing
<1>5. \A d \in Conn \ {c} : visit'[d] = visit[d]
  BY <1>1, <1>4 DEF QuitDone, DeleteDone, TypeOK
<1>6. visit'[c] \subseteq visit[c]
  BY <1>1 DEF QuitDone, DeleteDone, TypeOK
<1>7. PICK label \in {"leave", "unlock"} :
        pc' = [pc EXCEPT ![c] = label] /\ (label = "leave" <=> Leaving(c))
  BY DEF QuitDone, DeleteDone, Resume, Goto
<1>8. pc'[c] = label /\ \A d \in Conn \ {c} : pc'[d] = pc[d]
  BY <1>1, <1>7 DEF TypeOK
<1>9. OthersRest(c)
  BY <1>2, <1>5, <1>8 DEF OthersRest
<1>10. StillTrue(c)' /\ Attended(c)'
  BY <1>1, <1>2, <1>8 DEF HandlesAlone, StillTrue, Attended, Own
<1>11. Crossing(c)'
  BY <1>1, <1>2, <1>6, <1>7, <1>8 DEF HandlesAlone, Crossing, Departing, Leaving
<1>12. QED
  BY <1>2, <1>3, <1>9, <1>10, <1>11 DEF HandlesAlone

\* A departure makes its list of rooms with the mutex.
LEMMA DisconnectAlone ==
  ASSUME AloneInv, NEW c \in Conn, Disconnect(c)
  PROVE  OthersRest(c) /\ mutex = NULL /\ HandlesAlone(c)' /\ status' # "undefined"
<1>1. TypeOK /\ HandlesAlone(c) /\ rooms \in room_map /\ WellKept(RoomName, rooms)
  BY DEF AloneInv, ApartInv, IInv, TypeOK, TablesWellKept
<1>2. /\ pc[c] = "lock" /\ status = "running" /\ mutex = NULL
      /\ buffer[c].code = "DISCONNECT" /\ u' = u
  BY DEF Disconnect, Handle, Step, BeginLeaving
<1>3. visit[c] = {} /\ connected[c] /\ (u[c] = NULL \/ Own(c))
  BY <1>1, <1>2 DEF HandlesAlone, Crossing, Departing, Attended
<1>4. CASE u[c] = NULL
  <2>1. /\ buffer' = [buffer EXCEPT ![c] = NoRequest]
        /\ target' = [target EXCEPT ![c] = NULL]
        /\ connected' = [connected EXCEPT ![c] = FALSE]
        /\ pc' = [pc EXCEPT ![c] = "exited"]
        /\ UNCHANGED <<todo, visit>> /\ status' # "undefined"
    BY <1>4 DEF Disconnect, Exit, Goto, WriteTo
  <2>2. pc'[c] = "exited" /\ buffer'[c].code # "EOF" /\ u'[c] = NULL /\ visit'[c] = {}
    BY <1>1, <1>2, <1>3, <1>4, <2>1, SentHasNoEnd DEF TypeOK
  <2>3. OthersRest(c)
    BY <1>1, <1>2, <2>1 DEF OthersRest, TypeOK
  <2>4. HandlesAlone(c)'
    BY <2>2 DEF HandlesAlone, InHandler, Attended, StillTrue, Crossing, Departing
  <2>5. QED
    BY <1>2, <2>1, <2>3, <2>4
<1>5. CASE u[c] # NULL
  <2> DEFINE list == get_user_rooms(u[c], rooms)
  <2>1. /\ visit' = [visit EXCEPT ![c] = list] /\ pc' = [pc EXCEPT ![c] = "leave"]
        /\ UNCHANGED <<buffer, target, todo, connected, status>> /\ mutex' = c
    BY <1>5 DEF Disconnect, BeginLeaving, Goto, peers
  <2>2. FreedRoom \notin list
    BY <1>1, GetUserRooms, ConstantsAssumption
  <2> HIDE DEF list
  <2>3. visit'[c] = list /\ pc'[c] = "leave"
    BY <1>1, <2>1 DEF TypeOK
  <2>4. OthersRest(c)
    BY <1>1, <1>2, <2>1 DEF OthersRest, TypeOK
  <2>5. Crossing(c)'
    BY <1>2, <2>1, <2>2, <2>3 DEF Crossing, Departing, Leaving
  <2>6. StillTrue(c)' /\ Attended(c)'
    BY <1>2, <1>3, <2>1, <2>3 DEF StillTrue, Attended, Own
  <2>7. QED
    BY <1>2, <2>1, <2>4, <2>5, <2>6 DEF HandlesAlone
<1>6. QED
  BY <1>4, <1>5

\* The next room of the list, and the end of it.
LEMMA LeaveAlone ==
  ASSUME AloneInv, NEW c \in Conn, LeaveRoom(c) \/ LeaveDone(c)
  PROVE  OthersRest(c) /\ mutex = c /\ HandlesAlone(c)' /\ status' # "undefined"
<1>1. TypeOK /\ HandlesAlone(c)
  BY DEF AloneInv, ApartInv, IInv
<1>2. /\ pc[c] = "leave" /\ status = "running" /\ UNCHANGED <<rooms, u, visit>>
      /\ status' # "undefined"
  BY DEF LeaveRoom, LeaveDone, Step, WriteTo, tables, peers
<1>3. mutex = c /\ (u'[c] = NULL \/ Own(c)') /\ FreedRoom \notin visit[c] /\ connected[c]
  BY <1>1, <1>2 DEF HandlesAlone, InHandler, Attended, Crossing, Own
<1>4. CASE LeaveRoom(c)
  <2>1. PICK r \in visit[c], label \in {"delete", "quit"} :
          Broadcast(c, r, get_users(r, rooms), label)
    BY <1>4 DEF LeaveRoom
  <2> DEFINE users == get_users(r, rooms)
  <2>2. /\ target' = [target EXCEPT ![c] = r] /\ todo' = [todo EXCEPT ![c] = users]
        /\ pc' = [pc EXCEPT ![c] = label]
        /\ UNCHANGED <<mutex, buffer, connected>>
    BY <1>4, <2>1 DEF LeaveRoom, Broadcast, Goto, peers
  <2> HIDE DEF users
  <2>3. target'[c] = r /\ todo'[c] = users /\ pc'[c] = label
    BY <1>1, <2>2 DEF TypeOK
  <2>4. OthersRest(c)
    BY <1>1, <1>2, <2>2 DEF OthersRest, TypeOK
  <2>5. StillTrue(c)'
    BY <1>2, <2>3 DEF StillTrue, users
  <2>6. Crossing(c)'
    <3>1. Leaving(c)
      BY <1>1, <1>2 DEF AloneInv, ApartInv, IInv, AllStandWell, StandsWell
    <3>2. QED
      BY <1>2, <1>3, <2>1, <2>2, <2>3, <3>1 DEF Crossing, Departing, Leaving
  <2>7. Attended(c)'
    BY <1>1, <1>3, <2>2 DEF HandlesAlone, Attended
  <2>8. QED
    BY <1>2, <1>3, <2>2, <2>4, <2>5, <2>6, <2>7 DEF HandlesAlone
<1>5. CASE LeaveDone(c)
  <2>1. /\ buffer' = [buffer EXCEPT ![c] = NoRequest]
        /\ target' = [target EXCEPT ![c] = NULL]
        /\ connected' = [connected EXCEPT ![c] = FALSE]
        /\ pc' = [pc EXCEPT ![c] = "exited"]
        /\ UNCHANGED todo /\ visit[c] = {}
    BY <1>5 DEF LeaveDone, Exit, Goto
  <2>2. pc'[c] = "exited" /\ buffer'[c].code # "EOF" /\ visit'[c] = {}
    BY <1>1, <1>2, <2>1, SentHasNoEnd DEF TypeOK
  <2>3. OthersRest(c)
    BY <1>1, <1>2, <2>1 DEF OthersRest, TypeOK
  <2>4. HandlesAlone(c)'
    BY <1>3, <2>2 DEF HandlesAlone, InHandler, Attended, StillTrue, Crossing, Departing
  <2>5. QED
    BY <1>2, <1>3, <2>3, <2>4
<1>6. QED
  BY <1>4, <1>5

\* No step of a thread makes it use what was freed.
LEMMA AloneStep ==
  ASSUME Apart, ~ Drops, ~ StackReuse, AloneInv, [Next]_vars
  PROVE  AloneInv'
<1>1. ApartInv'
  BY StepServes DEF AloneInv
<1>2. ASSUME NEW c \in Conn, OthersRest(c), HandlesAlone(c)', status' # "undefined",
             mutex \in {c, NULL} \/ UNCHANGED <<mutex, rooms>>
      PROVE  AloneInv'
  BY <1>1, <1>2, OthersAlone DEF AloneInv
<1>3. CASE UNCHANGED vars
  <2>1. \A c \in Conn : HandlesAlone(c)'
    BY <1>3 DEF AloneInv, HandlesAlone, InHandler, Attended, StillTrue, Crossing, Departing,
       Leaving, Own, vars, tables, locals, peers
  <2>2. QED
    BY <1>1, <1>3, <2>1 DEF AloneInv, vars
<1>4. ASSUME NEW c \in Conn, Accept(c) \/ PeerGone(c) \/ Receive(c) \/ Work(c)
      PROVE  AloneInv'
  <2>1. HandlesAlone(c) /\ ~ Undefined(c)
    BY NothingFreedIsUsed DEF AloneInv
  <2>2. ~ ConnectionStopped(c) /\ ~ PeerGone(c)
    BY <2>1 DEF HandlesAlone, Attended, ConnectionStopped, Step, PeerGone
  <2>3. CASE Accept(c)
    BY <1>2, <2>3, AcceptAlone DEF AloneInv
  <2>4. CASE Receive(c) \/ Rejected(c) \/ Answered(c)
    BY <1>2, <2>4, OutsideAlone
  <2>5. CASE \/ CreateRoom(c) \/ JoinRoom(c) \/ Connect(c) \/ QuitRoom(c) \/ DeleteRoom(c)
             \/ Message(c) \/ PrivateMessage(c)
    BY <1>2, <2>5, CommandAlone
  <2>6. CASE JoinNotify(c) \/ JoinList(c) \/ Notify(c)
    BY <1>2, <2>6, BroadcastAlone
  <2>7. CASE JoinEnter(c) \/ JoinAdmin(c) \/ JoinDone(c)
    BY <1>2, <2>7, JoinAlone
  <2>8. CASE MessageDone(c) \/ Unlock(c)
    BY <1>2, <2>8, UnlockAlone
  <2>9. CASE QuitDone(c) \/ DeleteDone(c)
    BY <1>2, <2>9, RoomLeftAlone
  <2>10. CASE Disconnect(c)
    BY <1>2, <2>10, DisconnectAlone
  <2>11. CASE LeaveRoom(c) \/ LeaveDone(c)
    BY <1>2, <2>11, LeaveAlone
  <2>12. QED
    BY <1>4, <2>1, <2>2, <2>3, <2>4, <2>5, <2>6, <2>7, <2>8, <2>9, <2>10, <2>11 DEF Work
<1>5. QED
  BY <1>3, <1>4 DEF Next, Stopped

\* When no two names share a bucket, clients do not vanish and stacks are fresh,
\* no thread uses a struct that was freed (server.c:55-360): each one is freed by
\* its own thread, with the mutex, and no other thread remembers it.
THEOREM NothingFreedIsEverUsed ==
  ASSUME Apart, ~ Drops, ~ StackReuse
  PROVE  Spec => []NeverUndefined
<1>1. Init => AloneInv
  <2> SUFFICES ASSUME Init PROVE AloneInv
    OBVIOUS
  <2>1. ApartInv
    BY InitServes
  <2>2. \A c \in Conn : HandlesAlone(c)
    BY DEF Init, HandlesAlone, InHandler, Attended, StillTrue, Crossing, Departing, NoRequest, Req
  <2>3. QED
    BY <2>1, <2>2 DEF AloneInv, Init
<1>2. AloneInv /\ [Next]_vars => AloneInv'
  BY AloneStep
<1>3. AloneInv => NeverUndefined
  BY DEF AloneInv, NeverUndefined
<1>4. QED
  BY <1>1, <1>2, <1>3, PTL DEF Spec

----------------------------------------------------------------------------
(***************************************************************************)
(* What the messages make of a tab.                                        *)
(***************************************************************************)

\* A room is opened, and closed.
LEMMA TabOpened ==
  ASSUME NEW view \in Roster!View, NEW r \in RoomName
  PROVE  /\ view[r] = Roster!ClosedRoom => Roster!OnCreateRoom(view, r)[r] = Shown({})
         /\ view[r].tabs <= 1 => Roster!OnDeleteRoom(view, r)[r] = Roster!ClosedRoom
         /\ \A q \in RoomName \ {r} : /\ Roster!OnCreateRoom(view, r)[q] = view[q]
                                      /\ Roster!OnDeleteRoom(view, r)[q] = view[q]
<1>1. view[r].tabs \in 0 .. MaxLines /\ MaxLines \in Nat /\ MaxLines >= 2
  BY ConstantsAssumption DEF Roster!View, Roster!RoomView
<1>2. ASSUME view[r].tabs <= 1
      PROVE  Roster!OneLess(view[r].tabs) = 0
  BY <1>1, <1>2 DEF Roster!OneLess
<1>3. Roster!OneMore(0) = 1
  BY <1>1 DEF Roster!OneMore
<1>4. Shown({}) = [tabs |-> 1, known |-> TRUE, lines |-> Roster!NoLines]
  BY DEF Shown, Roster!NoLines
<1>5. /\ \A x : [view EXCEPT ![r] = x][r] = x
      /\ \A x : \A q \in RoomName \ {r} : [view EXCEPT ![r] = x][q] = view[q]
  BY DEF Roster!View
<1>6. view[r] = Roster!ClosedRoom => Roster!OnCreateRoom(view, r)[r] = Shown({})
  BY <1>3, <1>4, <1>5 DEF Roster!OnCreateRoom, Roster!ClosedRoom
<1>7. view[r].tabs <= 1 => Roster!OnDeleteRoom(view, r)[r] = Roster!ClosedRoom
  BY <1>2, <1>5 DEF Roster!OnDeleteRoom, Roster!ClosedRoom
<1>8. \A q \in RoomName \ {r} : /\ Roster!OnCreateRoom(view, r)[q] = view[q]
                                /\ Roster!OnDeleteRoom(view, r)[q] = view[q]
  BY <1>5 DEF Roster!OnCreateRoom, Roster!OnDeleteRoom
<1>9. QED
  BY <1>6, <1>7, <1>8

\* A line of a tab changes, and nothing else.
WithLine(view, r, l, n) == [view EXCEPT ![r].lines[l] = n]

LEMMA LineChanged ==
  ASSUME NEW view \in Roster!View, NEW r \in RoomName, NEW l, NEW n
  PROVE  WithLine(view, r, l, n)
           = [view EXCEPT ![r] = [tabs |-> view[r].tabs, known |-> view[r].known,
                                  lines |-> [view[r].lines EXCEPT ![l] = n]]]
<1>1. ASSUME NEW tab \in Roster!RoomView, NEW lines
      PROVE  [tab EXCEPT !.lines = lines]
               = [tabs |-> tab.tabs, known |-> tab.known, lines |-> lines]
  BY DEF Roster!RoomView
<1>2. view[r] \in Roster!RoomView
  BY DEF Roster!View
<1>3. [view[r] EXCEPT !.lines = [view[r].lines EXCEPT ![l] = n]]
        = [tabs |-> view[r].tabs, known |-> view[r].known,
           lines |-> [view[r].lines EXCEPT ![l] = n]]
  BY <1>1, <1>2
<1>4. QED
  BY <1>3, Zenon DEF WithLine

\* Somebody else comes in.
LEMMA Arrived ==
  ASSUME NEW view \in Roster!View, NEW r \in RoomName, NEW S, NEW x \in user,
         view[r] = Shown(S), \A y \in S : y.name # x.name
  PROVE  /\ Roster!OnArrival(view, r, x.name)[r] = Shown(S \cup {x})
         /\ \A q \in RoomName \ {r} : Roster!OnArrival(view, r, x.name)[q] = view[q]
<1> DEFINE l == x.name
<1>1. l \in Login /\ Shown(S).known /\ Shown(S).lines[l] = 0
  BY DEF user, Shown
<1>2. Roster!OneMore(0) = 1
  BY ConstantsAssumption DEF Roster!OneMore
<1>3. Roster!OnArrival(view, r, l) = WithLine(view, r, l, 1)
  BY <1>1, <1>2 DEF Roster!OnArrival, WithLine
<1>4. [Shown(S).lines EXCEPT ![l] = 1] = Shown(S \cup {x}).lines
  BY DEF Shown
<1>5. Shown(S \cup {x}) = [tabs |-> 1, known |-> TRUE, lines |-> Shown(S \cup {x}).lines]
  BY DEF Shown
<1> HIDE DEF l
<1>6. WithLine(view, r, l, 1)
        = [view EXCEPT ![r] = [tabs |-> view[r].tabs, known |-> view[r].known,
                               lines |-> [view[r].lines EXCEPT ![l] = 1]]]
  BY LineChanged
<1>7. view[r].tabs = 1 /\ view[r].known = TRUE /\ view[r].lines = Shown(S).lines
  BY DEF Shown
<1>8. Roster!OnArrival(view, r, l) = [view EXCEPT ![r] = Shown(S \cup {x})]
  BY <1>3, <1>4, <1>5, <1>6, <1>7, Zenon
<1>9. QED
  BY <1>8 DEF Roster!View, l

\* Somebody goes, or was not there.
LEMMA Departed ==
  ASSUME NEW view \in Roster!View, NEW r \in RoomName, NEW S, NEW x \in user,
         view[r] = Shown(S), \A y \in S : y.name = x.name => y = x
  PROVE  /\ Roster!OnRmUser(view, r, x.name)[r] = Shown(S \ {x})
         /\ \A q \in RoomName \ {r} : Roster!OnRmUser(view, r, x.name)[q] = view[q]
<1> DEFINE l == x.name
<1>1. l \in Login /\ Shown(S).known /\ Shown(S).lines[l] \in {0, 1}
  BY DEF user, Shown
<1>2. Roster!OneLess(0) = 0 /\ Roster!OneLess(1) = 0
  BY DEF Roster!OneLess
<1>3. Roster!OnRmUser(view, r, l) = WithLine(view, r, l, 0)
  BY <1>1, <1>2 DEF Roster!OnRmUser, WithLine
<1>4. [Shown(S).lines EXCEPT ![l] = 0] = Shown(S \ {x}).lines
  BY DEF Shown
<1>5. Shown(S \ {x}) = [tabs |-> 1, known |-> TRUE, lines |-> Shown(S \ {x}).lines]
  BY DEF Shown
<1> HIDE DEF l
<1>6. WithLine(view, r, l, 0)
        = [view EXCEPT ![r] = [tabs |-> view[r].tabs, known |-> view[r].known,
                               lines |-> [view[r].lines EXCEPT ![l] = 0]]]
  BY LineChanged
<1>7. view[r].tabs = 1 /\ view[r].known = TRUE /\ view[r].lines = Shown(S).lines
  BY DEF Shown
<1>8. Roster!OnRmUser(view, r, l) = [view EXCEPT ![r] = Shown(S \ {x})]
  BY <1>3, <1>4, <1>5, <1>6, <1>7, Zenon
<1>9. QED
  BY <1>8 DEF Roster!View, l

----------------------------------------------------------------------------
(***************************************************************************)
(* What the clients are shown.                                             *)
(***************************************************************************)

\* The user of a thread is in a room as itself, and its client is there.
LEMMA OneInRoom ==
  ASSUME AloneInv, NEW r \in RoomName, NEW t \in get_users(r, rooms)
  PROVE  /\ t \in user /\ t.socket \in Conn /\ LoggedIn(t.socket)
         /\ connected[t.socket] /\ pc[t.socket] \notin {"closed", "exited"}
         /\ \A d \in Conn : u[d] = t <=> d = t.socket
<1>1. /\ ApartInv /\ IInv
      /\ \A d \in Conn : HandlesAlone(d)
  BY DEF AloneInv, ApartInv
<1>2. t \in user /\ t.socket \in Conn /\ u[t.socket] = t /\ LoggedIn(t.socket)
  BY <1>1, InRoomIsLoggedIn
<1>3. t \in ListedUsers
  <2>1. rooms \in room_map /\ WellKept(RoomName, rooms)
    BY <1>1 DEF IInv, TypeOK, TablesWellKept
  <2>2. PICK q \in AllRooms(rooms) : t \in Users(q.users)
    BY <2>1, GetUsers
  <2>3. QED
    BY <2>2 DEF ListedUsers
<1>4. pc[t.socket] \notin {"closed", "exited"}
  BY <1>1, <1>3 DEF IInv, ListedIsOwned
<1>5. connected[t.socket]
  BY <1>1, <1>2, <1>4 DEF HandlesAlone, Attended
<1>6. \A d \in Conn : u[d] = t => d = t.socket
  BY <1>1, <1>2, NullIsNoUser DEF HandlesAlone, Attended, Own
<1>7. QED
  BY <1>2, <1>4, <1>5, <1>6

\* No two users of a room have the same name.
LEMMA NamesApart ==
  ASSUME AloneInv, NEW r \in RoomName,
         NEW x \in get_users(r, rooms), NEW y \in get_users(r, rooms), x.name = y.name
  PROVE  x = y
<1>1. y.socket \in Conn /\ LoggedIn(y.socket) /\ u[y.socket] = y
  BY OneInRoom
<1>2. QED
  BY <1>1, OnlyOne DEF AloneInv

\* Only the thread that takes a step has its request answered by it.
OthersWait(c) == OthersRest(c) /\ \A d \in Conn \ {c} : response'[d] = response[d]

LEMMA OthersUnanswered ==
  ASSUME TypeOK, NEW c \in Conn, Accept(c) \/ PeerGone(c) \/ Receive(c) \/ Work(c)
  PROVE  \A d \in Conn \ {c} : response'[d] = response[d]
<1>1. UNCHANGED response \/ \E code : response' = [response EXCEPT ![c] = code]
  <2>1. CASE Accept(c) \/ PeerGone(c) \/ Receive(c) \/ Rejected(c) \/ ConnectionStopped(c)
    BY <2>1 DEF Accept, PeerGone, Receive, Rejected, ConnectionStopped, BeginLeaving, Answer, locals
  <2>2. CASE \/ CreateRoom(c) \/ JoinRoom(c) \/ Connect(c) \/ QuitRoom(c) \/ DeleteRoom(c)
             \/ Message(c) \/ PrivateMessage(c) \/ Disconnect(c)
    BY <2>2 DEF CreateRoom, JoinRoom, Connect, QuitRoom, DeleteRoom, Message, PrivateMessage,
       Disconnect, BeginLeaving, Refuse, Answer
  <2>3. CASE \/ JoinNotify(c) \/ JoinEnter(c) \/ JoinAdmin(c) \/ JoinList(c) \/ JoinDone(c)
             \/ Notify(c) \/ MessageDone(c) \/ QuitDone(c) \/ DeleteDone(c)
    BY <2>3 DEF JoinNotify, JoinEnter, JoinAdmin, JoinList, JoinDone, Notify, MessageDone,
       QuitDone, DeleteDone, Resume, Answer, locals
  <2>4. CASE LeaveRoom(c) \/ LeaveDone(c) \/ Unlock(c) \/ Answered(c) \/ Undefined(c)
    BY <2>4 DEF LeaveRoom, LeaveDone, Unlock, Answered, Undefined, locals
  <2>5. QED
    BY <2>1, <2>2, <2>3, <2>4 DEF Work
<1>2. QED
  BY <1>1 DEF TypeOK

\* What the steps of other threads leave of what a thread knows.
LEMMA OthersKnow ==
  ASSUME DisplayInv, NEW c \in Conn, OthersWait(c),
         mutex \in {c, NULL} \/ UNCHANGED <<mutex, rooms>>,
         \A r \in RoomName : \A x \in get_users(r, rooms') :
           x \in get_users(r, rooms) \/ (x = u[c] /\ Own(c))
  PROVE  \A d \in Conn \ {c} :
           KnowsItsRoom(d)' /\ (connected'[d] => pc'[d] \notin {"closed", "exited"})
<1> SUFFICES ASSUME NEW d \in Conn \ {c}
             PROVE  KnowsItsRoom(d)' /\ (connected'[d] => pc'[d] \notin {"closed", "exited"})
  OBVIOUS
<1>1. /\ pc'[d] = pc[d] /\ u'[d] = u[d] /\ target'[d] = target[d]
      /\ response'[d] = response[d] /\ connected'[d] = connected[d]
  BY DEF OthersWait, OthersRest
<1>2. /\ KnowsItsRoom(d) /\ HandlesAlone(d)
      /\ connected[d] => pc[d] \notin {"closed", "exited"}
  BY DEF DisplayInv, AloneInv
<1>3. CASE InHandler(d)
  <2>1. UNCHANGED rooms
    BY <1>2, <1>3, NullIsNoUser DEF HandlesAlone
  <2>2. QED
    BY <1>1, <1>2, <2>1 DEF KnowsItsRoom
<1>4. CASE ~ InHandler(d)
  <2>1. u[d] = u[c] => ~ Own(c)
    BY <1>2, NullIsNoUser DEF HandlesAlone, Attended, Own
  <2>2. QED
    BY <1>1, <1>2, <1>4, <2>1 DEF KnowsItsRoom, InHandler
<1>5. QED
  BY <1>3, <1>4

\* A tab that nothing is written to, and should not be.
LEMMA TabStays ==
  ASSUME DisplayInv, NEW c \in Conn, OthersWait(c), pc[c] # "exited",
         NEW d \in Watched, NEW r \in RoomName, pc'[d] # "exited",
         client'[d][r] = client[d][r],
         HasTab(d, r)' <=> HasTab(d, r), HasTab(d, r) => Told(d, r)' = Told(d, r),
         Parting(c, r) => Parting(c, r)'
  PROVE  Displays(d, r)'
<1>1. d \in Conn
  BY ConstantsAssumption
<1>2. pc[d] # "exited"
  BY <1>1 DEF OthersWait, OthersRest
<1>3. Displays(d, r)
  BY <1>2 DEF DisplayInv
<1>4. Parting(d, r) => Parting(d, r)'
  BY <1>1 DEF OthersWait, OthersRest, Parting, Departing, Leaving
<1>5. Roster!ClosedRoom.tabs <= 1
  BY DEF Roster!ClosedRoom
<1>6. QED
  BY <1>3, <1>4, <1>5 DEF Displays

\* Nothing on a tab depends on a thread that is not handling a request.
LEMMA ToldOutside ==
  ASSUME NEW c \in Conn, OthersRest(c), UNCHANGED <<mutex, rooms>>, u'[c] = u[c],
         ~ InHandler(c), ~ InHandler(c)', NEW d \in Conn, NEW r
  PROVE  (HasTab(d, r)' <=> HasTab(d, r)) /\ Told(d, r)' = Told(d, r)
<1>1. u'[d] = u[d]
  BY DEF OthersRest
<1>2. CASE mutex \in Conn \ {c}
  <2>1. /\ mutex' = mutex /\ pc'[mutex] = pc[mutex] /\ target'[mutex] = target[mutex]
        /\ todo'[mutex] = todo[mutex] /\ u'[mutex] = u[mutex]
    BY <1>2 DEF OthersRest
  <2>2. QED
    BY <1>1, <1>2, <2>1 DEF HasTab, ToldGone, Told
<1>3. CASE mutex \notin Conn \ {c}
  BY <1>1, <1>3 DEF HasTab, ToldGone, Told, InHandler
<1>4. QED
  BY <1>2, <1>3

\* Everybody in room r is shown all of its users.
ToldAll(d, r) ==
  u[d] \in get_users(r, rooms) => ~ ToldGone(d, r) /\ Told(d, r) = get_users(r, rooms)

\* It is so if the handler at work, if any, has told nobody anything yet.
Even(c) ==
  \/ pc[c] \notin {"join_new", "join_admin", "join_list", "quit", "delete"}
  \/ pc[c] \in {"join_new", "quit", "delete"} /\ todo[c] = get_users(target[c], rooms)

LEMMA EvenTold ==
  ASSUME NEW c \in Conn, mutex \in {c, NULL}, Even(c), NEW d \in Conn, NEW r
  PROVE  ToldAll(d, r)
<1>1. mutex \in Conn => mutex = c
  BY NullIsNoUser
<1>2. QED
  BY <1>1 DEF ToldAll, Even, ToldGone, Told

LEMMA EvenToldNext ==
  ASSUME NEW c \in Conn, mutex' \in {c, NULL}, Even(c)', NEW d \in Conn, NEW r
  PROVE  ToldAll(d, r)'
<1>1. mutex' \in Conn => mutex' = c
  BY NullIsNoUser
<1>2. QED
  BY <1>1 DEF ToldAll, Even, ToldGone, Told

\* What a step of thread c has to show.
ShowsRight(c) ==
  /\ KnowsItsRoom(c)' /\ (connected'[c] => pc'[c] \notin {"closed", "exited"})
  /\ \A r \in RoomName : \A x \in get_users(r, rooms') :
       x \in get_users(r, rooms) \/ (x = u[c] /\ Own(c))
  /\ \A d \in Watched, r \in RoomName : pc'[d] # "exited" => Displays(d, r)'

\* A step that changes no room lets nobody in.
LEMMA NothingEntered ==
  ASSUME NEW c \in Conn, UNCHANGED rooms,
         KnowsItsRoom(c)', connected'[c] => pc'[c] \notin {"closed", "exited"},
         \A d \in Watched, r \in RoomName : pc'[d] # "exited" => Displays(d, r)'
  PROVE  ShowsRight(c)
<1>1. \A r \in RoomName : \A x \in get_users(r, rooms') : x \in get_users(r, rooms)
  OBVIOUS
<1>2. QED
  BY <1>1 DEF ShowsRight

\* A handler that begins, or ends, with everybody told the same.
LEMMA EvenMove ==
  ASSUME DisplayInv, NEW c \in Conn, OthersWait(c), UNCHANGED <<rooms, client>>, pc[c] # "exited",
         \/ u'[c] = u[c]
         \/ \A r \in RoomName : u[c] \notin get_users(r, rooms) /\ u'[c] \notin get_users(r, rooms),
         \A d \in Watched, r \in RoomName : ToldAll(d, r),
         \A d \in Watched, r \in RoomName : ToldAll(d, r)',
         \A r \in RoomName : Parting(c, r) => Parting(c, r)',
         KnowsItsRoom(c)' /\ (connected'[c] => pc'[c] \notin {"closed", "exited"})
  PROVE  ShowsRight(c)
<1>1. ASSUME NEW d \in Watched, NEW r \in RoomName, pc'[d] # "exited"
      PROVE  Displays(d, r)'
  <2>1. u'[d] \in get_users(r, rooms) <=> u[d] \in get_users(r, rooms)
    BY ConstantsAssumption DEF OthersWait, OthersRest
  <2>2. ToldAll(d, r) /\ ToldAll(d, r)'
    OBVIOUS
  <2>3. (HasTab(d, r)' <=> HasTab(d, r)) /\ (HasTab(d, r) => Told(d, r)' = Told(d, r))
    BY <2>1, <2>2 DEF HasTab, ToldAll
  <2>4. client'[d][r] = client[d][r]
    OBVIOUS
  <2>5. QED
    BY <1>1, <2>3, <2>4, TabStays
<1>2. QED
  BY <1>1, NothingEntered

\* A new client displays nothing.
LEMMA AcceptShows ==
  ASSUME ~ StackReuse, DisplayInv, NEW c \in Conn, Accept(c), OthersWait(c)
  PROVE  ShowsRight(c)
<1>1. TypeOK /\ AloneInv /\ ApartInv /\ KnowsItsRoom(c)
  BY DEF DisplayInv, AloneInv, ApartInv, IInv
<1>2. /\ pc[c] = "closed" /\ u' = [u EXCEPT ![c] = NULL] /\ pc' = [pc EXCEPT ![c] = "read"]
      /\ UNCHANGED <<mutex, rooms, client, response, target>>
  BY DEF Accept, Step, Goto, tables
<1>3. pc'[c] = "read" /\ u'[c] = NULL
  BY <1>1, <1>2 DEF TypeOK
<1>4. \A r \in RoomName : u[c] \notin get_users(r, rooms)
  BY <1>1, <1>2, OneInRoom
<1>5. \A r \in RoomName : NULL \notin get_users(r, rooms)
  BY <1>1, OneInRoom, NullIsNoUser
<1>6. KnowsItsRoom(c)'
  BY <1>1, <1>2, <1>3 DEF KnowsItsRoom
<1>7. ASSUME NEW d \in Watched, NEW r \in RoomName, pc'[d] # "exited"
      PROVE  Displays(d, r)'
  <2>1. d \in Conn
    BY ConstantsAssumption
  <2>2. CASE d = c
    <3>1. client[c][r] = Roster!ClosedRoom
      BY <1>2, <1>4, <2>2 DEF DisplayInv, Displays, HasTab, Parting, Departing
    <3>2. ~ HasTab(c, r)'
      BY <1>2, <1>3, <1>5 DEF HasTab
    <3>3. ~ Parting(c, r)'
      BY <1>3 DEF Parting, Departing
    <3>4. QED
      BY <1>2, <2>2, <3>1, <3>2, <3>3 DEF Displays
  <2>3. CASE d # c
    <3>1. (HasTab(d, r)' <=> HasTab(d, r)) /\ Told(d, r)' = Told(d, r)
      <4>1. u'[d] = u[d] /\ \A h \in Conn \ {c} : /\ pc'[h] = pc[h] /\ target'[h] = target[h]
                                                 /\ todo'[h] = todo[h] /\ u'[h] = u[h]
        BY <2>1, <2>3 DEF OthersWait, OthersRest
      <4>2. CASE mutex \in Conn \ {c}
        BY <1>2, <2>3, <4>1, <4>2 DEF HasTab, ToldGone, Told
      <4>3. CASE mutex \notin Conn \ {c}
        BY <1>2, <1>3, <2>1, <2>3, <4>1, <4>3 DEF HasTab, ToldGone, Told
      <4>4. QED
        BY <4>2, <4>3
    <3>2. Parting(c, r) => Parting(c, r)'
      BY <1>2 DEF Parting, Departing
    <3>3. QED
      BY <1>2, <1>7, <3>1, <3>2, TabStays
  <2>4. QED
    BY <2>2, <2>3
<1>8. QED
  BY <1>2, <1>3, <1>6, <1>7, NothingEntered

\* A request is read, or thrown away.
LEMMA ReceiveShows ==
  ASSUME DisplayInv, NEW c \in Conn, Receive(c) \/ Rejected(c), OthersWait(c)
  PROVE  ShowsRight(c)
<1>1. TypeOK /\ KnowsItsRoom(c)
  BY DEF DisplayInv, AloneInv, ApartInv, IInv
<1>2. /\ pc[c] \in {"read", "rejected"} /\ UNCHANGED <<mutex, rooms, u, client, target>>
  BY DEF Receive, Rejected, Step, tables, peers
<1>3. PICK label \in {"read", "rejected", "lock"} : pc' = [pc EXCEPT ![c] = label]
  BY DEF Receive, Rejected, Goto
<1>4. pc'[c] = label
  BY <1>1, <1>3 DEF TypeOK
<1>5. response'[c] # "DELETE_ROOM"
  <2>1. response[c] # "DELETE_ROOM"
    BY <1>1, <1>2 DEF KnowsItsRoom
  <2>2. QED
    BY <1>1, <2>1 DEF Receive, Rejected, Answer, TypeOK
<1>6. KnowsItsRoom(c)'
  BY <1>3, <1>4, <1>5 DEF KnowsItsRoom
<1>7. ASSUME NEW d \in Watched, NEW r \in RoomName, pc'[d] # "exited"
      PROVE  Displays(d, r)'
  <2>1. (HasTab(d, r)' <=> HasTab(d, r)) /\ Told(d, r)' = Told(d, r)
    <3>1. ~ InHandler(c) /\ ~ InHandler(c)' /\ d \in Conn /\ OthersRest(c)
      BY <1>2, <1>3, <1>4, ConstantsAssumption DEF InHandler, OthersWait
    <3>2. QED
      BY <1>2, <3>1, ToldOutside
  <2>2. Parting(c, r) => Parting(c, r)'
    BY <1>2 DEF Parting, Departing
  <2>3. QED
    BY <1>2, <1>7, <2>1, <2>2, TabStays
<1>8. QED
  BY <1>2, <1>3, <1>4, <1>6, <1>7, NothingEntered

\* The reply to a user that is out of a room closes its tab.
LEMMA AnsweredShows ==
  ASSUME DisplayInv, NEW c \in Conn, Answered(c), OthersWait(c)
  PROVE  ShowsRight(c)
<1>1. TypeOK /\ KnowsItsRoom(c)
  BY DEF DisplayInv, AloneInv, ApartInv, IInv
<1>2. pc[c] = "reply" /\ UNCHANGED <<mutex, rooms, u>>
  BY DEF Answered, Step, tables
<1>3. pc'[c] = "read" /\ response'[c] = "NONE"
  BY <1>1 DEF Answered, Goto, TypeOK
<1>4. KnowsItsRoom(c)'
  BY <1>3 DEF KnowsItsRoom
<1>5. \A r : ~ Parting(c, r)'
  BY <1>3 DEF Parting, Departing
<1> DEFINE closing(r) == response[c] = "DELETE_ROOM" /\ target[c] = r
           view == IF response[c] = "DELETE_ROOM" THEN Roster!OnDeleteRoom(client[c], target[c])
                                                  ELSE client[c]
<1>6. ASSUME NEW d \in Watched, NEW r \in RoomName, pc'[d] # "exited"
      PROVE  Displays(d, r)'
  <2>1. d \in Conn /\ ~ InHandler(c) /\ ~ InHandler(c)' /\ OthersRest(c)
    BY <1>2, <1>3, ConstantsAssumption DEF InHandler, OthersWait
  <2>2. (HasTab(d, r)' <=> HasTab(d, r)) /\ Told(d, r)' = Told(d, r)
    BY <1>2, <2>1, ToldOutside
  <2>3. CASE d = c /\ closing(r)
    <3>1. ~ HasTab(c, r) /\ Parting(c, r)
      BY <1>1, <1>2, <2>3 DEF KnowsItsRoom, HasTab, Parting
    <3>2. client[c][r].tabs <= 1
      BY <1>2, <2>3, <3>1 DEF DisplayInv, Displays
    <3>3. connected[c] /\ client[c] \in Roster!View
      BY <1>1, <1>2 DEF DisplayInv, AloneInv, HandlesAlone, Attended, TypeOK
    <3>4. client'[c] = Roster!OnDeleteRoom(client[c], r)
      BY <1>1, <2>3, <3>3 DEF Answered, WriteTo, TypeOK
    <3>5. client'[c][r] = Roster!ClosedRoom
      BY <3>2, <3>3, <3>4, TabOpened
    <3>6. QED
      BY <1>5, <2>2, <2>3, <3>1, <3>5 DEF Displays
  <2>4. CASE d # c \/ ~ closing(r)
    <3>1. client'[d][r] = client[d][r]
      <4>1. client' = client \/ client' = [client EXCEPT ![c] = view]
        BY DEF Answered, WriteTo
      <4>2. d = c => view[r] = client[c][r]
        <5>1. client[c] \in Roster!View
          BY <1>1 DEF TypeOK
        <5>2. CASE response[c] # "DELETE_ROOM"
          BY <5>2
        <5>3. CASE response[c] = "DELETE_ROOM" /\ d = c
          <6>1. target[c] \in RoomName /\ r \in RoomName \ {target[c]}
            BY <1>1, <2>4, <5>3 DEF KnowsItsRoom
          <6>2. QED
            BY <5>1, <5>3, <6>1, TabOpened
        <5>4. QED
          BY <5>2, <5>3
      <4> HIDE DEF view
      <4>3. QED
        BY <1>1, <2>1, <4>1, <4>2 DEF TypeOK
    <3>2. QED
      <4>1. CASE d # c
        <5>1. pc[d] # "exited" /\ Displays(d, r)
          BY <1>6, <2>1, <4>1 DEF DisplayInv, OthersRest
        <5>2. Parting(d, r)' <=> Parting(d, r)
          BY <2>1, <4>1 DEF OthersWait, OthersRest, Parting, Departing, Leaving
        <5>3. QED
          BY <2>2, <3>1, <5>1, <5>2 DEF Displays
      <4>2. CASE d = c
        <5>1. ~ Parting(c, r)
          BY <1>2, <2>4, <4>2 DEF Parting, Departing
        <5>2. QED
          BY <1>2, <1>6, <2>2, <3>1, <5>1, TabStays
      <4>3. QED
        BY <4>1, <4>2
  <2>5. QED
    BY <2>3, <2>4
<1>7. QED
  BY <1>2, <1>3, <1>4, <1>6, NothingEntered

\* A request that is refused, or whose broadcast begins, changes no tab.
LEMMA RequestShows ==
  ASSUME DisplayInv, NEW c \in Conn, OthersWait(c),
         \/ CreateRoom(c) /\ Refuse(c, "CREATE_ROOM_KO")
         \/ Connect(c) /\ Refuse(c, "CONNECT_KO")
         \/ JoinRoom(c) \/ QuitRoom(c) \/ DeleteRoom(c) \/ Message(c) \/ PrivateMessage(c)
  PROVE  ShowsRight(c)
<1>1. TypeOK /\ KnowsItsRoom(c)
  BY DEF DisplayInv, AloneInv, ApartInv, IInv
<1>2. mutex = NULL /\ mutex' = c /\ pc[c] = "lock" /\ UNCHANGED <<rooms, u>>
  BY DEF CreateRoom, Connect, JoinRoom, QuitRoom, DeleteRoom, Message, PrivateMessage,
         Handle, Step, Refuse, tables
<1>3. client' = client
  <2>1. CASE PrivateMessage(c)
    <3>1. \/ client' = client
          \/ \E d : client' = [client EXCEPT ![d] = client[d]]
      BY <2>1 DEF PrivateMessage, Refuse, WriteTo, peers
    <3>2. QED
      BY <1>1, <3>1 DEF TypeOK
  <2>2. CASE ~ PrivateMessage(c)
    BY <2>2 DEF CreateRoom, Connect, JoinRoom, QuitRoom, DeleteRoom, Message, Refuse, peers
  <2>3. QED
    BY <2>1, <2>2
<1>4. response'[c] # "DELETE_ROOM"
  <2>1. response[c] # "DELETE_ROOM"
    BY <1>1, <1>2 DEF KnowsItsRoom
  <2>2. QED
    BY <1>1, <2>1 DEF CreateRoom, Connect, JoinRoom, QuitRoom, DeleteRoom, Message, PrivateMessage,
       Refuse, Answer, TypeOK
<1>5. /\ pc'[c] \in {"unlock", "join_new", "quit", "delete", "message"}
      /\ pc'[c] # "unlock" => todo'[c] = get_users(target'[c], rooms)
      /\ pc'[c] = "join_new" =>
           is_room_used(target'[c], rooms) /\ ~ is_user_in_room(u[c], target'[c], rooms)
  <2>1. CASE \E code : Refuse(c, code)
    BY <1>1, <2>1 DEF Refuse, Goto, TypeOK
  <2>2. CASE ~ \E code : Refuse(c, code)
    <3>1. CASE PrivateMessage(c)
      BY <1>1, <2>2, <3>1 DEF PrivateMessage, Goto, TypeOK
    <3>2. CASE JoinRoom(c)
      BY <1>1, <2>2, <3>2 DEF JoinRoom, Broadcast, Goto, TypeOK
    <3>3. CASE QuitRoom(c) \/ DeleteRoom(c) \/ Message(c)
      BY <1>1, <2>2, <3>3 DEF QuitRoom, DeleteRoom, Message, Broadcast, Goto, TypeOK
    <3>4. QED
      BY <2>2, <3>1, <3>2, <3>3
  <2>3. QED
    BY <2>1, <2>2
<1>6. KnowsItsRoom(c)'
  <2>1. pc'[c] = "join_new" => u[c] \notin get_users(target'[c], rooms)
    BY <1>5 DEF is_user_in_room
  <2>2. QED
    BY <1>2, <1>4, <1>5, <2>1 DEF KnowsItsRoom
<1>7. ASSUME NEW d \in Watched, NEW r \in RoomName
      PROVE  ToldAll(d, r) /\ ToldAll(d, r)'
  <2>1. Even(c) /\ Even(c)' /\ d \in Conn
    BY <1>2, <1>5, ConstantsAssumption DEF Even
  <2>2. QED
    BY <1>2, <2>1, EvenTold, EvenToldNext
<1>8. \A r \in RoomName : ~ Parting(c, r)
  BY <1>2 DEF Parting, Departing
<1>9. QED
  BY <1>2, <1>3, <1>5, <1>6, <1>7, <1>8, EvenMove

\* A client that logs in has no tab yet.
LEMMA ConnectShows ==
  ASSUME DisplayInv, NEW c \in Conn, OthersWait(c), Connect(c), ~ Refuse(c, "CONNECT_KO")
  PROVE  ShowsRight(c)
<1> DEFINE new == [name |-> buffer[c].name, socket |-> c]
<1>1. TypeOK /\ KnowsItsRoom(c) /\ AloneInv /\ ApartInv
  BY DEF DisplayInv, AloneInv, ApartInv, IInv
<1>2. /\ mutex = NULL /\ mutex' = c /\ pc[c] = "lock" /\ u[c] = NULL
      /\ u' = [u EXCEPT ![c] = new]
      /\ Broadcast(c, HomeRoom, get_users(HomeRoom, rooms), "join_new")
      /\ UNCHANGED <<rooms, response>>
  BY DEF Connect, Handle, Step, LoginRefused
<1>3. client' = client
  <2>1. client' = client \/ client' = [client EXCEPT ![c] = client[c]]
    BY DEF Connect, WriteTo
  <2>2. QED
    BY <1>1, <2>1 DEF TypeOK
<1>4. /\ pc'[c] = "join_new" /\ target'[c] = HomeRoom /\ u'[c] = new
      /\ todo'[c] = get_users(HomeRoom, rooms)
  BY <1>1, <1>2 DEF Broadcast, Goto, TypeOK
<1>5. ASSUME NEW r \in RoomName
      PROVE  u[c] \notin get_users(r, rooms) /\ new \notin get_users(r, rooms)
  <2>1. \A t \in get_users(r, rooms) : u[t.socket] = t /\ t \in user
    BY <1>1, InRoomIsLoggedIn
  <2>2. new \in get_users(r, rooms) => u[c] = new /\ new \in user
    BY <2>1
  <2> HIDE DEF new
  <2>3. QED
    BY <1>2, <2>1, <2>2, NullIsNoUser
<1> HIDE DEF new
<1>6. KnowsItsRoom(c)'
  <2>1. is_room_used(HomeRoom, rooms) /\ HomeRoom \in RoomName
    BY <1>1, ConstantsAssumption DEF ApartInv, RoomsHaveAdmins
  <2>2. response'[c] # "DELETE_ROOM"
    BY <1>1, <1>2 DEF KnowsItsRoom
  <2>3. QED
    BY <1>2, <1>4, <1>5, <2>1, <2>2 DEF KnowsItsRoom
<1>7. ASSUME NEW d \in Watched, NEW r \in RoomName
      PROVE  ToldAll(d, r) /\ ToldAll(d, r)'
  <2>1. Even(c) /\ Even(c)' /\ d \in Conn
    BY <1>2, <1>4, ConstantsAssumption DEF Even
  <2>2. QED
    BY <1>2, <2>1, EvenTold, EvenToldNext
<1>8. \A r \in RoomName : ~ Parting(c, r)
  BY <1>2 DEF Parting, Departing
<1>9. QED
  BY <1>2, <1>3, <1>4, <1>5, <1>6, <1>7, <1>8, EvenMove

\* The ends of handlers, and the rooms a departing user leaves.
LEMMA HandlerEndShows ==
  ASSUME DisplayInv, NEW c \in Conn, OthersWait(c), mutex = c,
         JoinDone(c) \/ MessageDone(c) \/ Unlock(c) \/ LeaveRoom(c)
  PROVE  ShowsRight(c)
<1>1. TypeOK /\ KnowsItsRoom(c) /\ AloneInv /\ ApartInv /\ StandsWell(c)
  BY DEF DisplayInv, AloneInv, ApartInv, IInv, AllStandWell
<1>2. /\ pc[c] \in {"join_list", "message", "unlock", "leave"}
      /\ UNCHANGED <<rooms, u, client, buffer>> /\ mutex' \in {c, NULL}
  BY DEF JoinDone, MessageDone, Unlock, LeaveRoom, Step, tables, locals, peers
<1>3. CASE LeaveRoom(c)
  <2>1. /\ pc[c] = "leave" /\ pc'[c] \in {"delete", "quit"}
        /\ todo'[c] = get_users(target'[c], rooms) /\ UNCHANGED response
    BY <1>1, <1>3 DEF LeaveRoom, Step, Broadcast, Goto, TypeOK
  <2>2. KnowsItsRoom(c)'
    BY <1>1, <2>1 DEF KnowsItsRoom
  <2>3. \A r \in RoomName : Parting(c, r) => Parting(c, r)'
    BY <1>1, <1>2, <2>1 DEF Parting, Departing, Leaving, StandsWell
  <2>4. ASSUME NEW d \in Watched, NEW r \in RoomName
        PROVE  ToldAll(d, r) /\ ToldAll(d, r)'
    <3>1. Even(c) /\ Even(c)' /\ d \in Conn
      BY <1>2, <2>1, ConstantsAssumption DEF Even
    <3>2. QED
      BY <1>2, <3>1, EvenTold, EvenToldNext
  <2>5. QED
    BY <1>2, <2>1, <2>2, <2>3, <2>4, EvenMove
<1>4. CASE JoinDone(c) \/ MessageDone(c) \/ Unlock(c)
  <2>1. /\ pc[c] # "leave" /\ pc'[c] \in {"unlock", "reply"}
        /\ UNCHANGED <<target, todo>>
        /\ pc[c] \in {"join_list", "message"} => response'[c] # "DELETE_ROOM"
        /\ pc[c] = "unlock" => response' = response
    BY <1>1, <1>4 DEF JoinDone, MessageDone, Unlock, Step, Goto, Answer, locals, TypeOK, KnowsItsRoom
  <2>2. KnowsItsRoom(c)'
    BY <1>1, <1>2, <2>1 DEF KnowsItsRoom
  <2>3. \A r \in RoomName : Parting(c, r) => Parting(c, r)'
    BY <1>2, <2>1 DEF Parting, Departing
  <2>4. ASSUME NEW d \in Watched, NEW r \in RoomName
        PROVE  ToldAll(d, r) /\ ToldAll(d, r)'
    <3>1. Even(c)' /\ d \in Conn
      BY <2>1, ConstantsAssumption DEF Even
    <3>2. ToldAll(d, r)
      <4>1. CASE pc[c] # "join_list"
        BY <1>2, <3>1, <4>1, EvenTold DEF Even
      <4>2. CASE pc[c] = "join_list"
        <5>1. todo[c] = {}
          BY <1>2, <1>4, <4>2 DEF JoinDone, MessageDone, Unlock, Step
        <5>2. get_admin(r, rooms) # NULL => get_admin(r, rooms) \in get_users(r, rooms)
          BY <1>1, AdminIsIn
        <5>3. QED
          BY <4>2, <5>1, <5>2 DEF ToldAll, ToldGone, Told
      <4>3. QED
        BY <4>1, <4>2
    <3>3. QED
      BY <1>2, <3>1, <3>2, EvenToldNext
  <2>5. QED
    BY <1>2, <2>1, <2>2, <2>3, <2>4, EvenMove
<1>5. QED
  BY <1>3, <1>4

\* A departure begins, and ends: nobody else is told.
LEMMA DepartureShows ==
  ASSUME DisplayInv, NEW c \in Conn, OthersWait(c),
         \/ Disconnect(c) /\ mutex = NULL
         \/ LeaveDone(c) /\ mutex = c
  PROVE  ShowsRight(c)
<1>1. TypeOK /\ KnowsItsRoom(c) /\ AloneInv /\ ApartInv
  BY DEF DisplayInv, AloneInv, ApartInv, IInv
<1>2. /\ pc[c] \in {"lock", "leave"} /\ UNCHANGED <<rooms, u, response>>
      /\ mutex \in {c, NULL} /\ mutex' \in {c, NULL}
  BY DEF Disconnect, LeaveDone, Handle, Step, BeginLeaving, tables
<1>3. /\ pc'[c] \in {"leave", "exited"}
      /\ pc'[c] = "leave" => buffer[c].code = "DISCONNECT" /\ UNCHANGED <<buffer, client>>
      /\ pc'[c] = "exited" => connected'[c] = FALSE
      /\ \A d \in Conn \ {c} : client'[d] = client[d]
  BY <1>1 DEF Disconnect, LeaveDone, Handle, BeginLeaving, Exit, Goto, WriteTo, peers, TypeOK
<1>4. KnowsItsRoom(c)'
  BY <1>1, <1>2, <1>3 DEF KnowsItsRoom
<1>5. ASSUME NEW d \in Watched, NEW r \in RoomName, pc'[d] # "exited"
      PROVE  Displays(d, r)'
  <2>1. Even(c) /\ Even(c)' /\ d \in Conn
    BY <1>2, <1>3, ConstantsAssumption DEF Even
  <2>2. ToldAll(d, r) /\ ToldAll(d, r)' /\ u'[d] = u[d]
    BY <1>2, <2>1, EvenTold, EvenToldNext
  <2>3. (HasTab(d, r)' <=> HasTab(d, r)) /\ (HasTab(d, r) => Told(d, r)' = Told(d, r))
    BY <1>2, <2>2 DEF HasTab, ToldAll
  <2>4. client'[d][r] = client[d][r]
    BY <1>3, <1>5, <2>1
  <2>5. pc[d] # "exited" /\ Displays(d, r)
    BY <1>2, <1>5, <2>1 DEF DisplayInv, OthersWait, OthersRest
  <2>6. Parting(d, r) => Parting(d, r)'
    BY <1>2, <1>3, <1>5, <2>1 DEF Parting, Departing, Leaving, OthersWait, OthersRest
  <2>7. Roster!ClosedRoom.tabs <= 1
    BY DEF Roster!ClosedRoom
  <2>8. QED
    BY <2>3, <2>4, <2>5, <2>6, <2>7 DEF Displays
<1>6. QED
  BY <1>2, <1>3, <1>4, <1>5, NothingEntered

\* One tab of one client is written to.
LEMMA OneTabWritten ==
  ASSUME TypeOK, NEW e \in Conn, connected[e], NEW q \in RoomName, NEW view, WriteTo(e, view),
         \A p \in RoomName \ {q} : view[p] = client[e][p]
  PROVE  /\ e \in Watched => client'[e] = view
         /\ \A d \in Watched, p \in RoomName : d # e \/ p # q => client'[d][p] = client[d][p]
<1>1. client' = IF e \in Watched THEN [client EXCEPT ![e] = view] ELSE client
  BY DEF WriteTo
<1>2. Watched \subseteq Conn
  BY ConstantsAssumption
<1>3. QED
  BY <1>1, <1>2 DEF TypeOK

\* A step of a broadcast is about one tab.
LEMMA OthersToldTheSame ==
  ASSUME NEW c \in Conn, mutex = c, UNCHANGED <<mutex, rooms, pc, u, target>>,
         NEW t, todo'[c] = todo[c] \ {t}, NEW d \in Conn, NEW q,
         \/ q # target[c]
         \/ pc[c] = "join_list" /\ d # c
         \/ pc[c] # "join_list" /\ u[d] # t
  PROVE  (HasTab(d, q)' <=> HasTab(d, q)) /\ Told(d, q)' = Told(d, q)
<1>1. mutex = c /\ mutex \in Conn /\ mutex' = mutex
  OBVIOUS
<1>2. CASE q # target[c]
  BY <1>1, <1>2 DEF HasTab, ToldGone, Told
<1>3. CASE pc[c] = "join_list" /\ d # c
  BY <1>1, <1>3 DEF HasTab, ToldGone, Told
<1>4. CASE pc[c] # "join_list" /\ u[d] # t
  BY <1>1, <1>4 DEF HasTab, ToldGone, Told
<1>5. QED
  BY <1>2, <1>3, <1>4

LEMMA BroadcastShows ==
  ASSUME DisplayInv, NEW c \in Conn, OthersWait(c), mutex = c, pc[c] # "exited",
         UNCHANGED <<mutex, rooms, pc, u, buffer, response, target, connected>>,
         NEW e \in Conn, NEW q, q = target[c], NEW t, todo'[c] = todo[c] \ {t},
         \/ pc[c] = "join_list" /\ e = c
         \/ pc[c] # "join_list" /\ \A d \in Conn : u[d] = t => d = e,
         \A d \in Watched, p \in RoomName : d # e \/ p # q => client'[d][p] = client[d][p],
         q \in RoomName, e \in Watched => Displays(e, q)'
  PROVE  ShowsRight(c)
<1>1. KnowsItsRoom(c) /\ (connected[c] => pc[c] \notin {"closed", "exited"})
  BY DEF DisplayInv
<1>2. KnowsItsRoom(c)' /\ (connected'[c] => pc'[c] \notin {"closed", "exited"})
  BY <1>1 DEF KnowsItsRoom
<1>3. ASSUME NEW d \in Watched, NEW p \in RoomName, pc'[d] # "exited", d # e \/ p # q
      PROVE  Displays(d, p)'
  <2>1. d \in Conn
    BY ConstantsAssumption
  <2>2. (HasTab(d, p)' <=> HasTab(d, p)) /\ Told(d, p)' = Told(d, p)
    BY <1>3, <2>1, OthersToldTheSame
  <2>3. Parting(c, p) => Parting(c, p)'
    BY DEF Parting, Departing, Leaving
  <2>4. client'[d][p] = client[d][p]
    BY <1>3
  <2>5. QED
    BY <1>3, <2>2, <2>3, <2>4, TabStays
<1>4. \A d \in Watched, p \in RoomName : pc'[d] # "exited" => Displays(d, p)'
  BY <1>3
<1>5. QED
  BY <1>2, <1>4, NothingEntered

\* The newcomer is announced to one user of the room.
LEMMA JoinNotifyShows ==
  ASSUME DisplayInv, NEW c \in Conn, OthersWait(c), JoinNotify(c)
  PROVE  ShowsRight(c)
<1>1. /\ TypeOK /\ KnowsItsRoom(c) /\ AloneInv /\ ApartInv /\ HandlesAlone(c) /\ StandsWell(c)
  BY DEF DisplayInv, AloneInv, ApartInv, IInv, AllStandWell
<1>2. /\ pc[c] = "join_new"
      /\ UNCHANGED <<mutex, rooms, pc, u, buffer, response, target, connected>>
  BY DEF JoinNotify, Step, tables
<1>3. /\ target[c] \in RoomName /\ LoggedIn(c) /\ mutex = c
      /\ u[c] \notin get_users(target[c], rooms)
      /\ todo[c] \subseteq get_users(target[c], rooms)
  BY <1>1, <1>2 DEF StandsWell, Own, LoggedIn, HandlesAlone, InHandler, StillTrue, KnowsItsRoom
<1> SUFFICES ASSUME NEW q \in RoomName, q = target[c],
                    NEW t \in todo[c],
                    WriteTo(t.socket, Roster!OnArrival(client[t.socket], q, u[c].name)),
                    todo' = [todo EXCEPT ![c] = @ \ {t}]
             PROVE  ShowsRight(c)
  BY <1>3 DEF JoinNotify
<1> DEFINE users == get_users(q, rooms)
           e     == t.socket
           view  == Roster!OnArrival(client[e], q, u[c].name)
<1>4. todo'[c] = todo[c] \ {t}
  BY <1>1 DEF TypeOK
<1>5. /\ t \in users /\ e \in Conn /\ connected[e] /\ pc[e] # "exited"
      /\ \A d \in Conn : u[d] = t <=> d = e
  BY <1>1, <1>3, OneInRoom
<1>6. u[c] \in user /\ client[e] \in Roster!View
  BY <1>1, <1>3, <1>5 DEF TypeOK, LoggedIn
<1>7. \A y \in users : y.name # u[c].name
  BY <1>1, <1>3, OnlyOne
<1>8. HasTab(e, q) /\ Told(e, q) = users /\ HasTab(e, q)' /\ Told(e, q)' = users \cup {u[c]}
  BY <1>2, <1>3, <1>4, <1>5, NullIsNoUser DEF HasTab, ToldGone, Told
<1> HIDE DEF users, e, view
<1>9. \A p \in RoomName \ {q} : view[p] = client[e][p]
  <2>1. CASE client[e][q].known
    BY <1>6, <2>1 DEF view, Roster!OnArrival, Roster!View
  <2>2. CASE ~ client[e][q].known
    BY <2>2 DEF view, Roster!OnArrival
  <2>3. QED
    BY <2>1, <2>2
<1>10. /\ e \in Watched => client'[e] = view
       /\ \A d \in Watched, p \in RoomName : d # e \/ p # q => client'[d][p] = client[d][p]
  BY <1>1, <1>5, <1>9, OneTabWritten DEF e, view
<1>11. ASSUME e \in Watched
       PROVE  Displays(e, q)'
  <2>1. client[e][q] = Shown(users)
    BY <1>5, <1>8, <1>11 DEF DisplayInv, Displays
  <2>2. view[q] = Shown(users \cup {u[c]})
    BY <1>6, <1>7, <2>1, Arrived DEF view
  <2>3. client'[e][q] = Shown(users \cup {u[c]})
    BY <1>10, <1>11, <2>2
  <2>4. QED
    BY <1>8, <2>3 DEF Displays
<1>12. QED
  BY <1>2, <1>3, <1>4, <1>5, <1>10, <1>11, BroadcastShows

\* The newcomer is told of one user of the room.
LEMMA JoinListShows ==
  ASSUME DisplayInv, NEW c \in Conn, OthersWait(c), JoinList(c)
  PROVE  ShowsRight(c)
<1>1. TypeOK /\ KnowsItsRoom(c) /\ AloneInv /\ ApartInv /\ HandlesAlone(c) /\ StandsWell(c)
  BY DEF DisplayInv, AloneInv, ApartInv, IInv, AllStandWell
<1>2. /\ pc[c] = "join_list"
      /\ UNCHANGED <<mutex, rooms, pc, u, buffer, response, target, connected>>
  BY DEF JoinList, Step, tables
<1>3. /\ target[c] \in RoomName /\ mutex = c /\ u[c] \in get_users(target[c], rooms)
      /\ todo[c] \subseteq get_users(target[c], rooms)
      /\ connected[c] /\ pc[c] # "exited"
  BY <1>1, <1>2 DEF StandsWell, HandlesAlone, InHandler, Attended, StillTrue, KnowsItsRoom
<1> SUFFICES ASSUME NEW q \in RoomName, q = target[c], NEW t \in todo[c],
                    todo' = [todo EXCEPT ![c] = @ \ {t}],
                    \/ t = get_admin(q, rooms) /\ client' = client
                    \/ /\ t # get_admin(q, rooms)
                       /\ WriteTo(c, Roster!OnArrival(client[c], q, t.name))
             PROVE  ShowsRight(c)
  BY <1>3 DEF JoinList
<1> DEFINE users == get_users(q, rooms)
           admin == get_admin(q, rooms)
           told  == (users \ todo[c]) \cup ({admin} \ {NULL})
           view  == Roster!OnArrival(client[c], q, t.name)
<1>4. todo'[c] = todo[c] \ {t}
  BY <1>1 DEF TypeOK
<1>5. t \in users /\ t \in user /\ client[c] \in Roster!View
  BY <1>1, <1>3, OneInRoom DEF TypeOK
<1>6. admin # NULL => admin \in users
  BY <1>1, AdminIsIn
<1>7. HasTab(c, q) /\ Told(c, q) = told /\ HasTab(c, q)' /\ Told(c, q)' = told \cup {t}
  BY <1>2, <1>3, <1>4, <1>5, NullIsNoUser DEF HasTab, ToldGone, Told
<1>8. t # admin => \A y \in told : y.name # t.name
  <2>1. \A y \in told : y \in users /\ (t # admin => y # t)
    BY <1>6
  <2>2. \A y \in users : y.name = t.name => y = t
    BY <1>1, <1>5, NamesApart
  <2>3. QED
    BY <2>1, <2>2
<1>9. t = admin => told \cup {t} = told
  BY <1>5, NullIsNoUser
<1> HIDE DEF users, admin, told, view
<1>10. \A p \in RoomName \ {q} : view[p] = client[c][p]
  <2>1. CASE client[c][q].known
    BY <1>5, <2>1 DEF view, Roster!OnArrival, Roster!View
  <2>2. CASE ~ client[c][q].known
    BY <2>2 DEF view, Roster!OnArrival
  <2>3. QED
    BY <2>1, <2>2
<1>11. /\ c \in Watched /\ t # admin => client'[c] = view
       /\ c \in Watched /\ t = admin => client'[c] = client[c]
       /\ \A d \in Watched, p \in RoomName : d # c \/ p # q => client'[d][p] = client[d][p]
  <2>1. CASE t # admin
    BY <1>1, <1>3, <1>10, <2>1, OneTabWritten DEF admin, view
  <2>2. CASE t = admin
    BY <2>2 DEF admin
  <2>3. QED
    BY <2>1, <2>2
<1>12. ASSUME c \in Watched
       PROVE  Displays(c, q)'
  <2>1. client[c][q] = Shown(told)
    BY <1>3, <1>7, <1>12 DEF DisplayInv, Displays
  <2>2. t # admin => view[q] = Shown(told \cup {t})
    BY <1>5, <1>8, <2>1, Arrived DEF view
  <2>3. client'[c][q] = Shown(told \cup {t})
    BY <1>9, <1>11, <1>12, <2>1, <2>2
  <2>4. QED
    BY <1>7, <2>3 DEF Displays
<1>13. \A d \in Watched, p \in RoomName : d # c \/ p # q => client'[d][p] = client[d][p]
  BY <1>11
<1>14. QED
  <2>1. mutex = c /\ pc[c] = "join_list" /\ pc[c] # "exited"
    BY <1>2, <1>3
  <2>2. UNCHANGED <<mutex, rooms, pc, u, buffer, response, target, connected>>
    BY <1>2
  <2>3. c \in Watched => Displays(c, q)'
    BY <1>12
  <2>4. QED
    BY <1>4, <1>13, <2>1, <2>2, <2>3, BroadcastShows

\* A departure, the end of a room or a message is told to one user of it.
LEMMA NotifyShows ==
  ASSUME DisplayInv, NEW c \in Conn, OthersWait(c), Notify(c)
  PROVE  ShowsRight(c)
<1>1. TypeOK /\ KnowsItsRoom(c) /\ AloneInv /\ ApartInv /\ HandlesAlone(c) /\ StandsWell(c)
  BY DEF DisplayInv, AloneInv, ApartInv, IInv, AllStandWell
<1>2. /\ pc[c] \in {"quit", "delete", "message"}
      /\ UNCHANGED <<mutex, rooms, pc, u, buffer, response, target, connected>>
  BY DEF Notify, tables
<1>3. /\ target[c] \in RoomName /\ mutex = c
      /\ todo[c] \subseteq get_users(target[c], rooms)
      /\ pc[c] = "quit" => LoggedIn(c)
  BY <1>1, <1>2 DEF StandsWell, HandlesAlone, InHandler, StillTrue, Own, LoggedIn
<1> DEFINE after(d, q) == CASE pc[c] = "quit"    -> Roster!OnRmUser(client[d], q, u[c].name)
                            [] pc[c] = "delete"  -> Roster!OnDeleteRoom(client[d], q)
                            [] pc[c] = "message" -> client[d]
<1> SUFFICES ASSUME NEW q \in RoomName, q = target[c], NEW t \in todo[c],
                    WriteTo(t.socket, after(t.socket, q)),
                    todo' = [todo EXCEPT ![c] = @ \ {t}]
             PROVE  ShowsRight(c)
  BY <1>3 DEF Notify
<1> DEFINE users == get_users(q, rooms)
           e     == t.socket
           view  == after(e, q)
<1>4. todo'[c] = todo[c] \ {t}
  BY <1>1 DEF TypeOK
<1>5. /\ t \in users /\ e \in Conn /\ connected[e] /\ pc[e] # "exited"
      /\ \A d \in Conn : u[d] = t <=> d = e
  BY <1>1, <1>3, OneInRoom
<1>6. client[e] \in Roster!View
  BY <1>1, <1>5 DEF TypeOK
<1>7. HasTab(e, q) /\ Told(e, q) = users
  BY <1>2, <1>3, <1>5, NullIsNoUser DEF HasTab, ToldGone, Told
<1>8. /\ pc[c] = "quit" => HasTab(e, q)' /\ Told(e, q)' = users \ {u[c]}
      /\ pc[c] = "delete" => ~ HasTab(e, q)'
      /\ pc[c] = "message" => HasTab(e, q)' /\ Told(e, q)' = users
  BY <1>2, <1>3, <1>4, <1>5, NullIsNoUser DEF HasTab, ToldGone, Told
<1>9. pc[c] = "quit" => u[c] \in user /\ \A y \in users : y.name = u[c].name => y = u[c]
  BY <1>1, <1>3, OnlyOne DEF TypeOK, LoggedIn
<1> HIDE DEF users, e
<1>10. \A p \in RoomName \ {q} : view[p] = client[e][p]
  <2>1. CASE pc[c] = "quit"
    <3>1. CASE client[e][q].known
      BY <1>6, <2>1, <3>1 DEF Roster!OnRmUser, Roster!View
    <3>2. CASE ~ client[e][q].known
      BY <2>1, <3>2 DEF Roster!OnRmUser
    <3>3. QED
      BY <3>1, <3>2
  <2>2. CASE pc[c] = "delete"
    BY <1>6, <2>2, TabOpened
  <2>3. CASE pc[c] = "message"
    BY <2>3
  <2>4. QED
    BY <1>2, <2>1, <2>2, <2>3
<1>11. /\ e \in Watched => client'[e] = view
       /\ \A d \in Watched, p \in RoomName : d # e \/ p # q => client'[d][p] = client[d][p]
  <2>1. WriteTo(e, view)
    BY DEF e
  <2> HIDE DEF view
  <2>2. QED
    BY <1>1, <1>5, <1>10, <2>1, OneTabWritten
<1>12. ASSUME e \in Watched
       PROVE  Displays(e, q)'
  <2>1. client[e][q] = Shown(users)
    BY <1>5, <1>7, <1>12 DEF DisplayInv, Displays
  <2>2. CASE pc[c] = "quit"
    <3>1. view[q] = Shown(users \ {u[c]})
      BY <1>6, <1>9, <2>1, <2>2, Departed
    <3>2. client'[e][q] = Shown(users \ {u[c]})
      BY <1>11, <1>12, <3>1
    <3>3. QED
      BY <1>8, <2>2, <3>2 DEF Displays
  <2>3. CASE pc[c] = "delete"
    <3>1. client[e][q].tabs <= 1 /\ Roster!ClosedRoom.tabs <= 1
      BY <2>1 DEF Shown, Roster!ClosedRoom
    <3>2. view[q] = Roster!ClosedRoom
      BY <1>6, <2>3, <3>1, TabOpened
    <3>3. client'[e][q] = Roster!ClosedRoom
      BY <1>11, <1>12, <3>2
    <3>4. QED
      BY <1>8, <2>3, <3>1, <3>3 DEF Displays
  <2>4. CASE pc[c] = "message"
    <3>1. client'[e][q] = Shown(users)
      BY <1>11, <1>12, <2>1, <2>4
    <3>2. QED
      BY <1>8, <2>4, <3>1 DEF Displays
  <2>5. QED
    BY <1>2, <2>2, <2>3, <2>4
<1>13. QED
  <2>1. pc[c] # "join_list" /\ pc[c] # "exited"
    BY <1>2
  <2>2. e \in Conn /\ \A d \in Conn : u[d] = t => d = e
    BY <1>5
  <2> HIDE DEF view
  <2>3. \A d \in Watched, p \in RoomName : d # e \/ p # q => client'[d][p] = client[d][p]
    BY <1>11
  <2>4. q \in RoomName /\ (e \in Watched => Displays(e, q)')
    BY <1>12
  <2>5. QED
    BY <1>2, <1>3, <1>4, <2>1, <2>2, <2>3, <2>4, BroadcastShows

\* The user of a thread is nobody else's.
LEMMA UsersApart ==
  ASSUME AloneInv, NEW c \in Conn, Own(c), NEW d \in Conn \ {c}
  PROVE  u[d] # u[c]
  BY NullIsNoUser DEF AloneInv, HandlesAlone, Attended, Own

\* The newcomer enters: it gets its tab, and everybody else has been told.
LEMMA JoinEnterShows ==
  ASSUME DisplayInv, NEW c \in Conn, OthersWait(c), JoinEnter(c)
  PROVE  ShowsRight(c)
<1>1. TypeOK /\ KnowsItsRoom(c) /\ AloneInv /\ ApartInv /\ HandlesAlone(c) /\ StandsWell(c)
  BY DEF DisplayInv, AloneInv, ApartInv, IInv, AllStandWell
<1>2. /\ pc[c] = "join_new" /\ todo[c] = {} /\ WriteTo(c, Roster!OnCreateRoom(client[c], target[c]))
      /\ UNCHANGED <<mutex, u, buffer, response, target, connected>>
  BY DEF JoinEnter, Step
<1>3. /\ target[c] \in RoomName /\ mutex = c /\ u[c] \notin get_users(target[c], rooms)
      /\ is_room_used(target[c], rooms) /\ Own(c) /\ connected[c] /\ response[c] # "DELETE_ROOM"
  BY <1>1, <1>2 DEF StandsWell, HandlesAlone, InHandler, Attended, KnowsItsRoom
<1> SUFFICES ASSUME NEW q \in RoomName, q = target[c]
             PROVE  ShowsRight(c)
  BY <1>3
<1> DEFINE users == get_users(q, rooms)
           view  == Roster!OnCreateRoom(client[c], q)
<1>4. /\ get_admin(q, rooms') = get_admin(q, rooms)
      /\ get_users(q, rooms') = users \cup {u[c]}
      /\ \A m \in RoomName \ {q} : get_users(m, rooms') = get_users(m, rooms)
  BY <1>1, <1>3, OneUserEnters
<1>5. \/ pc'[c] = "join_admin"
      \/ /\ pc'[c] = "join_list" /\ todo'[c] = get_users(q, rooms')
         /\ get_admin(q, rooms') = NULL
  BY <1>1 DEF JoinEnter, ListRoom, Goto, TypeOK
<1>6. KnowsItsRoom(c)' /\ (connected'[c] => pc'[c] \notin {"closed", "exited"})
  BY <1>2, <1>3, <1>4, <1>5 DEF KnowsItsRoom
<1>7. \A m \in RoomName : \A x \in get_users(m, rooms') :
        x \in get_users(m, rooms) \/ (x = u[c] /\ Own(c))
  BY <1>3, <1>4
<1>8. client[c] \in Roster!View
  BY <1>1 DEF TypeOK
<1>9. \A p \in RoomName \ {q} : view[p] = client[c][p]
  BY <1>8, TabOpened
<1>10. /\ c \in Watched => client'[c] = view
       /\ \A d \in Watched, p \in RoomName : d # c \/ p # q => client'[d][p] = client[d][p]
  <2>1. WriteTo(c, view)
    BY <1>2
  <2> HIDE DEF view
  <2>2. QED
    BY <1>1, <1>3, <1>9, <2>1, OneTabWritten
<1>11. ASSUME c \in Watched
       PROVE  Displays(c, q)'
  <2>1. client[c][q] = Roster!ClosedRoom
    <3>1. ~ HasTab(c, q) /\ ~ Parting(c, q) /\ pc[c] # "exited"
      BY <1>2, <1>3 DEF HasTab, Parting, Departing
    <3>2. QED
      BY <1>11, <3>1 DEF DisplayInv, Displays
  <2>2. client'[c][q] = Shown({})
    BY <1>8, <1>10, <1>11, <2>1, TabOpened
  <2>3. HasTab(c, q)' /\ Told(c, q)' = {}
    BY <1>2, <1>3, <1>4, <1>5 DEF HasTab, ToldGone, Told
  <2>4. QED
    BY <2>2, <2>3 DEF Displays
<1>12. ASSUME NEW d \in Watched, NEW p \in RoomName, pc'[d] # "exited", d # c \/ p # q
       PROVE  Displays(d, p)'
  <2>1. d \in Conn /\ client'[d][p] = client[d][p] /\ pc[c] # "exited"
    BY <1>2, <1>10, <1>12, ConstantsAssumption
  <2>2. d # c => u[d] # u[c]
    BY <1>1, <1>3, <2>1, UsersApart
  <2>3. CASE p # q
    <3>1. get_users(p, rooms') = get_users(p, rooms)
      BY <1>4, <2>3
    <3>2. (HasTab(d, p)' <=> HasTab(d, p)) /\ Told(d, p)' = Told(d, p)
      BY <1>2, <1>3, <2>1, <2>3, <3>1 DEF HasTab, ToldGone, Told
    <3>3. Parting(c, p) => Parting(c, p)'
      BY <1>2 DEF Parting, Departing
    <3>4. QED
      BY <1>12, <2>1, <3>2, <3>3, TabStays
  <2>4. CASE d # c /\ p = q
    <3>1. HasTab(d, q)' <=> HasTab(d, q)
      BY <1>2, <1>3, <1>4, <1>5, <2>1, <2>2, <2>4 DEF HasTab, ToldGone
    <3>2. Told(d, q)' = Told(d, q)
      <4>1. Told(d, q) = users \cup {u[c]}
        BY <1>2, <1>3, <2>1, <2>4 DEF Told
      <4>2. Told(d, q)' = get_users(q, rooms')
        BY <1>2, <1>3, <1>5, <2>1, <2>4 DEF Told
      <4>3. QED
        BY <1>4, <4>1, <4>2
    <3>3. Parting(c, p) => Parting(c, p)'
      BY <1>2 DEF Parting, Departing
    <3>4. QED
      BY <1>12, <2>1, <2>4, <3>1, <3>2, <3>3, TabStays
  <2>5. QED
    BY <1>12, <2>3, <2>4
<1>13. \A d \in Watched, p \in RoomName : pc'[d] # "exited" => Displays(d, p)'
  BY <1>11, <1>12
<1>14. QED
  BY <1>6, <1>7, <1>13 DEF ShowsRight

\* The newcomer is told of the admin.
LEMMA JoinAdminShows ==
  ASSUME DisplayInv, NEW c \in Conn, OthersWait(c), JoinAdmin(c)
  PROVE  ShowsRight(c)
<1>1. TypeOK /\ KnowsItsRoom(c) /\ AloneInv /\ ApartInv /\ HandlesAlone(c) /\ StandsWell(c)
  BY DEF DisplayInv, AloneInv, ApartInv, IInv, AllStandWell
<1>2. /\ pc[c] = "join_admin" /\ get_admin(target[c], rooms) # NULL
      /\ WriteTo(c, Roster!OnArrival(client[c], target[c], get_admin(target[c], rooms).name))
      /\ UNCHANGED <<rooms, mutex, u, buffer, response, target, connected>>
  BY DEF JoinAdmin, Step, tables
<1>3. /\ target[c] \in RoomName /\ mutex = c /\ u[c] \in get_users(target[c], rooms)
      /\ connected[c] /\ response[c] # "DELETE_ROOM"
  BY <1>1, <1>2 DEF StandsWell, HandlesAlone, InHandler, Attended, KnowsItsRoom
<1> SUFFICES ASSUME NEW q \in RoomName, q = target[c], NEW admin, admin = get_admin(q, rooms)
             PROVE  ShowsRight(c)
  BY <1>3
<1> DEFINE users == get_users(q, rooms)
           view  == Roster!OnArrival(client[c], q, admin.name)
<1>4. pc'[c] = "join_list" /\ todo'[c] = users
  BY <1>1 DEF JoinAdmin, ListRoom, Goto, TypeOK
<1>5. KnowsItsRoom(c)' /\ (connected'[c] => pc'[c] \notin {"closed", "exited"})
  BY <1>2, <1>3, <1>4 DEF KnowsItsRoom
<1>6. client[c] \in Roster!View /\ admin \in user /\ admin # NULL
  <2>1. admin \in users
    BY <1>1, <1>2, AdminIsIn
  <2>2. admin \in user
    BY <1>1, <2>1, OneInRoom
  <2>3. QED
    BY <1>1, <1>2, <2>2 DEF TypeOK
<1>7. \A p \in RoomName \ {q} : view[p] = client[c][p]
  <2>1. CASE client[c][q].known
    BY <1>6, <2>1 DEF Roster!OnArrival, Roster!View
  <2>2. CASE ~ client[c][q].known
    BY <2>2 DEF Roster!OnArrival
  <2>3. QED
    BY <2>1, <2>2
<1>8. /\ c \in Watched => client'[c] = view
      /\ \A d \in Watched, p \in RoomName : d # c \/ p # q => client'[d][p] = client[d][p]
  <2>1. WriteTo(c, view)
    BY <1>2
  <2> HIDE DEF view
  <2>2. QED
    BY <1>1, <1>3, <1>7, <2>1, OneTabWritten
<1>9. ASSUME c \in Watched
      PROVE  Displays(c, q)'
  <2>1. HasTab(c, q) /\ Told(c, q) = {} /\ HasTab(c, q)' /\ Told(c, q)' = {admin}
    BY <1>2, <1>3, <1>4, <1>6 DEF HasTab, ToldGone, Told
  <2>2. client[c][q] = Shown({})
    BY <1>2, <1>9, <2>1 DEF DisplayInv, Displays
  <2>3. view[q] = Shown({admin})
    <3>1. view[q] = Shown({} \cup {admin})
      BY <1>6, <2>2, Arrived
    <3>2. QED
      BY <3>1
  <2> HIDE DEF view
  <2>4. client'[c][q] = Shown({admin})
    BY <1>8, <1>9, <2>3
  <2>5. QED
    BY <2>1, <2>4 DEF Displays
<1>10. ASSUME NEW d \in Watched, NEW p \in RoomName, pc'[d] # "exited", d # c \/ p # q
       PROVE  Displays(d, p)'
  <2>1. d \in Conn /\ client'[d][p] = client[d][p] /\ pc[c] # "exited"
    BY <1>2, <1>8, <1>10, ConstantsAssumption
  <2>2. (HasTab(d, p)' <=> HasTab(d, p)) /\ Told(d, p)' = Told(d, p)
    BY <1>2, <1>3, <1>4, <1>10, <2>1 DEF HasTab, ToldGone, Told
  <2>3. Parting(c, p) => Parting(c, p)'
    BY <1>2 DEF Parting, Departing
  <2>4. QED
    BY <1>10, <2>1, <2>2, <2>3, TabStays
<1>11. \A d \in Watched, p \in RoomName : pc'[d] # "exited" => Displays(d, p)'
  BY <1>9, <1>10
<1>12. QED
  BY <1>2, <1>4, <1>5, <1>11, NothingEntered

\* The creator of a room gets its tab, with one line.
LEMMA CreateRoomShows ==
  ASSUME DisplayInv, NEW c \in Conn, OthersWait(c),
         CreateRoom(c), ~ Refuse(c, "CREATE_ROOM_KO")
  PROVE  ShowsRight(c)
<1>1. TypeOK /\ KnowsItsRoom(c) /\ AloneInv /\ ApartInv /\ HandlesAlone(c)
  BY DEF DisplayInv, AloneInv, ApartInv, IInv
<1>2. /\ pc[c] = "lock" /\ mutex = NULL /\ mutex' = c
      /\ WriteTo(c, Roster!OnArrival(Roster!OnCreateRoom(client[c], buffer[c].room),
                                     buffer[c].room, u[c].name))
      /\ UNCHANGED <<u, buffer, target, todo, connected>>
  BY DEF CreateRoom, Handle, Step
<1>3. pc'[c] = "unlock" /\ response'[c] = "OK"
  BY <1>1 DEF CreateRoom, Goto, Answer, TypeOK
<1>4. connected[c]
  BY <1>1, <1>2 DEF HandlesAlone, Attended
<1>5. LET r == buffer[c].room IN
      /\ r \in RoomName /\ Own(c) /\ ~ is_room_used(r, rooms)
      /\ get_users(r, rooms') = {u[c]}
      /\ \A m \in RoomName \ {r} : get_users(m, rooms') = get_users(m, rooms)
  BY <1>1, OneRoomCreated
<1> SUFFICES ASSUME NEW q \in RoomName, q = buffer[c].room
             PROVE  ShowsRight(c)
  BY <1>5
<1> DEFINE opened == Roster!OnCreateRoom(client[c], q)
           view   == Roster!OnArrival(opened, q, u[c].name)
<1>6. /\ Own(c) /\ get_users(q, rooms) = {} /\ get_users(q, rooms') = {u[c]}
      /\ \A m \in RoomName \ {q} : get_users(m, rooms') = get_users(m, rooms)
  BY <1>5 DEF get_users
<1>7. KnowsItsRoom(c)' /\ (connected'[c] => pc'[c] \notin {"closed", "exited"})
  BY <1>3 DEF KnowsItsRoom
<1>8. \A m \in RoomName : \A x \in get_users(m, rooms') :
        x \in get_users(m, rooms) \/ (x = u[c] /\ Own(c))
  BY <1>6
<1>9. client[c] \in Roster!View /\ u[c] \in user
  BY <1>1, <1>6 DEF TypeOK, Own
<1>10. opened \in Roster!View /\ \A p \in RoomName \ {q} : opened[p] = client[c][p]
  BY <1>9, TabOpened, ViewTypes
<1> HIDE DEF opened
<1>11. \A p \in RoomName \ {q} : view[p] = client[c][p]
  <2>1. CASE opened[q].known
    BY <1>10, <2>1 DEF Roster!OnArrival, Roster!View
  <2>2. CASE ~ opened[q].known
    BY <1>10, <2>2 DEF Roster!OnArrival
  <2>3. QED
    BY <2>1, <2>2
<1>12. /\ c \in Watched => client'[c] = view
       /\ \A d \in Watched, p \in RoomName : d # c \/ p # q => client'[d][p] = client[d][p]
  <2>1. WriteTo(c, view)
    BY <1>2 DEF opened
  <2> HIDE DEF view
  <2>2. QED
    BY <1>1, <1>4, <1>11, <2>1, OneTabWritten
<1>13. Even(c) /\ Even(c)' /\ mutex' \in {c, NULL} /\ mutex \in {c, NULL} /\ pc[c] # "exited"
  BY <1>2, <1>3 DEF Even
<1>14. ASSUME c \in Watched
       PROVE  Displays(c, q)'
  <2>1. client[c][q] = Roster!ClosedRoom
    <3>1. ~ HasTab(c, q) /\ ~ Parting(c, q)
      BY <1>2, <1>6 DEF HasTab, Parting, Departing
    <3>2. QED
      BY <1>13, <1>14, <3>1 DEF DisplayInv, Displays
  <2>2. opened[q] = Shown({})
    BY <1>9, <2>1, TabOpened DEF opened
  <2>3. view[q] = Shown({u[c]})
    <3>1. view[q] = Shown({} \cup {u[c]})
      BY <1>9, <1>10, <2>2, Arrived
    <3>2. QED
      BY <3>1
  <2> HIDE DEF view
  <2>4. client'[c][q] = Shown({u[c]})
    BY <1>12, <1>14, <2>3
  <2>5. HasTab(c, q)' /\ Told(c, q)' = {u[c]}
    <3>1. u'[c] \in get_users(q, rooms')
      BY <1>2, <1>6
    <3>2. ToldAll(c, q)'
      BY <1>13, EvenToldNext
    <3>3. QED
      BY <1>6, <3>1, <3>2 DEF HasTab, ToldAll
  <2>6. QED
    BY <2>4, <2>5 DEF Displays
<1>15. ASSUME NEW d \in Watched, NEW p \in RoomName, pc'[d] # "exited", d # c \/ p # q
       PROVE  Displays(d, p)'
  <2>1. d \in Conn /\ client'[d][p] = client[d][p] /\ u'[d] = u[d]
    BY <1>2, <1>12, <1>15, ConstantsAssumption
  <2>2. u[d] \in get_users(p, rooms') <=> u[d] \in get_users(p, rooms)
    <3>1. d # c => u[d] # u[c]
      BY <1>1, <1>6, <2>1, UsersApart
    <3>2. QED
      BY <1>6, <1>15, <3>1
  <2>3. u[d] \in get_users(p, rooms) => get_users(p, rooms') = get_users(p, rooms)
    BY <1>6
  <2>4. ToldAll(d, p) /\ ToldAll(d, p)'
    BY <1>13, <2>1, EvenTold, EvenToldNext
  <2>5. (HasTab(d, p)' <=> HasTab(d, p)) /\ (HasTab(d, p) => Told(d, p)' = Told(d, p))
    BY <2>1, <2>2, <2>3, <2>4 DEF HasTab, ToldAll
  <2>6. Parting(c, p) => Parting(c, p)'
    BY <1>2 DEF Parting, Departing
  <2>7. QED
    BY <1>13, <1>15, <2>1, <2>5, <2>6, TabStays
<1>16. \A d \in Watched, p \in RoomName : pc'[d] # "exited" => Displays(d, p)'
  BY <1>14, <1>15
<1>17. QED
  BY <1>7, <1>8, <1>16 DEF ShowsRight

\* Somebody is out of a room: everybody else in it was told.
LEMMA QuitDoneShows ==
  ASSUME Apart, DisplayInv, NEW c \in Conn, OthersWait(c), QuitDone(c)
  PROVE  ShowsRight(c)
<1>1. TypeOK /\ KnowsItsRoom(c) /\ AloneInv /\ ApartInv /\ HandlesAlone(c) /\ StandsWell(c)
  BY DEF DisplayInv, AloneInv, ApartInv, IInv, AllStandWell
<1>2. /\ pc[c] = "quit" /\ todo[c] = {}
      /\ UNCHANGED <<mutex, u, buffer, target, todo, client, connected>>
  BY DEF QuitDone, Step, peers
<1>3. /\ target[c] \in RoomName /\ mutex = c /\ Own(c) /\ response[c] # "DELETE_ROOM"
  BY <1>1, <1>2 DEF StandsWell, HandlesAlone, InHandler, KnowsItsRoom
<1> SUFFICES ASSUME NEW q \in RoomName, q = target[c]
             PROVE  ShowsRight(c)
  BY <1>3
<1>4. /\ get_users(q, rooms') = get_users(q, rooms) \ {u[c]}
      /\ \A m \in RoomName \ {q} : get_users(m, rooms') = get_users(m, rooms)
  <2>1. CASE is_room_used(q, rooms)
    BY <1>1, <2>1, OneUserLeaves
  <2>2. CASE ~ is_room_used(q, rooms)
    <3>1. rooms' = rooms
      BY <2>2 DEF QuitDone, remove_user_from_room
    <3>2. QED
      BY <2>2, <3>1 DEF get_users
  <2>3. QED
    BY <2>1, <2>2
<1>5. \/ Leaving(c) /\ pc'[c] = "leave" /\ response'[c] = response[c]
      \/ ~ Leaving(c) /\ pc'[c] = "unlock" /\ response'[c] = "DELETE_ROOM"
  BY <1>1 DEF QuitDone, Resume, Goto, Answer, TypeOK
<1>6. KnowsItsRoom(c)' /\ (connected'[c] => pc'[c] \notin {"closed", "exited"})
  BY <1>2, <1>3, <1>4, <1>5 DEF KnowsItsRoom
<1>7. \A m \in RoomName : \A x \in get_users(m, rooms') :
        x \in get_users(m, rooms) \/ (x = u[c] /\ Own(c))
  BY <1>4
<1>8. Parting(c, q)' /\ \A p : Parting(c, p) => Parting(c, p)'
  BY <1>2, <1>5 DEF Parting, Departing, Leaving
<1>9. Even(c)' /\ mutex' \in {c, NULL} /\ pc[c] # "exited"
  BY <1>2, <1>3, <1>5 DEF Even
<1>10. ASSUME c \in Watched
       PROVE  Displays(c, q)'
  <2>1. ~ HasTab(c, q)'
    BY <1>2, <1>4 DEF HasTab
  <2>2. client[c][q].tabs <= 1
    <3>1. Displays(c, q)
      BY <1>9, <1>10 DEF DisplayInv
    <3>2. \A S : Shown(S).tabs <= 1
      BY DEF Shown
    <3>3. Roster!ClosedRoom.tabs <= 1
      BY DEF Roster!ClosedRoom
    <3>4. QED
      BY <3>1, <3>2, <3>3 DEF Displays
  <2>3. client'[c][q].tabs <= 1
    BY <1>2, <2>2
  <2>4. QED
    BY <1>8, <2>1, <2>3 DEF Displays
<1>11. ASSUME NEW d \in Watched, NEW p \in RoomName, pc'[d] # "exited", d # c \/ p # q
       PROVE  Displays(d, p)'
  <2>1. d \in Conn /\ client'[d][p] = client[d][p] /\ u'[d] = u[d]
    BY <1>2, ConstantsAssumption
  <2>2. u[d] \in get_users(p, rooms') <=> u[d] \in get_users(p, rooms)
    <3>1. d # c => u[d] # u[c]
      BY <1>1, <1>3, <2>1, UsersApart
    <3>2. QED
      BY <1>4, <1>11, <3>1
  <2>3. ~ ToldGone(d, p) /\ Told(d, p) = get_users(p, rooms')
    <3>1. CASE p = q
      BY <1>2, <1>3, <1>4, <3>1 DEF ToldGone, Told
    <3>2. CASE p # q
      BY <1>2, <1>3, <1>4, <3>2 DEF ToldGone, Told
    <3>3. QED
      BY <3>1, <3>2
  <2>4. ToldAll(d, p)'
    BY <1>9, <2>1, EvenToldNext
  <2>5. (HasTab(d, p)' <=> HasTab(d, p)) /\ (HasTab(d, p) => Told(d, p)' = Told(d, p))
    BY <2>1, <2>2, <2>3, <2>4 DEF HasTab, ToldAll
  <2>6. QED
    BY <1>8, <1>9, <1>11, <2>1, <2>5, TabStays
<1>12. \A d \in Watched, p \in RoomName : pc'[d] # "exited" => Displays(d, p)'
  BY <1>10, <1>11
<1>13. QED
  BY <1>6, <1>7, <1>12 DEF ShowsRight

\* A room is gone: everybody in it was told.
LEMMA DeleteDoneShows ==
  ASSUME Apart, DisplayInv, NEW c \in Conn, OthersWait(c), DeleteDone(c)
  PROVE  ShowsRight(c)
<1>1. TypeOK /\ KnowsItsRoom(c) /\ AloneInv /\ ApartInv /\ HandlesAlone(c)
  BY DEF DisplayInv, AloneInv, ApartInv, IInv
<1>2. /\ pc[c] = "delete" /\ todo[c] = {}
      /\ UNCHANGED <<mutex, u, buffer, target, todo, client, connected>>
  BY DEF DeleteDone, Step, peers
<1>3. mutex = c /\ response[c] # "DELETE_ROOM"
  BY <1>1, <1>2 DEF HandlesAlone, InHandler, KnowsItsRoom
<1>4. /\ target[c] \in RoomName /\ get_users(target[c], rooms') = {}
      /\ \A m \in RoomName \ {target[c]} : get_users(m, rooms') = get_users(m, rooms)
  BY <1>1, OneRoomDeleted
<1> SUFFICES ASSUME NEW q \in RoomName, q = target[c]
             PROVE  ShowsRight(c)
  BY <1>4
<1>5. \/ Leaving(c) /\ pc'[c] = "leave" /\ response'[c] = response[c]
      \/ ~ Leaving(c) /\ pc'[c] = "unlock" /\ response'[c] = "DELETE_ROOM"
  BY <1>1 DEF DeleteDone, Resume, Goto, Answer, TypeOK
<1>6. KnowsItsRoom(c)' /\ (connected'[c] => pc'[c] \notin {"closed", "exited"})
  BY <1>2, <1>3, <1>4, <1>5 DEF KnowsItsRoom
<1>7. \A m \in RoomName : \A x \in get_users(m, rooms') :
        x \in get_users(m, rooms) \/ (x = u[c] /\ Own(c))
  BY <1>4
<1>8. \A p : Parting(c, p) => Parting(c, p)'
  BY <1>2, <1>5 DEF Parting, Departing, Leaving
<1>9. Even(c)' /\ mutex' \in {c, NULL} /\ pc[c] # "exited"
  BY <1>2, <1>3, <1>5 DEF Even
<1>10. ASSUME NEW d \in Watched, NEW p \in RoomName, pc'[d] # "exited"
       PROVE  Displays(d, p)'
  <2>1. d \in Conn /\ client'[d][p] = client[d][p] /\ u'[d] = u[d]
    BY <1>2, ConstantsAssumption
  <2>2. CASE p = q
    <3>1. ~ HasTab(d, p) /\ ~ HasTab(d, p)'
      BY <1>2, <1>3, <1>4, <2>2 DEF HasTab, ToldGone
    <3>2. QED
      BY <1>8, <1>9, <1>10, <2>1, <3>1, TabStays
  <2>3. CASE p # q
    <3>1. get_users(p, rooms') = get_users(p, rooms)
      BY <1>4, <2>3
    <3>2. ~ ToldGone(d, p) /\ Told(d, p) = get_users(p, rooms)
      BY <1>2, <1>3, <2>3 DEF ToldGone, Told
    <3>3. ToldAll(d, p)'
      BY <1>9, <2>1, EvenToldNext
    <3>4. (HasTab(d, p)' <=> HasTab(d, p)) /\ (HasTab(d, p) => Told(d, p)' = Told(d, p))
      BY <2>1, <3>1, <3>2, <3>3 DEF HasTab, ToldAll
    <3>5. QED
      BY <1>8, <1>9, <1>10, <2>1, <3>4, TabStays
  <2>4. QED
    BY <2>2, <2>3
<1>11. \A d \in Watched, p \in RoomName : pc'[d] # "exited" => Displays(d, p)'
  BY <1>10
<1>12. QED
  BY <1>6, <1>7, <1>11 DEF ShowsRight

LEMMA DisplayStep ==
  ASSUME Apart, ~ Drops, ~ StackReuse, DisplayInv, [Next]_vars
  PROVE  DisplayInv'
<1>1. AloneInv /\ AloneInv' /\ TypeOK
  BY AloneStep DEF DisplayInv, AloneInv, ApartInv, IInv
<1>2. ASSUME NEW c \in Conn, OthersWait(c), ShowsRight(c),
             mutex \in {c, NULL} \/ UNCHANGED <<mutex, rooms>>
      PROVE  DisplayInv'
  <2>1. \A d \in Conn \ {c} : KnowsItsRoom(d)' /\ (connected'[d] => pc'[d] \notin {"closed", "exited"})
    BY <1>2, OthersKnow DEF ShowsRight
  <2>2. \A d \in Conn : KnowsItsRoom(d)' /\ (connected'[d] => pc'[d] \notin {"closed", "exited"})
    BY <1>2, <2>1 DEF ShowsRight
  <2>3. QED
    BY <1>1, <1>2, <2>2 DEF DisplayInv, ShowsRight
<1>3. CASE UNCHANGED vars
  <2>1. \A c \in Conn : KnowsItsRoom(c)' /\ (connected'[c] => pc'[c] \notin {"closed", "exited"})
    BY <1>3 DEF DisplayInv, KnowsItsRoom, vars, tables, locals, peers
  <2>2. \A d \in Watched, r \in RoomName : pc'[d] # "exited" => Displays(d, r)'
    BY <1>3 DEF DisplayInv, Displays, HasTab, ToldGone, Told, Parting, Departing, Leaving,
       vars, tables, locals, peers
  <2>3. QED
    BY <1>1, <2>1, <2>2 DEF DisplayInv
<1>4. ASSUME NEW c \in Conn, Accept(c) \/ PeerGone(c) \/ Receive(c) \/ Work(c)
      PROVE  DisplayInv'
  <2>1. HandlesAlone(c) /\ ~ Undefined(c)
    BY <1>1, NothingFreedIsUsed DEF AloneInv
  <2>2. ~ ConnectionStopped(c) /\ ~ PeerGone(c)
    BY <2>1 DEF HandlesAlone, Attended, ConnectionStopped, Step, PeerGone
  <2>3. OthersRest(c) => OthersWait(c)
    BY <1>1, <1>4, OthersUnanswered DEF OthersWait
  <2>4. CASE Accept(c)
    BY <1>1, <1>2, <2>3, <2>4, AcceptAlone, AcceptShows
  <2>5. CASE Receive(c) \/ Rejected(c)
    BY <1>1, <1>2, <2>3, <2>5, OutsideAlone, ReceiveShows
  <2>6. CASE Answered(c)
    BY <1>1, <1>2, <2>3, <2>6, OutsideAlone, AnsweredShows
  <2>7. CASE \/ CreateRoom(c) \/ JoinRoom(c) \/ Connect(c) \/ QuitRoom(c) \/ DeleteRoom(c)
             \/ Message(c) \/ PrivateMessage(c)
    <3>1. OthersWait(c) /\ mutex = NULL
      BY <1>1, <2>3, <2>7, CommandAlone
    <3>2. ShowsRight(c)
      <4>1. CASE CreateRoom(c) /\ ~ Refuse(c, "CREATE_ROOM_KO")
        BY <3>1, <4>1, CreateRoomShows
      <4>2. CASE Connect(c) /\ ~ Refuse(c, "CONNECT_KO")
        BY <3>1, <4>2, ConnectShows
      <4>3. CASE ~ (CreateRoom(c) /\ ~ Refuse(c, "CREATE_ROOM_KO"))
                 /\ ~ (Connect(c) /\ ~ Refuse(c, "CONNECT_KO"))
        BY <2>7, <3>1, <4>3, RequestShows
      <4>4. QED
        BY <4>1, <4>2, <4>3
    <3>3. QED
      BY <1>2, <3>1, <3>2
  <2>8. CASE JoinNotify(c) \/ JoinList(c) \/ Notify(c)
    BY <1>1, <1>2, <2>3, <2>8, BroadcastAlone, JoinNotifyShows, JoinListShows, NotifyShows
  <2>9. CASE JoinEnter(c) \/ JoinAdmin(c)
    BY <1>1, <1>2, <2>3, <2>9, JoinAlone, JoinEnterShows, JoinAdminShows
  <2>10. CASE JoinDone(c) \/ MessageDone(c) \/ Unlock(c) \/ LeaveRoom(c)
    BY <1>1, <1>2, <2>3, <2>10, JoinAlone, UnlockAlone, LeaveAlone, HandlerEndShows
  <2>11. CASE QuitDone(c) \/ DeleteDone(c)
    BY <1>1, <1>2, <2>3, <2>11, RoomLeftAlone, QuitDoneShows, DeleteDoneShows
  <2>12. CASE Disconnect(c)
    BY <1>1, <1>2, <2>3, <2>12, DisconnectAlone, DepartureShows
  <2>13. CASE LeaveDone(c)
    BY <1>1, <1>2, <2>3, <2>13, LeaveAlone, DepartureShows
  <2>14. QED
    BY <1>4, <2>1, <2>2, <2>4, <2>5, <2>6, <2>7, <2>8, <2>9, <2>10, <2>11, <2>12, <2>13 DEF Work
<1>5. QED
  BY <1>3, <1>4 DEF Next, Stopped

LEMMA DisplayInit ==
  ASSUME Init
  PROVE  DisplayInv
<1>1. AloneInv
  <2>1. ApartInv
    BY InitServes
  <2>2. \A c \in Conn : HandlesAlone(c)
    BY DEF Init, HandlesAlone, InHandler, Attended, StillTrue, Crossing, Departing, NoRequest, Req
  <2>3. QED
    BY <2>1, <2>2 DEF AloneInv, Init
<1>2. \A c \in Conn : KnowsItsRoom(c) /\ ~ connected[c]
  BY DEF Init, KnowsItsRoom
<1>3. ASSUME NEW d \in Watched, NEW r \in RoomName
      PROVE  Displays(d, r)
  <2>1. d \in Conn
    BY ConstantsAssumption
  <2>2. pc[d] = "closed" /\ client[d][r] = Roster!ClosedRoom
    BY <2>1 DEF Init, Roster!EmptyView
  <2>3. ~ HasTab(d, r)
    BY <1>1, <2>1, <2>2, OneInRoom DEF HasTab
  <2>4. ~ Parting(d, r)
    BY <2>2 DEF Parting, Departing
  <2>5. QED
    BY <2>2, <2>3, <2>4 DEF Displays
<1>4. QED
  BY <1>1, <1>2, <1>3 DEF DisplayInv

\* Between two handlers, what a client is shown is what is so.
LEMMA ShownWhenQuiet ==
  ASSUME DisplayInv
  PROVE  RosterAgrees
<1> SUFFICES ASSUME Quiet, NEW c \in Conn, Settled(c)
             PROVE  /\ Roster!TidyTabs(client[c]) /\ Roster!NoTwins(client[c])
                    /\ \A r \in RoomName :
                         LET users == get_users(r, rooms) IN
                         /\ Roster!Open(client[c], r) <=> u[c] \in users
                         /\ u[c] \in users =>
                              Roster!Contacts(client[c], r) = {x.name : x \in users}
  BY DEF RosterAgrees
<1>1. AloneInv /\ c \in Watched /\ pc[c] \in {"read", "rejected", "lock"}
  BY DEF DisplayInv, Settled, Quiet
<1>2. ASSUME NEW r \in RoomName
      PROVE  IF u[c] \in get_users(r, rooms) THEN client[c][r] = Shown(get_users(r, rooms))
                                             ELSE client[c][r] = Roster!ClosedRoom
  <2>1. Displays(c, r)
    BY <1>1 DEF DisplayInv
  <2>2. ~ ToldGone(c, r) /\ Told(c, r) = get_users(r, rooms)
    BY <1>1 DEF Quiet, ToldGone, Told
  <2>3. ~ Parting(c, r)
    BY <1>1 DEF Parting, Departing
  <2>4. QED
    BY <2>1, <2>2, <2>3 DEF Displays, HasTab
<1>3. ASSUME NEW S
      PROVE  /\ Shown(S).tabs = 1 /\ Shown(S).known
             /\ \A l \in Login : Shown(S).lines[l] = IF \E x \in S : x.name = l THEN 1 ELSE 0
  BY DEF Shown
<1>4. /\ Roster!ClosedRoom.tabs = 0 /\ ~ Roster!ClosedRoom.known
      /\ \A l \in Login : Roster!ClosedRoom.lines[l] = 0
  BY DEF Roster!ClosedRoom, Roster!NoLines
<1>5. Roster!TidyTabs(client[c])
  <2>1. ASSUME NEW r \in RoomName
        PROVE  client[c][r].tabs = IF client[c][r].known THEN 1 ELSE 0
    BY <1>2, <1>3, <1>4
  <2>2. QED
    BY <2>1 DEF Roster!TidyTabs
<1>6. Roster!NoTwins(client[c])
  <2>1. ASSUME NEW r \in RoomName, NEW l \in Login
        PROVE  client[c][r].lines[l] \in {0, 1}
    BY <1>2, <1>3, <1>4
  <2>2. QED
    BY <2>1 DEF Roster!NoTwins
<1>7. ASSUME NEW r \in RoomName
      PROVE  /\ Roster!Open(client[c], r) <=> u[c] \in get_users(r, rooms)
             /\ u[c] \in get_users(r, rooms) =>
                  Roster!Contacts(client[c], r) = {x.name : x \in get_users(r, rooms)}
  <2>1. Roster!Open(client[c], r) <=> u[c] \in get_users(r, rooms)
    BY <1>2, <1>3, <1>4 DEF Roster!Open
  <2>2. ASSUME u[c] \in get_users(r, rooms)
        PROVE  Roster!Contacts(client[c], r) = {x.name : x \in get_users(r, rooms)}
    <3>1. \A x \in get_users(r, rooms) : x.name \in Login
      BY <1>1, OneInRoom DEF user
    <3>2. \A l \in Login : client[c][r].lines[l] > 0 <=> \E x \in get_users(r, rooms) : x.name = l
      BY <1>2, <1>3, <2>2
    <3>3. QED
      BY <3>1, <3>2 DEF Roster!Contacts
  <2>3. QED
    BY <2>1, <2>2
<1>8. QED
  BY <1>5, <1>6, <1>7

\* Whoever is told something about a room has a tab for it.
LEMMA NoticeFindsATab ==
  ASSUME DisplayInv
  PROVE  NoticesHaveATab
<1> SUFFICES ASSUME NEW c \in Conn, pc[c] \in {"join_new", "quit", "delete", "message"},
                    NEW t \in todo[c], t.socket \in Watched
             PROVE  Roster!Open(client[t.socket], target[c])
  BY DEF NoticesHaveATab
<1>1. AloneInv /\ HandlesAlone(c) /\ StandsWell(c)
  BY DEF DisplayInv, AloneInv, ApartInv, IInv, AllStandWell
<1>2. mutex = c /\ target[c] \in RoomName /\ t \in get_users(target[c], rooms)
  BY <1>1 DEF HandlesAlone, InHandler, StillTrue, StandsWell
<1>3. t.socket \in Conn /\ u[t.socket] = t /\ pc[t.socket] # "exited"
  BY <1>1, <1>2, OneInRoom
<1>4. HasTab(t.socket, target[c])
  BY <1>2, <1>3 DEF HasTab, ToldGone
<1>5. client[t.socket][target[c]] = Shown(Told(t.socket, target[c]))
  BY <1>2, <1>3, <1>4 DEF DisplayInv, Displays
<1>6. \A S : Shown(S).known
  BY DEF Shown
<1>7. QED
  BY <1>5, <1>6 DEF Roster!Open

\* When no two names share a bucket, clients do not vanish and stacks are fresh,
\* a client displays between two handlers the rooms it is in, each once, and in
\* each exactly its users, although no message carries the whole list: each
\* notice is one arrival or one departure (server.c:55-119,152-158).
THEOREM ClientsShowTheRooms ==
  ASSUME Apart, ~ Drops, ~ StackReuse
  PROVE  Spec => []RosterAgrees
<1>1. Init => DisplayInv
  BY DisplayInit
<1>2. DisplayInv /\ [Next]_vars => DisplayInv'
  BY DisplayStep
<1>3. DisplayInv => RosterAgrees
  BY ShownWhenQuiet
<1>4. QED
  BY <1>1, <1>2, <1>3, PTL DEF Spec

\* Under the same assumptions, every notice of a broadcast (server.c:64,100,114,304)
\* goes to a client that has a tab for the room, which it does not check.
THEOREM NoticesFindTheirTab ==
  ASSUME Apart, ~ Drops, ~ StackReuse
  PROVE  Spec => []NoticesHaveATab
<1>1. Init => DisplayInv
  BY DisplayInit
<1>2. DisplayInv /\ [Next]_vars => DisplayInv'
  BY DisplayStep
<1>3. DisplayInv => NoticesHaveATab
  BY NoticeFindsATab
<1>4. QED
  BY <1>1, <1>2, <1>3, PTL DEF Spec
=============================================================================
