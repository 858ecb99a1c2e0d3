----------------------------- MODULE ChatServer -----------------------------
(***************************************************************************)
(* The plain chat server, src/src/server/server.c: one thread per accepted *)
(* connection runs handle_connexion, and the threads share the table of    *)
(* users, the table of rooms and one mutex.                                *)
(*                                                                         *)
(* A handler takes the mutex, and releases it before it writes its reply.  *)
(* The end of a connection that just stopped is cleaned up WITHOUT the     *)
(* mutex, so it interleaves with whatever handler is running.  The model   *)
(* cuts a handler at each message of a broadcast and at each change of a   *)
(* table that follows one; a call to a manager is one step.                *)
(*                                                                         *)
(* A message written to a client is applied at once to that client's view: *)
(* a socket loses and reorders nothing, and clients read all the time.     *)
(***************************************************************************)
EXTENDS RoomManager

CONSTANTS
  ValidLogin,   \* the logins that are alphanumeric
  HomeRoom,     \* "accueil"
  FreedRoom,    \* a pointer to a room that was freed
  MaxLines,     \* bound of ClientRoster
  Commands,     \* bound: the requests that clients send
  Watched,      \* bound: the connections whose client's display is followed
  Drops,        \* TRUE: a client may vanish without DISCONNECT
  StackReuse    \* TRUE: a new thread may get the stack of one that exited

ASSUME ConstantsAssumption ==
  /\ ValidLogin \subseteq Login
  /\ HomeRoom \in RoomName
  /\ FreedRoom \notin RoomName
  /\ Watched \subseteq Conn
  /\ NULL \notin user \cup Login \cup Conn \cup RoomName
  /\ Drops \in BOOLEAN
  /\ StackReuse \in BOOLEAN
  /\ MaxLines \in Nat /\ MaxLines >= 2

Roster == INSTANCE ClientRoster

VARIABLES
  server_user_map,  \* the users that are logged in
  rooms,            \* the rooms
  mutex,            \* the thread that holds the mutex, or NULL
  pc,               \* where each thread of handle_connexion is
  u,                \* its local variable u
  buffer,           \* the request it read
  response,         \* the code of the reply it is preparing
  target,           \* the room its handler is working on
  todo,             \* the users a broadcast in progress has yet to reach
  visit,            \* the rooms a departing user has yet to leave
  connected,        \* the client at the other end is still there
  client,           \* what that client displays
  status            \* of the process: running, killed, or undefined

tables == <<server_user_map, rooms>>
locals == <<u, buffer, response, target, todo, visit>>
peers  == <<connected, client>>
vars   == <<tables, mutex, pc, locals, peers, status>>

Req(code, name, r, empty) ==
  [code |-> code, name |-> name, room |-> r, empty |-> empty]

NoRequest == Req("NONE", NULL, NULL, FALSE)
EndOfFile == Req("EOF", NULL, NULL, FALSE)

RoomCommand == {"CREATE_ROOM", "JOIN_ROOM", "QUIT_ROOM", "DELETE_ROOM", "MESSAGE"}

Request ==
  {Req("CONNECT", l, NULL, FALSE) : l \in Login}
    \cup {Req(code, NULL, r, FALSE) : code \in RoomCommand, r \in RoomName}
    \cup {Req("MP", l, NULL, e) : l \in Login, e \in BOOLEAN}
    \cup {Req("DISCONNECT", NULL, NULL, FALSE)}

Sent == {request \in Request : request.code \in Commands}

Reply == {"OK", "KO", "MP", "DELETE_ROOM", "CONNECT_KO", "CREATE_ROOM_KO",
          "JOIN_ROOM_KO", "QUIT_ROOM_KO", "DELETE_ROOM_KO", "MESSAGE_KO", "MP_KO"}

Label == {"closed", "read", "rejected", "lock", "join_new", "join_admin", "join_list",
          "quit", "delete", "message", "leave", "unlock", "reply", "exited"}

----------------------------------------------------------------------------
(***************************************************************************)
(* A user is freed by its own thread, just before the thread exits.  The   *)
(* thread's u is left pointing at it, on a stack another thread may get.   *)
(***************************************************************************)
Freed(x) == x # NULL /\ pc[x.socket] = "exited"

\* The thread is executing the last lines of its connection.
Leaving(c) == buffer[c].code \in {"DISCONNECT", "EOF"}

(***************************************************************************)
(* Writing to a client.  The first write to one that is gone may succeed;  *)
(* it may also raise SIGPIPE, which nothing in the server handles.         *)
(***************************************************************************)
WriteTo(d, view) ==
  /\ client' = IF connected[d] /\ d \in Watched THEN [client EXCEPT ![d] = view] ELSE client
  /\ status' \in IF connected[d] THEN {"running"} ELSE {"running", "killed"}

Step(c, label) == status = "running" /\ pc[c] = label

Goto(c, label) == pc' = [pc EXCEPT ![c] = label]

Answer(c, code) == response' = [response EXCEPT ![c] = code]

Handle(c, code) ==
  Step(c, "lock") /\ mutex = NULL /\ buffer[c].code = code

\* A handler that decides to answer without touching anything.
Refuse(c, code) ==
  /\ mutex' = c
  /\ Answer(c, code)
  /\ Goto(c, "unlock")
  /\ UNCHANGED <<tables, u, buffer, target, todo, visit, peers, status>>

\* A handler that begins to broadcast to the users of room r.
Broadcast(c, r, users, label) ==
  /\ target' = [target EXCEPT ![c] = r]
  /\ todo' = [todo EXCEPT ![c] = users]
  /\ Goto(c, label)

----------------------------------------------------------------------------
Init ==
  /\ server_user_map = create_user_map
  /\ rooms = add_room(HomeRoom, NULL, init_rooms)
  /\ mutex = NULL
  /\ pc = [c \in Conn |-> "closed"]
  /\ u = [c \in Conn |-> NULL]
  /\ buffer = [c \in Conn |-> NoRequest]
  /\ response = [c \in Conn |-> "NONE"]
  /\ target = [c \in Conn |-> NULL]
  /\ todo = [c \in Conn |-> {}]
  /\ visit = [c \in Conn |-> {}]
  /\ connected = [c \in Conn |-> FALSE]
  /\ client = [c \in Conn |-> Roster!EmptyView]
  /\ status = "running"

\* A thread starts.  It does not set u: the slot holds zero on a fresh stack,
\* and what the previous thread left there on one that is used again.
Accept(c) ==
  /\ Step(c, "closed")
  /\ \E left \in {NULL} \cup {u[d] : d \in {e \in Conn : StackReuse /\ pc[e] = "exited"}} :
       u' = [u EXCEPT ![c] = left]
  /\ connected' = [connected EXCEPT ![c] = TRUE]
  /\ Goto(c, "read")
  /\ UNCHANGED <<tables, mutex, buffer, response, target, todo, visit, client, status>>

\* The client goes away: its socket will report the end of the connection.
PeerGone(c) ==
  /\ Drops /\ status = "running" /\ connected[c]
  /\ connected' = [connected EXCEPT ![c] = FALSE]
  /\ client' = [client EXCEPT ![c] = Roster!EmptyView]
  /\ UNCHANGED <<tables, mutex, pc, locals, status>>

\* recv returns a request.
Receive(c) ==
  /\ Step(c, "read") /\ connected[c]
  /\ \E request \in Sent :
       /\ buffer' = [buffer EXCEPT ![c] = request]
       /\ IF request.code \notin {"CONNECT", "DISCONNECT"} /\ u[c] = NULL
          THEN Goto(c, "rejected") /\ Answer(c, "KO")
          ELSE Goto(c, "lock") /\ UNCHANGED response
  /\ UNCHANGED <<tables, mutex, u, target, todo, visit, peers, status>>

\* The refusal of a command sent before CONNECT is not written to the socket.
Rejected(c) ==
  /\ Step(c, "rejected")
  /\ buffer' = [buffer EXCEPT ![c] = NoRequest]
  /\ response' = [response EXCEPT ![c] = "NONE"]
  /\ Goto(c, "read")
  /\ UNCHANGED <<tables, mutex, u, target, todo, visit, peers, status>>

----------------------------------------------------------------------------
\* Mutant: anybody may delete a room.
AnybodyIsAdmin(c, r) == TRUE

\* Mutant: nobody is ever recognised as the admin.
NobodyIsAdmin(c, r) == FALSE

\* The pointers are compared, not the names.
IsAdmin(c, r) == u[c] = get_admin(r, rooms)

CreateRoom(c) ==
  LET r == buffer[c].room IN
  /\ Handle(c, "CREATE_ROOM")
  /\ \/ /\ is_room_used(r, rooms)
        /\ Refuse(c, "CREATE_ROOM_KO")
     \/ /\ ~ is_room_used(r, rooms)
        /\ ~ Freed(u[c])
        /\ rooms' = add_user_in_room(u[c], r, add_room(r, u[c], rooms))
        /\ WriteTo(c, Roster!OnArrival(Roster!OnCreateRoom(client[c], r), r, u[c].name))
        /\ mutex' = c
        /\ Answer(c, "OK")
        /\ Goto(c, "unlock")
        /\ UNCHANGED <<server_user_map, u, buffer, target, todo, visit, connected>>

JoinRoom(c) ==
  LET r == buffer[c].room IN
  /\ Handle(c, "JOIN_ROOM")
  /\ \/ /\ \/ ~ is_room_used(r, rooms)
           \/ ~ Freed(u[c]) /\ is_user_in_room(u[c], r, rooms)
        /\ Refuse(c, "JOIN_ROOM_KO")
     \/ /\ is_room_used(r, rooms)
        /\ ~ Freed(u[c]) /\ ~ is_user_in_room(u[c], r, rooms)
        /\ mutex' = c
        /\ Broadcast(c, r, get_users(r, rooms), "join_new")
        /\ UNCHANGED <<tables, u, buffer, response, visit, peers, status>>

\* Mutant: the table of users is not consulted.
LoginRefusedByForm(c, login) == u[c] # NULL \/ login \notin ValidLogin

LoginRefused(c, login) ==
  \/ u[c] # NULL
  \/ login \notin ValidLogin
  \/ is_login_used(login, server_user_map)

\* The client is told CONNECT first, which changes nothing it displays.
Connect(c) ==
  LET new == [name |-> buffer[c].name, socket |-> c] IN
  /\ Handle(c, "CONNECT")
  /\ \/ /\ LoginRefused(c, new.name)
        /\ Refuse(c, "CONNECT_KO")
     \/ /\ ~ LoginRefused(c, new.name)
        /\ WriteTo(c, client[c])
        /\ u' = [u EXCEPT ![c] = new]
        /\ server_user_map' = add_user(new, server_user_map)
        /\ mutex' = c
        /\ Broadcast(c, HomeRoom, get_users(HomeRoom, rooms), "join_new")
        /\ UNCHANGED <<rooms, buffer, response, visit, connected>>

\* join_room: NEW_USER to each user the room had.
JoinNotify(c) ==
  /\ Step(c, "join_new")
  /\ \E t \in todo[c] :
       /\ ~ Freed(t)
       /\ WriteTo(t.socket, Roster!OnArrival(client[t.socket], target[c], u[c].name))
       /\ todo' = [todo EXCEPT ![c] = @ \ {t}]
  /\ UNCHANGED <<tables, mutex, pc, u, buffer, response, target, visit, connected>>

\* join_room takes the users of the room once more.
ListRoom(c, users) ==
  /\ todo' = [todo EXCEPT ![c] = users]
  /\ Goto(c, "join_list")

\* join_room: CREATE_ROOM, the user enters, and has the room an admin?
JoinEnter(c) ==
  LET r == target[c] IN
  /\ Step(c, "join_new") /\ todo[c] = {}
  /\ rooms' = add_user_in_room(u[c], r, rooms)
  /\ WriteTo(c, Roster!OnCreateRoom(client[c], r))
  /\ IF get_admin(r, rooms') = NULL
     THEN ListRoom(c, get_users(r, rooms'))
     ELSE Goto(c, "join_admin") /\ UNCHANGED todo
  /\ UNCHANGED <<server_user_map, mutex, u, buffer, response, target, visit, connected>>

\* join_room: ADMIN, from a second look at the room.
JoinAdmin(c) ==
  LET r     == target[c]
      admin == get_admin(r, rooms)
  IN
  /\ Step(c, "join_admin")
  /\ admin # NULL /\ ~ Freed(admin)
  /\ WriteTo(c, Roster!OnArrival(client[c], r, admin.name))
  /\ ListRoom(c, get_users(r, rooms))
  /\ UNCHANGED <<tables, mutex, u, buffer, response, target, visit, connected>>

\* join_room: ADD_USER for each user of the room but its admin.
JoinList(c) ==
  /\ Step(c, "join_list")
  /\ \E t \in todo[c] :
       /\ todo' = [todo EXCEPT ![c] = @ \ {t}]
       /\ \/ /\ t = get_admin(target[c], rooms)
             /\ UNCHANGED <<client, status>>
          \/ /\ t # get_admin(target[c], rooms)
             /\ ~ Freed(t)
             /\ WriteTo(c, Roster!OnArrival(client[c], target[c], t.name))
  /\ UNCHANGED <<tables, mutex, pc, u, buffer, response, target, visit, connected>>

JoinDone(c) ==
  /\ Step(c, "join_list") /\ todo[c] = {}
  /\ Answer(c, "OK")
  /\ Goto(c, "unlock")
  /\ UNCHANGED <<tables, mutex, u, buffer, target, todo, visit, peers, status>>

----------------------------------------------------------------------------
\* The admin of a room that quits it deletes it.
QuitRoom(c) ==
  LET r     == buffer[c].room
      users == get_users(r, rooms)
      mine  == IsAdmin(c, r)
  IN
  /\ Handle(c, "QUIT_ROOM")
  /\ \/ /\ \/ ~ is_room_used(r, rooms)
           \/ r = HomeRoom
           \/ mine /\ users = {}
           \/ mine /\ ~ Freed(u[c]) /\ ~ is_user_in_room(u[c], r, rooms)
        /\ Refuse(c, "QUIT_ROOM_KO")
     \/ /\ is_room_used(r, rooms) /\ r # HomeRoom /\ ~ Freed(u[c])
        /\ mine => is_user_in_room(u[c], r, rooms)
        /\ mutex' = c
        /\ Broadcast(c, r, users, IF mine THEN "delete" ELSE "quit")
        /\ UNCHANGED <<tables, u, buffer, response, visit, peers, status>>

DeleteRoom(c) ==
  LET r == buffer[c].room IN
  /\ Handle(c, "DELETE_ROOM")
  /\ \/ /\ ~ is_room_used(r, rooms) \/ ~ IsAdmin(c, r)
        /\ Refuse(c, "DELETE_ROOM_KO")
     \/ /\ is_room_used(r, rooms) /\ IsAdmin(c, r)
        /\ mutex' = c
        /\ Broadcast(c, r, get_users(r, rooms), "delete")
        /\ UNCHANGED <<tables, u, buffer, response, visit, peers, status>>

Message(c) ==
  LET r == buffer[c].room IN
  /\ Handle(c, "MESSAGE")
  /\ \/ /\ \/ ~ is_room_used(r, rooms)
           \/ get_users(r, rooms) = {}
           \/ ~ Freed(u[c]) /\ ~ is_user_in_room(u[c], r, rooms)
        /\ Refuse(c, "MESSAGE_KO")
     \/ /\ is_room_used(r, rooms)
        /\ ~ Freed(u[c]) /\ is_user_in_room(u[c], r, rooms)
        /\ mutex' = c
        /\ Answer(c, "OK")
        /\ Broadcast(c, r, get_users(r, rooms), "message")
        /\ UNCHANGED <<tables, u, buffer, visit, peers, status>>

\* The message goes to the receiver, and back to the sender as the reply.
PrivateMessage(c) ==
  /\ Handle(c, "MP")
  /\ \/ /\ ~ is_login_used(buffer[c].name, server_user_map) \/ buffer[c].empty
        /\ Refuse(c, "MP_KO")
     \/ /\ is_login_used(buffer[c].name, server_user_map) /\ ~ buffer[c].empty
        /\ LET receiver == get_user(buffer[c].name, server_user_map) IN
             WriteTo(receiver.socket, client[receiver.socket])
        /\ mutex' = c
        /\ Answer(c, "MP")
        /\ Goto(c, "unlock")
        /\ UNCHANGED <<tables, u, buffer, target, todo, visit, connected>>

\* RM_USER, DELETE_ROOM or the message itself, to one user of the snapshot.
Notify(c) ==
  LET r == target[c]
      after(d) == CASE pc[c] = "quit"    -> Roster!OnRmUser(client[d], r, u[c].name)
                    [] pc[c] = "delete"  -> Roster!OnDeleteRoom(client[d], r)
                    [] pc[c] = "message" -> client[d]
  IN
  /\ status = "running" /\ pc[c] \in {"quit", "delete", "message"}
  /\ \E t \in todo[c] :
       /\ ~ Freed(t)
       /\ WriteTo(t.socket, after(t.socket))
       /\ todo' = [todo EXCEPT ![c] = @ \ {t}]
  /\ UNCHANGED <<tables, mutex, pc, u, buffer, response, target, visit, connected>>

\* Mutant: a handler that forgets to release the mutex.
MessageDoneLocked(c) ==
  /\ Step(c, "message") /\ todo[c] = {}
  /\ Goto(c, "reply")
  /\ UNCHANGED <<tables, mutex, locals, peers, status>>

MessageDone(c) ==
  /\ Step(c, "message") /\ todo[c] = {}
  /\ Goto(c, "unlock")
  /\ UNCHANGED <<tables, mutex, locals, peers, status>>

\* A departing thread works on a room of its list through a pointer to it:
\* the room is no longer in the list if another thread freed it meanwhile.
TargetFreed(c) == Leaving(c) /\ target[c] \notin visit[c]

\* Where a handler goes once its room is left or deleted.
Resume(c) ==
  IF Leaving(c)
  THEN Goto(c, "leave") /\ UNCHANGED response
  ELSE Goto(c, "unlock") /\ Answer(c, "DELETE_ROOM")

\* Mutant: the walk of the rooms to leave does not advance.
QuitDoneInPlace(c) ==
  /\ Step(c, "quit") /\ todo[c] = {}
  /\ ~ TargetFreed(c)
  /\ remove_user_from_room_defined(u[c], target[c], rooms)
  /\ rooms' = remove_user_from_room(u[c], target[c], rooms)
  /\ Resume(c)
  /\ UNCHANGED <<server_user_map, mutex, u, buffer, target, todo, visit, peers, status>>

QuitDone(c) ==
  /\ Step(c, "quit") /\ todo[c] = {}
  /\ ~ TargetFreed(c)
  /\ remove_user_from_room_defined(u[c], target[c], rooms)
  /\ rooms' = remove_user_from_room(u[c], target[c], rooms)
  /\ visit' = [visit EXCEPT ![c] = @ \ {target[c]}]
  /\ Resume(c)
  /\ UNCHANGED <<server_user_map, mutex, u, buffer, target, todo, peers, status>>

\* remove_room frees the room: another thread that is leaving, and still had
\* it in its list, is left with a dangling pointer.
DeleteDone(c) ==
  LET r       == target[c]
      lost(d) == d # c /\ is_room_used(r, rooms) /\ r \in visit[d]
  IN
  /\ Step(c, "delete") /\ todo[c] = {}
  /\ ~ TargetFreed(c)
  /\ rooms' = remove_room(r, rooms)
  /\ visit' = [d \in Conn |-> (visit[d] \ IF d = c \/ lost(d) THEN {r} ELSE {})
                               \cup IF lost(d) THEN {FreedRoom} ELSE {}]
  /\ Resume(c)
  /\ UNCHANGED <<server_user_map, mutex, u, buffer, target, todo, peers, status>>

Unlock(c) ==
  /\ Step(c, "unlock")
  /\ mutex' = NULL
  /\ Goto(c, "reply")
  /\ UNCHANGED <<tables, locals, peers, status>>

\* The reply, after the mutex is released; then the loop starts over.
Answered(c) ==
  /\ Step(c, "reply")
  /\ WriteTo(c, IF response[c] = "DELETE_ROOM"
                THEN Roster!OnDeleteRoom(client[c], target[c]) ELSE client[c])
  /\ buffer' = [buffer EXCEPT ![c] = NoRequest]
  /\ response' = [response EXCEPT ![c] = "NONE"]
  /\ target' = [target EXCEPT ![c] = NULL]
  /\ Goto(c, "read")
  /\ UNCHANGED <<tables, mutex, u, todo, visit, connected>>

----------------------------------------------------------------------------
\* The last lines of a thread: its locals are gone, u stays on the stack.
Exit(c) ==
  /\ buffer' = [buffer EXCEPT ![c] = NoRequest]
  /\ target' = [target EXCEPT ![c] = NULL]
  /\ connected' = [connected EXCEPT ![c] = FALSE]
  /\ Goto(c, "exited")

\* The rooms to leave are listed once, before the first one is left.
BeginLeaving(c) ==
  /\ ~ Freed(u[c])
  /\ visit' = [visit EXCEPT ![c] = get_user_rooms(u[c], rooms)]
  /\ Goto(c, "leave")
  /\ UNCHANGED <<tables, u, response, target, todo, peers, status>>

Disconnect(c) ==
  /\ Handle(c, "DISCONNECT")
  /\ \/ /\ u[c] = NULL
        /\ WriteTo(c, Roster!EmptyView)
        /\ Exit(c)
        /\ UNCHANGED <<tables, mutex, u, response, todo, visit>>
     \/ /\ u[c] # NULL
        /\ mutex' = c
        /\ BeginLeaving(c)
        /\ UNCHANGED buffer

\* recv fails: the same cleanup, without the mutex.
ConnectionStopped(c) ==
  /\ Step(c, "read") /\ ~ connected[c]
  /\ \/ /\ u[c] = NULL
        /\ Exit(c)
        /\ UNCHANGED <<tables, mutex, u, response, todo, visit, client, status>>
     \/ /\ u[c] # NULL
        /\ buffer' = [buffer EXCEPT ![c] = EndOfFile]
        /\ BeginLeaving(c)
        /\ UNCHANGED mutex

LeaveRoom(c) ==
  /\ Step(c, "leave")
  /\ \E r \in visit[c] \ {FreedRoom} :
       Broadcast(c, r, get_users(r, rooms),
                 IF IsAdmin(c, r) THEN "delete" ELSE "quit")
  /\ UNCHANGED <<tables, mutex, u, buffer, response, visit, peers, status>>

\* remove_user and free; then DISCONNECT and the mutex, if it was a request.
LeaveDone(c) ==
  /\ Step(c, "leave") /\ visit[c] = {}
  /\ remove_user_defined(u[c], server_user_map)
  /\ server_user_map' = remove_user(u[c], server_user_map)
  /\ IF buffer[c].code = "DISCONNECT"
     THEN WriteTo(c, Roster!EmptyView) /\ mutex' = NULL
     ELSE UNCHANGED <<client, status, mutex>>
  /\ Exit(c)
  /\ UNCHANGED <<rooms, u, response, todo, visit>>

----------------------------------------------------------------------------
(***************************************************************************)
(* The steps that would use memory that was freed: the thread's own u, a   *)
(* user of a snapshot, the admin of a room, a room of the list to leave,   *)
(* or the chain that remove_user leaves behind when it frees it; or an     *)
(* admin or a receiver that was there at the first look and is gone at the *)
(* second.  From there on the program may do anything, and the model stops.*)
(***************************************************************************)
UsesFreedSelf(c) ==
  LET r == buffer[c].room IN
  /\ Freed(u[c])
  /\ \/ pc[c] = "read" /\ ~ connected[c]
     \/ /\ pc[c] = "lock" /\ mutex = NULL
        /\ CASE buffer[c].code = "CREATE_ROOM" -> ~ is_room_used(r, rooms)
             [] buffer[c].code = "JOIN_ROOM"   -> is_room_used(r, rooms)
             [] buffer[c].code = "QUIT_ROOM"   ->
                  /\ is_room_used(r, rooms) /\ r # HomeRoom
                  /\ IsAdmin(c, r) => get_users(r, rooms) # {}
             [] buffer[c].code = "MESSAGE"     -> get_users(r, rooms) # {}
             [] buffer[c].code = "DISCONNECT"  -> TRUE
             [] OTHER                          -> FALSE

UsesFreedUser(c) ==
  \/ /\ pc[c] \in {"join_new", "quit", "delete", "message"}
     /\ \E t \in todo[c] : Freed(t)
  \/ pc[c] = "join_admin" /\ Freed(get_admin(target[c], rooms))
  \/ /\ pc[c] = "join_list"
     /\ \E t \in todo[c] : Freed(t) /\ t # get_admin(target[c], rooms)

UsesNoAdmin(c) == pc[c] = "join_admin" /\ get_admin(target[c], rooms) = NULL

\* The receiver of MP is looked up twice as well: the cleanup of its thread, without
\* the mutex, may take it out in between.
UsesNoReceiver(c) ==
  /\ pc[c] = "lock" /\ mutex = NULL /\ buffer[c].code = "MP" /\ ~ buffer[c].empty
  /\ is_login_used(buffer[c].name, server_user_map)
  /\ \E d \in Conn : /\ pc[d] = "leave" /\ visit[d] = {}
                     /\ ~ is_login_used(buffer[c].name, remove_user(u[d], server_user_map))

UsesFreedRoom(c) ==
  \/ pc[c] \in {"quit", "delete"} /\ todo[c] = {} /\ TargetFreed(c)
  \/ pc[c] = "leave" /\ FreedRoom \in visit[c]

LeavesFreedChain(c) ==
  \/ /\ pc[c] = "quit" /\ todo[c] = {} /\ ~ TargetFreed(c)
     /\ ~ remove_user_from_room_defined(u[c], target[c], rooms)
  \/ /\ pc[c] = "leave" /\ visit[c] = {}
     /\ ~ remove_user_defined(u[c], server_user_map)

Undefined(c) ==
  /\ status = "running"
  /\ \/ UsesFreedSelf(c) \/ UsesFreedUser(c) \/ UsesNoAdmin(c) \/ UsesNoReceiver(c)
     \/ UsesFreedRoom(c) \/ LeavesFreedChain(c)
  /\ status' = "undefined"
  /\ UNCHANGED <<tables, mutex, pc, locals, peers>>

----------------------------------------------------------------------------
\* What the thread does by itself once it has something to do.
Work(c) ==
  \/ Rejected(c) \/ ConnectionStopped(c)
  \/ CreateRoom(c) \/ JoinRoom(c) \/ Connect(c) \/ QuitRoom(c) \/ DeleteRoom(c)
  \/ Message(c) \/ PrivateMessage(c) \/ Disconnect(c)
  \/ JoinNotify(c) \/ JoinEnter(c) \/ JoinAdmin(c) \/ JoinList(c) \/ JoinDone(c)
  \/ Notify(c) \/ MessageDone(c) \/ QuitDone(c) \/ DeleteDone(c)
  \/ LeaveRoom(c) \/ LeaveDone(c)
  \/ Unlock(c) \/ Answered(c) \/ Undefined(c)

\* Nothing is left to run: the process is gone, or every client is.
Stopped ==
  /\ status # "running" \/ \A c \in Conn : pc[c] = "exited"
  /\ UNCHANGED vars

Next ==
  \/ \E c \in Conn : Accept(c) \/ PeerGone(c) \/ Receive(c) \/ Work(c)
  \/ Stopped

Spec == Init /\ [][Next]_vars

FairSpec == Spec /\ \A c \in Conn : WF_vars(Work(c))

----------------------------------------------------------------------------
\* The values the state of the server ranges over, for ChatServer.
TypeOK ==
  /\ server_user_map \in user_map
  /\ rooms \in room_map
  /\ mutex \in Conn \cup {NULL}
  /\ pc \in [Conn -> Label]
  /\ u \in [Conn -> user \cup {NULL}]
  /\ buffer \in [Conn -> Request \cup {NoRequest, EndOfFile}]
  /\ response \in [Conn -> Reply \cup {"NONE"}]
  /\ target \in [Conn -> RoomName \cup {NULL}]
  /\ todo \in [Conn -> SUBSET user]
  /\ visit \in [Conn -> SUBSET (RoomName \cup {FreedRoom})]
  /\ connected \in [Conn -> BOOLEAN]
  /\ client \in [Conn -> Roster!View]
  /\ status \in {"running", "killed", "undefined"}

----------------------------------------------------------------------------
(***************************************************************************)
(* Safety.                                                                 *)
(***************************************************************************)

\* The structs that some table still points at.
ListedUsers ==
  Users(server_user_map) \cup UNION {Users(r.users) : r \in AllRooms(rooms)}

(***************************************************************************)
(* The cleanup of a departing user (server.c:220-236 and 338-352) takes it *)
(* out of every table before free(u): no walk of a table, by any thread    *)
(* and at any time, ever meets a user that was freed.  It holds although   *)
(* the rooms to leave are listed once and one of the two cleanups runs     *)
(* without the mutex, and whatever logins and names collide.               *)
(***************************************************************************)
NoFreedUserInTables == \A x \in ListedUsers : ~ Freed(x)

\* The user of a thread that has logged in and has not left yet.
LoggedIn(c) == u[c] # NULL /\ u[c].socket = c /\ pc[c] # "exited"

(***************************************************************************)
(* A user that has logged in is known to the server until its own thread   *)
(* takes it out (server.c:233,350): nobody else's departure removes it,    *)
(* and no two of them have the same login.                                 *)
(***************************************************************************)
LoggedInIsListed ==
  \A c \in Conn : LoggedIn(c) => u[c] \in Users(server_user_map)

\* No thread is in a handler or cleaning up.
Quiet ==
  /\ status = "running"
  /\ \A c \in Conn : pc[c] \in {"closed", "read", "rejected", "lock", "reply", "exited"}

\* Nothing is on its way to the client of c.
Settled(c) == c \in Watched /\ connected[c] /\ pc[c] # "reply"

(***************************************************************************)
(* When no thread is at work, a client displays the rooms it is in, each  *)
(* once, and in each of them exactly its users, each once.  The notices    *)
(* that get it there are sent one by one by different handlers             *)
(* (server.c:55-119,152-158) and no message carries the whole list.        *)
(***************************************************************************)
RosterAgrees ==
  Quiet =>
    \A c \in Conn : Settled(c) =>
      /\ Roster!TidyTabs(client[c]) /\ Roster!NoTwins(client[c])
      /\ \A r \in RoomName :
           LET users == get_users(r, rooms) IN
           /\ Roster!Open(client[c], r) <=> u[c] \in users
           /\ u[c] \in users =>
                Roster!Contacts(client[c], r) = {x.name : x \in users}

(***************************************************************************)
(* A broadcast (server.c:64,100,114,304) reaches only clients that have    *)
(* the room open: ReceiveThread.vala looks the room up without checking.   *)
(***************************************************************************)
NoticesHaveATab ==
  \A c \in Conn : pc[c] \in {"join_new", "quit", "delete", "message"} =>
    \A t \in todo[c] :
      t.socket \in Watched /\ connected[t.socket] => Roster!Open(client[t.socket], target[c])

(***************************************************************************)
(* No thread ever uses a struct that was freed, nor leaves a chain of a    *)
(* table pointing at freed nodes.                                          *)
(***************************************************************************)
NeverUndefined == status # "undefined"

----------------------------------------------------------------------------
(***************************************************************************)
(* Action properties and liveness.                                         *)
(***************************************************************************)

(***************************************************************************)
(* A room disappears only when its admin deletes it (server.c:106-119):    *)
(* the removal of one room never takes another one with it.                *)
(***************************************************************************)
OnlyItsAdminRemovesARoom ==
  [][\A r \in RoomNames(rooms) :
       ~ is_room_used(r, rooms') =>
         \E c \in Conn : /\ pc[c] = "delete" /\ target[c] = r
                         /\ u[c] = get_admin(r, rooms)]_vars

(***************************************************************************)
(* A thread goes back to reading only after it has answered the request it *)
(* had read (lib_server.h:9-10).                                           *)
(***************************************************************************)
\* TLC refutes it: see the disagreements in the README.
EveryCommandIsAnswered ==
  [][\A c \in Conn : pc'[c] = "read" /\ pc[c] # "read" =>
       pc[c] \in {"closed", "reply"}]_vars

(***************************************************************************)
(* "You are already connected" (server.c:249) is answered to a client that *)
(* is.                                                                     *)
(***************************************************************************)
\* TLC refutes it: see the disagreements in the README.
OnlyTheConnectedAreToldSo ==
  \A c \in Conn : response[c] = "CONNECT_KO" /\ u[c] # NULL => LoggedIn(c)

(***************************************************************************)
(* The mutex is released by every handler that took it: no thread that     *)
(* waits for it waits for ever on one holder (server.c:136,240,335).       *)
(***************************************************************************)
MutexReleased ==
  \A c \in Conn : mutex = c ~> mutex # c \/ status # "running"

(***************************************************************************)
(* A client that vanishes between two requests is cleaned up after: its    *)
(* thread gets to the end of its list of rooms and exits, whatever the     *)
(* other threads do to those rooms meanwhile (server.c:338-354).  A thread *)
(* that still has a request to handle is not promised the mutex.           *)
(***************************************************************************)
VanishedIsForgotten ==
  \A c \in Conn :
    pc[c] = "read" /\ ~ connected[c] ~> pc[c] = "exited" \/ status # "running"
=============================================================================
