---------------------------- MODULE SecureServer ----------------------------
(***************************************************************************)
(* The secure server, src/src/serversec/secure_server.c: rooms one enters  *)
(* by invitation of their admin, the keys the server deals to their users, *)
(* and an account per user in a database that outlives the process.        *)
(*                                                                         *)
(* One thread per connection runs handle_connexion.  No handler takes the  *)
(* mutex, so handlers of different threads interleave: the model cuts them *)
(* at each message, each call of the database, each snapshot, and between  *)
(* a test and what it allows whenever another thread can change it in the  *)
(* meantime.  Keys are numbers; the server keeps none, and the keys each   *)
(* client holds are changed by the messages it is sent, at once.  The keys *)
(* of MP_SEC, the descriptors and the TLS context are not followed.  No    *)
(* two names share a bucket here: ChatServer is about collisions.          *)
(***************************************************************************)
EXTENDS RoomManager, Integers

CONSTANTS
  Client,       \* the connections, each with a client at its other end
  Cert,         \* the subjects of the certificates
  HomeRoom,     \* "accueil_sec"
  Asked,        \* the names of rooms that clients ask for
  Barred,       \* the name of each room, followed by "|"
  FreedRoom,    \* a pointer to a room that was freed
  CertOf,       \* the subject of the certificate each client connects with
  LoginsOf,     \* the logins each client asks for
  Commands,     \* bound: the requests that clients send
  Creators,     \* bound: the connections whose client creates rooms
  Drops,        \* TRUE: a client may vanish without DISCONNECT_SEC
  Restarts,     \* TRUE: the server may be interrupted, and started again
  StackReuse    \* TRUE: a new thread may get the stack of one that exited

ASSUME ConstantsAssumption ==
  /\ Asked \cup {HomeRoom} \subseteq RoomName
  /\ Barred \in [Asked \cup {HomeRoom} -> RoomName \ (Asked \cup {HomeRoom})]
  /\ FreedRoom \notin RoomName
  /\ Conn \subseteq Client \X Nat
  /\ IsFiniteSet(Client) /\ IsFiniteSet(Asked)
  /\ CertOf \in [Client -> Cert]
  /\ LoginsOf \in [Client -> SUBSET Login]
  /\ Creators \subseteq Client
  /\ NULL \notin user \cup Login \cup RoomName
  /\ \A l, m \in Login : UserHash[l] = UserHash[m] => l = m
  /\ \A r, s \in RoomName : RoomHash[r] = RoomHash[s] => r = s
  /\ {Drops, Restarts, StackReuse} \subseteq BOOLEAN

INSTANCE Accounts

VARIABLES
  accounts,         \* the database
  server_user_map,  \* the users that are logged in
  rooms,            \* the rooms
  thread,           \* of each connection: its program counter and its locals
  connected,        \* the client at the other end is still there
  keyring,          \* the keys that client holds for each room
  status            \* of the process: running, killed, or undefined

tables == <<accounts, server_user_map, rooms>>
peers  == <<connected, keyring>>
vars   == <<tables, thread, peers, status>>

NoKey == 0
Key == 1 .. Cardinality(Client) * (Cardinality(Asked) + 1)

Req(code, r, name) == [code |-> code, room |-> r, name |-> name]

NoRequest == Req("NONE", NULL, NULL)

Decision == {"ACCEPT_JOIN_ROOM_SEC", "REFUSE_JOIN_ROOM_SEC", "EJECT_FROM_ROOM_SEC"}

Request ==
  {Req(code, NULL, l) : code \in {"CONNECT_SEC", "MP_SEC"}, l \in Login}
    \cup {Req(code, r, NULL) : r \in Asked,
            code \in {"CREATE_ROOM_SEC", "JOIN_ROOM_SEC", "QUIT_ROOM_SEC", "DELETE_ROOM_SEC"}}
    \cup {Req(code, r, l) : code \in Decision, r \in Asked, l \in Login}
    \cup {Req(code, NULL, NULL) : code \in {"CONNECT_OK", "DEL_ACCOUNT_SEC", "DISCONNECT_SEC"}}

Sent(c) ==
  {request \in Request :
     /\ request.code \in Commands
     /\ request.code = "CREATE_ROOM_SEC" => c \in Creators
     /\ request.code = "CONNECT_SEC" => request.name \in LoginsOf[c]}

Reply == {"OK", "KO", "CREATE_ROOM_SEC", "CREATE_ROOM_KO", "JOIN_ROOM_KO", "QUIT_ROOM_SEC",
          "QUIT_ROOM_SEC_KO", "DELETE_ROOM_KO", "MP_SEC", "MP_SEC_KO", "DEL_ACCOUNT_SEC",
          "CONNECT_SEC_OK", "CONNECT_SEC_KO", "CONNECT_SEC"}

Label == {"closed", "read", "handle", "create", "certificate", "insert", "enter", "join_new",
          "join_list", "ask", "decide", "mp", "claimer", "deal", "delete", "leave", "bye", "reply",
          "exited", "stopped"}

Locals ==
  [pc : Label,
   logins : Nat,                   \* the requests CONNECT_SEC it got so far
   u : user \cup {NULL},           \* the user of this connection
   first_connection : BOOLEAN,     \* its account was made by this connection
   buffer : Request \cup {NoRequest},
   sender : Login \cup {NULL},     \* the login its client signs requests with
   response : Reply \cup {"NONE"},
   claimer : user \cup {NULL},     \* the other user its handler is about
   k : Key \cup {NoKey},           \* the keys its handler generated
   todo : SUBSET user,             \* the users a broadcast has yet to reach
   visit : SUBSET (RoomName \cup {FreedRoom})]  \* the rooms it has yet to leave

NotStarted ==
  [pc |-> "closed", logins |-> 0, u |-> NULL, first_connection |-> FALSE, buffer |-> NoRequest, sender |-> NULL,
   response |-> "NONE", claimer |-> NULL, k |-> NoKey, todo |-> {}, visit |-> {}]

NoKeys == [r \in Asked |-> NoKey]

----------------------------------------------------------------------------
\* The connection a user was allocated by, and is written to.
Of(x) == x.socket[1]

\* DISCONNECT_SEC frees the u of its thread, then the SSL of its connection,
\* which earlier users of the connection share.  A connection that just stopped
\* frees neither.
Freed(x) ==
  /\ x # NULL
  /\ \/ thread[Of(x)].pc = "exited"
     \/ \E d \in Client : thread[d].u = x /\ thread[d].pc \in {"bye", "exited"}

Usable(c) == thread[c].u # NULL /\ ~ Freed(thread[c].u)

LoggedIn(c) == thread[c].u # NULL /\ Of(thread[c].u) = c

\* get_user walks to NULL when nobody has the name.
UserNamed(name) ==
  IF is_login_used(name, server_user_map) THEN get_user(name, server_user_map) ELSE NULL

\* gen_keys: keys that nobody holds.
FreshKey ==
  LET held == {thread[c].k : c \in Client} \cup UNION {{keyring[c][r] : r \in Asked} : c \in Client}
  IN CHOOSE n \in Key : n \notin held

Step(c, label) == status = "running" /\ thread[c].pc = label

Handle(c, code) == Step(c, "handle") /\ thread[c].buffer.code = code

\* SSL_write to a client that is gone may raise SIGPIPE, which kills the server.
Write(d) == status' \in IF connected[d] THEN {"running"} ELSE {"running", "killed"}

\* A message that leaves its client with keys n for room r.
WriteKeys(d, r, n) ==
  /\ Write(d)
  /\ keyring' = IF connected[d] THEN [keyring EXCEPT ![d][r] = n] ELSE keyring

Goto(c, label) == thread' = [thread EXCEPT ![c].pc = label]

Respond(c, code) == thread' = [thread EXCEPT ![c].response = code, ![c].pc = "reply"]

\* A handler that answers without touching anything else.
Answer(c, code) == Respond(c, code) /\ UNCHANGED <<tables, peers, status>>

\* A handler that begins to write to each of some users.
Broadcast(c, users, label) ==
  /\ thread' = [thread EXCEPT ![c].todo = users, ![c].pc = label]

\* The pointers are compared, and the admin of an unknown room is NULL.
IsAdmin(c, r) == thread[c].u = get_admin(r, rooms)

----------------------------------------------------------------------------
Init ==
  /\ accounts = EmptyTable
  /\ server_user_map = create_user_map
  /\ rooms = add_room(HomeRoom, NULL, init_rooms)
  /\ thread = [c \in Client |-> NotStarted]
  /\ connected = [c \in Client |-> FALSE]
  /\ keyring = [c \in Client |-> NoKeys]
  /\ status = "running"

\* The stacks a new thread may be given, by the thread that left them.
UsedStack == {d \in Client : StackReuse /\ thread[d].pc \in {"exited", "stopped"}}

\* A thread starts, and the handshake succeeds or fails; a certificate that is not
\* verified ends the process.  Neither u nor buffer is set: they hold zero, or
\* what an earlier thread left on the same stack.
Accept(c) ==
  /\ Step(c, "closed")
  /\ \/ /\ \E left \in {NotStarted} \cup {thread[d] : d \in UsedStack} :
             thread' = [thread EXCEPT ![c].u = left.u, ![c].sender = left.sender, ![c].pc = "read"]
        /\ connected' = [connected EXCEPT ![c] = TRUE]
        /\ UNCHANGED status
     \/ /\ Drops /\ Goto(c, "stopped")
        /\ UNCHANGED <<connected, status>>
     \/ /\ Restarts /\ status' = "killed"
        /\ UNCHANGED <<thread, connected>>
  /\ UNCHANGED <<tables, keyring>>

\* The client goes away: its next read will fail.
PeerGone(c) ==
  /\ Drops /\ status = "running" /\ connected[c]
  /\ connected' = [connected EXCEPT ![c] = FALSE]
  /\ keyring' = [keyring EXCEPT ![c] = NoKeys]
  /\ UNCHANGED <<tables, thread, status>>

(***************************************************************************)
(* SSL_read returns a request.  A client has no login to sign its requests *)
(* with before it asks for one (send_command_sec).  It may ask for another *)
(* at any time, or for the same one again.  Bound: the logins in Conn.     *)
(***************************************************************************)
Receive(c) ==
  /\ Step(c, "read") /\ connected[c]
  /\ \E request \in Sent(c) :
       LET asks  == request.code = "CONNECT_SEC"
           login == IF asks THEN request.name ELSE thread[c].sender
           count == IF asks THEN thread[c].logins + 1 ELSE thread[c].logins
       IN
       /\ asks => <<c, count>> \in Conn
       /\ login # NULL
       /\ thread' = [thread EXCEPT ![c].buffer = request, ![c].sender = login,
                                   ![c].logins = count, ![c].pc = "handle"]
  /\ UNCHANGED <<tables, peers, status>>

----------------------------------------------------------------------------
\* CONNECT_SEC: is_connected stops nobody; is this login known with this certificate?
ConnectSec(c) ==
  LET login == thread[c].sender IN
  /\ Handle(c, "CONNECT_SEC")
  /\ \/ /\ is_connected(login, accounts) = -1
        /\ Answer(c, "CONNECT_SEC_KO")
     \/ /\ is_connected(login, accounts) = 1
        /\ Goto(c, IF check_user(login, CertOf[c], accounts) = 1 THEN "certificate" ELSE "enter")
        /\ UNCHANGED <<tables, peers, status>>

CheckCertificate(c) ==
  /\ Step(c, "certificate")
  /\ IF check_certificate(CertOf[c], accounts) = -1
     THEN Answer(c, "CONNECT_SEC_KO")
     ELSE Goto(c, "insert") /\ UNCHANGED <<tables, peers, status>>

\* The result of the insertion is not looked at.
AddAccount(c) ==
  /\ Step(c, "insert")
  /\ accounts' = add_user_db(thread[c].sender, CertOf[c], accounts)
  /\ thread' = [thread EXCEPT ![c].first_connection = TRUE, ![c].pc = "enter"]
  /\ UNCHANGED <<server_user_map, rooms, peers, status>>

\* change_status, a new user, add_user; join_room lists the home room.  The user
\* of an earlier login is forgotten here, and stays in the tables.
Enter(c) ==
  LET new == [name |-> thread[c].sender, socket |-> <<c, thread[c].logins>>] IN
  /\ Step(c, "enter")
  /\ accounts' = change_status(new.name, accounts)
  /\ server_user_map' = add_user(new, server_user_map)
  /\ thread' = [thread EXCEPT ![c].u = new, ![c].todo = get_users(HomeRoom, rooms),
                              ![c].pc = "join_new"]
  /\ UNCHANGED <<rooms, peers, status>>

\* join_room: CREATE_ROOM, the user enters, and the users are listed again.
JoinEnter(c) ==
  /\ Step(c, "join_new") /\ thread[c].todo = {}
  /\ rooms' = add_user_in_room(thread[c].u, HomeRoom, rooms)
  /\ Write(c)
  /\ Broadcast(c, get_users(HomeRoom, rooms'), "join_list")
  /\ UNCHANGED <<accounts, server_user_map, peers>>

\* The plain server let the client in too.
ConnectOk(c) ==
  /\ Handle(c, "CONNECT_OK")
  /\ thread' = [thread EXCEPT ![c].first_connection = FALSE, ![c].response = "CONNECT_SEC_OK",
                              ![c].pc = "reply"]
  /\ UNCHANGED <<tables, peers, status>>

DelAccount(c) ==
  /\ Handle(c, "DEL_ACCOUNT_SEC") /\ Usable(c)
  /\ accounts' = delete_user(thread[c].u.name, accounts)
  /\ Respond(c, "DEL_ACCOUNT_SEC")
  /\ UNCHANGED <<server_user_map, rooms, peers, status>>

----------------------------------------------------------------------------
CreateRoomSec(c) ==
  /\ Handle(c, "CREATE_ROOM_SEC")
  /\ IF is_room_used(thread[c].buffer.room, rooms)
     THEN Answer(c, "CREATE_ROOM_KO")
     ELSE /\ thread' = [thread EXCEPT ![c].k = FreshKey, ![c].pc = "create"]
          /\ UNCHANGED <<tables, peers, status>>

\* add_room may find that the room exists by now; nobody looks at its result.
CreateEnter(c) ==
  LET r == thread[c].buffer.room IN
  /\ Step(c, "create") /\ Usable(c)
  /\ rooms' = add_user_in_room(thread[c].u, r, add_room(r, thread[c].u, rooms))
  /\ Respond(c, "CREATE_ROOM_SEC")
  /\ UNCHANGED <<accounts, server_user_map, peers, status>>

JoinRoomSec(c) ==
  LET r == thread[c].buffer.room IN
  /\ Handle(c, "JOIN_ROOM_SEC")
  /\ is_room_used(r, rooms) => Usable(c)
  /\ IF ~ is_room_used(r, rooms) \/ is_user_in_room(thread[c].u, r, rooms)
     THEN Answer(c, "JOIN_ROOM_KO")
     ELSE Goto(c, "ask") /\ UNCHANGED <<tables, peers, status>>

\* Only the admin is asked.
AskAdmin(c) ==
  LET admin == get_admin(thread[c].buffer.room, rooms) IN
  /\ Step(c, "ask") /\ Usable(c)
  /\ admin # NULL /\ ~ Freed(admin)
  /\ Write(Of(admin))
  /\ Respond(c, "OK")
  /\ UNCHANGED <<tables, peers>>

\* "You're not admin of the room"; ACCEPT also says "This user is not connected".
DecisionRefused(c) ==
  LET request == thread[c].buffer IN
  /\ Step(c, "handle") /\ request.code \in Decision
  /\ \/ ~ IsAdmin(c, request.room)
     \/ request.code = "ACCEPT_JOIN_ROOM_SEC" /\ UserNamed(request.name) = NULL
  /\ Answer(c, "KO")

\* Mutant: anybody may decide for the admin.
AnybodyDecides(c) ==
  /\ Step(c, "handle") /\ thread[c].buffer.code \in Decision
  /\ UserNamed(thread[c].buffer.name) # NULL
  /\ thread' = [thread EXCEPT ![c].claimer = UserNamed(thread[c].buffer.name), ![c].pc = "decide"]
  /\ UNCHANGED <<tables, peers, status>>

\* The admin decides about another user, who is connected.
AdminDecides(c) ==
  /\ Step(c, "handle") /\ thread[c].buffer.code \in Decision
  /\ IsAdmin(c, thread[c].buffer.room)
  /\ UserNamed(thread[c].buffer.name) # NULL
  /\ thread' = [thread EXCEPT ![c].claimer = UserNamed(thread[c].buffer.name), ![c].pc = "decide"]
  /\ UNCHANGED <<tables, peers, status>>

\* The room changes, and keys are generated that its users have yet to be dealt.
DealKeys(c, changed) ==
  /\ rooms' = changed
  /\ thread' = [thread EXCEPT ![c].k = FreshKey, ![c].pc = "claimer"]
  /\ UNCHANGED <<accounts, server_user_map, peers, status>>

Decide(c, code) ==
  Step(c, "decide") /\ thread[c].buffer.code = code /\ ~ Freed(thread[c].claimer)

AcceptJoin(c) ==
  /\ Decide(c, "ACCEPT_JOIN_ROOM_SEC")
  /\ DealKeys(c, add_user_in_room(thread[c].claimer, thread[c].buffer.room, rooms))

Eject(c) ==
  /\ Decide(c, "EJECT_FROM_ROOM_SEC")
  /\ DealKeys(c, remove_user_from_room(thread[c].claimer, thread[c].buffer.room, rooms))

RefuseJoin(c) ==
  /\ Decide(c, "REFUSE_JOIN_ROOM_SEC")
  /\ Write(Of(thread[c].claimer))
  /\ Respond(c, "OK")
  /\ UNCHANGED <<tables, peers>>

MpSec(c) ==
  /\ Handle(c, "MP_SEC")
  /\ IF UserNamed(thread[c].buffer.name) = NULL
     THEN Answer(c, "MP_SEC_KO")
     ELSE Goto(c, "mp") /\ UNCHANGED <<tables, peers, status>>

\* The receiver is looked up again, and may be gone.  The sender gets its keys;
\* those for the receiver follow.
MpKeys(c) ==
  /\ Step(c, "mp") /\ Usable(c)
  /\ Write(Of(thread[c].u))
  /\ thread' = [thread EXCEPT ![c].claimer = UserNamed(thread[c].buffer.name), ![c].pc = "claimer"]
  /\ UNCHANGED <<tables, peers>>

\* Mutant: the other users of the room are not told the new keys.
TellOnlyTheClaimer(c) ==
  /\ Step(c, "claimer") /\ thread[c].claimer # NULL /\ ~ Freed(thread[c].claimer)
  /\ WriteKeys(Of(thread[c].claimer), thread[c].buffer.room,
       IF thread[c].buffer.code = "EJECT_FROM_ROOM_SEC" THEN NoKey ELSE thread[c].k)
  /\ Respond(c, "OK")
  /\ UNCHANGED <<tables, connected>>

\* The message to the other user: MP_SEC_OK, or CREATE_ROOM_SEC or QUIT_ROOM_SEC,
\* after which the users of the room are listed.
TellClaimer(c) ==
  LET r == thread[c].buffer.room IN
  /\ Step(c, "claimer") /\ thread[c].claimer # NULL /\ ~ Freed(thread[c].claimer)
  /\ IF thread[c].buffer.code = "MP_SEC"
     THEN Write(Of(thread[c].claimer)) /\ Respond(c, "MP_SEC") /\ UNCHANGED keyring
     ELSE /\ WriteKeys(Of(thread[c].claimer), r,
               IF thread[c].buffer.code = "EJECT_FROM_ROOM_SEC" THEN NoKey ELSE thread[c].k)
          /\ Broadcast(c, get_users(r, rooms), "deal")
  /\ UNCHANGED <<tables, connected>>

----------------------------------------------------------------------------
\* Mutant: the walk of a list stays at its first user.
NotifyTheSame(c) ==
  /\ status = "running"
  /\ \E t \in thread[c].todo : ~ Freed(t) /\ Write(Of(t))
  /\ UNCHANGED <<tables, connected, keyring, thread>>

\* One message of a broadcast: NEW_USER, ADD_USER (to the newcomer, about that
\* user), JOIN_ROOM_SEC or REFRESH_KEYIV with keys, QUIT_ROOM_SEC.
Notify(c) ==
  LET r == thread[c].buffer.room IN
  /\ status = "running" /\ thread[c].pc \in {"deal", "delete", "join_new", "join_list"}
  /\ \E t \in thread[c].todo :
       /\ ~ Freed(t)
       /\ CASE thread[c].pc = "deal"      -> WriteKeys(Of(t), r, thread[c].k)
            [] thread[c].pc = "delete"    -> WriteKeys(Of(t), r, NoKey)
            [] thread[c].pc = "join_new"  -> Write(Of(t)) /\ UNCHANGED keyring
            [] thread[c].pc = "join_list" -> Write(c) /\ UNCHANGED keyring
       /\ thread' = [thread EXCEPT ![c].todo = @ \ {t}]
  /\ UNCHANGED <<tables, connected>>

NotifyDone(c) ==
  /\ status = "running" /\ thread[c].pc \in {"deal", "join_list"} /\ thread[c].todo = {}
  /\ Answer(c, IF thread[c].pc = "deal" THEN "OK" ELSE "CONNECT_SEC")

\* The admin that quits a room deletes it.  Another user leaves it; the bar that
\* quit_room appends to the name makes its list of users to tell an empty one.
QuitRoomSec(c) ==
  LET r == thread[c].buffer.room IN
  /\ Handle(c, "QUIT_ROOM_SEC")
  /\ \/ /\ ~ is_room_used(r, rooms) \/ r = HomeRoom
        /\ Answer(c, "QUIT_ROOM_SEC_KO")
     \/ /\ is_room_used(r, rooms) /\ r # HomeRoom /\ Usable(c)
        /\ \/ /\ ~ IsAdmin(c, r)
              /\ rooms' = remove_user_from_room(thread[c].u, r, rooms)
              /\ Respond(c, "QUIT_ROOM_SEC")
              /\ UNCHANGED <<accounts, server_user_map, peers, status>>
           \/ /\ IsAdmin(c, r) /\ ~ is_user_in_room(thread[c].u, r, rooms)
              /\ Answer(c, "QUIT_ROOM_SEC_KO")
           \/ /\ IsAdmin(c, r) /\ is_user_in_room(thread[c].u, r, rooms)
              /\ Broadcast(c, get_users(r, rooms), "delete")
              /\ UNCHANGED <<tables, peers, status>>

DeleteRoomSec(c) ==
  LET r == thread[c].buffer.room IN
  /\ Handle(c, "DELETE_ROOM_SEC")
  /\ IF ~ IsAdmin(c, r)
     THEN Answer(c, "DELETE_ROOM_KO")
     ELSE Broadcast(c, get_users(r, rooms), "delete") /\ UNCHANGED <<tables, peers, status>>

\* A room is freed: threads that have yet to leave it point at nothing.
FreeRoom(c, r, last) ==
  /\ rooms' = remove_room(r, rooms)
  /\ thread' = [d \in Client |->
       IF d = c THEN last
       ELSE IF r \in thread[d].visit /\ is_room_used(r, rooms)
            THEN [thread[d] EXCEPT !.visit = (@ \ {r}) \cup {FreedRoom}]
            ELSE thread[d]]

DeleteDone(c) ==
  /\ Step(c, "delete") /\ thread[c].todo = {}
  /\ FreeRoom(c, thread[c].buffer.room, [thread[c] EXCEPT !.response = "OK", !.pc = "reply"])
  /\ UNCHANGED <<accounts, server_user_map, peers, status>>

\* The keys that a reply leaves its client with, if it is about keys.
KeysInReply(c) ==
  CASE thread[c].response = "CREATE_ROOM_SEC" -> {thread[c].k}
    [] thread[c].response = "QUIT_ROOM_SEC"   -> {NoKey}
    [] OTHER                                  -> {}

\* The reply, and the loop starts over.
Answered(c) ==
  /\ Step(c, "reply")
  /\ IF KeysInReply(c) = {}
     THEN Write(c) /\ UNCHANGED keyring
     ELSE \E n \in KeysInReply(c) : WriteKeys(c, thread[c].buffer.room, n)
  /\ thread' = [thread EXCEPT ![c] = [NotStarted EXCEPT !.pc = "read", !.u = thread[c].u,
       !.logins = thread[c].logins, !.sender = thread[c].sender,
       !.first_connection = thread[c].first_connection]]
  /\ UNCHANGED <<tables, connected>>

----------------------------------------------------------------------------
\* An account made by this connection and not confirmed is deleted.
Disconnect(c) ==
  LET self == thread[c] IN
  /\ Handle(c, "DISCONNECT_SEC") /\ ~ Freed(self.u)
  /\ accounts' = IF self.first_connection THEN delete_user(self.sender, accounts) ELSE accounts
  /\ thread' = [thread EXCEPT ![c].pc = "leave",
       ![c].visit = IF self.u = NULL THEN {} ELSE get_user_rooms(self.u, rooms)]
  /\ UNCHANGED <<server_user_map, rooms, peers, status>>

\* The room is kept under another name, in the bucket of the old one.  (The code
\* also writes the new keys behind that name, and may leave the field.)
Rename(r, changed) ==
  IF is_room_used(r, changed)
  THEN [changed EXCEPT ![RoomHash[r]][Position(r, changed)].name = Barred[r]]
  ELSE changed

(***************************************************************************)
(* A departing user leaves one room.  Its admin removes it and tells       *)
(* nobody.  For another user, quit_room is given the name inside the room, *)
(* and appends the bar to it: the room is then found by nobody.            *)
(***************************************************************************)
LeaveRoom(c) ==
  /\ Step(c, "leave")
  /\ \E r \in thread[c].visit \ {FreedRoom} :
       IF IsAdmin(c, r)
       THEN FreeRoom(c, r, [thread[c] EXCEPT !.visit = @ \ {r}])
       ELSE /\ rooms' = Rename(r, remove_user_from_room(thread[c].u, r, rooms))
            /\ thread' = [d \in Client |-> [thread[d] EXCEPT !.visit = @ \ {r}]]
  /\ UNCHANGED <<accounts, server_user_map, peers, status>>

\* Mutant: the user stays in the table of the users.
LeaveDoneListed(c) ==
  /\ Step(c, "leave") /\ thread[c].visit = {}
  /\ Write(c)
  /\ Goto(c, "bye")
  /\ UNCHANGED <<tables, peers>>

\* remove_user and free, then DISCONNECT_SEC to the client.
LeaveDone(c) ==
  /\ Step(c, "leave") /\ thread[c].visit = {}
  /\ server_user_map' = IF thread[c].u = NULL THEN server_user_map
                                              ELSE remove_user(thread[c].u, server_user_map)
  /\ Write(c)
  /\ Goto(c, "bye")
  /\ UNCHANGED <<accounts, rooms, peers>>

\* The last lines of a thread: u and buffer.sender stay on its stack.
Exit(c, label) ==
  /\ accounts' = IF thread[c].sender = NULL THEN accounts
                                            ELSE change_status(thread[c].sender, accounts)
  /\ thread' = [thread EXCEPT ![c] = [NotStarted EXCEPT !.pc = label, !.logins = thread[c].logins,
                                        !.u = thread[c].u, !.sender = thread[c].sender]]
  /\ connected' = [connected EXCEPT ![c] = FALSE]
  /\ keyring' = [keyring EXCEPT ![c] = NoKeys]

\* SSL_free, and the status is changed.
Bye(c) ==
  /\ Step(c, "bye")
  /\ Exit(c, "exited")
  /\ UNCHANGED <<server_user_map, rooms, status>>

\* SSL_read fails: the status is changed, and nothing is taken out of the tables.
ConnectionStopped(c) ==
  /\ Step(c, "read") /\ ~ connected[c]
  /\ Exit(c, "stopped")
  /\ UNCHANGED <<server_user_map, rooms, status>>

\* SIGINT ends the process.  It is started again on the same database.
Interrupted ==
  /\ Restarts /\ status = "running"
  /\ status' = "killed"
  /\ UNCHANGED <<tables, thread, peers>>

Restart ==
  /\ Restarts /\ status = "killed"
  /\ server_user_map' = create_user_map
  /\ rooms' = add_room(HomeRoom, NULL, init_rooms)
  /\ thread' = [c \in Client |-> NotStarted]
  /\ connected' = [c \in Client |-> FALSE]
  /\ keyring' = [c \in Client |-> NoKeys]
  /\ status' = "running"
  /\ UNCHANGED accounts

----------------------------------------------------------------------------
(***************************************************************************)
(* The steps that go through a pointer that is NULL or was freed.  From    *)
(* there on the program may do anything, and the model stops.              *)
(***************************************************************************)
BadPointerInHandler(c) ==
  LET request == thread[c].buffer
      known   == is_room_used(request.room, rooms)
      other   == UserNamed(request.name)
  IN
  /\ thread[c].pc = "handle"
  /\ CASE request.code = "JOIN_ROOM_SEC" ->
            known /\ ~ Usable(c)
       [] request.code = "QUIT_ROOM_SEC"   -> known /\ request.room # HomeRoom /\ ~ Usable(c)
       [] request.code = "DEL_ACCOUNT_SEC" -> ~ Usable(c)
       [] request.code = "DISCONNECT_SEC"  -> Freed(thread[c].u)
       [] request.code \in {"EJECT_FROM_ROOM_SEC", "REFUSE_JOIN_ROOM_SEC"} ->
            IsAdmin(c, request.room) /\ other = NULL
       [] OTHER -> FALSE

\* The home room has no admin to ask.
BadAdmin(r) == get_admin(r, rooms) = NULL \/ Freed(get_admin(r, rooms))

BadPointer(c) ==
  \/ BadPointerInHandler(c)
  \/ thread[c].pc \in {"create", "ask", "mp"} /\ ~ Usable(c)
  \/ thread[c].pc = "ask" /\ BadAdmin(thread[c].buffer.room)
  \/ thread[c].pc \in {"decide", "claimer"} /\ Freed(thread[c].claimer)
  \/ thread[c].pc = "claimer" /\ thread[c].claimer = NULL
  \/ \E t \in thread[c].todo : Freed(t)
  \/ FreedRoom \in thread[c].visit

Undefined(c) ==
  /\ status = "running" /\ BadPointer(c)
  /\ status' = "undefined"
  /\ UNCHANGED <<tables, thread, peers>>

----------------------------------------------------------------------------
\* What a thread does by itself once it has something to do.
Work(c) ==
  \/ ConnectSec(c) \/ CheckCertificate(c) \/ AddAccount(c) \/ Enter(c) \/ JoinEnter(c)
  \/ ConnectOk(c) \/ DelAccount(c)
  \/ CreateRoomSec(c) \/ CreateEnter(c) \/ JoinRoomSec(c) \/ AskAdmin(c)
  \/ DecisionRefused(c) \/ AdminDecides(c) \/ AcceptJoin(c) \/ Eject(c) \/ RefuseJoin(c)
  \/ MpSec(c) \/ MpKeys(c) \/ TellClaimer(c) \/ Notify(c) \/ NotifyDone(c)
  \/ QuitRoomSec(c) \/ DeleteRoomSec(c) \/ DeleteDone(c) \/ Answered(c)
  \/ Disconnect(c) \/ LeaveRoom(c) \/ LeaveDone(c) \/ Bye(c)
  \/ ConnectionStopped(c) \/ Undefined(c)

\* Nothing is left to run: the process is gone, or every client is.
Stopped ==
  /\ \/ status = "undefined"
     \/ status = "killed" /\ ~ Restarts
     \/ \A c \in Client : thread[c].pc \in {"exited", "stopped"}
  /\ UNCHANGED vars

Next ==
  \/ \E c \in Client : Accept(c) \/ PeerGone(c) \/ Receive(c) \/ Work(c)
  \/ Interrupted \/ Restart \/ Stopped

Spec == Init /\ [][Next]_vars

FairSpec == Spec /\ \A c \in Client : WF_vars(Work(c))

----------------------------------------------------------------------------
\* The values the state of the secure server ranges over, for SecureServer.
TypeOK ==
  /\ accounts \subseteq account
  /\ server_user_map \in user_map
  /\ rooms \in room_map
  /\ thread \in [Client -> Locals]
  /\ connected \in [Client -> BOOLEAN]
  /\ keyring \in [Client -> [Asked -> Key \cup {NoKey}]]
  /\ status \in {"running", "killed", "undefined"}

----------------------------------------------------------------------------
(***************************************************************************)
(* Safety.                                                                 *)
(***************************************************************************)

\* The thread of c has logged in, and still runs.
Live(c) == LoggedIn(c) /\ thread[c].pc \notin {"exited", "stopped"}

Members(r) == {c \in Client : Live(c) /\ \E x \in get_users(r, rooms) : Of(x) = c}

\* Keys of r are on their way, or being taken away.
Dealing(r) ==
  \E c \in Client : /\ thread[c].buffer.room = r
                    /\ \/ thread[c].pc \in {"create", "claimer", "deal", "delete"}
                       \/ KeysInReply(c) # {}

(***************************************************************************)
(* Whenever no handler is dealing keys of a room, its users hold keys, the *)
(* same ones, and nobody else holds any: each change of the room           *)
(* (secure_server.c:186,218,229,260,268) is followed by messages, sent one by  *)
(* one, that bring the clients there.                                      *)
(***************************************************************************)
KeysAgree ==
  status = "running" =>
    \A r \in Asked : ~ Dealing(r) =>
      /\ \A c \in Client : keyring[c][r] # NoKey <=> c \in Members(r) /\ connected[c]
      /\ \A c, d \in Members(r) : connected[c] /\ connected[d] => keyring[c][r] = keyring[d][r]

\* One connection asked for this login, and it asked for no other before or after.
AskedForOnce(l) ==
  \E c \in Client : /\ thread[c].logins <= 1
                    /\ \A d \in Client \ {c} : l \in LoginsOf[d] => thread[d].logins = 0

(***************************************************************************)
(* The status of an account says whether a thread is logged in to it       *)
(* (secure_server.c:401,446,465), although it is only ever toggled.        *)
(***************************************************************************)
\* TLC refutes it: see the disagreements in the README.
StatusSaysWhoIsIn ==
  status = "running" =>
    \A a \in accounts : a.on <=> \E c \in Client : Live(c) /\ thread[c].u.name = a.login

(***************************************************************************)
(* It does for the accounts whose login was asked for once, whatever the   *)
(* logins of the others do to theirs.                                      *)
(***************************************************************************)
StatusAgrees ==
  status = "running" =>
    \A a \in accounts : AskedForOnce(a.login) =>
      (a.on <=> \E c \in Client : Live(c) /\ thread[c].u.name = a.login)

(***************************************************************************)
(* "This certificate is already in use" (secure_server.c:436): no two      *)
(* accounts are made with one certificate.                                 *)
(***************************************************************************)
\* TLC refutes it: see the disagreements in the README.
CertificateOnce == \A a, b \in accounts : a.cert = b.cert => a = b

(***************************************************************************)
(* "you are already connected!" (secure_server.c:429): no two threads are  *)
(* logged in with one login.                                               *)
(***************************************************************************)
\* TLC refutes it: see the disagreements in the README.
OneThreadPerLogin ==
  \A c, d \in Client :
    Live(c) /\ Live(d) /\ thread[c].u.name = thread[d].u.name => c = d

(***************************************************************************)
(* No table points at a user that was freed (secure_server.c:374-394).     *)
(***************************************************************************)
\* TLC refutes it: see the disagreements in the README.
NoFreedUserInTables ==
  \A x \in Users(server_user_map) \cup UNION {Users(r.users) : r \in AllRooms(rooms)} : ~ Freed(x)

(***************************************************************************)
(* Whoever a request can name is connected: get_user, and "This user is    *)
(* not connected" when it finds nobody (secure_server.c:242-248,348,391,454).  *)
(***************************************************************************)
\* TLC refutes it: see the disagreements in the README.
EverybodyListedIsConnected ==
  status = "running" => \A x \in Users(server_user_map) : Live(Of(x))

(***************************************************************************)
(* He is, unless his connection logged in under another name since: a      *)
(* departing thread takes out whoever has the name it has then, which is   *)
(* also the user of an earlier login under that name, and nobody else.     *)
(***************************************************************************)
ListedAreConnected ==
  status = "running" =>
    \A x \in Users(server_user_map) :
      LoggedIn(Of(x)) /\ (thread[Of(x)].u.name = x.name => Live(Of(x)))

(***************************************************************************)
(* No handler goes through a pointer that is NULL or freed.                *)
(***************************************************************************)
\* TLC refutes it: see the disagreements in the README.
NeverUndefined == status # "undefined"

(***************************************************************************)
(* A user enters a private room when the client that is logged in as its   *)
(* admin accepts it or when it creates the room, and in no other way       *)
(* (secure_server.c:186,251).                                              *)
(***************************************************************************)
OnlyTheAdminAdmits ==
  [][\A r \in Asked : \A x \in get_users(r, rooms') \ get_users(r, rooms) :
       \E c \in Client :
         /\ thread[c].buffer.room = r
         /\ \/ thread[c].pc = "create" /\ ~ is_room_used(r, rooms) /\ x = thread[c].u
            \/ /\ thread[c].buffer.code = "ACCEPT_JOIN_ROOM_SEC"
               /\ LoggedIn(c) /\ thread[c].u = get_admin(r, rooms)]_vars

(***************************************************************************)
(* A room disappears only when its admin deletes, quits or leaves it       *)
(* (secure_server.c:336,380-383,560).                                      *)
(***************************************************************************)
\* TLC refutes it: see the disagreements in the README.
OnlyItsAdminRemovesARoom ==
  [][\A r \in RoomNames(rooms) : ~ is_room_used(r, rooms') /\ status' = status =>
       \E c \in Client : /\ thread[c].pc \in {"delete", "leave"}
                         /\ thread[c].u = get_admin(r, rooms)]_vars

(***************************************************************************)
(* An account is only deleted by the client whose certificate it was made  *)
(* with (secure_server.c:378,410,433-440).                                 *)
(***************************************************************************)
\* TLC refutes it: see the disagreements in the README.
OnlyItsOwnerDeletesIt ==
  [][\A a \in accounts : Registered(a.login, accounts') = {} =>
       \E c \in Client : /\ thread[c].pc = "handle" /\ thread'[c].pc # "handle"
                         /\ CertOf[c] = a.cert]_vars

(***************************************************************************)
(* A client that leaves before the plain server let it in (CONNECT_OK)     *)
(* leaves no account behind it under the login it signs its requests with  *)
(* (secure_server.c:377,421,440).                                          *)
(***************************************************************************)
OnlyConfirmedAccountsStay ==
  [][\A c \in Client :
       thread[c].pc = "bye" /\ thread'[c].pc = "exited" /\ thread[c].first_connection
         => Registered(thread[c].sender, accounts') = {}]_vars

(***************************************************************************)
(* A handler that has a request to handle gets to the end of it: every     *)
(* loop over a list of users or rooms ends, although others change them    *)
(* meanwhile (secure_server.c:229,267,382,567).                            *)
(***************************************************************************)
RequestsAreAnswered ==
  \A c \in Client :
    thread[c].pc = "handle" ~> thread[c].pc \in {"read", "exited"} \/ status # "running"
=============================================================================
