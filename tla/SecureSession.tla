---------------------------- MODULE SecureSession ----------------------------
(***************************************************************************)
(* A secure client between two servers.  It holds a connection to each;    *)
(* logging in, creating a room, admitting to it and leaving it happen on   *)
(* both, and what one server answers makes the client send commands to the *)
(* other (clientsec-cli.c, receive_message_sec of libclientsec.c).  Each   *)
(* of the four directions keeps its order; between them there is none.     *)
(*                                                                         *)
(* The secure server takes no lock: a handler that writes several messages *)
(* is one step for each here, and other handlers run and write in between. *)
(* What a handler looks up and changes before its first message is one     *)
(* step, as is the departure of a user with its rooms, which nobody is     *)
(* told of; SecureServer is about the steps inside.  A handler of the      *)
(* plain server is one step, and so is what a client does with a line or a *)
(* message: ChatServer and ClientCommand are about those.  Of the messages *)
(* that a client only prints, those stay that a user waits for.  A write   *)
(* to a client that left is lost.                                          *)
(***************************************************************************)
EXTENDS Integers, Sequences, FiniteSets

CONSTANTS
  Client,     \* the clients, each with an account name of its own
  Room,       \* the names of rooms
  NULL, Other,  \* nobody; and somebody else, on the plain server
  Settings    \* what a session may begin with, and bounds of what is typed in it

ASSUME ConstantsAssumption ==
  /\ IsFiniteSet(Client) /\ IsFiniteSet(Room)
  /\ Room \cap Client = {} /\ NULL \notin Room \cup Client /\ Other \notin Client \cup {NULL}
  /\ \A s \in Settings :
       /\ s.inside \subseteq Client    \* who has logged in when the session begins
       /\ s.taken \subseteq Client     \* whose login somebody else has on the plain server
       /\ s.refused \subseteq Client   \* who has no account, and the certificate of another one
       /\ s.inside \cap (s.taken \cup s.refused) = {}
       /\ s.foreign \subseteq Room     \* the rooms somebody else has open there
       /\ DOMAIN s.commands = Client   \* bound: what each client types
       /\ s.typed \in [Client -> Nat]  \* bound: how much, once it asked to log in
       /\ s.patient \in BOOLEAN        \* bound: users wait for what they are told; see MayType
       \* bound: a thread without a user crashes the secure server over other commands
       /\ \A c \in s.refused :
            s.commands[c] \subseteq {"CONNECT_SEC", "DISCONNECT_SEC", "SIGINT", "MESSAGE"}

VARIABLES
  setting,      \* the one of Settings that this session has
  plain,        \* the plain server
  secure,       \* the secure server
  client,       \* the clients
  toPlain, toSecure, fromPlain, fromSecure   \* of each client, what is on its way

channels == <<toPlain, toSecure, fromPlain, fromSecure>>
state == <<plain, secure, client, channels>>
vars == <<setting, state>>

Name == Room \cup Client     \* a room of a client is a room, or another user

\* What a client knows of a name: nothing, the name only, or also its keys.
Absent == -1
NoKey  == 0
Key    == Nat \ {NoKey}

Msg(code, name, from, k) == [code |-> code, name |-> name, from |-> from, k |-> k]

About(code, name) == Msg(code, name, NULL, NoKey)
Signal(code) == About(code, NULL)

Closed == [admin |-> NULL, members |-> {}]

Put(queues, readers, m) ==
  [c \in Client |-> IF c \in readers THEN Append(queues[c], m) ELSE queues[c]]

Running == {c \in Client : client[c].status = "running"}

\* The keys that somebody holds or a message carries.
Held == UNION {{client[c].keys[n] : n \in Name} : c \in Client}
Carried(q) == UNION {{q[c][i].k : i \in DOMAIN q[c]} : c \in Client}
KeysInUse == Held \cup {secure.dealing[c].k : c \in Client} \cup {secure.telling[c].k : c \in Client}
               \cup Carried(fromSecure) \cup Carried(fromPlain) \cup Carried(toPlain)

\* spc_rand: keys that nobody has.
FreshKey == CHOOSE k \in 1 .. Cardinality(KeysInUse) + 1 : k \notin KeysInUse

NothingSent == [c \in Client |-> <<>>]

NotDealing == About("NONE", NULL)

Init ==
  /\ setting \in Settings
  /\ plain = [users |-> setting.inside, ended |-> {},
              rooms |-> [r \in Room |-> IF r \in setting.foreign THEN [admin |-> Other, members |-> {}]
                                                         ELSE Closed]]
  /\ secure = [users |-> setting.inside, ended |-> {}, rooms |-> [r \in Room |-> Closed],
               accounts |-> setting.inside, first_connection |-> {},
               dealing |-> [c \in Client |-> NotDealing],
               telling |-> [c \in Client |-> NotDealing], todo |-> [c \in Client |-> {}], crossed |-> {}]
  /\ client = [c \in Client |-> [status |-> "running", refused |-> FALSE,
                                 login |-> c \in setting.inside, connected |-> c \in setting.inside,
                                 created |-> {}, asked |-> {}, typed |-> 0, garbled |-> FALSE,
                                 keys |-> [n \in Name |-> Absent]]]
  /\ toPlain = NothingSent /\ toSecure = NothingSent
  /\ fromPlain = NothingSent /\ fromSecure = NothingSent

----------------------------------------------------------------------------
(***************************************************************************)
(* The plain server.                                                       *)
(***************************************************************************)
PlainServes(c, codes) ==
  /\ toPlain[c] # <<>> /\ Head(toPlain[c]).code \in codes
  /\ toPlain' = [toPlain EXCEPT ![c] = Tail(@)]
  /\ UNCHANGED <<secure, client, toSecure, fromSecure>>

PlainTells(users, m) == fromPlain' = Put(fromPlain, users \cap Running, m)

PlainRoom(c) == plain.rooms[Head(toPlain[c]).name]

PlainRoomBecomes(c, room) ==
  /\ plain' = [plain EXCEPT !.rooms[Head(toPlain[c]).name] = room]
  /\ UNCHANGED fromPlain

PlainEnters(c, room) ==
  /\ plain' = [plain EXCEPT !.rooms[Head(toPlain[c]).name] = room]
  /\ PlainTells({c}, About("CREATE_ROOM", Head(toPlain[c]).name))

PlainIgnores == UNCHANGED <<plain, fromPlain>>

PlainConnect(c) ==
  /\ PlainServes(c, {"CONNECT"})
  /\ IF c \in plain.users \cup setting.taken
     THEN PlainTells({c}, Signal("CONNECT_KO")) /\ UNCHANGED plain
     ELSE PlainTells({c}, Signal("CONNECT")) /\ plain' = [plain EXCEPT !.users = @ \cup {c}]

\* A command of a client that has not logged in: nothing is answered.
PlainRejects(c) ==
  /\ c \notin plain.users
  /\ PlainServes(c, {"CREATE_ROOM", "JOIN_ROOM", "QUIT_ROOM", "DELETE_ROOM", "MESSAGE", "MP"})
  /\ PlainIgnores

PlainCreate(c) ==
  /\ c \in plain.users /\ PlainServes(c, {"CREATE_ROOM"})
  /\ IF PlainRoom(c).admin # NULL
     THEN PlainTells({c}, About("CREATE_ROOM_KO", Head(toPlain[c]).name)) /\ UNCHANGED plain
     ELSE PlainEnters(c, [admin |-> c, members |-> {c}])

PlainJoin(c) ==
  /\ c \in plain.users /\ PlainServes(c, {"JOIN_ROOM"})
  /\ IF PlainRoom(c).admin = NULL \/ c \in PlainRoom(c).members
     THEN PlainIgnores
     ELSE PlainEnters(c, [PlainRoom(c) EXCEPT !.members = @ \cup {c}])

\* The admin that quits a room deletes it.
PlainQuit(c) ==
  /\ c \in plain.users /\ PlainServes(c, {"QUIT_ROOM", "DELETE_ROOM"})
  /\ \/ /\ PlainRoom(c).admin = c
        /\ Head(toPlain[c]).code = "DELETE_ROOM" \/ c \in PlainRoom(c).members
        /\ PlainRoomBecomes(c, Closed)
     \/ /\ PlainRoom(c).admin # c /\ Head(toPlain[c]).code = "QUIT_ROOM"
        /\ PlainRoomBecomes(c, [PlainRoom(c) EXCEPT !.members = @ \ {c}])
     \/ /\ PlainRoom(c).admin # c /\ Head(toPlain[c]).code = "DELETE_ROOM"
        /\ PlainIgnores

PlainMessage(c) ==
  /\ c \in plain.users /\ PlainServes(c, {"MESSAGE"})
  /\ PlainTells(IF c \in PlainRoom(c).members THEN PlainRoom(c).members ELSE {}, Head(toPlain[c]))
  /\ UNCHANGED plain

\* To the receiver, and back to the sender.
PlainMp(c) ==
  LET receiver == Head(toPlain[c]).name IN
  /\ c \in plain.users /\ PlainServes(c, {"MP"})
  /\ PlainTells(IF receiver \in plain.users THEN {receiver, c} ELSE {}, Head(toPlain[c]))
  /\ UNCHANGED plain

\* DISCONNECT, or the end of the connection.
PlainLeave(c) ==
  LET without(room) == IF c \notin room.members THEN room
                       ELSE IF room.admin = c THEN Closed
                       ELSE [room EXCEPT !.members = @ \ {c}]
  IN
  /\ toPlain[c] # <<>> /\ Head(toPlain[c]).code \in {"DISCONNECT", "EOF"}
  /\ plain' = [users |-> plain.users \ {c}, ended |-> plain.ended \cup {c},
               rooms |-> [r \in Room |-> without(plain.rooms[r])]]
  /\ toPlain' = [toPlain EXCEPT ![c] = <<>>]
  /\ PlainTells(IF Head(toPlain[c]).code = "DISCONNECT" THEN {c} ELSE {}, Signal("DISCONNECT"))
  /\ UNCHANGED <<secure, client, toSecure, fromSecure>>

PlainServer(c) ==
  \/ PlainConnect(c) \/ PlainRejects(c) \/ PlainCreate(c) \/ PlainJoin(c) \/ PlainQuit(c)
  \/ PlainMessage(c) \/ PlainMp(c) \/ PlainLeave(c)

----------------------------------------------------------------------------
(***************************************************************************)
(* The secure server.                                                      *)
(***************************************************************************)
\* What the handler of a client has still to write: the keys of a conversation (dealing),
\* or what it says about a room (telling), to all of todo.
Serving(c) == secure.dealing[c] = NotDealing /\ secure.telling[c] = NotDealing

SecureServes(c, code) ==
  /\ Serving(c)
  /\ toSecure[c] # <<>> /\ Head(toSecure[c]).code = code
  /\ toSecure' = [toSecure EXCEPT ![c] = Tail(@)]
  /\ UNCHANGED <<plain, client, toPlain, fromPlain>>

SecureTells(users, m) == fromSecure' = Put(fromSecure, users \cap Running, m)

SecureIgnores == UNCHANGED <<secure, fromSecure>>

Asked(c) == Head(toSecure[c]).name
SecureRoom(c) == secure.rooms[Asked(c)]

\* An account is made for a login that has none, until CONNECT_OK provisionally,
\* unless there is one for its certificate.
SecConnect(c) ==
  /\ SecureServes(c, "CONNECT_SEC")
  /\ IF c \in setting.refused
     THEN SecureTells({c}, Signal("CONNECT_SEC_KO")) /\ UNCHANGED secure
     ELSE /\ secure' = [secure EXCEPT !.users = @ \cup {c}, !.accounts = @ \cup {c},
               !.first_connection = IF c \in secure.accounts THEN @ ELSE @ \cup {c}]
          /\ SecureTells({c}, Signal("CONNECT_SEC"))

SecConfirm(c) ==
  /\ SecureServes(c, "CONNECT_OK")
  /\ secure' = [secure EXCEPT !.first_connection = @ \ {c}]
  /\ SecureTells({c}, Signal("CONNECT_SEC_OK"))

\* History: the users that quit a room, or enter it again, while a handler is about to
\* write to them about it.
Crossing(x, r) ==
  secure.crossed \cup
    {y \in {x} \cap Client :
       \E d \in Client : secure.telling[d].name = r /\ (secure.telling[d].from = y \/ y \in secure.todo[d])}

\* The room changes, and x is to be told first: telling has the code of the command.
SecBegins(c, room, x, k) ==
  /\ secure' = [secure EXCEPT !.rooms[Asked(c)] = room, !.crossed = Crossing(x, Asked(c)),
       !.telling[c] = Msg(Head(toSecure[c]).code, Asked(c), x, k)]
  /\ UNCHANGED fromSecure

SecTells(c, codes) ==
  /\ secure.telling[c].code \in codes
  /\ UNCHANGED <<plain, client, toPlain, toSecure, fromPlain>>

SecCreate(c) ==
  /\ SecureServes(c, "CREATE_ROOM_SEC")
  /\ IF SecureRoom(c).admin # NULL
     THEN SecureTells({c}, About("CREATE_ROOM_KO", Asked(c))) /\ UNCHANGED secure
     ELSE SecBegins(c, [admin |-> c, members |-> {c}], c, FreshKey)

SecAccept(c) ==
  LET claimer == Head(toSecure[c]).from IN
  /\ SecureServes(c, "ACCEPT_JOIN_ROOM_SEC")
  /\ IF SecureRoom(c).admin = c /\ claimer \in secure.users
     THEN SecBegins(c, [SecureRoom(c) EXCEPT !.members = @ \cup {claimer}], claimer, FreshKey)
     ELSE SecureIgnores

SecEject(c) ==
  LET claimer == Head(toSecure[c]).from IN
  /\ SecureServes(c, "EJECT_FROM_ROOM_SEC")
  /\ IF SecureRoom(c).admin = c
     THEN SecBegins(c, [SecureRoom(c) EXCEPT !.members = @ \ {claimer}], claimer, FreshKey)
     ELSE SecureIgnores

\* CREATE_ROOM_SEC with the keys to the one that enters, QUIT_ROOM_SEC to the one that
\* goes.  After a decision the users that the room has by then are told the keys.
SecTellFirst(c) ==
  LET it == secure.telling[c]
      keys(code) == Msg(code, it.name, NULL, it.k)
      Becomes(m, users) == secure' = [secure EXCEPT !.telling[c] = m, !.todo[c] = users]
  IN
  /\ SecTells(c, {"CREATE_ROOM_SEC", "ACCEPT_JOIN_ROOM_SEC", "EJECT_FROM_ROOM_SEC", "QUIT_ROOM_SEC"})
  /\ SecureTells({it.from}, IF it.code \in {"EJECT_FROM_ROOM_SEC", "QUIT_ROOM_SEC"}
                           THEN About("QUIT_ROOM_SEC", it.name) ELSE keys("CREATE_ROOM_SEC"))
  /\ CASE it.code = "ACCEPT_JOIN_ROOM_SEC" -> Becomes(keys("JOIN_ROOM_SEC"), secure.rooms[it.name].members)
       [] it.code = "EJECT_FROM_ROOM_SEC"  -> Becomes(keys("REFRESH_KEYIV"), secure.rooms[it.name].members)
       [] OTHER -> Becomes(NotDealing, {})

Notices == {"JOIN_ROOM_SEC", "REFRESH_KEYIV", "DELETE_ROOM_SEC"}

\* The same to each of them: the new keys, or that the room goes.  Nothing is done
\* after the last one, unless a room is to be removed.
SecTellNext(c) ==
  LET it == secure.telling[c] IN
  /\ SecTells(c, Notices)
  /\ \E d \in secure.todo[c] :
       /\ SecureTells({d}, IF it.code = "DELETE_ROOM_SEC" THEN About("QUIT_ROOM_SEC", it.name) ELSE it)
       /\ secure' = [secure EXCEPT !.todo[c] = @ \ {d},
            !.telling[c] = IF secure.todo[c] = {d} /\ it.code # "DELETE_ROOM_SEC" THEN NotDealing ELSE @]

\* Nobody is to be told, or no longer: a room that goes is removed now.
SecTold(c) ==
  LET it == secure.telling[c] IN
  /\ SecTells(c, Notices) /\ secure.todo[c] = {}
  /\ secure' = IF it.code = "DELETE_ROOM_SEC"
               THEN [secure EXCEPT !.telling[c] = NotDealing, !.rooms[it.name] = Closed]
               ELSE [secure EXCEPT !.telling[c] = NotDealing]
  /\ UNCHANGED fromSecure

\* delete_room: first the users are told.
SecRemove(c) ==
  /\ secure' = [secure EXCEPT !.telling[c] = About("DELETE_ROOM_SEC", Asked(c)),
                              !.todo[c] = SecureRoom(c).members]
  /\ UNCHANGED fromSecure

SecQuit(c) ==
  /\ SecureServes(c, "QUIT_ROOM_SEC")
  /\ \/ SecureRoom(c).admin = NULL /\ SecureIgnores
     \/ /\ SecureRoom(c).admin \notin {NULL, c}
        /\ SecBegins(c, [SecureRoom(c) EXCEPT !.members = @ \ {c}], c, NoKey)
     \/ /\ SecureRoom(c).admin = c
        /\ IF c \in SecureRoom(c).members THEN SecRemove(c) ELSE SecureIgnores

\* Only the admin is told, and decides.
SecJoin(c) ==
  /\ SecureServes(c, "JOIN_ROOM_SEC")
  /\ SecureTells(IF c \in SecureRoom(c).members THEN {} ELSE {SecureRoom(c).admin},
                 Msg("ASK_JOIN_ROOM_SEC", Asked(c), c, NoKey))
  /\ UNCHANGED secure

SecDelete(c) ==
  /\ SecureServes(c, "DELETE_ROOM_SEC")
  /\ IF SecureRoom(c).admin = c THEN SecRemove(c) ELSE SecureIgnores

\* Keys for a conversation of two: first to the one that asked.
SecMp(c) ==
  /\ SecureServes(c, "MP_SEC")
  /\ IF Asked(c) \in secure.users
     THEN /\ secure' = [secure EXCEPT !.dealing[c] = Msg("MP_SEC", Asked(c), NULL, FreshKey)]
          /\ SecureTells({c}, Msg("MP_SEC_OK", Asked(c), NULL, FreshKey))
     ELSE SecureIgnores

\* Mutant: keys are made for each of the two.
SecMpDealTwice(c) ==
  LET deal == secure.dealing[c] IN
  /\ deal # NotDealing
  /\ fromSecure' = Put(Put(fromSecure, {deal.name} \cap Running, Msg("MP_SEC_OK", c, NULL, FreshKey)),
                       {c} \cap Running, About("MP_SEC", deal.name))
  /\ secure' = [secure EXCEPT !.dealing[c] = NotDealing]
  /\ UNCHANGED <<plain, client, toPlain, toSecure, fromPlain>>

\* Then to the other one, and the text back to the one that asked.
SecMpDeal(c) ==
  LET deal == secure.dealing[c] IN
  /\ deal # NotDealing
  /\ fromSecure' = Put(Put(fromSecure, {deal.name} \cap Running, Msg("MP_SEC_OK", c, NULL, deal.k)),
                       {c} \cap Running, About("MP_SEC", deal.name))
  /\ secure' = [secure EXCEPT !.dealing[c] = NotDealing]
  /\ UNCHANGED <<plain, client, toPlain, toSecure, fromPlain>>

SecDelAccount(c) ==
  /\ SecureServes(c, "DEL_ACCOUNT_SEC")
  /\ secure' = [secure EXCEPT !.accounts = @ \ {c}]
  /\ SecureTells({c}, Signal("DEL_ACCOUNT_SEC"))

SecureEnds(c, code) ==
  /\ Serving(c)
  /\ toSecure[c] # <<>> /\ Head(toSecure[c]).code = code
  /\ toSecure' = [toSecure EXCEPT ![c] = <<>>]
  /\ UNCHANGED <<plain, client, toPlain, fromPlain>>

\* Mutant: the provisional account stays.
SecLeaveKeepingTheAccount(c) ==
  /\ SecureEnds(c, "DISCONNECT_SEC")
  /\ secure' = [secure EXCEPT !.users = @ \ {c}, !.ended = @ \cup {c},
       !.rooms = [r \in Room |-> IF c \in @[r].members THEN Closed ELSE @[r]]]
  /\ SecureTells({c}, Signal("DISCONNECT_SEC"))

\* The rooms of the user go, whether it is their admin or not: quit_room is given
\* the name inside the room, appends a bar to it, and nobody finds the room again.
SecLeave(c) ==
  /\ SecureEnds(c, "DISCONNECT_SEC")
  /\ secure' = [secure EXCEPT !.users = @ \ {c}, !.ended = @ \cup {c},
       !.accounts = IF c \in secure.first_connection THEN @ \ {c} ELSE @,
       !.rooms = [r \in Room |-> IF c \in @[r].members THEN Closed ELSE @[r]]]
  /\ SecureTells({c}, Signal("DISCONNECT_SEC"))

\* The end of the connection: the user stays in the tables.
SecStopped(c) ==
  /\ SecureEnds(c, "EOF")
  /\ secure' = [secure EXCEPT !.ended = @ \cup {c}]
  /\ UNCHANGED fromSecure

SecureServer(c) ==
  \/ SecConnect(c) \/ SecConfirm(c) \/ SecCreate(c) \/ SecJoin(c) \/ SecAccept(c) \/ SecEject(c) \/ SecQuit(c)
  \/ SecTellFirst(c) \/ SecTellNext(c) \/ SecTold(c)
  \/ SecDelete(c) \/ SecMp(c) \/ SecMpDeal(c) \/ SecDelAccount(c) \/ SecLeave(c) \/ SecStopped(c)

----------------------------------------------------------------------------
(***************************************************************************)
(* What a client sends.  A connection that its server ended takes nothing. *)
(***************************************************************************)
SendPlain(c, m)  == toPlain' = Put(toPlain, {c} \ plain.ended, m)
SendSecure(c, m) == toSecure' = Put(toSecure, {c} \ secure.ended, m)
SendNothing      == UNCHANGED <<toPlain, toSecure>>

SendBoth(c, m, s) == SendPlain(c, m) /\ SendSecure(c, s)

\* The process ends: what it sent is still delivered, what it was sent is not.
Bye(q, writers, last) ==
  [d \in Client |-> IF d \in writers THEN q[d] \o last \o <<Signal("EOF")>> ELSE q[d]]

ClientEnds(c, status, ps, ss) ==
  /\ client' = [client EXCEPT ![c].status = status, ![c].connected = FALSE,
                              ![c].created = {}, ![c].asked = {},
                              ![c].keys = [n \in Name |-> Absent]]
  /\ toPlain' = Bye(toPlain, {c} \ plain.ended, ps)
  /\ toSecure' = Bye(toSecure, {c} \ secure.ended, ss)
  /\ fromPlain' = [fromPlain EXCEPT ![c] = <<>>]
  /\ fromSecure' = [fromSecure EXCEPT ![c] = <<>>]
  /\ UNCHANGED <<plain, secure>>

\* A command typed once CONNECT_SEC was; ClientCommand is about the others.  A
\* patient user waits for "You are now connected", decides about a room and leaves it
\* only once "The room has been created" for him, and accepts those that ask.
MayType(c, code) ==
  /\ c \in Running /\ code \in setting.commands[c]
  /\ client[c].login /\ (setting.patient => client[c].connected)
  /\ client[c].typed < setting.typed[c]

Typed(c) == [client EXCEPT ![c].typed = @ + 1]

OnlySent == UNCHANGED <<plain, secure, fromPlain, fromSecure>>

\* Bound: a user logs in once, though neither end tests it; see SecureServer.
TypeConnect(c) ==
  /\ c \in Running /\ ~ client[c].login /\ "CONNECT_SEC" \in setting.commands[c]
  /\ client' = [client EXCEPT ![c].login = TRUE]
  /\ SendSecure(c, Signal("CONNECT_SEC"))
  /\ UNCHANGED toPlain /\ OnlySent

\* "This room already exists", or it is asked for on both servers.
TypeCreate(c, r) ==
  /\ MayType(c, "CREATE_ROOM_SEC") /\ client[c].keys[r] = Absent
  /\ client' = [Typed(c) EXCEPT ![c].keys[r] = NoKey]
  /\ SendBoth(c, About("CREATE_ROOM", r), About("CREATE_ROOM_SEC", r))
  /\ OnlySent

\* QUIT_ROOM_SEC and DELETE_ROOM_SEC; the client forgets the room when it is told.
TypeLeave(c, r) ==
  /\ setting.patient => r \in client[c].created
  /\ \/ /\ MayType(c, "QUIT_ROOM_SEC")
        /\ SendBoth(c, About("QUIT_ROOM", r), About("QUIT_ROOM_SEC", r))
     \/ /\ MayType(c, "DELETE_ROOM_SEC")
        /\ SendBoth(c, About("DELETE_ROOM", r), About("DELETE_ROOM_SEC", r))
  /\ client' = Typed(c)
  /\ OnlySent

TypeJoin(c, r) ==
  /\ MayType(c, "JOIN_ROOM_SEC")
  /\ SendSecure(c, About("JOIN_ROOM_SEC", r))
  /\ client' = Typed(c)
  /\ UNCHANGED toPlain /\ OnlySent

\* Bound: a user decides about others, and ejects one that is connected.
TypeDecision(c, r, d) ==
  /\ d # c /\ (setting.patient => r \in client[c].created)
  /\ \/ /\ MayType(c, "ACCEPT_JOIN_ROOM_SEC")
        /\ setting.patient => <<r, d>> \in client[c].asked
        /\ SendSecure(c, Msg("ACCEPT_JOIN_ROOM_SEC", r, d, NoKey))
     \/ /\ MayType(c, "EJECT_FROM_ROOM_SEC") /\ d \in secure.users
        /\ SendSecure(c, Msg("EJECT_FROM_ROOM_SEC", r, d, NoKey))
  /\ client' = [Typed(c) EXCEPT ![c].asked = @ \ {<<r, d>>}]
  /\ UNCHANGED toPlain /\ OnlySent

\* MESSAGE goes in clear to a room the client does not know, enciphered to one
\* whose keys it has; while they have not come, aes_encrypt is given NULL for them.
TypeMessage(c, r) ==
  /\ MayType(c, "MESSAGE")
  /\ IF client[c].keys[r] = NoKey
     THEN ClientEnds(c, "crashed", <<>>, <<>>)
     ELSE /\ client' = Typed(c)
          /\ SendPlain(c, Msg("MESSAGE", r, c, IF client[c].keys[r] = Absent THEN NoKey
                                               ELSE client[c].keys[r]))
          /\ UNCHANGED toSecure /\ OnlySent

\* MP_SEC asks for keys first, unless there are some.
TypeMp(c, d) ==
  /\ MayType(c, "MP_SEC") /\ d # c
  /\ client' = Typed(c)
  /\ IF client[c].keys[d] = Absent
     THEN SendSecure(c, About("MP_SEC", d)) /\ UNCHANGED toPlain
     ELSE SendPlain(c, Msg("MP", d, c, client[c].keys[d])) /\ UNCHANGED toSecure
  /\ OnlySent

TypeBye(c) ==
  /\ \/ /\ MayType(c, "DISCONNECT_SEC")
        /\ SendBoth(c, Signal("DISCONNECT"), Signal("DISCONNECT_SEC"))
     \/ /\ MayType(c, "DEL_ACCOUNT_SEC")
        /\ toSecure' = Put(Put(toSecure, {c} \ secure.ended, Signal("DEL_ACCOUNT_SEC")),
                           {c} \ secure.ended, Signal("DISCONNECT_SEC"))
        /\ UNCHANGED toPlain
  /\ client' = Typed(c)
  /\ OnlySent

\* Control-C: DISCONNECT_SEC to the secure server, and exit.
Interrupt(c) ==
  /\ MayType(c, "SIGINT")
  /\ ClientEnds(c, "exited", <<>>, <<Signal("DISCONNECT_SEC")>>)

Keyboard(c) ==
  \/ TypeConnect(c) \/ TypeBye(c) \/ Interrupt(c)
  \/ \E r \in Room : TypeCreate(c, r) \/ TypeLeave(c, r) \/ TypeJoin(c, r) \/ TypeMessage(c, r)
  \/ \E r \in Room, d \in Client : TypeDecision(c, r, d)
  \/ \E d \in Client : TypeMp(c, d)

----------------------------------------------------------------------------
(***************************************************************************)
(* What a client makes of a message of the secure server.                  *)
(***************************************************************************)
HeardSecure(c, codes) ==
  c \in Running /\ fromSecure[c] # <<>> /\ Head(fromSecure[c]).code \in codes

FromSecure(c, codes) ==
  /\ HeardSecure(c, codes)
  /\ fromSecure' = [fromSecure EXCEPT ![c] = Tail(@)]
  /\ UNCHANGED <<plain, secure, fromPlain>>

WithKeys(c, n, k) == [client EXCEPT ![c].keys[n] = k]

HearConnectSec(c) ==
  /\ FromSecure(c, {"CONNECT_SEC"})
  /\ SendPlain(c, Signal("CONNECT"))
  /\ UNCHANGED <<client, toSecure>>

\* It is printed, and the client goes on, with no user on either server.
HearConnectSecKo(c) ==
  /\ FromSecure(c, {"CONNECT_SEC_KO"})
  /\ client' = [client EXCEPT ![c].refused = TRUE]
  /\ SendNothing

HearConnected(c) ==
  /\ FromSecure(c, {"CONNECT_SEC_OK"})
  /\ client' = [client EXCEPT ![c].connected = TRUE]
  /\ SendNothing

HearAsk(c) ==
  LET m == Head(fromSecure[c]) IN
  /\ FromSecure(c, {"ASK_JOIN_ROOM_SEC"})
  /\ client' = [client EXCEPT ![c].asked = @ \cup {<<m.name, m.from>>}]
  /\ SendNothing

\* Mutant: set_keys_in_room is given the pointer before it is set.
HearKeysUnset(c) ==
  /\ FromSecure(c, {"CREATE_ROOM_SEC", "REFRESH_KEYIV", "MP_SEC_OK"})
  /\ client' = WithKeys(c, Head(fromSecure[c]).name, NULL)
  /\ SendNothing

HearKeys(c) ==
  /\ FromSecure(c, {"CREATE_ROOM_SEC", "REFRESH_KEYIV", "MP_SEC_OK"})
  /\ client' = WithKeys(c, Head(fromSecure[c]).name, Head(fromSecure[c]).k)
  /\ SendNothing

HearJoin(c) ==
  /\ FromSecure(c, {"JOIN_ROOM_SEC"})
  /\ client' = WithKeys(c, Head(fromSecure[c]).name, Head(fromSecure[c]).k)
  /\ SendPlain(c, About("JOIN_ROOM", Head(fromSecure[c]).name))
  /\ UNCHANGED toSecure

\* Mutant: the room of the plain server is not left.
HearQuitSecureOnly(c) ==
  /\ FromSecure(c, {"QUIT_ROOM_SEC"})
  /\ client' = WithKeys(c, Head(fromSecure[c]).name, Absent)
  /\ SendNothing

HearQuit(c) ==
  LET r == Head(fromSecure[c]).name IN
  /\ FromSecure(c, {"QUIT_ROOM_SEC"})
  /\ client' = [client EXCEPT ![c].keys[r] = Absent, ![c].created = @ \ {r}]
  /\ SendPlain(c, About("QUIT_ROOM", r))
  /\ UNCHANGED toSecure

\* The keys have come: the text goes to the other one through the plain server.
HearMp(c) ==
  LET d == Head(fromSecure[c]).name IN
  /\ FromSecure(c, {"MP_SEC"})
  /\ SendPlain(c, Msg("MP", d, c, client[c].keys[d]))
  /\ UNCHANGED <<client, toSecure>>

\* The client undoes CREATE_ROOM_SEC on CREATE_ROOM_SEC_KO: nobody sends that one.
HearCreateKo(c) ==
  /\ FromSecure(c, {"CREATE_ROOM_KO"})
  /\ UNCHANGED client /\ SendNothing

HearEnd(c) ==
  \/ /\ HeardSecure(c, {"DISCONNECT_SEC"})
     /\ ClientEnds(c, "exited", <<>>, <<>>)
  \/ /\ HeardSecure(c, {"DEL_ACCOUNT_SEC"})
     /\ ClientEnds(c, "exited", <<Signal("DISCONNECT")>>, <<Signal("DISCONNECT_SEC")>>)

ReceiveSecure(c) ==
  \/ HearConnectSec(c) \/ HearConnectSecKo(c) \/ HearConnected(c) \/ HearAsk(c) \/ HearKeys(c) \/ HearJoin(c) \/ HearQuit(c)
  \/ HearMp(c) \/ HearCreateKo(c) \/ HearEnd(c)

----------------------------------------------------------------------------
(***************************************************************************)
(* What a client makes of a message of the plain server.                   *)
(***************************************************************************)
HeardPlain(c, codes) ==
  c \in Running /\ fromPlain[c] # <<>> /\ Head(fromPlain[c]).code \in codes

FromPlain(c, codes) ==
  /\ HeardPlain(c, codes)
  /\ fromPlain' = [fromPlain EXCEPT ![c] = Tail(@)]
  /\ UNCHANGED <<plain, secure, fromSecure>>

HearConnect(c) ==
  /\ FromPlain(c, {"CONNECT"})
  /\ SendSecure(c, Signal("CONNECT_OK"))
  /\ UNCHANGED <<client, toPlain>>

\* Mutant: the refusal is printed, and the secure server not told.
HearConnectKoPrinted(c) ==
  /\ FromPlain(c, {"CONNECT_KO"})
  /\ UNCHANGED client /\ SendNothing

HearConnectKo(c) ==
  /\ FromPlain(c, {"CONNECT_KO"})
  /\ SendSecure(c, Signal("DISCONNECT_SEC"))
  /\ UNCHANGED <<client, toPlain>>

HearCreated(c) ==
  /\ FromPlain(c, {"CREATE_ROOM"})
  /\ client' = [client EXCEPT ![c].created = @ \cup {Head(fromPlain[c]).name}]
  /\ SendNothing

\* Mutant: the refusal is printed, and the secure room stays.
HearPlainCreateKoPrinted(c) ==
  /\ FromPlain(c, {"CREATE_ROOM_KO"})
  /\ UNCHANGED client /\ SendNothing

\* A room the client believes secure could not be made here: it is undone.
HearPlainCreateKo(c) ==
  LET r == Head(fromPlain[c]).name IN
  /\ FromPlain(c, {"CREATE_ROOM_KO"})
  /\ IF client[c].keys[r] = Absent
     THEN SendNothing
     ELSE SendBoth(c, About("DELETE_ROOM", r), About("DELETE_ROOM_SEC", r))
  /\ UNCHANGED client

(***************************************************************************)
(* A text is shown as it came where no keys are known, and deciphered      *)
(* otherwise; aes_decrypt makes "MESSAGE CORROMPU" of anything else than   *)
(* what these keys enciphered.  A private text is about the other one, or  *)
(* about the receiver when the client reads its own.                       *)
(***************************************************************************)
HearText(c) ==
  LET m     == Head(fromPlain[c])
      about == IF m.code = "MP" /\ client[c].keys[m.name] <= NoKey THEN m.from ELSE m.name
      held  == IF client[c].keys[about] = Absent THEN NoKey ELSE client[c].keys[about]
  IN
  /\ FromPlain(c, {"MESSAGE", "MP"})
  /\ client' = [client EXCEPT ![c].garbled = @ \/ held # m.k]
  /\ SendNothing

HearDisconnect(c) ==
  /\ HeardPlain(c, {"DISCONNECT"})
  /\ ClientEnds(c, "exited", <<Signal("DISCONNECT")>>, <<>>)

ReceivePlain(c) ==
  \/ HearConnect(c) \/ HearConnectKo(c) \/ HearCreated(c) \/ HearPlainCreateKo(c) \/ HearText(c) \/ HearDisconnect(c)

----------------------------------------------------------------------------
Quiet ==
  \A c \in Client : /\ Serving(c)
                    /\ \A q \in {toPlain, toSecure, fromPlain, fromSecure} : q[c] = <<>>

\* Nothing is on its way, and users need not type.
Stopped == Quiet /\ UNCHANGED state

Next ==
  /\ \/ \E c \in Client : \/ Keyboard(c) \/ PlainServer(c) \/ SecureServer(c)
                          \/ ReceiveSecure(c) \/ ReceivePlain(c)
     \/ Stopped
  /\ UNCHANGED setting

Spec == Init /\ [][Next]_vars

\* The threads run; nobody is made to type.
FairSpec ==
  /\ Spec
  /\ \A c \in Client : /\ WF_state(PlainServer(c)) /\ WF_state(SecureServer(c))
                       /\ WF_state(ReceiveSecure(c)) /\ WF_state(ReceivePlain(c))

----------------------------------------------------------------------------
RoomState == [admin : Client \cup {NULL, Other}, members : SUBSET Client]

Code ==
  {"CONNECT", "CONNECT_KO", "CREATE_ROOM", "CREATE_ROOM_KO", "JOIN_ROOM", "QUIT_ROOM", "DELETE_ROOM",
   "MESSAGE", "MP", "DISCONNECT", "CONNECT_SEC", "CONNECT_SEC_KO", "CONNECT_OK", "CONNECT_SEC_OK", "CREATE_ROOM_SEC",
   "JOIN_ROOM_SEC", "ASK_JOIN_ROOM_SEC", "ACCEPT_JOIN_ROOM_SEC", "EJECT_FROM_ROOM_SEC",
   "QUIT_ROOM_SEC", "DELETE_ROOM_SEC", "REFRESH_KEYIV", "MP_SEC", "MP_SEC_OK", "DEL_ACCOUNT_SEC",
   "DISCONNECT_SEC", "EOF", "NONE"}

Message ==
  [code : Code, name : Name \cup {NULL}, from : Client \cup {NULL}, k : Key \cup {NoKey}]

\* The values the state of the two servers and their clients ranges over.
TypeOK ==
  /\ plain \in [users : SUBSET Client, ended : SUBSET Client, rooms : [Room -> RoomState]]
  /\ secure \in [users : SUBSET Client, ended : SUBSET Client, rooms : [Room -> RoomState],
                 accounts : SUBSET Client, first_connection : SUBSET Client,
                 dealing : [Client -> Message], telling : [Client -> Message], todo : [Client -> SUBSET Client],
                 crossed : SUBSET Client]
  /\ \A c \in Client :
       /\ client[c].status \in {"running", "exited", "crashed"}
       /\ {client[c].login, client[c].connected, client[c].refused, client[c].garbled} \subseteq BOOLEAN
       /\ client[c].created \subseteq Room /\ client[c].asked \subseteq Room \X Client
       /\ client[c].typed \in 0 .. setting.typed[c]
       /\ client[c].keys \in [Name -> Key \cup {NoKey, Absent}]
       /\ \A q \in {toPlain, toSecure, fromPlain, fromSecure} : q[c] \in Seq(Message)

\* One user makes rooms, and nobody leaves the servers.  Two that make one room may
\* each be refused it by the other server, and neither is told to undo what it has; an
\* impatient user may make one on the secure server only; and who leaves there takes
\* the rooms it is in along.
Orderly ==
  /\ Cardinality({c \in Client : "CREATE_ROOM_SEC" \in setting.commands[c]}) <= 1
  /\ setting.patient /\ setting.taken = {}
  /\ \A c \in Client :
       setting.commands[c] \cap {"DISCONNECT_SEC", "DEL_ACCOUNT_SEC", "SIGINT", "MESSAGE"} = {}

(***************************************************************************)
(* When nothing is on its way, a secure room has the same users on both    *)
(* servers, and they and nobody else hold its keys, the same ones: every   *)
(* change of a room is made on one server by the user and carried to the   *)
(* other by clients (clientsec-cli.c:148-173,324-330), in any order.  It   *)
(* is so in an orderly session, but for users that quit a room while a     *)
(* handler was about to write to them.                                     *)
(***************************************************************************)
RoomsAgree ==
  Quiet /\ Orderly => \A r \in Room :
    LET room == secure.rooms[r] IN
    /\ plain.rooms[r].members \ secure.crossed = room.members \ secure.crossed
    /\ room.admin # NULL => plain.rooms[r].admin = room.admin
    /\ \A c \in Client \ secure.crossed : client[c].keys[r] # Absent <=> c \in room.members
    /\ \A c, d \in room.members \ secure.crossed :
         client[c].keys[r] \in Key /\ client[c].keys[r] = client[d].keys[r]

(***************************************************************************)
(* It is so for every user.                                                *)
(***************************************************************************)
\* TLC refutes it: see the disagreements in the README.
QuittersAgree ==
  Quiet /\ Orderly => \A r \in Room : plain.rooms[r].members = secure.rooms[r].members

Crashed == {c \in Client : client[c].status = "crashed"}

\* Clients that neither leave by themselves nor are turned away.
Stays(c) ==
  c \notin setting.taken \cup setting.refused /\ setting.commands[c] \cap {"DISCONNECT_SEC", "DEL_ACCOUNT_SEC"} = {}

(***************************************************************************)
(* When nothing is on its way, whoever has logged in and still runs is in  *)
(* on both servers, with an account, and nobody else is, but that a client *)
(* that crashed before it left stays in on the secure one; a login that    *)
(* the plain server refused has an account only when its client crashed    *)
(* (clientsec-cli.c:112,284,313); and a client that the secure server      *)
(* refused is in nowhere (secure_server.c:434-438).                        *)
(***************************************************************************)
LoginAgrees ==
  Quiet =>
    /\ plain.users = {c \in Running : client[c].login} \ setting.refused
    /\ secure.accounts \cap setting.refused = {}
    /\ plain.users \cup {c \in Crashed : Stays(c)} \subseteq secure.users
    /\ secure.users \subseteq plain.users \cup Crashed
    /\ secure.users \subseteq secure.accounts
    /\ secure.accounts \cap setting.taken \subseteq Crashed

\* One user asks for keys of conversations.  Of two that ask for keys with each other
\* at a time, each may keep those of the other's request.
OneCalls ==
  \A c, d \in Client : "MP_SEC" \in setting.commands[c] \cap setting.commands[d] => c = d

(***************************************************************************)
(* When nothing is on its way, two users that hold keys for each other     *)
(* hold the same (secure_server.c:350-367).  Only one user asks for them.  *)
(***************************************************************************)
PairedKeys ==
  Quiet /\ OneCalls => \A c, d \in Running : client[c].keys[d] = client[d].keys[c]

(***************************************************************************)
(* A text is read with the keys it was enciphered with.                    *)
(***************************************************************************)
\* TLC refutes it: see the disagreements in the README.
TextsAreRead == \A c \in Client : ~ client[c].garbled

(***************************************************************************)
(* "/MESSAGE room message - send the message <message> to the room <room>" *)
(* (libclientsec.c:656) does not end the client.                           *)
(***************************************************************************)
\* TLC refutes it: see the disagreements in the README.
ClientsSurvive == \A c \in Client : client[c].status # "crashed"

(***************************************************************************)
(* A login comes to an end: the client is in on both servers and is told,  *)
(* or it is told that it is refused, when its certificate is another's, or *)
(* it stops (clientsec-cli.c:112-118,125,220-224,284-287,313-317).         *)
(***************************************************************************)
LoginSettles ==
  \A c \in Client :
    client[c].login
      ~> (c \in Running =>
            \/ client[c].connected /\ c \in plain.users \cap secure.users
            \/ client[c].refused /\ c \in setting.refused)

(***************************************************************************)
(* A client that is out of a secure room leaves the room of the plain      *)
(* server too, unless it is let in again (clientsec-cli.c:148-153).  It is *)
(* so in an orderly session, but for users that quit a room while a        *)
(* handler was about to write to them.                                     *)
(***************************************************************************)
PlainFollows ==
  Orderly => \A c \in Client, r \in Room :
    c \in plain.rooms[r].members /\ c \notin secure.rooms[r].members
      ~> (c \in plain.rooms[r].members => c \in secure.rooms[r].members \cup secure.crossed)
=============================================================================
