# Bavardage in TLA+

Bavardage is a chat system in C and Vala: a plain server with one thread per
connection, a second server whose rooms are private and encrypted, the
libraries clients use to talk to each of them, two command-line clients and a
GTK client. This directory holds TLA+ models of it, the TLC configurations that
check them and proofs that TLAPS checks. Paths below are relative to `src/` of
the repository; `server.c` alone means `server/server.c`, `secure_server.c`
means `serversec/secure_server.c`.

Contents: [inventory](#inventory) ·
[what is modelled](#modules-and-how-they-follow-the-code) ·
[abstractions](#what-the-models-abstract-and-assume) ·
[runs](#what-each-run-checks) · [proofs](#proofs) ·
[disagreements found](#disagreements-found) · [plan](#plan) ·
[not modelled](#not-modelled).

## Inventory

| component | state | operations | what makes it correct | modules |
|---|---|---|---|---|
| **user manager** `common/user_manager.c` | a hash table of 1997 buckets, each a chain of pointers to `struct USER`; one for the server, one per room | `create_user_map`, `add_user`, `remove_user`, `is_login_used`, `get_user`, `hash_user` | a user sits in the bucket of its name, once; adding or removing one user changes no other | UserManager, NameHash |
| **room manager** `common/room_manager.c` | a global hash table of rooms: name, admin, user table | `init_rooms`, `add_room`, `remove_room`, `add_user_in_room`, `remove_user_from_room`, `is_user_in_room`, `get_users`, `get_user_rooms`, `get_admin`, `is_room_used`, `hash_room_name` | the same, for rooms; the hash is an index of the table | RoomManager, NameHash |
| **plain server** `server/server.c` | the two tables, a mutex, and per thread `u`, `buffer`, `response` | `handle_connexion`: CONNECT, CREATE_ROOM, JOIN_ROOM, QUIT_ROOM, DELETE_ROOM, MESSAGE, MP, DISCONNECT, and the end of a connection that stopped; `join_room`, `quit_room`, `delete_room` | no freed user in a table; a room has its admin, or is gone; one login, one client; the mutex is given back; a client that vanished is forgotten; one order of messages in a room | ChatServer, ChatService, RoomBroadcast |
| **secure server** `serversec/secure_server.c` | the same tables, `first_connection`, a mutex that handlers never lock | CREATE/JOIN/ACCEPT/REFUSE/EJECT/QUIT/DELETE of secure rooms, MP_SEC, CONNECT_SEC, CONNECT_OK, DEL_ACCOUNT_SEC, DISCONNECT_SEC, the end of a connection that stopped | only invited users get a room's keys, and all of them the same; one that left does not get the next; accounts follow the connections | SecureServer, SecureSession |
| **account database** `common_server/mysqlite.c` | a row per account: login, certificate, status; one global `stmt` | `add_user_db`, `delete_user`, `change_status`, `is_connected`, `check_user`, `check_certificate` | `status` says whether the account is connected; each query answers for its own arguments | Accounts, AccountStatements |
| **sockets** `common/SocketTCP.c` | a descriptor and two addresses | `acceptSocketTCP`, `readSocketTCP`, `writeSocketTCP`, `closeSocketTCP` | whole messages, in order; descriptors are given back | MessageStream, RoomBroadcast, Listener |
| **main threads** of both servers | the listening socket, the TLS context | `start_listening`, `new_thread`, `SSL_new`, `SSL_CTX_free` | whoever waits is accepted | Listener |
| **client libraries** `client/libclient.c`, `client/libclientsec.c` | one global message, `strtok`, one table of parameters, one socket and one SSL | `send_message`, `send_message_sec`, `receive_message`, `receive_message_sec`, ... | a command sent is the one that was asked; a message handled is one that was sent | ClientCommand, MessageStream, SecureSession |
| **room keys** `common/room_manager_sec.c` | a table from room to keys, in the client | `set_keys_in_room`, `get_keys_from_room`, with `add_room`, `remove_room` | the keys of the last deal | SecureSession |
| **secure command-line client** `client/clientsec-cli.c` | three threads: keyboard, plain messages, secure messages | read a line, send; receive, react on the other server, print | what one server did is done, or undone, on the other | SecureSession, ClientCommand |
| **GTK client, rooms** `client/Client.vala`, `client/Threads/ReceiveThread.vala` | for each room a line in the list, a contact list, a chat | one branch per code received | what is displayed is what the server has | ClientRoster |
| **crypto** `common/commonsec.c` | none | AES and SHA through OpenSSL | keys are fresh, and a text reads only with the keys it was enciphered with | assumed by SecureSession |
| **plain command-line client, GTK client's secure part, old client** | | the same reactions with less behind them | | not modelled, see below |

How they interact. Every connection is a detached thread of its server
(`new_thread`). The threads of a server share the two tables, and call the
managers on them. They write to one another's sockets: a handler announces what
it does to each user of a room, one message at a time, from a list copied
beforehand (`get_users`).

* Handlers of the plain server hold a mutex from just after the `recv` to just
  before the reply; the cleanup after a connection that stopped
  (`server.c:338-352`) does the same work as DISCONNECT *without* the mutex.
* No handler of the secure server takes a mutex, and its rooms are entered in
  several steps by several threads: a user asks, the server asks the admin, the
  admin accepts, the server deals new keys to everybody.
* A secure client has a connection to each server. The secure one deals keys and
  the plain one carries the texts. Every secure room is also a room of the plain
  server: the *client* keeps the two in step, sending to one what the other one's
  answer calls for.

Which behaviours are hard: the unlocked cleanup against any handler; lists
copied and then walked while what they list goes away; `free(u)` while tables,
lists and a thread's stack point at it; hash collisions; the order in which a
client sees what different handlers of one server, or two servers, tell it; a
client that vanishes, or a server that is interrupted, in the middle; a test and
what it allows, a call apart; globals shared by the threads of a client;
descriptors, sockets and counts at their limit. `PROJECT.json` lists each at its
line, with the properties that would catch it, or the reason why no run has one.

## Modules and how they follow the code

| module | extends | instances |
|---|---|---|
| UserManager | | |
| RoomManager | UserManager | |
| ClientRoster, ChatService, Accounts | | |
| ChatServer | RoomManager | ClientRoster |
| ChatRefinement | ChatServer | ChatService (the refinement mapping) |
| ChatInvariant | ChatServer | |
| SecureServer | RoomManager | Accounts |
| SecureInvariant | SecureServer | |
| AccountStatements | Accounts | |
| SecureSession, ClientCommand, Listener, MessageStream, RoomBroadcast, NameHash | | |
| ManagerLemmas | RoomManager | |
| ChatServer_proofs | ChatRefinement, ChatInvariant, ManagerLemmas | |
| SecureServer_proofs | SecureInvariant, ManagerLemmas | |
| RoomBroadcast_proofs, MessageStream_proofs, Listener_proofs, SecureSession_proofs, NameHash_proofs | the module each is named after | |
| MCChatServer | ChatRefinement, ChatInvariant | |
| MCSecureServer, MCSecureSession, MCClientCommand, MCAccountStatements, MCListener, MCRoomBroadcast | the module each is named after | |

The modules differ in where they cut a handler. ChatServer and SecureServer
follow one server at each message and each point where another thread can
come in. SecureSession puts two servers and their clients together: the secure one
writes its messages one by one there too, as nothing is locked; a handler of the plain
one, which holds the mutex, is one step. The small modules take up what those leave out: a
socket that is full, half a message, a descriptor, a statement of the database,
the threads of a client, the width of an int.

### The managers, the plain server and what it promises

* **UserManager**, **RoomManager**: the managers, as operators on the value of
  a table: a function from buckets to sequences (the chains). Operators keep the
  C names. The hash is a constant function, so a run may choose which names
  collide. What the code does to a chain is kept exactly: `add_user` and
  `add_room` prepend; `remove_room` unlinks a node in the middle of a chain and
  clears the whole bucket for the first; `remove_user` frees each node it walks
  over and clears the bucket only if the first one matched. Otherwise the
  bucket is left pointing at freed nodes: `remove_user_defined` is false
  and the table has no value.
* **ClientRoster**: the open rooms and contact lines of the GTK client, as
  operators that a message applies to a view. A `ListStore` keeps twins, so a
  view counts the lines of each name.
* **ChatServer**: `handle_connexion` of `server.c`. The variables:

  | variable | in the code |
  |---|---|
  | `server_user_map`, `rooms` | the globals of `server.c:12` and `room_manager.c` |
  | `mutex` | `pthread_mutex_t mutex`, by its holder |
  | `pc[c]` | where the thread of connection `c` is |
  | `u[c]`, `buffer[c]`, `response[c]` | its locals (`server.c:123-125`) |
  | `target[c]`, `todo[c]`, `visit[c]` | the room being worked on, the rest of the copied list of users, the rest of the copied list of rooms |
  | `connected[c]`, `client[c]` | the other end: is it there, what does it display |
  | `status` | the process: running, killed by SIGPIPE, or past the use of freed memory |

  One action per request (`Connect`, `CreateRoom`, `JoinRoom`, `QuitRoom`,
  `DeleteRoom`, `Message`, `PrivateMessage`, `Disconnect`), each with all its
  refusals, up to the first announcement; then one step per announcement
  (`JoinNotify`, `JoinList`, `Notify`) and one for what follows it (`JoinEnter`,
  `JoinAdmin`, `QuitDone`, `DeleteDone`, `MessageDone`, `JoinDone`); `Unlock`,
  then `Answered`, because the code replies after it unlocks. `LeaveRoom` and
  `LeaveDone` are the loop over the rooms of a departing user and what follows
  it; `Disconnect` enters it with the mutex, `ConnectionStopped` without.
  QUIT_ROOM of an admin falls through into DELETE_ROOM as in the C `switch`.
  `Accept` starts a thread; it does not set `u`, since the code does not either.
  `Undefined` is every step that would use freed memory, or what a second look does
  not find again (`UsesNoAdmin` of JOIN_ROOM, `UsesNoReceiver` of MP, whose two looks
  at the receiver are otherwise one step); the model stops there.
* **ChatService**: what the server promises, with no thread, table or message:
  who is online, which rooms are open, who is in them, who may delete them.
* **ChatRefinement**: the refinement mapping, which reads the four variables of
  ChatService off the two tables; `ServiceIsConsistent` is the service's own
  invariant read off them too.
* **ChatInvariant**: the inductive invariants, `IInv` for any hash functions,
  `ApartInv` for those under which no two names collide, `AloneInv` and `DisplayInv`
  for clients that do not vanish besides. **ManagerLemmas**,
  **ChatServer_proofs**: the proofs. **MCChatServer**: names, hashes and the
  symmetry set for TLC.
* **RoomBroadcast**: MESSAGE of `server.c:296-310` again, with sockets that hold
  `Capacity` messages. `Lock`, `Write` (which waits for room in the socket),
  `Unlock` and `Reply` of each thread, `Read` of each client that reads.

### The secure server and its database

* **Accounts**: the queries of `mysqlite.c`, as operators on the set of rows.
  `change_status` toggles; `add_user_db` leaves a login that is taken alone, and
  says so to a caller that does not listen; both checks answer 1 when they find
  *no* row, and `is_connected` always does.
* **SecureServer**: `handle_connexion` of `secure_server.c`, on the same
  managers. `thread[c]` holds the locals of a connection (`pc`, `u`,
  `first_connection`, `buffer`, `response`, the other user `claimer`, the keys `k`
  it generated, `todo`, `visit`); `accounts` is the database; `keyring[c]` the
  keys the client holds for each room; `status` the process. As nothing is
  locked, a handler is cut at every message (`TellClaimer`, `Notify`), every
  call of the database (`ConnectSec`, `CheckCertificate`, `AddAccount`, `Enter`),
  every snapshot, and between a test and what it allows (`CreateRoomSec` /
  `CreateEnter`, `JoinRoomSec` / `AskAdmin`, `AdminDecides` / `AcceptJoin`,
  `Eject`, `RefuseJoin`, `MpSec` / `MpKeys`, which look the receiver up twice). The
  two exits are `Disconnect`, `LeaveRoom`, `LeaveDone`, `Bye`, and
  `ConnectionStopped`, which touches no table. A client may send CONNECT_SEC again at
  any time, as neither end refuses it: `Enter` then makes a second user of the
  connection and forgets the first. Users of a connection are told apart by `Conn`, the
  connection and a count of its logins. `Accept` starts a thread, or its handshake
  fails, or a certificate that is not verified ends the whole process
  (`secure_server.c:154-157`), which is one more way to be interrupted. `Interrupted`
  and `Restart`: the process goes, the database stays. `LeaveRoom` keeps what `quit_room` does
  to the name it is given: it appends `|` to it, and from DISCONNECT_SEC that is
  the name inside the room (`Barred`). `Undefined` is every step through a pointer
  that is null or freed.
* **AccountStatements**: the same queries call by call of sqlite
  (`Prepare`, `StepRow`, `StepDone`, `Insert`, `Finalize`), over the one global
  `stmt` (`mysqlite.c:13`) of all threads.
* **Listener**: `start_listening` and `new_thread`. `Create` is the socket that
  `acceptSocketTCP` makes and drops, `Accept` the thread, `AcceptFails` and
  `AcceptWithoutContext` what happens without descriptors or without a context,
  `Bye` a DISCONNECT_SEC, `Stop` any other end.

### Clients and connections

* **SecureSession**: secure clients between the two servers. `plain` and
  `secure` hold what the handlers of each server change; `client[c]` what
  `clientsec-cli.c` keeps (the login on its way, the rooms it created and asked
  for, the keys of each name); four queues per client carry messages, each in
  order. `Keyboard(c)` is one action per command of `send_message_sec`;
  `PlainServer(c)`, `SecureServer(c)` one per request; `ReceiveSecure(c)`,
  `ReceivePlain(c)` one per code a client reacts to. A handler of the secure server
  that writes several messages is a step to change the room and list what is to be
  told (`SecAccept`, `SecEject`, `SecRemove`, `SecQuit`, `SecCreate`, by `SecBegins`),
  then one step per message (`SecTellFirst`, `SecTellNext`, `SecMpDeal`) and `SecTold`;
  other handlers run and write in between. `telling[c]` and `todo[c]` are what the
  handler of `c` has still to write, and `crossed` a history variable: who quit a room
  while a handler was about to write to it. CONNECT_SEC may be refused by the secure
  server (`setting.refused`: a certificate of another account) and CONNECT by the plain
  one (`setting.taken`). `setting` says how a session begins and what its users type; it never
  changes.
* **ClientCommand**: `send_message` and `send_message_sec` statement by
  statement, as scripts of operations on what their threads share: `msg`, the
  state of `strtok`, `tab_string`, `login`, the known rooms. A text to a known room may
  find no keys, which ends the client (`Encipher`), and MP_SEC tests a length before it
  is set (`Private`): both outcomes are there.
* **MessageStream**: one direction of a connection and the four loops that read
  one (`reader`). A message is two halves on the wire; the other end may
  `Close`, `Reset` (what was on its way is lost from any byte on) or `Cut` a message.
* **NameHash**: the loop of `hash_room_name` and `hash_user`, a character at a
  time, with the `%` and the signed `char` of C.

## What the models abstract and assume

Managers and plain server:

* **A manager call is one step.** Walking a chain is not interleaved with a
  change of it by an unlocked cleanup, or by another handler of the secure
  server. This removes real behaviours (a walk through a node being freed); see
  the hazards.
* **Sockets of ChatServer and SecureServer are reliable, unbounded, and read all
  the time.** A message is applied to the client's view, or to its keys, when it
  is written. A write to a client that is gone may succeed or kill the process:
  nothing handles SIGPIPE. RoomBroadcast, MessageStream and SecureSession are
  about sockets that fill up, break and delay.
* **Allocation.** The buckets of the table of users are not cleared
  (`server.c:396`): `Init` takes fresh memory to read as zero. `remove_user`
  reads `next` from a node it has just freed; the model takes that field to
  be intact, as with the allocators of the systems the README names. Pointers to
  users are identified by their connection, so an address used again by a later
  `malloc` is not confused with the earlier one.
* **`u` on a reused stack.** With `StackReuse`, a new thread may find in `u` (in
  the secure server, in `u` and in the sender of its buffer) what a thread that
  exited left there; without, it finds zero. Other values of uninitialised
  memory are not considered.
* **Commands before CONNECT** reach only the refusal of `server.c:131-134`.
* **Names.** Logins and rooms are model values. `ValidLogin` are those
  `is_login_valid` accepts. Room names and texts are taken to fit their fields.
* **Displays.** Only the plain rooms of the GTK client; the tabs of private
  conversations and the text are not in the view. GTK functions given null or
  an invalid iterator do nothing.

Secure server and client:

* SecureServer has hashes without collisions (ChatServer and the proofs are
  about those). A query of the database is one step in it; AccountStatements
  opens it up. Of the end of a broadcast's list only the set is kept: its order
  is that of the hash table, which no property tells apart.
* Keys are numbers. `FreshKey` is a number nobody holds: two results of
  `gen_keys` never coincide, and a text is read only with its own keys. That is
  what OpenSSL is trusted for. The server forgets keys when it has sent them, as
  in the code.
* SecureSession has one login per client, asked for once, no crash of a server and
  no lost connection: what those do to the tables of one server is in SecureServer. A
  write to a client that left is lost. Messages a client only prints are left
  out, but for those a patient user waits for.
* In ClientCommand a write of a pointer or of a field is one step; the contents
  of a name are not.
* Listener counts references as OpenSSL does (an `SSL` keeps its context twice:
  `ctx` and the one of its session, `RefsPerSsl`); it leaves out the handshake.

**Fairness.** Weak fairness of threads, and of nothing else: a thread that can
run goes on, which is what the scheduler of the system gives. Which actions
those are: `Work(c)` of ChatServer and of SecureServer (everything a thread does
once it has a request); `PlainServer(c)`, `SecureServer(c)`, `ReceiveSecure(c)`,
`ReceivePlain(c)` of SecureSession; `Main` of Listener; `Read` of MessageStream;
`Thread(c)` of RoomBroadcast, and `Read(c)` of the clients that read. No
client is made to type, to answer, to leave or to connect, and the mutex is not
fair: a thread that waits for it while others keep taking it for ever is not
promised it. In `bro_readers` and `dropping` the requests are finite, so that no
thread is overtaken for ever.

`CHECK_DEADLOCK` is on everywhere. `Stopped`, `Idle`, `Finished` and `Return` are
the stuttering of a system that has nothing left to do, so that a deadlock would
be a thread that is stuck.

## What each run checks

| run | module and instance | shows |
|---|---|---|
| `graceful` | ChatServer, 3 connections, every command, all displays followed, nobody vanishes | `TypeOK`; `RosterAgrees`: when no thread is at work, each client displays exactly its rooms and their users, each once; `NoticesHaveATab`: a broadcast only reaches clients that have the room open, which the client does not check; `NeverUndefined`: no freed memory is used |
| `dropping` | ChatServer, 2 connections that may vanish, reused stacks, every command, fair threads | `IInv`, the invariant of the proofs; `NoFreedUserInTables`, `LoggedInIsListed`, `ServiceIsConsistent` and `OnlyItsAdminRemovesARoom` with unlocked cleanups in every position; `ImplementsService`: every step is one step of ChatService or none; `MutexReleased`: whoever takes the mutex gives it back; `VanishedIsForgotten`: a client that vanishes is cleaned up after, whatever others do to its rooms meanwhile |
| `sec_rooms` | SecureServer, 3 clients of which one makes rooms and may log in twice, all commands about rooms but REFUSE and QUIT | `KeysAgree`: outside a deal the users of a room hold its keys, the same, and nobody else holds any; `OnlyTheAdminAdmits`: whoever enters a room was accepted by the client that is logged in as its admin, or has made it, although the admin may log in anew between a request and its decision |
| `sec_accounts` | SecureServer, 2 clients with one certificate, two logins each and two CONNECT_SEC each, the commands about accounts and MP_SEC | `StatusAgrees`: the toggled status follows the connections, for accounts whose login was asked for once, whatever other logins do; `ListedAreConnected`: whoever is listed is connected, unless his connection logged in under another name since; `OnlyConfirmedAccountsStay`: an account that was not confirmed goes with its DISCONNECT_SEC |
| `sec_faults` | SecureServer, 2 clients that may vanish, a server that is interrupted and restarted, reused stacks, fair threads | `TypeOK`; `RequestsAreAnswered`: a handler that walks a list of users or rooms comes to its end, although others change what it lists. Nothing is claimed about rooms: see below |
| `sessions` | SecureSession, 3 clients, 7 settings | once nothing is on its way: `RoomsAgree` (both servers and the keys of the clients), `LoginAgrees`, `PairedKeys` (private conversations one user begins); `PlainFollows`: out of a secure room, a client leaves the plain one; `LoginSettles`: a login ends in on both, refused and told so, or with the client; `TypeOK`. `RoomsAgree` and `PlainFollows` except the users in `crossed` |
| `cmd_keyboard` | ClientCommand, the thread of the keyboard, three commands with and without parameters | `SentAsAsked`: what is written is what was asked, although commands nest and reuse one message |
| `acc_answers` (violation) | AccountStatements, two threads | `AnswersAreRight` fails, see below |
| `lst_costs` | Listener, 3 clients that come and go twice, 8 descriptors | `HalfTheDescriptors`, `ByesCostTheContext`: what each connection costs for good, exactly; `QueueIsServed` |
| `streams` | MessageStream, 8 messages, all four loops, all ends | `HandledAsSent`: messages are handled whole, in order, once; after the end the last one may be something nobody sent, the last two in the plain client, none in the secure server; `ReaderStops` |
| `bro_readers` | RoomBroadcast, 3 clients, 2 messages each, sockets that hold one | `OneOrder`: a room's messages reach everybody in one order; `ReadersAreAnswered`; `TypeOK` |
| `hash_documented` | NameHash, names of up to 4 letters and digits at the ends of their ranges | `IndexInTable`, `HashIsTheNumber`: the remainder taken at every character gives the documented number; `TypeOK`: the int does not overflow |

Each property of a passing run is paired in `PROJECT.json` with a plausible bug
of the code (an operator marked "Mutant" in the modules) under which TLC finds
the property violated in that same instance.

Bounds, and why they are enough:

* **Connections.** Three where a third party matters: one watches a room while a
  second joins and a first leaves; keys are dealt to a room whose user is ejected
  while another is admitted; a user quits while another is let in. Two where the
  hazard is between two (a cleanup and a handler, a login and a login). A connection
  of ChatServer logs in once and ends; one of SecureServer logs in as often as `Conn`
  says (`Once`, `Twice`, `TheFirstTwice`; with `Restarts`, that often per life of the
  process), and then ends: the second login already finds what the first one left. So these state spaces need no bound on steps.
* **Names.** One room besides the home room, and two logins for three connections
  in `graceful`, so that logins compete. In SecureServer each client has one or two
  logins (`LoginsOf`) that no other asks for, and each room a second name, which `quit_room` can give it. `MaxLines`: a
  view tells apart 0, 1 and at least 2 equal lines, as "each once" needs.
* **Commands, Creators, Watched.** A run leaves out what its question does not
  need, or what is known to break it: QUIT_ROOM_SEC and a second creator break
  `KeysAgree`, vanishing clients `RosterAgrees`. The disagreements say how; the
  properties hold for the rest of the protocol.
* **Settings.** `Rooms`: one client makes a room and types three commands, the
  other two: enough to admit, eject, quit and delete. `Readmitted`: a user is ejected and
  let in again. `Three`: one quits while another is let in. `ForeignRoom`: the plain
  server refuses the room. `Logins`: impatient users, one login that is taken,
  interrupts. `Refused`: the secure server refuses a certificate. `Calls`: private
  conversations one client begins, and a client that crashes. A patient user waits for
  "You are now connected" and "The room has been created" before going on; what
  impatience does is below. Keys are not bounded: the next is the least that nobody
  holds and no message carries, so they stay few.
* **Capacity, Messages, MaxMessages, MaxVisits, Descriptors, MaxCommands.** A
  socket of one message makes every second write wait. Eight messages through a
  socket of three fill and drain it more than twice, with a fault at every
  point. Three clients come and go six times in all: more than eight descriptors
  allow, and enough goodbyes to free the context. Three commands are one, the one that finds what it left
  behind, and one more.

`NeverUndefined` is checked without vanishing clients only. With them it
does not hold: an unlocked cleanup can free a user or a room that a broadcast is
still about to reach, and those runs reach `status = "undefined"`; properties
speak of the states up to that point. No run has colliding hashes: `IInv` is
proved for any hash functions, and what a collision breaks is below.

## Proofs

The theorems hold for all values of the constants that satisfy the assumptions
named here. Those with a name ending in `Assumption` are stated with the constants
and TLC evaluates them in every run of the module: null is no user, the home room
is a room name, sizes are numbers, a room lists a member once.

| module | theorem | says | assuming |
|---|---|---|---|
| ChatServer_proofs | `InvariantHolds` | `Spec => []IInv` | `ConstantsAssumption` |
| | `TypeCorrect` | `Spec => []TypeOK` | the same |
| | `UsersInTablesAreLive` | `Spec => []NoFreedUserInTables`: no table ever points at a user its thread has freed, although one of the two cleanups runs without the mutex and the managers drop entries when names collide | the same |
| | `ApartInvariantHolds` | `Spec => []ApartInv` | and `Apart` |
| | `LoggedInStaysListed` | `Spec => []LoggedInIsListed` | the same |
| | `RoomsGoByTheirAdmin` | `Spec => OnlyItsAdminRemovesARoom` | the same |
| | `TablesStayConsistent` | `Spec => []ServiceIsConsistent` | the same |
| | `ServerImplementsService` | `Spec => ImplementsService`: the server refines ChatService | the same |
| | `NothingFreedIsEverUsed` | `Spec => []NeverUndefined` | and no client vanishes, no stack is reused |
| | `ClientsShowTheRooms` | `Spec => []RosterAgrees`: between two handlers every client displays the rooms it is in, each with its users | the same |
| | `NoticesFindTheirTab` | `Spec => []NoticesHaveATab` | the same |
| SecureServer_proofs | `InvariantHolds` | `Spec => []IInv` | `ConstantsAssumption` |
| | `TypeCorrect` | `Spec => []TypeOK` | the same |
| | `ListedStayConnected` | `Spec => []ListedAreConnected`, however often clients log in | and no client vanishes |
| | `UnconfirmedAccountsGo` | `Spec => OnlyConfirmedAccountsStay` | and `LoginsApart` |
| SecureSession_proofs | `TypeCorrect` | `Spec => []TypeOK`, for any number of clients and rooms, any settings, queues of any length | `ConstantsAssumption` |
| | `LoginsAgree` | `Spec => []LoginAgrees`: whoever is in on one server is in on the other, with an account, once nothing is on its way, whichever server refuses a login | the same |
| | `KeysArePaired` | `Spec => []PairedKeys`: the two users of a conversation hold the same keys, once nothing is on its way | the same; the property itself is about settings in which one user calls (`OneCalls`) |
| RoomBroadcast_proofs | `InvariantHolds`, `TypeCorrect` | `Spec => []TypeOK`: no socket holds more than its capacity | `BroadcastAssumption` |
| | `MessagesHaveOneOrder` | `Spec => []OneOrder` | the same |
| MessageStream_proofs | `InvariantHolds`, `LoopsHandleWhatWasSent` | `Spec => []HandledAsSent`, for streams of any length | `StreamAssumption` |
| Listener_proofs | `InvariantHolds`, `HalfTheDescriptorsAreServed` | `Spec => []HalfTheDescriptors` | `ListenerAssumption` |
| | `EveryByeCostsTheContext` | `Spec => []ByesCostTheContext` | the same |
| NameHash_proofs | `DocumentedNamesHaveABucket` | `Spec => []IndexInTable`, for names of any length and tables of any size | `HashAssumption`, and names of letters and digits |
| | `DocumentedNamesFit` | `Spec => []TypeOK`: the int does not overflow | and `HASH_ROOM_SIZE <= LargestHash` |

### No freed user in a table

`NoFreedUserInTables` is not inductive. What it needs, and why
(`IInv` of ChatInvariant):

1. `TablesWellKept`: a node sits in the bucket of its name and no chain has two
   of one name. Otherwise `remove_user`, which looks in one bucket and stops at
   the first match, would miss an entry.
2. `ListedIsOwned`: whatever a table points at is the `u` of the thread it came
   from, and that thread is running. A freed user is then in no table.
3. `OwnOrStale`: `u` is null, the thread's own user, or a user freed by a thread
   that exited: what a reused stack can hold.
4. `AllStandWell`: where a thread stands, what it is about to use is
   there. In particular, only a thread's own user enters a room
   or leaves for good, so a stale `u` never gets into a table.
5. `LeavesEveryRoom`: the list of rooms to leave, made once before the first is
   left, keeps every room the departing user is still in. Other threads
   may create, delete and leave rooms meanwhile; none can put the departing
   user in one more room. So when the list is empty the user is in no
   room, and `free(u)` is safe.

`ManagerLemmas` states once what each manager operation returns and preserves
(types, `WellHashed`/`WellKept`, who is listed after it, and, in the lemmas that
end in `Exactly`, what the operation does to every room). The invariant's proof
has a lemma per kind of step: types (`*Types`), the steps that change a table
(`AcceptStep`, `CreateRoomStep`, `ConnectStep`, `JoinEnterStep`, `RoomLeftStep`,
`BeginLeavingStep`, `LeaveDoneStep`) and those that do not (`QuietCommands`,
`QuietMoves`), joined in `StepPreserves`.

### The server is the service

`Apart` says that no two logins, and no two rooms, share a bucket. No code makes
that so, and it is needed: `remove_user` and `remove_room` clear a whole bucket
when they remove its first node, so that with a collision a departure logs another
user out, and the theorems fail (TLC shows it, see below). With `Apart` a bucket
has one node at most and every manager operation does what its name says. The
other constants stay free, with vanishing clients and reused stacks.

`ApartInv` is `IInv` and three more facts. `LoggedInIsListed`: who is past
CONNECT is in the table of users. `RoomsHaveAdmins`: the home room is there and
has no admin, any other room has its admin among its users. `AdminsDelete`: a
thread on its way to remove a room works for the room's admin and the room is
there; one on its way out of a room is not its admin. The last two hold each
other up: the admin of a room can only leave it by the path that removes it, and
nobody else can remove it in between, which is what makes a decision that was
taken before a broadcast still right after it, in the unlocked cleanup too.

For the refinement, each step of the server is one of ChatService or none:
`Connect` logs in, `CreateRoom` creates, `JoinEnter` enters, `QuitDone` and
`RoomLeft` leave, `DeleteDone` deletes, `LeaveDone` logs out; everything else
leaves the four variables of the service as they are. The same case
analysis gives `OnlyItsAdminRemovesARoom`, and `Consistent` of the service is a
consequence of `ApartInv`.

### When every handler has the mutex

If no client vanishes the unlocked cleanup never runs, and if stacks are fresh a
thread starts with a null `u`. The theorems that follow need both, and `Apart`. What
they say fails otherwise: see `NeverUndefined` above, and `RosterAgrees` below.

`AloneInv` says why nothing freed is used. Whoever is in a handler is the holder of the
mutex (`InHandler`), so what it read from the tables is still so (`StillTrue`): the
users it has yet to reach are in the room, and the room has the admin it had. Each of
them belongs to a thread that has not exited (`ListedIsOwned`), so none was freed. And
only the thread that is leaving has a list of rooms to leave (`Crossing`), so nobody
frees a room under it.

`RosterAgrees` speaks of the moments at which no handler runs; an invariant has to say
what each client displays in between. `Told(d, r)` is the set of users of room `r` that
the client of `d` has been told of, at every point of every handler: a newcomer is in
the lists of those that JOIN has reached and not yet in the table, a user that quits is
in the table and no longer in the lists of those that were reached, and the newcomer's
own list grows from nothing to the whole room, the admin first. `HasTab` says whether
the client should have a tab at all: not once it has been told that the room is gone.
`Displays(d, r)` then is: the tab shows `Told(d, r)`, each user on one line, or there is
no tab. The one exception is `Parting`: who quits or leaves hears of it in its reply,
after the mutex is released, so its tab may be open until then, whatever it shows.
`DisplayInv` is `AloneInv`, this for every client and room, and what a handler knows of
the room it works on (`KnowsItsRoom`). That no name is twice in a room is used at every
arrival and departure: the client goes by names alone.

The proof has a lemma per kind of step (`JoinNotifyShows`, ..., `DeleteDoneShows`), on
top of four about the client's own operations (`TabOpened`, `LineChanged`, `Arrived`,
`Departed`), joined in `DisplayStep`.

### The secure server, with nothing locked

The secure server takes no mutex, so the invariant (`IInv` of SecureInvariant)
may only say what every thread can rely on whatever the others do between two
of its steps:

1. `TablesWellKept`, for the names that are ever looked up (`Name`). A room that
   `quit_room` renamed stays in the bucket of its old name, perhaps twice in one
   chain, and nothing finds it: `WellKept` takes the names it is about, and the
   lemmas on rooms ask for a name among them.
2. `ListedAreOwned`: a user in the table was made by a thread that has not freed it,
   or whose `u` has another name by now: a client that logs in again leaves its first
   user behind, in the table and in rooms, and the thread frees the last one only. It
   takes the last one out of the table by its *name*, and with it an earlier one of
   the same name: this is why the name decides. `StaleIsGone`: a `u` that is not the
   thread's own was left on the stack by a thread that has ended.
3. `AllStandWell`: where a thread stands, what it is about to use. The pointer an
   admin found with `get_user` (`claimer`) is not null, but it may have been freed:
   nothing says the contrary, and `NeverUndefined` is refuted below.
4. `Attended`: if clients do not vanish, no thread is stopped, and a client is there as
   long as its thread is.
5. `AccountsAreOwned`: every account has a login and the certificate of one client.

`TypeOK` needs (1) for lists of users, and that there are enough keys (`Key`): a
counting argument, since `FreshKey` is a key that no handler and no client holds
(`FreshKeyIsKey`).

`UnconfirmedAccountsGo` comes from `AccountsMove`: a step leaves accounts and logins
alone (`Continues`), or is one of nine. What these nine do to *another* client's
accounts depends on who may ask for a login, since nothing in the code refuses a login
that is in use: hence `LoginsApart`, which is about the clients and not about the server.
From the DELETE of DISCONNECT_SEC to the end of the thread many rooms are left, one
step each. Meanwhile nobody may insert the login again (`UnconfirmedIsDeleted`).

Nothing is proved about who admits to a room, who removes it and who holds its keys, nor
about the status of an account. What the code gives is weaker than what one would want
to say (below), and the assumptions under which it would be true are not the code's: one
creator that nobody races, no login in use twice, nobody who quits.

### Clients between the servers

The properties of SecureSession speak of moments when nothing is on its way, so the
inductive invariants speak of what the queues still hold. The queues are of any
length, and all that is said of one is which messages it has (`Has`), that one of a
kind is alone (`Single`), or which come first (`Ahead`, `Leads`).

* **Types** (`TypeCorrect`, invariant `TInv`). `TypeOK` is not inductive: a client
  reads from a message what its code promises. `Mail` says which fields a code fills;
  `KeysComeFirst` that the keys of a conversation are ahead of the text that needs
  them, in the queue or in what the client already holds, also while the server is
  between the two messages of a deal: without it HearMp would encipher with keys the
  client does not have. `WellFormed` types the servers, the clients and the queues,
  what each handler has still to write (`telling`) included. That the next key is new
  rests on finite clients, rooms and queues: there are fewer keys in use than numbers up
  to one more.
* **Logins** (`LoginsAgree`, invariant `AllLoginInv`, per client). A login goes from the
  secure server to the client to the plain one, and back as a confirmation.
  `GoesOn` says where it is when it is not at its end, `Once` that it is in one place,
  `Unknown` that nothing speaks of a client before it asks. `Ends` relates an end at
  one side to what is left in the queues of the other: a client that has gone has left
  an EOF on each connection, a server that dropped it a message that ends it, and whatever
  takes it off the plain server has a DISCONNECT_SEC under way on the secure one.
  `Accounted` follows accounts (deleted only with a leave behind the deletion, never
  confirmed for a login that the plain server refuses, never made for one that the
  secure server refuses), `Remains` says that a client that stays and crashes
  leaves nothing that would take it off. Each step is one of two: it is about no
  login (`Idle`: the session messages of every queue are alike before and after), or it is a
  step of one client's session that the others do not notice (`SessionStep`).
* **Conversations** (`KeysArePaired`, invariant `PairsInv`). The two ends get their keys
  in two messages of two queues, with other handlers in between. `WillHold(c, d, k)`
  says what `c` will hold for `d` once it has read its queue: the last deal in it, or
  what it has. For two running clients it is the same key, or one of them has been
  dealt a key the server is about to send to the other (`Paired`). `CallersCall` is
  why nobody else's deal comes between: only who types MP_SEC is dealt a key, so with
  one caller a pair has one deal at a time.

### Broadcasts, connections, costs, names

* **One order.** One thread at a time is between `Lock` and `Unlock`. The users its
  walk has passed have one message more than the others, the one it is writing,
  and all others have the same messages (`OneLog`). So any two users' messages are
  one prefix and another of the same log. Who reads, and how full a socket is, plays
  no role.
* **Handled as sent.** While the connection is open, what is on the wire is
  the halves of the messages that were sent and not handled, in order
  (`Continued`). A reset or a cut may take some off the end. A plain loop may then
  take half a message for one (`HalfRead`), which it does once, since the wire is empty
  after it, and a client an error (`ErrorRead`), which it does once too, since the next
  read gives the end: so the plain client handles two such messages at most, the
  server one, the secure client one, and the secure server none.
* **Costs.** A connection takes two descriptors, one for the socket
  `acceptSocketTCP` makes and drops and one for the connection, and
  the socket in `main` takes one more (`Spent`). A client is not in the queue while it
  is served (`Distinct`), so every accepted connection adds to the references
  exactly once.
* **Names.** The hash is an index of the table after every turn of the loop: a
  documented character is worth between 0 and 67 (`ValueBound`), so what is
  reduced is never negative.

### Only model-checked

* Liveness (`MutexReleased`, `VanishedIsForgotten`, `RequestsAreAnswered`,
  `QueueIsServed`, `ReadersAreAnswered`, `ReaderStops`, `PlainFollows`,
  `LoginSettles`): the prover has no fairness and no `ENABLED`.
* `HashIsTheNumber`, an induction over the characters of a name; `SentAsAsked`,
  which is about the scripts of ClientCommand as sequences.
* `RoomsAgree` of SecureSession. Its inductive invariant would follow a user of a room
  through the room's messages in four queues of every member, with what each client
  has made and been asked, what each handler has yet to write, and the commands not
  typed yet: a patient user's decisions depend on the answers it waits for. No such
  invariant was found that fits a proof. TLC checks it in the settings about rooms.
* `KeysAgree`, `OnlyTheAdminAdmits` and `StatusAgrees` of SecureServer, in the settings
  of their runs. TLC refutes them in others (below).

## Disagreements found

One is a run of its own:

* **`acc_answers`**: `stmt` is one global for all threads (`mysqlite.c:13`). A
  thread that logs in steps the statement another one has just prepared, and takes
  its rows for its own: a user that has an account is told to be new, or the
  other way round (`mysqlite.c:134`).

The others are properties the modules state and no run lists ("TLC refutes it"
in the module), or properties a run checks without what breaks them. Each is
reproduced by editing the .cfg as said; the number is the length of the
behaviour TLC answers with.

Plain server:

* `EveryCommandIsAnswered`, added to `dropping` (4): the KO for a command sent
  before CONNECT is filled in and never written (`server.c:131-134`; the write
  is in the other branch), while `lib_server.h` says every command gets a
  response.
* `OnlyTheConnectedAreToldSo`, added to `dropping` (18): `u` is not initialised
  (`server.c:125`). On a stack used before, the first CONNECT of a new client is
  refused with "You are already connected".
* `RosterAgrees`, added to `dropping` with `Watched = {c1, c2}` (25): a client
  vanishes while another joins its room. The unlocked cleanup announces the
  departure to a list that lacks the newcomer, whose own list has the departed:
  it shows a contact for good.
* `LoggedInIsListed` with all of `UserHash` in one bucket: `remove_user` clears
  the whole bucket when the user heads its chain (`user_manager.c:86-87`):
  another user is no longer known, and its login may be taken.
* `OnlyItsAdminRemovesARoom` with all of `RoomHash` in one bucket: the same in
  `remove_room` (`room_manager.c:120-121`).
* `Reading = {a, b}` in `bro_readers` (deadlock, 22): a broadcast writes with a
  blocking send while it holds the mutex (`server.c:305`): one client that does
  not read stops all the others.
* `IndexInTable` with the byte 32 in `Character` of `hash_documented` (2): a name
  with a space hashes to a negative index (`room_manager.c:35`), and no server
  refuses such a room.

Secure server and database:

* `KeysAgree`, added to `sec_faults` (18), or in `sec_rooms` with QUIT_ROOM_SEC (35): a
  user that quits while its admin deals keys ends with the new ones, out of the room
  (`secure_server.c:326`).
* `KeysAgree` in `sec_rooms` with `Creators = {c1, c2}` (30): `is_room_used` and
  `add_room` are two steps and nothing is locked (`secure_server.c:172`): both
  create the room, each with keys of its own.
* `OnlyTheAdminAdmits` in `sec_rooms` with `Creators = {c1, c2}` and DISCONNECT_SEC (28):
  the same race lets the second creator into the room of the first, unasked.
* `OnlyTheAdminAdmits` in `sec_faults` with a third client and no restarts (27): the
  code compares pointers. A client that vanishes stays the admin of its rooms; the
  next thread on its stack starts with its `u`, which is not initialised
  (`secure_server.c:137`), passes for the admin, and lets a third client in.
* `OnlyTheAdminAdmits` in `sec_rooms` with `CertOf <- SharedCertificate` and
  `Creators = {c3}` (26): a client whose CONNECT_SEC was refused has a null `u`, and
  `get_admin` of a room that does not exist is null too (`secure_server.c:218,241`):
  the client passes for the admin of a room that another one creates before
  it gets to `add_user_in_room`.
* `OnlyItsAdminRemovesARoom`, in `sec_rooms` with DISCONNECT_SEC (14): DISCONNECT_SEC of
  a user that is not the admin gives `quit_room` the name inside the room, to which it
  appends `|` (`secure_server.c:387,545`): the room is found by nobody.
* `NeverUndefined`, added to `sec_rooms` (17) or `sec_faults` (17): EJECT and
  REFUSE of a user that is not connected follow the null pointer of `get_user`
  (`secure_server.c:218,288`).
* `NoFreedUserInTables`, added to `sec_faults` (28): the user an admin accepts may
  be freed by its own thread before it enters the room
  (`secure_server.c:242-251,392`).
* `StatusSaysWhoIsIn`, added to `sec_accounts` (14): `StatusAgrees` for every account.
  A second CONNECT_SEC of a connection toggles the status of an account that is
  connected (`secure_server.c:446`); nothing on either side refuses it
  (`libclientsec.c:435-452`).
* `EverybodyListedIsConnected`, added to `sec_accounts` (30): the user of an earlier
  login of the same connection stays in the table when the client has left
  (`secure_server.c:391,448`).
* `ListedAreConnected` (13) and `StatusAgrees` (9), added to `sec_faults`: a
  connection that just stops toggles its status and leaves its user in every table
  (`secure_server.c:464-470`); an interrupted server finds accounts marked
  connected, and toggles them.
* `CertificateOnce`, added to `sec_accounts` (11): the check and the insertion are
  two calls (`secure_server.c:434-440`).
* `OneThreadPerLogin` in `sec_accounts`, when `LoginsOf` gives both clients one login
  (11): `is_connected` does not look at the rows of its query (`mysqlite.c:169`), so
  "you are already connected!" is never said.
* `OnlyItsOwnerDeletesIt` in `sec_accounts`, when `LoginsOf` gives both clients, with
  certificates of their own, one login (18): both find it free, the second INSERT fails,
  nobody looks (`secure_server.c:440`), and the second client enters and may delete the
  account of the first.
* `StaysUp` (18) and `ContextIsThere` (16), added to `lst_costs`: connections that
  have all ended have used up the descriptors (`SocketTCP.c:100`), or the context
  (`secure_server.c:398`).

Clients:

* `TextsAreRead`, added to `sessions` (19): keys and texts travel over two
  servers; a text that meets newer keys reads "MESSAGE CORROMPU"
  (`clientsec-cli.c:278`).
* `ClientsSurvive`, added to `sessions` (10): MESSAGE to a room whose keys have
  not come gives `aes_encrypt` a null pointer (`libclientsec.c:592`).
* `QuittersAgree`, added to `sessions` (45): a user quits a room while the admin lets a
  third one in. The deal walks the list of users it made before, and JOIN_ROOM_SEC
  reaches the quitter after its QUIT_ROOM_SEC (`secure_server.c:265-270,326`): its client
  takes the keys and joins the room of the plain server again
  (`clientsec-cli.c:154-165`), for good, and is out of the secure one.
  `RoomsAgree` and `PlainFollows` leave out these users (`crossed`), and no other.
* What `RoomsAgree` and `PlainFollows` say, without `Orderly`: of two creators each may
  be refused by another server, and the client undoes only one of the two
  (`secure_server.c:174`, `clientsec-cli.c:174-178`); and a room an impatient creator
  makes before the login with the plain server has ended exists on the secure one only
  (`libclientsec.c:488`).
* What `PairedKeys` says, without `OneCalls`: when both users call first, two deals
  cross (`secure_server.c:350`).
* `KeyboardIsRead`, added to `cmd_keyboard` (5): a command before the login
  returns -1, and the thread of the keyboard ends (`clientsec-cli.c:64-66`).
* `SentAsAsked` with a second thread: commands sent as reactions fill the message
  the keyboard is filling (`libclient.c:146`, `libclientsec.c:413`).
* `HandledAsSent` says what is left of "-1 en cas d'erreur" (`libclient.h:65`):
  after a reset `receive_message` reports success and the message of before is
  handled again, after half a message two are handled that nobody sent
  (`libclient.c:80`).

## Plan

Done: the managers, both servers, the database, the client between the servers,
its library, the connections, the hash; the plain server's abstract service. Proved:
the plain server's invariants, its refinement and what its clients display; the secure server's types, listed
users and unconfirmed accounts; the logins and conversations of clients between the
two servers; broadcasts, streams, costs and the hash.

What a next step would be: the invariant of `StatusAgrees` for logins that are asked for
once, and `RoomsAgree` of SecureSession for rooms nobody is ejected from, with the parts
of `AllLoginInv` as its base.

## Not modelled

* Windows, menus, dialogs and layout of the GTK client, and its secure thread
  (`ReceiveSecThread.vala`): it reacts to a part of what the command-line client
  reacts to.
* `client/client-cli.c`: the plain half of `clientsec-cli.c`, and
  `clientsectest.c`, a test program. `client/client.c`: no build file names it.
* The calls inside `commonsec.c` and the TLS handshake: sequential calls of
  OpenSSL. What SecureSession takes them to give is above. `check_challenge` of
  `mysqlite.c` has no caller.
* A manager call cut at each node, for a walk against a change of the same chain.
  Every handler of the secure server and the cleanup of the plain one are exposed
  to it; each outcome is undefined behaviour, which the models have in coarser
  form (`Undefined`).
* Signals of the plain server other than SIGPIPE: `my_sigaction` ends the process.
  Failure of `malloc` and of `pthread_create`.
* What overruns a field. `quit_room` writes the new keys behind the name it changed
  inside a room (`secure_server.c:546-548`), which may leave `name[64]` and reach the
  fields after it; the model has the new name only, under which nobody finds the room.
  Longer names and texts than their fields.
* What `strcpy` drops of a cipher with a zero byte in a private text
  (`libclientsec.c:620`): a text stands for its cipher in ClientCommand.
* Printing, the vendored CMake scripts, certificates and other data files, the
  `.vapi` declarations.
