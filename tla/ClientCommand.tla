---------------------------- MODULE ClientCommand ----------------------------
(***************************************************************************)
(* How the secure client turns a command into messages: send_message of    *)
(* src/src/client/libclient.c and send_message_sec of                      *)
(* src/src/client/libclientsec.c, as the threads of clientsec-cli.c call   *)
(* them.  The message under construction (msg), the state of strtok, the   *)
(* table of parameters (tab_string) and the login are shared by the three  *)
(* threads, and nothing is locked.                                         *)
(*                                                                         *)
(* A command is a script: the statements that touch what is shared, in the *)
(* order of the code.  Each action executes one of them.                   *)
(***************************************************************************)
EXTENDS Naturals, Sequences

CONSTANTS
  Name,          \* logins, names of rooms and texts
  NULL,          \* no value: the null pointer, and what malloc leaves
  Thread,        \* the threads: "send" reads the keyboard, "recv" and "recv_sec" react
  Commands,      \* the commands that each thread may run
  MaxCommands    \* bound: how many each of them runs

Command == [code : STRING, args : Seq(Name)]

ASSUME ConstantsAssumption ==
  /\ NULL \notin Name
  /\ Thread \subseteq {"send", "recv", "recv_sec"}
  /\ \A t \in Thread : \A c \in Commands[t] : c \in Command
  /\ MaxCommands \in Nat

VARIABLES
  msg,         \* the message that msg points at
  strtok,      \* the words strtok has yet to return
  tab_string,  \* the table of parameters
  login,       \* the login of the client
  is_connected,  \* TRUE once CONNECT_SEC was typed
  rooms,       \* the rooms the client knows
  thread,      \* of each thread: what it is running
  wire         \* the last message that was written

shared == <<msg, strtok, tab_string, login, is_connected, rooms>>
vars == <<shared, thread, wire>>

Blank == [code |-> NULL, content |-> NULL, receiver |-> NULL]

Message(via, code, content, receiver) ==
  [via |-> via, code |-> code, content |-> content, receiver |-> receiver]

----------------------------------------------------------------------------
(***************************************************************************)
(* The scripts.  An operation is a tuple: its name, then its operand.      *)
(***************************************************************************)
Begin(code) == <<<<"new">>, <<"parse", code>>>>

\* A command of the plain server that a command of the secure server begins with.
Nested(code) ==
  <<<<"new">>, <<"nested", code>>, <<"argument">>, <<"content">>>>
    \o (IF code = "QUIT_ROOM" THEN <<<<"sender">>>> ELSE <<>>) \o <<<<"write", "plain">>>>

RoomScript(code) ==
  Begin(code) \o <<<<"argument">>, <<"content">>>>
    \o (IF code = "QUIT_ROOM" THEN <<<<"sender">>>> ELSE <<>>) \o <<<<"return", "plain">>>>

ConnectScript == Begin("CONNECT") \o <<<<"login">>, <<"return", "plain">>>>

DisconnectScript ==
  Begin("DISCONNECT") \o <<<<"sender">>, <<"code", "DISCONNECT">>, <<"write", "plain">>>>

MessageScript(code) ==
  Begin(code) \o <<<<"table">>, <<"receiver">>>>
    \o (IF code = "MESSAGE" THEN <<<<"encipher">>>> ELSE <<>>) \o <<<<"return", "plain">>>>

ConnectSecScript == Begin("CONNECT_SEC") \o <<<<"login">>, <<"return", "secure">>>>

DelAccountScript ==
  Begin("DEL_ACCOUNT_SEC") \o <<<<"write", "secure">>, <<"code", "DISCONNECT_SEC">>,
                                <<"write", "secure">>>>

DisconnectSecScript ==
  Begin("DISCONNECT_SEC")
    \o <<<<"connected">>, <<"sender">>, <<"new">>, <<"nested", "DISCONNECT">>,
         <<"sender">>, <<"code", "DISCONNECT">>, <<"write", "plain">>,
         <<"code", "DISCONNECT_SEC">>, <<"write", "secure">>>>

CreateRoomSecScript ==
  Begin("CREATE_ROOM_SEC")
    \o <<<<"argument">>, <<"content">>, <<"unknown">>, <<"copy">>>> \o Nested("CREATE_ROOM")
    \o <<<<"code", "CREATE_ROOM_SEC">>, <<"content">>, <<"return", "secure">>>>

\* Mutant: the code is set before the message for the plain server is made.
LeaveRoomSecScript_code_first(code, plain) ==
  Begin(code)
    \o <<<<"argument">>, <<"content">>, <<"copy">>, <<"code", code>>>> \o Nested(plain)
    \o <<<<"return", "secure">>>>

\* DELETE_ROOM_SEC and QUIT_ROOM_SEC
LeaveRoomSecScript(code, plain) ==
  Begin(code)
    \o <<<<"argument">>, <<"content">>, <<"copy">>>> \o Nested(plain)
    \o <<<<"code", code>>, <<"return", "secure">>>>

DecisionScript(code) ==
  Begin(code) \o <<<<"table">>, <<"both">>, <<"code", code>>, <<"return", "secure">>>>

JoinRoomSecScript == Begin("JOIN_ROOM_SEC") \o <<<<"argument">>, <<"content">>, <<"return", "secure">>>>

MpSecScript == Begin("MP_SEC") \o <<<<"table">>, <<"receiver">>, <<"private">>>>

\* CONNECT_OK; and CONNECT_KO_SEC_OK, which disconnects.
ConnectOkScript == Begin("CONNECT_OK") \o <<<<"code", "CONNECT_OK">>, <<"write", "secure">>>>

ConnectKoScript ==
  Begin("CONNECT_KO_SEC_OK") \o <<<<"code", "DISCONNECT_SEC">>, <<"write", "secure">>>>

Script(code) ==
  CASE code \in {"CREATE_ROOM", "DELETE_ROOM", "QUIT_ROOM", "JOIN_ROOM"} -> RoomScript(code)
    [] code = "CONNECT"            -> ConnectScript
    [] code = "DISCONNECT"         -> DisconnectScript
    [] code \in {"MESSAGE", "MP"}  -> MessageScript(code)
    [] code = "CONNECT_SEC"        -> ConnectSecScript
    [] code = "CONNECT_OK"         -> ConnectOkScript
    [] code = "CONNECT_KO_SEC_OK"  -> ConnectKoScript
    [] code = "DEL_ACCOUNT_SEC"    -> DelAccountScript
    [] code = "DISCONNECT_SEC"     -> DisconnectSecScript
    [] code = "CREATE_ROOM_SEC"    -> CreateRoomSecScript
    [] code = "DELETE_ROOM_SEC"    -> LeaveRoomSecScript(code, "DELETE_ROOM")
    [] code = "QUIT_ROOM_SEC"      -> LeaveRoomSecScript(code, "QUIT_ROOM")
    [] code = "JOIN_ROOM_SEC"      -> JoinRoomSecScript
    [] code = "MP_SEC"             -> MpSecScript
    [] OTHER                       -> DecisionScript(code)

----------------------------------------------------------------------------
Idle == [status |-> "idle", command |-> [code |-> "NONE", args |-> <<>>], todo |-> <<>>,
         tmp |-> NULL, text |-> NULL, written |-> 0, run |-> 0]

Init ==
  /\ msg = Blank
  /\ strtok = <<>>
  /\ tab_string = <<>>
  /\ login = NULL
  /\ is_connected = FALSE
  /\ rooms = {}
  /\ thread = [t \in Thread |-> Idle]
  /\ wire = Message("plain", NULL, NULL, NULL)

\* The process is gone, with all its threads.
Crashed == \E t \in Thread : thread[t].status = "crashed"

\* A line is typed, or a message that is answered by a command is received.
Run(t) ==
  /\ ~ Crashed /\ thread[t].status = "idle" /\ thread[t].run < MaxCommands
  /\ \E c \in Commands[t] :
       thread' = [thread EXCEPT ![t] = [Idle EXCEPT !.status = "busy", !.command = c,
                                          !.todo = Script(c.code), !.run = thread[t].run + 1]]
  /\ UNCHANGED <<shared, wire>>

\* The next operation of t is op.
At(t, op) ==
  /\ ~ Crashed
  /\ thread[t].status = "busy" /\ thread[t].todo # <<>> /\ Head(thread[t].todo)[1] = op

Operand(t) == Head(thread[t].todo)[2]

Advanced(t) == [thread[t] EXCEPT !.todo = Tail(@)]

Advance(t) == thread' = [thread EXCEPT ![t] = Advanced(t)]

\* The command returns: 0 or -2 or -3, after which the thread goes on.
Finished(t) == thread' = [thread EXCEPT ![t].status = "idle", ![t].todo = <<>>]

NewMessage(t) ==
  /\ At(t, "new")
  /\ msg' = Blank
  /\ Advance(t)
  /\ UNCHANGED <<strtok, tab_string, login, is_connected, rooms, wire>>

\* strtok cuts a copy of the text, and the code is extracted from the first word.
Parse(t) ==
  /\ \/ At(t, "parse") /\ strtok' = thread[t].command.args
     \/ At(t, "nested") /\ strtok' = IF thread[t].text = NULL THEN <<>> ELSE <<thread[t].text>>
  /\ msg' = [msg EXCEPT !.code = Operand(t)]
  /\ Advance(t)
  /\ UNCHANGED <<tab_string, login, is_connected, rooms, wire>>

Argument(t) ==
  /\ At(t, "argument")
  /\ IF strtok = <<>>
     THEN Finished(t) /\ UNCHANGED strtok
     ELSE /\ strtok' = Tail(strtok)
          /\ thread' = [thread EXCEPT ![t] = [Advanced(t) EXCEPT !.tmp = Head(strtok)]]
  /\ UNCHANGED <<msg, tab_string, login, is_connected, rooms, wire>>

Content(t) ==
  /\ At(t, "content")
  /\ msg' = [msg EXCEPT !.content = thread[t].tmp]
  /\ Advance(t)
  /\ UNCHANGED <<strtok, tab_string, login, is_connected, rooms, wire>>

\* CONNECT without a login keeps the one there is; CONNECT_SEC is refused.
Login(t) ==
  /\ At(t, "login")
  /\ IF strtok = <<>>
     THEN /\ IF thread[t].command.code = "CONNECT" THEN Advance(t) ELSE Finished(t)
          /\ UNCHANGED <<strtok, login>>
     ELSE login' = Head(strtok) /\ strtok' = Tail(strtok) /\ Advance(t)
  /\ is_connected' = (is_connected \/ thread[t].command.code = "CONNECT_SEC")
  /\ UNCHANGED <<msg, tab_string, rooms, wire>>

\* The login is copied into the message, although there may be none.
Sender(t) ==
  /\ At(t, "sender")
  /\ IF login = NULL THEN thread' = [thread EXCEPT ![t].status = "crashed"] ELSE Advance(t)
  /\ UNCHANGED <<shared, wire>>

\* "you're not connected yet"
Connected(t) ==
  /\ At(t, "connected")
  /\ IF is_connected THEN Advance(t) ELSE Finished(t)
  /\ UNCHANGED <<shared, wire>>

\* "This room already exists", or it is added to the rooms of the client.
Unknown(t) ==
  /\ At(t, "unknown")
  /\ IF msg.content \in rooms THEN Finished(t) ELSE Advance(t)
  /\ rooms' = rooms \cup {msg.content}
  /\ UNCHANGED <<msg, strtok, tab_string, login, is_connected, wire>>

\* The text of the nested command is made from the message.
Copy(t) ==
  /\ At(t, "copy")
  /\ thread' = [thread EXCEPT ![t] = [Advanced(t) EXCEPT !.text = msg.content]]
  /\ UNCHANGED <<shared, wire>>

SetCode(t) ==
  /\ At(t, "code")
  /\ msg' = [msg EXCEPT !.code = Operand(t)]
  /\ Advance(t)
  /\ UNCHANGED <<strtok, tab_string, login, is_connected, rooms, wire>>

\* create_table_param uses up strtok; two parameters are required.
Table(t) ==
  /\ At(t, "table")
  /\ tab_string' = thread[t].command.args
  /\ strtok' = <<>>
  /\ IF Len(tab_string') < 2 THEN Finished(t) ELSE Advance(t)
  /\ UNCHANGED <<msg, login, is_connected, rooms, wire>>

\* The receiver comes from the table, the text from the line that was typed.
Receiver(t) ==
  /\ At(t, "receiver")
  /\ msg' = [msg EXCEPT !.receiver = tab_string[1], !.content = thread[t].command.args[2]]
  /\ Advance(t)
  /\ UNCHANGED <<strtok, tab_string, login, is_connected, rooms, wire>>

Both(t) ==
  /\ At(t, "both")
  /\ msg' = [msg EXCEPT !.content = tab_string[1], !.receiver = tab_string[2]]
  /\ Advance(t)
  /\ UNCHANGED <<strtok, tab_string, login, is_connected, rooms, wire>>

\* aes_encrypt is given NULL for the keys of a room that have not come.
Unkeyed(t) == msg.receiver \in rooms /\ thread' = [thread EXCEPT ![t].status = "crashed"]

Encipher(t) ==
  /\ At(t, "encipher")
  /\ Advance(t) \/ Unkeyed(t)
  /\ UNCHANGED <<shared, wire>>

\* MP_SEC: a user whose keys are known is written to through the plain server.  A
\* length that is not set yet is tested first, and may seem too large.  (A cipher is
\* copied up to its first zero byte; what that loses of a text is not followed.)
Private(t) ==
  LET known == msg.receiver \in rooms IN
  /\ At(t, "private")
  /\ \/ Finished(t) /\ UNCHANGED msg
     \/ Unkeyed(t) /\ UNCHANGED msg
     \/ /\ msg' = [msg EXCEPT !.code = IF known THEN "MP" ELSE "MP_SEC"]
        /\ thread' = [thread EXCEPT ![t].todo = <<<<"return", IF known THEN "plain" ELSE "secure">>>>]
  /\ UNCHANGED <<strtok, tab_string, login, is_connected, rooms, wire>>

(***************************************************************************)
(* send_command and send_command_sec, which fail before a login is known.  *)
(* A command that returns the failure ends the thread of the keyboard.     *)
(***************************************************************************)
Write(t) ==
  /\ At(t, "write") \/ At(t, "return")
  /\ IF login = NULL
     THEN /\ UNCHANGED wire
          /\ IF At(t, "return") /\ t = "send"
             THEN thread' = [thread EXCEPT ![t].status = "exited", ![t].todo = <<>>]
             ELSE Advance(t)
     ELSE /\ wire' = Message(Operand(t), msg.code, msg.content, msg.receiver)
          /\ thread' = [thread EXCEPT ![t] = [Advanced(t) EXCEPT !.written = @ + 1]]
  /\ UNCHANGED shared

Return(t) ==
  /\ ~ Crashed /\ thread[t].status = "busy" /\ thread[t].todo = <<>>
  /\ Finished(t)
  /\ UNCHANGED <<shared, wire>>

Step(t) ==
  \/ NewMessage(t) \/ Parse(t) \/ Argument(t) \/ Content(t) \/ Login(t) \/ Sender(t)
  \/ Connected(t) \/ Unknown(t) \/ Copy(t)
  \/ SetCode(t) \/ Table(t) \/ Receiver(t) \/ Both(t) \/ Encipher(t) \/ Private(t) \/ Write(t) \/ Return(t)

Stopped ==
  /\ Crashed \/ \A t \in Thread :
                       \/ thread[t].status = "exited"
                       \/ thread[t].status = "idle" /\ thread[t].run = MaxCommands
  /\ UNCHANGED vars

Next == Stopped \/ \E t \in Thread : Run(t) \/ Step(t)

Spec == Init /\ [][Next]_vars

----------------------------------------------------------------------------
\* The messages that a command is for, first to last.
Asked(command) ==
  LET code == command.code
      arg(n) == IF Len(command.args) >= n THEN command.args[n] ELSE NULL
      plain(c) == Message("plain", c, arg(1), NULL)
      secure(c) == Message("secure", c, arg(1), NULL)
      bye == Message("secure", "DISCONNECT_SEC", NULL, NULL)
  IN
  CASE code \in {"CREATE_ROOM", "DELETE_ROOM", "QUIT_ROOM", "JOIN_ROOM"} -> <<plain(code)>>
    [] code \in {"CONNECT", "DISCONNECT"} -> <<Message("plain", code, NULL, NULL)>>
    [] code \in {"MESSAGE", "MP"} -> <<Message("plain", code, arg(2), arg(1))>>
    [] code = "MP_SEC" -> IF arg(1) \in rooms THEN <<Message("plain", "MP", arg(2), arg(1))>>
                          ELSE <<Message("secure", "MP_SEC", arg(2), arg(1))>>
    [] code \in {"CONNECT_SEC", "CONNECT_OK"} -> <<Message("secure", code, NULL, NULL)>>
    [] code = "CONNECT_KO_SEC_OK" -> <<bye>>
    [] code = "DEL_ACCOUNT_SEC" -> <<Message("secure", code, NULL, NULL), bye>>
    [] code = "DISCONNECT_SEC" -> <<Message("plain", "DISCONNECT", NULL, NULL), bye>>
    [] code = "CREATE_ROOM_SEC" -> <<plain("CREATE_ROOM"), secure(code)>>
    [] code = "DELETE_ROOM_SEC" -> <<plain("DELETE_ROOM"), secure(code)>>
    [] code = "QUIT_ROOM_SEC" -> <<plain("QUIT_ROOM"), secure(code)>>
    [] code = "JOIN_ROOM_SEC" -> <<secure(code)>>
    [] OTHER -> <<Message("secure", code, arg(1), arg(2))>>

(***************************************************************************)
(* What a command writes is what it is for, message by message, to the     *)
(* right server: libclientsec.c:426-669 and libclient.c:157-250 fill the   *)
(* message in place, and the secure commands reuse the one that a nested   *)
(* command left behind.                                                    *)
(***************************************************************************)
SentAsAsked ==
  [][\A t \in Thread :
       thread'[t].written > thread[t].written =>
         LET asked == Asked(thread[t].command) IN
         thread'[t].written <= Len(asked) /\ wire' = asked[thread'[t].written]]_vars

(***************************************************************************)
(* The client goes on reading the keyboard (clientsec-cli.c:64-66): no     *)
(* command is the last one a user can type.                                *)
(***************************************************************************)
\* TLC refutes it: see the disagreements in the README.
KeyboardIsRead == \A t \in Thread : thread[t].status \notin {"exited", "crashed"}

=============================================================================
