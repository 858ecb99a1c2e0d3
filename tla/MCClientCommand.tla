--------------------------- MODULE MCClientCommand ---------------------------
(***************************************************************************)
(* Instances of ClientCommand for TLC: what each thread may be asked.      *)
(***************************************************************************)
EXTENDS ClientCommand

CONSTANTS A, R, S

OneArgument == {"CREATE_ROOM", "DELETE_ROOM", "QUIT_ROOM", "JOIN_ROOM", "CONNECT", "CONNECT_SEC",
                "CREATE_ROOM_SEC", "DELETE_ROOM_SEC", "QUIT_ROOM_SEC", "JOIN_ROOM_SEC"}
TwoArguments == {"MESSAGE", "MP", "MP_SEC", "ACCEPT_JOIN_ROOM_SEC", "REFUSE_JOIN_ROOM_SEC",
                 "EJECT_FROM_ROOM_SEC"}
NoArgument == {"DISCONNECT", "CONNECT_OK", "CONNECT_KO_SEC_OK", "DEL_ACCOUNT_SEC", "DISCONNECT_SEC"}

Cmd(codes, args) == {[code |-> c, args |-> args] : c \in codes}

\* Everything that can be typed, with and without its parameters.
Typed ==
  Cmd({"CONNECT_SEC", "CONNECT"}, <<A>>) \cup Cmd(OneArgument \ {"CONNECT_SEC", "CONNECT"}, <<R>>)
    \cup Cmd(TwoArguments, <<R, S>>) \cup Cmd(NoArgument, <<>>)
    \cup Cmd(OneArgument \cup TwoArguments, <<>>)

Keyboard == [t \in {"send"} |-> Typed]
=============================================================================
