---------------------------- MODULE ClientRoster ----------------------------
(***************************************************************************)
(* What the graphical client makes of the messages it is sent              *)
(* (src/src/client/Threads/ReceiveThread.vala).  For each room it keeps a  *)
(* line in the list of open rooms and a list of contacts; a contact is a   *)
(* line of a ListStore, appended without looking whether it is there.      *)
(*                                                                         *)
(* A message for a room that is not open finds no list: GTK refuses the    *)
(* null pointer and the handler has no effect.                             *)
(***************************************************************************)
EXTENDS Naturals

CONSTANTS
  Login, RoomName,
  MaxLines    \* bound, at least 2: more equal lines are not told apart

(***************************************************************************)
(* tabs  : how many lines of open_rooms carry the name                     *)
(* known : rooms_map_users, rooms_map_chats and rooms_map_entries have it  *)
(* lines : how many lines of the room's contact list carry each login      *)
(***************************************************************************)
RoomView == [tabs : 0 .. MaxLines, known : BOOLEAN, lines : [Login -> 0 .. MaxLines]]

View == [RoomName -> RoomView]

NoLines == [l \in Login |-> 0]

ClosedRoom == [tabs |-> 0, known |-> FALSE, lines |-> NoLines]

EmptyView == [r \in RoomName |-> ClosedRoom]

OneMore(n) == IF n < MaxLines THEN n + 1 ELSE n
OneLess(n) == IF n > 0 THEN n - 1 ELSE n

OnCreateRoom(view, r) ==
  [view EXCEPT ![r] = [tabs |-> OneMore(@.tabs), known |-> TRUE, lines |-> NoLines]]

OnDeleteRoom(view, r) ==
  [view EXCEPT ![r] = [tabs |-> OneLess(@.tabs), known |-> FALSE, lines |-> NoLines]]

\* NEW_USER, ADD_USER and ADMIN all append a line.
OnArrival(view, r, login) ==
  IF view[r].known
  THEN [view EXCEPT ![r].lines[login] = OneMore(@)]
  ELSE view

\* Mutant: departures are shown in the chat only.
OnRmUserChatOnly(view, r, login) == view

\* The first line of that name goes, if there is one.
OnRmUser(view, r, login) ==
  IF view[r].known
  THEN [view EXCEPT ![r].lines[login] = OneLess(@)]
  ELSE view

Open(view, r) == view[r].known

Contacts(view, r) == {l \in Login : view[r].lines[l] > 0}

\* One line per open room, and none that no longer has its lists.
TidyTabs(view) ==
  \A r \in RoomName : view[r].tabs = IF view[r].known THEN 1 ELSE 0

NoTwins(view) == \A r \in RoomName, l \in Login : view[r].lines[l] <= 1
=============================================================================
