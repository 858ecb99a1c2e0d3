SPECIFICATION Spec
CONSTANTS
  c1 = c1  c2 = c2  c3 = c3
  A = A  B = B
  accueil = accueil  R = R
  Conn = {c1, c2, c3}
  Login = {A, B}
  ValidLogin = {A, B}
  RoomName = {accueil, R}
  HomeRoom = accueil
  NULL = NULL
  FreedRoom = FreedRoom
  MaxLines = 2
  Commands = {"CONNECT", "DISCONNECT", "CREATE_ROOM", "JOIN_ROOM", "QUIT_ROOM", "DELETE_ROOM", "MESSAGE", "MP"}
  Watched = {c1, c2, c3}
  UserHash <- ApartUsers
  RoomHash <- ApartRooms
  Drops = FALSE
  StackReuse = FALSE
SYMMETRY Connections
INVARIANTS TypeOK RosterAgrees NoticesHaveATab NeverUndefined
