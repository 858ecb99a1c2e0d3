SPECIFICATION Spec
CONSTANTS
  c1 = c1  c2 = c2  c3 = c3
  A = A  B = B  C = C  D = D
  x = x  y = y  z = z
  accueil_sec = accueil_sec  R = R  accueil_sec_bar = accueil_sec_bar  R_bar = R_bar
  Client = {c1, c2, c3}
  Conn <- TheFirstTwice
  Login = {A, B, C}
  Cert = {x, y, z}
  CertOf <- OwnCertificates
  RoomName = {accueil_sec, R, accueil_sec_bar, R_bar}
  HomeRoom = accueil_sec
  Asked = {R}
  LoginsOf <- OwnLogins
  Creators = {c1}
  Barred <- Bars
  NULL = NULL
  FreedRoom = FreedRoom
  Commands = {"CONNECT_SEC", "CREATE_ROOM_SEC", "JOIN_ROOM_SEC", "ACCEPT_JOIN_ROOM_SEC", "EJECT_FROM_ROOM_SEC", "DELETE_ROOM_SEC"}
  UserHash <- ApartUsers
  RoomHash <- ApartRooms
  Drops = FALSE
  Restarts = FALSE
  StackReuse = FALSE
INVARIANTS KeysAgree
PROPERTIES OnlyTheAdminAdmits
SYMMETRY Clients
