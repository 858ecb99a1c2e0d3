SPECIFICATION Spec
CONSTANTS
  c1 = c1  c2 = c2  c3 = c3
  A = A  B = B  C = C  D = D
  x = x  y = y  z = z
  accueil_sec = accueil_sec  R = R  accueil_sec_bar = accueil_sec_bar  R_bar = R_bar
  Client = {c1, c2}
  Conn <- Twice
  Login = {A, B, C, D}
  Cert = {x, y, z}
  CertOf <- SharedCertificate
  RoomName = {accueil_sec, R, accueil_sec_bar, R_bar}
  HomeRoom = accueil_sec
  Asked = {R}
  LoginsOf <- TwoLoginsEach
  Creators = {c1}
  Barred <- Bars
  NULL = NULL
  FreedRoom = FreedRoom
  Commands = {"CONNECT_SEC", "CONNECT_OK", "DEL_ACCOUNT_SEC", "DISCONNECT_SEC", "MP_SEC"}
  UserHash <- ApartUsers
  RoomHash <- ApartRooms
  Drops = FALSE
  Restarts = FALSE
  StackReuse = FALSE
INVARIANTS StatusAgrees ListedAreConnected
PROPERTIES OnlyConfirmedAccountsStay
