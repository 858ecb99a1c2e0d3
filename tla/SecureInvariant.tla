--------------------------- MODULE SecureInvariant ---------------------------
(***************************************************************************)
(* What the threads of SecureServer keep true together, with nothing       *)
(* locked, for any number of connections, with clients that log in again,  *)
(* clients that vanish, interrupted servers and reused stacks: the         *)
(* inductive invariant behind its properties about users and accounts.     *)
(***************************************************************************)
EXTENDS SecureServer

\* The names under which a room is ever looked up.  A room that was renamed
\* stays in its bucket, where nobody finds it.
Name == Asked \cup {HomeRoom}

TablesWellKept == WellHashed(server_user_map) /\ WellKept(Name, rooms)

\* What a thread may rely on where it stands.
Connecting(c) ==
  \/ thread[c].pc \in {"certificate", "insert", "enter"}
  \/ thread[c].pc = "handle" /\ thread[c].buffer.code = "CONNECT_SEC"

StandsWell(c) ==
  LET self == thread[c] IN
  /\ Connecting(c) => self.sender \in LoginsOf[c] /\ <<c, self.logins>> \in Conn
  /\ self.first_connection => self.sender \in LoginsOf[c]
  /\ self.pc = "join_new" => self.u # NULL
  /\ self.pc \in {"create", "decide", "deal", "delete"} => self.buffer.room \in Asked
  /\ self.pc = "decide" => self.claimer # NULL
  /\ self.pc = "mp" => self.buffer.code = "MP_SEC"
  /\ self.pc = "claimer" => self.buffer.code = "MP_SEC" \/ self.buffer.room \in Asked
  /\ self.pc \in {"closed", "read", "handle", "decide"} => self.k = NoKey
  /\ self.pc = "closed" => self.u = NULL /\ ~ self.first_connection /\ self.visit = {}
  /\ self.visit \subseteq Name \cup {FreedRoom}
  /\ self.visit # {} => self.u # NULL

AllStandWell == \A c \in Client : StandsWell(c)

\* A user that the server lists was made by a thread whose u is now of another
\* name, or that has not freed it.
Owned(x) ==
  LET self == thread[Of(x)] IN
  /\ LoggedIn(Of(x)) /\ self.pc # "closed"
  /\ self.u.name = x.name => self.pc \notin {"bye", "exited"}

ListedAreOwned == \A x \in Users(server_user_map) : Owned(x)

\* A u that is not the thread's own was left by a thread that is gone.
StaleIsGone ==
  \A c \in Client :
    \/ thread[c].u = NULL \/ LoggedIn(c)
    \/ StackReuse /\ thread[Of(thread[c].u)].pc \in {"exited", "stopped"}

\* When clients do not vanish, they are there as long as their thread is.
Attended ==
  ~ Drops => \A c \in Client :
    /\ thread[c].pc # "stopped"
    /\ thread[c].pc \notin {"closed", "exited"} => connected[c]

\* An account was made by a client that may ask for it, with its certificate.
AccountsAreOwned ==
  \A a \in accounts : \E c \in Client : a.login \in LoginsOf[c] /\ a.cert = CertOf[c]

IInv ==
  /\ TypeOK
  /\ TablesWellKept
  /\ AllStandWell
  /\ ListedAreOwned
  /\ StaleIsGone
  /\ Attended
  /\ AccountsAreOwned

----------------------------------------------------------------------------
(***************************************************************************)
(* Nothing stops two clients from asking for one login.  What follows      *)
(* holds when they do not.                                                 *)
(***************************************************************************)
LoginsApart == \A c, d \in Client : LoginsOf[c] \cap LoginsOf[d] # {} => c = d

\* An account that a departing client had not confirmed is gone.
UnconfirmedIsDeleted ==
  \A c \in Client :
    thread[c].pc \in {"leave", "bye"} /\ thread[c].first_connection =>
      Registered(thread[c].sender, accounts) = {}
=============================================================================
