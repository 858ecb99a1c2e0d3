------------------------- MODULE SecureServer_proofs -------------------------
(***************************************************************************)
(* Theorems about SecureServer, for any number of connections, any logins, *)
(* certificates and rooms, any commands, and with or without clients that  *)
(* vanish, interrupted servers and reused stacks, except where a theorem   *)
(* says so.                                                                *)
(***************************************************************************)
EXTENDS SecureInvariant, ManagerLemmas, FiniteSetTheorems

----------------------------------------------------------------------------
(***************************************************************************)
(* The constants, and what the operators on keys, accounts and tables      *)
(* return.                                                                 *)
(***************************************************************************)

LEMMA Names ==
  /\ Name \in SUBSET RoomName /\ Asked \subseteq Name /\ HomeRoom \in Name
  /\ \A r \in Name : Barred[r] \in RoomName /\ Barred[r] \notin Name
  /\ \A q, r \in RoomName : RoomHash[q] = RoomHash[r] => q = r
  /\ NULL \notin user /\ NULL \notin Login /\ NULL \notin RoomName
  /\ \A c \in Client : LoginsOf[c] \subseteq Login /\ CertOf[c] \in Cert
  /\ FreedRoom \notin RoomName
  BY ConstantsAssumption DEF Name

\* The connection that made a user.
LEMMA OfUser == \A x \in user : Of(x) \in Client /\ x.name \in Login
  BY ConstantsAssumption DEF Of, user

\* How many keys there are.
LEMMA KeysAre ==
  /\ IsFiniteSet(Key)
  /\ Cardinality(Client) \in Nat /\ Cardinality(Asked) \in Nat
  /\ Cardinality(Key) = Cardinality(Client) * (Cardinality(Asked) + 1)
<1> DEFINE n == Cardinality(Client)
           m == Cardinality(Asked)
<1>1. n \in Nat /\ m \in Nat
  BY FS_CardinalityType, ConstantsAssumption
<1> HIDE DEF n, m
<1>2. n * (m + 1) \in Nat
  BY <1>1
<1>3. IsFiniteSet(1 .. n * (m + 1)) /\ Cardinality(1 .. n * (m + 1)) = n * (m + 1)
  <2> DEFINE k == n * (m + 1)
  <2>1. k \in Int /\ k >= 0
    BY <1>2
  <2> HIDE DEF k
  <2>2. IsFiniteSet(1 .. k) /\ Cardinality(1 .. k) = k
    BY <2>1, FS_Interval
  <2>3. QED
    BY <2>2 DEF k
<1>4. QED
  BY <1>1, <1>3 DEF Key, n, m

\* A function has no more values than arguments.
LEMMA ImageIsFinite ==
  ASSUME NEW S, IsFiniteSet(S), NEW f, DOMAIN f = S, NEW T, T = {f[x] : x \in S}
  PROVE  IsFiniteSet(T) /\ Cardinality(T) <= Cardinality(S)
<1> DEFINE g == [x \in S |-> f[x]]
<1>1. g \in Surjection(S, T)
  BY DEF Surjection
<1>2. QED
  BY <1>1, FS_Surjection

\* gen_keys: there is a key that nobody holds, for a handler that has none yet.
LEMMA FreshKeyIsKey ==
  ASSUME TypeOK, NEW c \in Client, thread[c].k = NoKey
  PROVE  FreshKey \in Key
<1> DEFINE n == Cardinality(Client)
           m == Cardinality(Asked)
           Others == Client \ {c}
           inThreads == {thread[d].k : d \in Others}
           pairs == Client \X Asked
           inRings == {keyring[p[1]][p[2]] : p \in pairs}
           held == {thread[d].k : d \in Client} \cup UNION {{keyring[d][r] : r \in Asked} : d \in Client}
<1>1. n \in Nat /\ m \in Nat /\ IsFiniteSet(Client) /\ IsFiniteSet(Asked) /\ IsFiniteSet(Key)
      /\ Cardinality(Key) = n * (m + 1)
  BY KeysAre, ConstantsAssumption
<1>2. IsFiniteSet(Others) /\ Cardinality(Others) = n - 1
  BY <1>1, FS_RemoveElement
<1>3. IsFiniteSet(inThreads) /\ Cardinality(inThreads) <= Cardinality(Others)
  <2> DEFINE f == [d \in Others |-> thread[d].k]
  <2>1. inThreads = {f[d] : d \in Others} /\ DOMAIN f = Others
    OBVIOUS
  <2> HIDE DEF f, inThreads, Others
  <2>2. QED
    BY <1>2, <2>1, ImageIsFinite
<1>4. IsFiniteSet(pairs) /\ Cardinality(pairs) = n * m
  BY <1>1, FS_Product
<1>5. IsFiniteSet(inRings) /\ Cardinality(inRings) <= Cardinality(pairs)
  <2> DEFINE f == [p \in pairs |-> keyring[p[1]][p[2]]]
  <2>1. inRings = {f[p] : p \in pairs} /\ DOMAIN f = pairs
    OBVIOUS
  <2> HIDE DEF f, inRings, pairs
  <2>2. QED
    BY <1>4, <2>1, ImageIsFinite
<1>6. Key \cap held \subseteq inThreads \cup inRings
  <2>1. ASSUME NEW k \in Key, k \in held PROVE k \in inThreads \cup inRings
    <3>1. k # NoKey
      BY KeysAre DEF Key, NoKey
    <3>2. CASE \E d \in Client : thread[d].k = k
      BY <3>1, <3>2
    <3>3. CASE \E d \in Client, r \in Asked : keyring[d][r] = k
      <4>1. PICK d \in Client, r \in Asked : keyring[d][r] = k
        BY <3>3
      <4>2. <<d, r>> \in pairs /\ keyring[<<d, r>>[1]][<<d, r>>[2]] = k
        BY <4>1
      <4>3. QED
        BY <4>2
    <3>4. QED
      BY <2>1, <3>2, <3>3
  <2>2. QED
    BY <2>1
<1> HIDE DEF inThreads, inRings, pairs, Others, n, m
<1>7. IsFiniteSet(inThreads \cup inRings) /\ Cardinality(inThreads \cup inRings) <= (n - 1) + n * m
  <2>1. /\ IsFiniteSet(inThreads \cup inRings)
        /\ Cardinality(inThreads \cup inRings) =
             Cardinality(inThreads) + Cardinality(inRings) - Cardinality(inThreads \cap inRings)
    BY <1>3, <1>5, FS_Union
  <2>2. /\ Cardinality(inThreads) \in Nat /\ Cardinality(inRings) \in Nat
        /\ Cardinality(inThreads \cap inRings) \in Nat
    BY <1>3, <1>5, FS_Intersection, FS_CardinalityType
  <2>3. n * m \in Nat
    BY <1>1
  <2>4. QED
    BY <1>1, <1>2, <1>3, <1>4, <1>5, <2>1, <2>2, <2>3
<1>8. \E k \in Key : k \notin held
  <2>1. ASSUME \A k \in Key : k \in held PROVE FALSE
    <3>1. Key \subseteq inThreads \cup inRings
      BY <1>6, <2>1
    <3>2. Cardinality(Key) <= Cardinality(inThreads \cup inRings)
      BY <1>7, <3>1, FS_Subset
    <3>3. /\ Cardinality(inThreads \cup inRings) \in Nat /\ n * m \in Nat
          /\ n * (m + 1) = n * m + n
      BY <1>1, <1>7, FS_CardinalityType
    <3>4. n * m + n <= (n - 1) + n * m
      BY <1>1, <1>7, <3>2, <3>3
    <3>5. QED
      BY <1>1, <3>3, <3>4
  <2>2. QED
    BY <2>1
<1>9. FreshKey = CHOOSE k \in Key : k \notin held
  BY DEF FreshKey
<1> HIDE DEF held
<1>10. QED
  BY <1>8, <1>9

----------------------------------------------------------------------------
\* A row is inserted only when its login is free.
LEMMA Inserted ==
  ASSUME NEW db \in SUBSET account, NEW l \in Login, NEW d \in Cert
  PROVE  /\ add_user_db(l, d, db) \subseteq account
         /\ \A a \in add_user_db(l, d, db) :
              \/ a \in db
              \/ Registered(l, db) = {} /\ a.login = l /\ a.cert = d /\ ~ a.on
         /\ db \subseteq add_user_db(l, d, db)
<1> DEFINE new == [login |-> l, cert |-> d, on |-> FALSE]
<1>1. new \in account /\ new.login = l /\ new.cert = d /\ ~ new.on
  BY DEF account
<1> HIDE DEF new
<1>2. add_user_db(l, d, db) = IF Registered(l, db) # {} THEN db ELSE db \cup {new}
  BY DEF add_user_db, new
<1>3. QED
  BY <1>1, <1>2

\* What the statements that delete and toggle leave of the table.
LEMMA Updated ==
  ASSUME NEW db \in SUBSET account, NEW l \in Login
  PROVE  /\ delete_user(l, db) = {a \in db : a.login # l}
         /\ change_status(l, db) \subseteq account
         /\ \A a \in change_status(l, db) :
              \/ a \in db /\ a.login # l
              \/ a.login = l /\ \E b \in db : b.login = l /\ b.cert = a.cert /\ (a.on <=> ~ b.on)
         /\ \A b \in db : \E a \in change_status(l, db) : a.login = b.login /\ a.cert = b.cert
<1>2. delete_user(l, db) = {a \in db : a.login # l}
  BY DEF delete_user, Registered
<1>3. ASSUME NEW b \in db
      PROVE  LET a == [b EXCEPT !.on = ~ @] IN
             a \in account /\ a.login = b.login /\ a.cert = b.cert /\ (a.on <=> ~ b.on)
  <2> DEFINE on == ~ b.on
             a == [login |-> b.login, cert |-> b.cert, on |-> on]
  <2>1. b \in account /\ b = [login |-> b.login, cert |-> b.cert, on |-> b.on]
    BY DEF account
  <2>2. on \in BOOLEAN
    OBVIOUS
  <2> HIDE DEF on
  <2>3. [b EXCEPT !.on = on] = a
    BY <2>1
  <2>4. a \in account /\ a.login = b.login /\ a.cert = b.cert /\ a.on = on
    BY <2>1, <2>2 DEF account
  <2> HIDE DEF a
  <2>5. a.on <=> ~ b.on
    BY <2>4 DEF on
  <2>6. [b EXCEPT !.on = ~ @] = a
    BY <2>3 DEF on
  <2>7. QED
    BY <2>4, <2>5, <2>6
<1>4. change_status(l, db) = (db \ Registered(l, db)) \cup {[b EXCEPT !.on = ~ @] : b \in Registered(l, db)}
  BY DEF change_status
<1>5. Registered(l, db) \subseteq db /\ \A b \in db : b \in Registered(l, db) <=> b.login = l
  BY DEF Registered
<1>6. change_status(l, db) \subseteq account
  BY <1>3, <1>4, <1>5
<1>7. \A a \in change_status(l, db) :
        \/ a \in db /\ a.login # l
        \/ a.login = l /\ \E b \in db : b.login = l /\ b.cert = a.cert /\ (a.on <=> ~ b.on)
  <2>1. SUFFICES ASSUME NEW a \in change_status(l, db), ~ (a \in db /\ a.login # l)
                 PROVE  a.login = l /\ \E b \in db : b.login = l /\ b.cert = a.cert /\ (a.on <=> ~ b.on)
    OBVIOUS
  <2>2. PICK b \in Registered(l, db) : a = [b EXCEPT !.on = ~ @]
    BY <1>4, <1>5, <2>1
  <2>3. b \in db /\ b.login = l
    BY <1>5, <2>2
  <2>4. a.login = b.login /\ a.cert = b.cert /\ (a.on <=> ~ b.on)
    BY <1>3, <2>2, <2>3
  <2>5. QED
    BY <2>3, <2>4
<1>8. ASSUME NEW b \in db
      PROVE  \E a \in change_status(l, db) : a.login = b.login /\ a.cert = b.cert
  <2>1. CASE b.login # l
    BY <1>4, <1>5, <2>1
  <2>2. CASE b.login = l
    <3> DEFINE a == [b EXCEPT !.on = ~ @]
    <3>1. a.login = b.login /\ a.cert = b.cert
      BY <1>3
    <3>2. a \in change_status(l, db)
      BY <1>4, <1>5, <2>2
    <3> HIDE DEF a
    <3>3. QED
      BY <3>1, <3>2
  <2>3. QED
    BY <2>1, <2>2
<1>9. QED
  BY <1>2, <1>6, <1>7, <1>8

\* A login without an account has none after a toggle.
LEMMA NoneToToggle ==
  ASSUME NEW db \in SUBSET account, NEW l \in Login, NEW m \in Login, Registered(l, db) = {}
  PROVE  Registered(l, change_status(m, db)) = {}
<1>1. SUFFICES ASSUME NEW a \in change_status(m, db), a.login = l PROVE FALSE
  BY DEF Registered
<1>2. a \in db \/ (a.login = m /\ \E b \in db : b.login = m)
  BY Updated
<1>3. PICK b \in db : b.login = l
  BY <1>1, <1>2
<1>4. QED
  BY <1>3 DEF Registered

\* get_user and is_login_used: a user that the server lists, or none.
LEMMA UserNamedIs ==
  ASSUME TypeOK, TablesWellKept, NEW l \in Login
  PROVE  UserNamed(l) \in Users(server_user_map) \cup {NULL} /\ UserNamed(l) \in user \cup {NULL}
  BY GetUser, UsersOf DEF UserNamed, TypeOK, TablesWellKept

\* A room that gets another name stays in its bucket, and is not found any more.
LEMMA RenameKeeps ==
  ASSUME NEW table \in room_map, WellKept(Name, table), NEW r \in Name
  PROVE  Rename(r, table) \in room_map /\ WellKept(Name, Rename(r, table))
<1> DEFINE h   == RoomHash[r]
           p   == Position(r, table)
           x   == [table[h][p] EXCEPT !.name = Barred[r]]
           new == Rename(r, table)
<1>1. CASE ~ is_room_used(r, table)
  BY <1>1 DEF Rename
<1>2. CASE is_room_used(r, table)
  <2>1. r \in RoomName /\ h \in RoomBucket /\ table[h] \in Seq(room)
    BY Names, BucketOfName DEF room_map
  <2>2. p \in DOMAIN table[h] /\ table[h][p] \in room /\ table[h][p].name = r
        /\ WellHashed(table[h][p].users)
    BY <1>2, Names, FindRoom DEF RoomChain, RoomOf
  <2>3. x \in room /\ x.name = Barred[r] /\ x.users = table[h][p].users
    BY <2>2, Names DEF room
  <2>4. /\ new = [b \in RoomBucket |-> new[b]]
        /\ new[h] = [table[h] EXCEPT ![p] = x]
        /\ \A b \in RoomBucket : b # h => new[b] = table[b]
    BY <1>2, <2>1 DEF Rename, room_map
  <2> HIDE DEF x, p, new
  <2>5. /\ new[h] \in Seq(room) /\ DOMAIN new[h] = DOMAIN table[h]
        /\ \A i \in DOMAIN table[h] : new[h][i] = IF i = p THEN x ELSE table[h][i]
    BY <2>1, <2>2, <2>3, <2>4
  <2>6. new \in room_map
    BY <2>4, <2>5 DEF room_map
  <2>7. Barred[r] \notin Name /\ RoomHash[Barred[r]] # h
    BY <2>1, Names
  <2>8. ASSUME NEW b \in RoomBucket, NEW i \in DOMAIN new[b]
        PROVE  /\ new[b][i].name \in Name <=> RoomHash[new[b][i].name] = b
               /\ WellHashed(new[b][i].users)
               /\ new[b][i].name \in Name =>
                    \A j \in DOMAIN new[b] : new[b][j].name = new[b][i].name => j = i
    <3>1. /\ \A k \in DOMAIN table[b] : /\ table[b][k].name \in Name <=> RoomHash[table[b][k].name] = b
                                        /\ WellHashed(table[b][k].users)
          /\ \A k, m \in DOMAIN table[b] :
               table[b][k].name \in Name /\ table[b][k].name = table[b][m].name => k = m
      BY DEF WellKept, room_map
    <3>2. CASE b # h
      BY <2>4, <2>8, <3>1, <3>2
    <3>3. CASE b = h
      <4>1. CASE i = p
        BY <2>2, <2>3, <2>5, <2>7, <3>1, <3>3, <4>1
      <4>2. CASE i # p
        BY <2>2, <2>3, <2>5, <2>7, <2>8, <3>1, <3>3, <4>2
      <4>3. QED
        BY <4>1, <4>2
    <3>4. QED
      BY <3>2, <3>3
  <2>9. WellKept(Name, new)
    BY <2>4, <2>8 DEF WellKept
  <2>10. QED
    BY <2>6, <2>9 DEF new
<1>3. QED
  BY <1>1, <1>2

----------------------------------------------------------------------------
(***************************************************************************)
(* What each step leaves of the threads.                                   *)
(***************************************************************************)

\* The thread of d does not move; rooms it has yet to leave may be renamed or freed.
Keeps(d) ==
  /\ thread'[d].pc = thread[d].pc /\ thread'[d].u = thread[d].u
  /\ thread'[d].logins = thread[d].logins
  /\ thread'[d].sender = thread[d].sender /\ thread'[d].buffer = thread[d].buffer
  /\ thread'[d].first_connection = thread[d].first_connection
  /\ thread'[d].claimer = thread[d].claimer /\ thread'[d].k = thread[d].k
  /\ thread'[d].visit \subseteq Name \cup {FreedRoom}
  /\ thread'[d].visit # {} => thread[d].visit # {}

OthersKeep(c) == \A d \in Client \ {c} : Keeps(d)

\* Only the thread of c moves.
LEMMA Moved ==
  ASSUME IInv, NEW c \in Client, NEW new \in Locals, thread' = [thread EXCEPT ![c] = new]
  PROVE  thread' \in [Client -> Locals] /\ thread'[c] = new /\ OthersKeep(c)
<1>1. thread \in [Client -> Locals] /\ \A d \in Client : thread[d].visit \subseteq Name \cup {FreedRoom}
  BY DEF IInv, TypeOK, AllStandWell, StandsWell
<1>2. QED
  BY <1>1 DEF OthersKeep, Keeps

\* A thread goes on to another place with nothing else changed.
LEMMA WentTo ==
  ASSUME IInv, NEW c \in Client, NEW label \in Label, Goto(c, label)
  PROVE  /\ thread' \in [Client -> Locals] /\ OthersKeep(c)
         /\ thread'[c] = [thread[c] EXCEPT !.pc = label]
<1> DEFINE new == [thread[c] EXCEPT !.pc = label]
<1>1. thread[c] \in Locals
  BY DEF IInv, TypeOK
<1>2. new \in Locals
  BY <1>1 DEF Locals
<1>3. thread' = [thread EXCEPT ![c] = new]
  BY DEF Goto
<1>4. QED
  BY <1>2, <1>3, Moved

\* The thread of c alone moves, with the locals that a later reply needs.
Advances(c, label) ==
  /\ thread' \in [Client -> Locals] /\ OthersKeep(c)
  /\ thread'[c].pc = label /\ thread'[c].u = thread[c].u
  /\ thread'[c].sender = thread[c].sender /\ thread'[c].buffer = thread[c].buffer
  /\ thread'[c].first_connection = thread[c].first_connection
  /\ thread'[c].claimer = thread[c].claimer /\ thread'[c].k = thread[c].k
  /\ thread'[c].visit = thread[c].visit

\* A thread has its reply to write.
LEMMA Responded ==
  ASSUME IInv, NEW c \in Client, NEW code \in Reply, Respond(c, code)
  PROVE  /\ thread' \in [Client -> Locals] /\ OthersKeep(c)
         /\ thread'[c] = [thread[c] EXCEPT !.response = code, !.pc = "reply"]
         /\ Advances(c, "reply")
<1> DEFINE new == [thread[c] EXCEPT !.response = code, !.pc = "reply"]
<1>1. thread[c] \in Locals /\ thread \in [Client -> Locals]
  BY DEF IInv, TypeOK
<1>2. new \in Locals
  BY <1>1 DEF Locals, Label
<1>3. thread' = [thread EXCEPT ![c] = new]
  BY <1>1 DEF Respond
<1>4. thread' \in [Client -> Locals] /\ thread'[c] = new /\ OthersKeep(c)
  BY <1>2, <1>3, Moved
<1>5. QED
  BY <1>1, <1>4 DEF Advances, Locals

\* A thread has a list of users to write to.
LEMMA Broadcasts ==
  ASSUME IInv, NEW c \in Client, NEW label \in Label, NEW list \in SUBSET user, Broadcast(c, list, label)
  PROVE  /\ thread' \in [Client -> Locals] /\ OthersKeep(c)
         /\ thread'[c] = [thread[c] EXCEPT !.todo = list, !.pc = label]
         /\ Advances(c, label)
<1> DEFINE new == [thread[c] EXCEPT !.todo = list, !.pc = label]
<1>1. thread[c] \in Locals /\ thread \in [Client -> Locals]
  BY DEF IInv, TypeOK
<1>2. new \in Locals
  BY <1>1 DEF Locals
<1>3. thread' = [thread EXCEPT ![c] = new]
  BY <1>1 DEF Broadcast
<1>4. thread' \in [Client -> Locals] /\ thread'[c] = new /\ OthersKeep(c)
  BY <1>2, <1>3, Moved
<1>5. QED
  BY <1>1, <1>4 DEF Advances, Locals

\* A message, with keys or without, to a client that is there or not.
LEMMA Written ==
  ASSUME TypeOK, NEW d \in Client
  PROVE  /\ Write(d) => status' \in {"running", "killed"}
         /\ \A r : \A n \in Key \cup {NoKey} : WriteKeys(d, r, n) =>
              /\ status' \in {"running", "killed"}
              /\ keyring' \in [Client -> [Asked -> Key \cup {NoKey}]]
<1>1. Write(d) => status' \in {"running", "killed"}
  BY DEF Write
<1>2. ASSUME NEW r, NEW n \in Key \cup {NoKey}, WriteKeys(d, r, n)
      PROVE  keyring' \in [Client -> [Asked -> Key \cup {NoKey}]]
  BY <1>2 DEF WriteKeys, TypeOK
<1>3. QED
  BY <1>1, <1>2 DEF WriteKeys

\* A thread that moves on, with its u and without starting or ending.
LEMMA QuietStep ==
  ASSUME IInv, NEW c \in Client,
         thread' \in [Client -> Locals], OthersKeep(c), StandsWell(c)',
         thread'[c].u = thread[c].u,
         thread[c].pc \notin {"closed", "bye", "exited", "stopped"},
         thread'[c].pc \notin {"closed", "bye", "exited", "stopped"},
         UNCHANGED <<server_user_map, connected>>,
         accounts' \subseteq account, AccountsAreOwned',
         rooms' \in room_map, WellKept(Name, rooms'),
         keyring' \in [Client -> [Asked -> Key \cup {NoKey}]],
         status' \in {"running", "killed", "undefined"}
  PROVE  IInv'
<1>1. TypeOK'
  BY DEF IInv, TypeOK
<1>2. TablesWellKept'
  BY DEF IInv, TablesWellKept
<1>3. \A d \in Client : thread'[d].u = thread[d].u /\ (LoggedIn(d)' <=> LoggedIn(d))
  BY DEF OthersKeep, Keeps, LoggedIn
<1>4. ASSUME NEW d \in Client \ {c} PROVE StandsWell(d)'
  <2>1. StandsWell(d) /\ Keeps(d)
    BY DEF IInv, AllStandWell, OthersKeep
  <2>2. QED
    BY <1>3, <2>1 DEF StandsWell, Keeps, Connecting
<1>5. AllStandWell'
  BY <1>4 DEF AllStandWell
<1>6. ListedAreOwned'
  <2> SUFFICES ASSUME NEW x \in Users(server_user_map)
               PROVE  Owned(x)'
    BY DEF ListedAreOwned
  <2>1. Of(x) \in Client
    BY UsersOf, OfUser DEF IInv, TypeOK
  <2>2. Owned(x)
    BY DEF IInv, ListedAreOwned
  <2>3. QED
    BY <1>3, <2>1, <2>2 DEF Owned, OthersKeep, Keeps
<1>7. StaleIsGone'
  <2> SUFFICES ASSUME NEW d \in Client
               PROVE  \/ thread'[d].u = NULL \/ LoggedIn(d)'
                      \/ StackReuse /\ thread'[Of(thread'[d].u)].pc \in {"exited", "stopped"}
    BY DEF StaleIsGone
  <2>1. \/ thread[d].u = NULL \/ LoggedIn(d)
        \/ StackReuse /\ thread[Of(thread[d].u)].pc \in {"exited", "stopped"}
    BY DEF IInv, StaleIsGone
  <2>2. thread[d].u = NULL \/ Of(thread[d].u) \in Client
    BY OfUser DEF IInv, TypeOK, Locals
  <2>3. QED
    BY <1>3, <2>1, <2>2 DEF OthersKeep, Keeps
<1>8. Attended'
  BY DEF IInv, Attended, OthersKeep, Keeps
<1>9. QED
  BY <1>1, <1>2, <1>5, <1>6, <1>7, <1>8 DEF IInv

----------------------------------------------------------------------------
(***************************************************************************)
(* Every step keeps the invariant.                                         *)
(***************************************************************************)

\* Accounts that stay have the login and the certificate they were made with.
LEMMA AccountsStayOwned ==
  ASSUME IInv
  PROVE  /\ accounts' = accounts => accounts' \subseteq account /\ AccountsAreOwned'
         /\ \A l \in Login :
              accounts' = delete_user(l, accounts) \/ accounts' = change_status(l, accounts)
                => accounts' \subseteq account /\ AccountsAreOwned'
         /\ \A c \in Client : \A l \in LoginsOf[c] :
              accounts' = add_user_db(l, CertOf[c], accounts)
                => accounts' \subseteq account /\ AccountsAreOwned'
<1>1. accounts \in SUBSET account
  BY DEF IInv, TypeOK
<1>2. \A a \in accounts : \E c \in Client : a.login \in LoginsOf[c] /\ a.cert = CertOf[c]
  BY DEF IInv, AccountsAreOwned
<1>3. ASSUME accounts' = accounts PROVE accounts' \subseteq account /\ AccountsAreOwned'
  BY <1>1, <1>2, <1>3 DEF AccountsAreOwned
<1>4. ASSUME NEW l \in Login, accounts' = delete_user(l, accounts)
      PROVE  accounts' \subseteq account /\ AccountsAreOwned'
  <2>1. delete_user(l, accounts) \subseteq accounts
    BY DEF delete_user
  <2>2. QED
    BY <1>1, <1>2, <1>4, <2>1 DEF AccountsAreOwned
<1>5. ASSUME NEW l \in Login, accounts' = change_status(l, accounts)
      PROVE  accounts' \subseteq account /\ AccountsAreOwned'
  <2>1. change_status(l, accounts) \subseteq account
    BY <1>1, Updated
  <2>2. \A a \in change_status(l, accounts) :
          \/ a \in accounts /\ a.login # l
          \/ a.login = l /\ \E b \in accounts : b.login = l /\ b.cert = a.cert
    BY <1>1, Updated
  <2>3. QED
    BY <1>2, <1>5, <2>1, <2>2 DEF AccountsAreOwned
<1>6. ASSUME NEW c \in Client, NEW l \in LoginsOf[c], accounts' = add_user_db(l, CertOf[c], accounts)
      PROVE  accounts' \subseteq account /\ AccountsAreOwned'
  <2> DEFINE cert == CertOf[c]
             more == add_user_db(l, cert, accounts)
  <2>1. l \in Login /\ cert \in Cert /\ accounts' = more
    BY <1>6, Names
  <2> HIDE DEF cert
  <2>2. more \subseteq account /\ \A a \in more : a \in accounts \/ (a.login = l /\ a.cert = cert)
    <3>1. /\ more \subseteq account
          /\ \A a \in more : \/ a \in accounts
                             \/ Registered(l, accounts) = {} /\ a.login = l /\ a.cert = cert /\ ~ a.on
      BY <1>1, <2>1, Inserted
    <3> HIDE DEF more
    <3>2. QED
      BY <3>1
  <2> HIDE DEF more
  <2>3. \A a \in more : \E d \in Client : a.login \in LoginsOf[d] /\ a.cert = CertOf[d]
    BY <1>2, <1>6, <2>2 DEF cert
  <2>4. /\ accounts' \subseteq account
        /\ \A a \in accounts' : \E d \in Client : a.login \in LoginsOf[d] /\ a.cert = CertOf[d]
    BY <2>1, <2>2, <2>3
  <2>5. QED
    BY <2>4 DEF AccountsAreOwned
<1>7. QED
  BY <1>3, <1>4, <1>5, <1>6

\* What the invariant says of the thread that takes a step.
LEMMA Stands ==
  ASSUME IInv, NEW c \in Client
  PROVE  /\ thread[c] \in Locals /\ StandsWell(c)
         /\ thread[c].u \in user \cup {NULL}
         /\ thread[c].u \in user => thread[c].u.name \in Login /\ Of(thread[c].u) \in Client
         /\ thread[c].claimer \in user => Of(thread[c].claimer) \in Client
         /\ thread[c].sender \in Login \cup {NULL}
         /\ thread[c].buffer.code \in Decision \cup {"CREATE_ROOM_SEC", "JOIN_ROOM_SEC",
              "QUIT_ROOM_SEC", "DELETE_ROOM_SEC"} => thread[c].buffer.room \in Asked
         /\ thread[c].buffer.code \in Decision \cup {"MP_SEC"} => thread[c].buffer.name \in Login
         /\ thread[c].todo \in SUBSET user
         /\ thread[c].visit \subseteq Name \cup {FreedRoom}
<1>1. thread[c] \in Locals /\ StandsWell(c)
  BY DEF IInv, TypeOK, AllStandWell
<1>2. thread[c].buffer \in Request \cup {NoRequest}
  BY <1>1 DEF Locals
<1>3. /\ thread[c].buffer.code \in Decision \cup {"CREATE_ROOM_SEC", "JOIN_ROOM_SEC",
           "QUIT_ROOM_SEC", "DELETE_ROOM_SEC"} => thread[c].buffer.room \in Asked
      /\ thread[c].buffer.code \in Decision \cup {"MP_SEC"} => thread[c].buffer.name \in Login
  BY <1>2 DEF Request, NoRequest, Req, Decision
<1>4. QED
  BY <1>1, <1>3, OfUser DEF Locals, StandsWell

\* A step that moves no thread and changes no table.
LEMMA ThreadsRest ==
  ASSUME IInv, UNCHANGED <<tables, thread>>,
         connected' \in [Client -> BOOLEAN], connected' = connected \/ Drops,
         keyring' \in [Client -> [Asked -> Key \cup {NoKey}]],
         status' \in {"running", "killed", "undefined"}
  PROVE  IInv'
<1>1. TypeOK' /\ TablesWellKept' /\ ListedAreOwned' /\ AccountsAreOwned'
  BY DEF IInv, TypeOK, TablesWellKept, ListedAreOwned, Owned, LoggedIn, AccountsAreOwned, tables
<1>2. AllStandWell'
  BY DEF IInv, AllStandWell, StandsWell, Connecting, LoggedIn
<1>3. StaleIsGone'
  BY DEF IInv, StaleIsGone, LoggedIn
<1>4. Attended'
  BY DEF IInv, Attended
<1>5. QED
  BY <1>1, <1>2, <1>3, <1>4 DEF IInv

\* A handler that only answers.
LEMMA Answers ==
  ASSUME IInv, NEW c \in Client, NEW code \in Reply, Answer(c, code),
         thread[c].pc \notin {"closed", "bye", "exited", "stopped"}
  PROVE  IInv'
<1>1. Respond(c, code) /\ UNCHANGED <<tables, peers, status>>
  BY DEF Answer
<1>2. /\ thread' \in [Client -> Locals] /\ OthersKeep(c)
      /\ thread'[c] = [thread[c] EXCEPT !.response = code, !.pc = "reply"]
  BY <1>1, Responded
<1>3. thread[c] \in Locals /\ StandsWell(c)
  BY Stands
<1>4. StandsWell(c)'
  BY <1>2, <1>3 DEF StandsWell, Connecting, LoggedIn, Locals
<1>5. /\ accounts' \subseteq account /\ AccountsAreOwned'
      /\ rooms' \in room_map /\ WellKept(Name, rooms')
      /\ keyring' \in [Client -> [Asked -> Key \cup {NoKey}]]
      /\ status' \in {"running", "killed", "undefined"}
  BY <1>1, AccountsStayOwned DEF IInv, TypeOK, TablesWellKept, tables, peers
<1>6. thread'[c].u = thread[c].u /\ thread'[c].pc = "reply"
  BY <1>2, <1>3 DEF Locals
<1>7. QED
  BY <1>1, <1>2, <1>4, <1>5, <1>6, QuietStep DEF tables, peers

\* A step of a thread that has a request, or asks, or has a list to write to:
\* what the tables still are when it changes none of them.
LEMMA SameTables ==
  ASSUME IInv
  PROVE  /\ UNCHANGED rooms => rooms' \in room_map /\ WellKept(Name, rooms')
         /\ UNCHANGED accounts => accounts' \subseteq account /\ AccountsAreOwned'
         /\ UNCHANGED keyring => keyring' \in [Client -> [Asked -> Key \cup {NoKey}]]
         /\ UNCHANGED status => status' \in {"running", "killed", "undefined"}
  BY AccountsStayOwned DEF IInv, TypeOK, TablesWellKept

\* SSL_read returns a request (secure_server.c:165-168).
LEMMA ReceiveStep == ASSUME IInv, NEW c \in Client, Receive(c) PROVE IInv'
<1>1. PICK request \in Sent(c) :
        LET asks  == request.code = "CONNECT_SEC"
            login == IF asks THEN request.name ELSE thread[c].sender
            count == IF asks THEN thread[c].logins + 1 ELSE thread[c].logins
        IN
        /\ asks => <<c, count>> \in Conn
        /\ login # NULL
        /\ thread' = [thread EXCEPT ![c].buffer = request, ![c].sender = login,
                                    ![c].logins = count, ![c].pc = "handle"]
  BY DEF Receive
<1> DEFINE asks == request.code = "CONNECT_SEC"
           login == IF asks THEN request.name ELSE thread[c].sender
           count == IF asks THEN thread[c].logins + 1 ELSE thread[c].logins
           new == [thread[c] EXCEPT !.buffer = request, !.sender = login, !.logins = count,
                                    !.pc = "handle"]
<1>2. thread[c] \in Locals /\ StandsWell(c) /\ thread \in [Client -> Locals] /\ thread[c].pc = "read"
  BY Stands DEF Receive, Step, IInv, TypeOK
<1>3. request \in Request /\ (request.code = "CONNECT_SEC" => request.name \in LoginsOf[c])
  BY DEF Sent
<1>4. login \in Login /\ count \in Nat
  <2>1. thread[c].logins \in Nat
    BY <1>2 DEF Locals
  <2>2. QED
    BY <1>1, <1>2, <1>3, <2>1, Names DEF Locals
<1>5. new \in Locals
  <2>1. "handle" \in Label
    BY DEF Label
  <2> HIDE DEF login, count
  <2>2. QED
    BY <1>2, <1>3, <1>4, <2>1 DEF Locals
<1>6. thread' = [thread EXCEPT ![c] = new]
  BY <1>1, <1>2
<1>7. thread' \in [Client -> Locals] /\ thread'[c] = new /\ OthersKeep(c)
  BY <1>5, <1>6, Moved
<1>8. /\ new.u = thread[c].u /\ new.pc = "handle" /\ new.buffer = request /\ new.sender = login
      /\ new.logins = count
      /\ new.first_connection = thread[c].first_connection /\ new.k = thread[c].k
      /\ new.visit = thread[c].visit
  BY <1>2 DEF Locals
<1> HIDE DEF new
<1>9. StandsWell(c)'
  BY <1>1, <1>2, <1>3, <1>7, <1>8 DEF StandsWell, Connecting, LoggedIn
<1>10. UNCHANGED <<accounts, server_user_map, rooms, connected, keyring, status>>
  BY DEF Receive, tables, peers
<1>11. QED
  BY <1>2, <1>7, <1>8, <1>9, <1>10, SameTables, QuietStep

\* A handler goes on to the next place in it.
LEMMA GoesOn ==
  ASSUME IInv, NEW c \in Client,
         NEW label \in Label \ {"closed", "bye", "exited", "stopped"}, Goto(c, label),
         thread[c].pc \notin {"closed", "bye", "exited", "stopped"},
         UNCHANGED <<tables, peers, status>>,
         label \in {"certificate", "insert", "enter"} => Connecting(c),
         label = "mp" => thread[c].buffer.code = "MP_SEC",
         label \in {"certificate", "insert", "enter", "ask", "mp"}
  PROVE  IInv'
<1>1. /\ thread' \in [Client -> Locals] /\ OthersKeep(c)
      /\ thread'[c] = [thread[c] EXCEPT !.pc = label]
  BY WentTo
<1>2. thread[c] \in Locals /\ StandsWell(c)
  BY Stands
<1>3. StandsWell(c)'
  BY <1>1, <1>2 DEF StandsWell, Connecting, LoggedIn, Locals
<1>4. thread'[c].u = thread[c].u /\ thread'[c].pc = label
  BY <1>1, <1>2 DEF Locals
<1>5. UNCHANGED <<accounts, server_user_map, rooms, connected, keyring, status>>
  BY DEF tables, peers
<1>6. QED
  BY <1>1, <1>3, <1>4, <1>5, SameTables, QuietStep

\* CONNECT_SEC, up to the account (secure_server.c:423-440).
LEMMA ConnectSteps ==
  ASSUME IInv, NEW c \in Client, ConnectSec(c) \/ CheckCertificate(c) \/ AddAccount(c)
  PROVE  IInv'
<1>1. CASE ConnectSec(c)
  <2>1. thread[c].pc = "handle" /\ Connecting(c)
    BY <1>1 DEF ConnectSec, Handle, Step, Connecting
  <2>2. CASE Answer(c, "CONNECT_SEC_KO")
    BY <2>1, <2>2, Answers DEF Reply
  <2>3. CASE \E label \in {"certificate", "enter"} : Goto(c, label) /\ UNCHANGED <<tables, peers, status>>
    <3>1. PICK label \in {"certificate", "enter"} : Goto(c, label) /\ UNCHANGED <<tables, peers, status>>
      BY <2>3
    <3>2. label \in Label \ {"closed", "bye", "exited", "stopped"}
      BY DEF Label
    <3>3. QED
      BY <2>1, <3>1, <3>2, GoesOn
  <2>4. QED
    BY <1>1, <2>2, <2>3 DEF ConnectSec
<1>2. CASE CheckCertificate(c)
  <2>1. thread[c].pc = "certificate" /\ Connecting(c)
    BY <1>2 DEF CheckCertificate, Step, Connecting
  <2>2. CASE Answer(c, "CONNECT_SEC_KO")
    BY <2>1, <2>2, Answers DEF Reply
  <2>3. CASE Goto(c, "insert") /\ UNCHANGED <<tables, peers, status>>
    <3>1. "insert" \in Label \ {"closed", "bye", "exited", "stopped"}
      BY DEF Label
    <3>2. QED
      BY <2>1, <2>3, <3>1, GoesOn
  <2>4. QED
    BY <1>2, <2>2, <2>3 DEF CheckCertificate
<1>3. CASE AddAccount(c)
  <2> DEFINE new == [thread[c] EXCEPT !.first_connection = TRUE, !.pc = "enter"]
  <2>1. thread[c] \in Locals /\ StandsWell(c) /\ thread \in [Client -> Locals] /\ thread[c].pc = "insert"
    BY <1>3, Stands DEF AddAccount, Step, IInv, TypeOK
  <2>2. new \in Locals
    BY <2>1 DEF Locals, Label
  <2>3. thread' = [thread EXCEPT ![c] = new]
    BY <1>3, <2>1 DEF AddAccount
  <2>4. thread' \in [Client -> Locals] /\ thread'[c] = new /\ OthersKeep(c)
    BY <2>2, <2>3, Moved
  <2>5. /\ new.u = thread[c].u /\ new.pc = "enter" /\ new.sender = thread[c].sender
        /\ new.logins = thread[c].logins /\ new.visit = thread[c].visit
    BY <2>1 DEF Locals
  <2> HIDE DEF new
  <2>6. StandsWell(c)'
    BY <2>1, <2>4, <2>5 DEF StandsWell, Connecting, LoggedIn
  <2>7. thread[c].sender \in LoginsOf[c]
    BY <2>1 DEF StandsWell, Connecting
  <2>8. accounts' \subseteq account /\ AccountsAreOwned'
    BY <1>3, <2>7, AccountsStayOwned DEF AddAccount
  <2>9. UNCHANGED <<server_user_map, rooms, connected, keyring, status>>
    BY <1>3 DEF AddAccount, peers
  <2>10. QED
    BY <2>1, <2>4, <2>5, <2>6, <2>8, <2>9, SameTables, QuietStep
<1>4. QED
  BY <1>1, <1>2, <1>3

\* A new user is listed, and it is that of the thread (secure_server.c:442-456).
LEMMA EnterStep == ASSUME IInv, NEW c \in Client, Enter(c) PROVE IInv'
<1> DEFINE x == [name |-> thread[c].sender, socket |-> <<c, thread[c].logins>>]
           list == get_users(HomeRoom, rooms)
           new == [thread[c] EXCEPT !.u = x, !.todo = list, !.pc = "join_new"]
<1>1. thread[c] \in Locals /\ StandsWell(c) /\ thread \in [Client -> Locals] /\ thread[c].pc = "enter"
  BY Stands DEF Enter, Step, IInv, TypeOK
<1>2. /\ thread[c].sender \in LoginsOf[c] /\ thread[c].sender \in Login
      /\ <<c, thread[c].logins>> \in Conn
  BY <1>1, Names DEF StandsWell, Connecting
<1>3. x \in user /\ x.name = thread[c].sender /\ Of(x) = c /\ x # NULL
  BY <1>2, Names DEF user, Of
<1>4. list \in SUBSET user
  BY Names, GetUsers DEF IInv, TypeOK, TablesWellKept
<1>5. /\ server_user_map' = add_user(x, server_user_map)
      /\ accounts' = change_status(thread[c].sender, accounts)
      /\ UNCHANGED <<rooms, connected, keyring, status>>
  BY DEF Enter, peers
<1>6. thread' = [thread EXCEPT ![c].u = x, ![c].todo = list, ![c].pc = "join_new"]
  BY DEF Enter
<1> HIDE DEF x, list
<1>7. new \in Locals
  <2>1. "join_new" \in Label
    BY DEF Label
  <2>2. QED
    BY <1>1, <1>3, <1>4, <2>1 DEF Locals
<1>8. thread' = [thread EXCEPT ![c] = new]
  BY <1>1, <1>6
<1>9. thread' \in [Client -> Locals] /\ thread'[c] = new /\ OthersKeep(c)
  BY <1>7, <1>8, Moved
<1>10. /\ new.u = x /\ new.pc = "join_new" /\ new.sender = thread[c].sender
       /\ new.visit = thread[c].visit /\ new.first_connection = thread[c].first_connection
  BY <1>1 DEF Locals
<1> HIDE DEF new
<1>11. StandsWell(c)'
  BY <1>1, <1>2, <1>3, <1>9, <1>10 DEF StandsWell, Connecting, LoggedIn
<1>12. /\ server_user_map' \in user_map /\ WellHashed(server_user_map')
       /\ Users(server_user_map') \subseteq Users(server_user_map) \cup {x}
  BY <1>3, <1>5, AddUser DEF IInv, TypeOK, TablesWellKept
<1>13. accounts' \subseteq account /\ AccountsAreOwned'
  BY <1>2, <1>5, AccountsStayOwned
<1>14. TypeOK' /\ TablesWellKept'
  BY <1>5, <1>9, <1>12, <1>13 DEF IInv, TypeOK, TablesWellKept
<1>15. ASSUME NEW d \in Client \ {c} PROVE StandsWell(d)' /\ (LoggedIn(d)' <=> LoggedIn(d))
  <2>1. StandsWell(d) /\ Keeps(d)
    BY <1>9 DEF IInv, AllStandWell, OthersKeep
  <2>2. LoggedIn(d)' <=> LoggedIn(d)
    BY <2>1 DEF LoggedIn, Keeps
  <2>3. QED
    BY <2>1, <2>2 DEF StandsWell, Keeps, Connecting
<1>16. AllStandWell'
  BY <1>11, <1>15 DEF AllStandWell
<1>17. ListedAreOwned'
  <2> SUFFICES ASSUME NEW y \in Users(server_user_map')
               PROVE  Owned(y)'
    BY DEF ListedAreOwned
  <2>1. CASE Of(y) = c
    <3>1. thread'[c].u = x /\ thread'[c].pc = "join_new"
      BY <1>9, <1>10
    <3>2. QED
      BY <1>3, <2>1, <3>1 DEF Owned, LoggedIn
  <2>2. CASE Of(y) # c
    <3>1. y \in Users(server_user_map) /\ Of(y) \in Client
      BY <1>3, <1>12, <2>2, UsersOf, OfUser DEF IInv, TypeOK
    <3>2. Owned(y)
      BY <3>1 DEF IInv, ListedAreOwned
    <3>3. QED
      BY <1>9, <1>15, <2>2, <3>1, <3>2 DEF Owned, OthersKeep, Keeps
  <2>3. QED
    BY <2>1, <2>2
<1>18. StaleIsGone'
  <2> SUFFICES ASSUME NEW d \in Client \ {c}
               PROVE  \/ thread'[d].u = NULL \/ LoggedIn(d)'
                      \/ StackReuse /\ thread'[Of(thread'[d].u)].pc \in {"exited", "stopped"}
    BY <1>3, <1>9, <1>10 DEF StaleIsGone, LoggedIn
  <2>1. \/ thread[d].u = NULL \/ LoggedIn(d)
        \/ StackReuse /\ thread[Of(thread[d].u)].pc \in {"exited", "stopped"}
    BY DEF IInv, StaleIsGone
  <2>2. thread[d].u = NULL \/ Of(thread[d].u) \in Client
    BY OfUser DEF IInv, TypeOK, Locals
  <2>3. thread'[d].u = thread[d].u
    BY <1>9 DEF OthersKeep, Keeps
  <2>4. QED
    BY <1>1, <1>9, <1>15, <2>1, <2>2, <2>3 DEF OthersKeep, Keeps
<1>19. Attended'
  BY <1>1, <1>5, <1>9, <1>10 DEF IInv, Attended, OthersKeep, Keeps
<1>20. QED
  BY <1>13, <1>14, <1>16, <1>17, <1>18, <1>19 DEF IInv

\* join_room, for the home room (secure_server.c:512-526).
LEMMA JoinEnterStep == ASSUME IInv, NEW c \in Client, JoinEnter(c) PROVE IInv'
<1>1. thread[c] \in Locals /\ StandsWell(c) /\ thread[c].pc = "join_new" /\ thread[c].u \in user
  BY Stands DEF JoinEnter, Step, StandsWell
<1>2. /\ rooms' = add_user_in_room(thread[c].u, HomeRoom, rooms)
      /\ Write(c) /\ Broadcast(c, get_users(HomeRoom, rooms'), "join_list")
      /\ UNCHANGED <<accounts, server_user_map, connected, keyring>>
  BY DEF JoinEnter, peers
<1>3. rooms' \in room_map /\ WellKept(Name, rooms')
  BY <1>1, <1>2, Names, AddUserInRoom DEF IInv, TypeOK, TablesWellKept
<1>4. get_users(HomeRoom, rooms') \in SUBSET user /\ "join_list" \in Label
  BY <1>3, Names, GetUsers DEF Label
<1>5. Advances(c, "join_list")
  BY <1>2, <1>4, Broadcasts
<1>6. StandsWell(c)'
  BY <1>1, <1>5 DEF StandsWell, Advances, Connecting, LoggedIn
<1>7. status' \in {"running", "killed", "undefined"}
  BY <1>2 DEF Write
<1>8. QED
  BY <1>1, <1>2, <1>3, <1>5, <1>6, <1>7, SameTables, QuietStep DEF Advances

\* CONNECT_OK and DEL_ACCOUNT_SEC (secure_server.c:405-422).
LEMMA AccountSteps == ASSUME IInv, NEW c \in Client, ConnectOk(c) \/ DelAccount(c) PROVE IInv'
<1>1. thread[c] \in Locals /\ StandsWell(c) /\ thread \in [Client -> Locals] /\ thread[c].pc = "handle"
  BY Stands DEF ConnectOk, DelAccount, Handle, Step, IInv, TypeOK
<1>2. CASE ConnectOk(c)
  <2> DEFINE new == [thread[c] EXCEPT !.first_connection = FALSE, !.response = "CONNECT_SEC_OK",
                                      !.pc = "reply"]
  <2>1. new \in Locals
    BY <1>1 DEF Locals, Label, Reply
  <2>2. thread' = [thread EXCEPT ![c] = new]
    BY <1>1, <1>2 DEF ConnectOk
  <2>3. thread' \in [Client -> Locals] /\ thread'[c] = new /\ OthersKeep(c)
    BY <2>1, <2>2, Moved
  <2>4. /\ new.u = thread[c].u /\ new.pc = "reply" /\ ~ new.first_connection
        /\ new.visit = thread[c].visit
    BY <1>1 DEF Locals
  <2> HIDE DEF new
  <2>5. StandsWell(c)'
    BY <1>1, <2>3, <2>4 DEF StandsWell, Connecting, LoggedIn
  <2>6. UNCHANGED <<accounts, server_user_map, rooms, connected, keyring, status>>
    BY <1>2 DEF ConnectOk, tables, peers
  <2>7. QED
    BY <1>1, <2>3, <2>4, <2>5, <2>6, SameTables, QuietStep
<1>3. CASE DelAccount(c)
  <2>1. thread[c].u \in user /\ thread[c].u.name \in Login
    BY <1>3, Stands DEF DelAccount, Usable
  <2>2. accounts' \subseteq account /\ AccountsAreOwned'
    BY <1>3, <2>1, AccountsStayOwned DEF DelAccount
  <2>3. Advances(c, "reply")
    <3>1. Respond(c, "DEL_ACCOUNT_SEC") /\ "DEL_ACCOUNT_SEC" \in Reply
      BY <1>3 DEF DelAccount, Reply
    <3>2. QED
      BY <3>1, Responded
  <2>4. StandsWell(c)'
    BY <1>1, <2>3 DEF StandsWell, Advances, Connecting, LoggedIn
  <2>5. UNCHANGED <<server_user_map, rooms, connected, keyring, status>>
    BY <1>3 DEF DelAccount, peers
  <2>6. QED
    BY <1>1, <2>2, <2>3, <2>4, <2>5, SameTables, QuietStep DEF Advances
<1>4. QED
  BY <1>2, <1>3

\* A thread with a reply to write may rely on what it relied on before.
LEMMA RepliesStand ==
  ASSUME IInv, NEW c \in Client,
         Advances(c, "reply") \/ Advances(c, "join_list") \/ Advances(c, "ask")
  PROVE  StandsWell(c)'
  BY DEF IInv, AllStandWell, StandsWell, Advances, Connecting, LoggedIn

\* A thread whose client holds a request for a room that exists, or not.
LEMMA RoomTables ==
  ASSUME IInv, NEW r \in Name
  PROVE  /\ get_users(r, rooms) \in SUBSET user
         /\ get_admin(r, rooms) \in user \cup {NULL}
         /\ remove_room(r, rooms) \in room_map /\ WellKept(Name, remove_room(r, rooms))
         /\ \A x \in user :
              /\ add_user_in_room(x, r, rooms) \in room_map
              /\ WellKept(Name, add_user_in_room(x, r, rooms))
              /\ remove_user_from_room(x, r, rooms) \in room_map
              /\ WellKept(Name, remove_user_from_room(x, r, rooms))
<1>1. rooms \in room_map /\ WellKept(Name, rooms) /\ Name \in SUBSET RoomName
  BY Names DEF IInv, TypeOK, TablesWellKept
<1>2. get_users(r, rooms) \in SUBSET user /\ get_admin(r, rooms) \in user \cup {NULL}
  BY <1>1, GetUsers, GetAdmin
<1>3. remove_room(r, rooms) \in room_map /\ WellKept(Name, remove_room(r, rooms))
  BY <1>1, RemoveRoom
<1>4. ASSUME NEW x \in user
      PROVE  /\ add_user_in_room(x, r, rooms) \in room_map
             /\ WellKept(Name, add_user_in_room(x, r, rooms))
             /\ remove_user_from_room(x, r, rooms) \in room_map
             /\ WellKept(Name, remove_user_from_room(x, r, rooms))
  BY <1>1, AddUserInRoom, RemoveUserFromRoom
<1>5. QED
  BY <1>2, <1>3, <1>4

\* CREATE_ROOM_SEC, up to the new room (secure_server.c:170-202).
LEMMA CreateSteps == ASSUME IInv, NEW c \in Client, CreateRoomSec(c) \/ CreateEnter(c) PROVE IInv'
<1>1. thread[c] \in Locals /\ StandsWell(c) /\ thread \in [Client -> Locals]
  BY Stands DEF IInv, TypeOK
<1>2. CASE CreateRoomSec(c)
  <2>1. thread[c].pc = "handle" /\ thread[c].buffer.room \in Asked /\ thread[c].k = NoKey
    BY <1>1, <1>2, Stands DEF CreateRoomSec, Handle, Step, StandsWell
  <2>2. CASE Answer(c, "CREATE_ROOM_KO")
    BY <2>1, <2>2, Answers DEF Reply
  <2>3. CASE /\ thread' = [thread EXCEPT ![c].k = FreshKey, ![c].pc = "create"]
             /\ UNCHANGED <<tables, peers, status>>
    <3> DEFINE key == FreshKey
               new == [thread[c] EXCEPT !.k = key, !.pc = "create"]
    <3>1. key \in Key
      BY <2>1, FreshKeyIsKey DEF IInv
    <3>2. thread' = [thread EXCEPT ![c].k = key, ![c].pc = "create"]
      BY <2>3
    <3> HIDE DEF key
    <3>3. new \in Locals
      BY <1>1, <3>1 DEF Locals, Label
    <3>4. thread' = [thread EXCEPT ![c] = new]
      BY <1>1, <3>2
    <3>5. thread' \in [Client -> Locals] /\ thread'[c] = new /\ OthersKeep(c)
      BY <3>3, <3>4, Moved
    <3>6. /\ new.u = thread[c].u /\ new.pc = "create" /\ new.sender = thread[c].sender
          /\ new.buffer = thread[c].buffer /\ new.visit = thread[c].visit
          /\ new.first_connection = thread[c].first_connection
      BY <1>1 DEF Locals
    <3> HIDE DEF new
    <3>7. StandsWell(c)'
      BY <1>1, <2>1, <3>5, <3>6 DEF StandsWell, Connecting, LoggedIn
    <3>8. UNCHANGED <<accounts, server_user_map, rooms, connected, keyring, status>>
      BY <2>3 DEF tables, peers
    <3>9. QED
      BY <2>1, <3>5, <3>6, <3>7, <3>8, SameTables, QuietStep
  <2>4. QED
    BY <1>2, <2>2, <2>3 DEF CreateRoomSec
<1>3. CASE CreateEnter(c)
  <2> DEFINE r == thread[c].buffer.room
             x == thread[c].u
             mid == add_room(r, x, rooms)
  <2>1. thread[c].pc = "create" /\ r \in Asked /\ r \in Name /\ x \in user
    BY <1>1, <1>3, Stands, Names DEF CreateEnter, Step, StandsWell, Usable
  <2>2. rooms' = add_user_in_room(x, r, mid) /\ Respond(c, "CREATE_ROOM_SEC")
        /\ UNCHANGED <<accounts, server_user_map, connected, keyring, status>>
    BY <1>3 DEF CreateEnter, peers
  <2> HIDE DEF r, x
  <2>3. mid \in room_map /\ WellKept(Name, mid)
    BY <2>1, Names, AddRoom DEF IInv, TypeOK, TablesWellKept
  <2> HIDE DEF mid
  <2>4. rooms' \in room_map /\ WellKept(Name, rooms')
    BY <2>1, <2>2, <2>3, Names, AddUserInRoom
  <2>5. Advances(c, "reply")
    BY <2>2, Responded DEF Reply
  <2>6. QED
    BY <2>1, <2>2, <2>4, <2>5, RepliesStand, SameTables, QuietStep DEF Advances
<1>4. QED
  BY <1>2, <1>3

\* JOIN_ROOM_SEC (secure_server.c:298-315).
LEMMA JoinSteps == ASSUME IInv, NEW c \in Client, JoinRoomSec(c) \/ AskAdmin(c) PROVE IInv'
<1>1. CASE JoinRoomSec(c)
  <2>1. thread[c].pc = "handle"
    BY <1>1 DEF JoinRoomSec, Handle, Step
  <2>2. CASE Answer(c, "JOIN_ROOM_KO")
    BY <2>1, <2>2, Answers DEF Reply
  <2>3. CASE Goto(c, "ask") /\ UNCHANGED <<tables, peers, status>>
    <3>1. "ask" \in Label \ {"closed", "bye", "exited", "stopped"}
      BY DEF Label
    <3>2. QED
      BY <2>1, <2>3, <3>1, GoesOn
  <2>4. QED
    BY <1>1, <2>2, <2>3 DEF JoinRoomSec
<1>2. CASE AskAdmin(c)
  <2> DEFINE admin == get_admin(thread[c].buffer.room, rooms)
  <2>1. /\ thread[c].pc = "ask" /\ Write(Of(admin)) /\ Respond(c, "OK")
        /\ UNCHANGED <<accounts, server_user_map, rooms, connected, keyring>>
    BY <1>2 DEF AskAdmin, Step, tables, peers
  <2>2. status' \in {"running", "killed", "undefined"}
    BY <2>1 DEF Write
  <2>3. Advances(c, "reply")
    BY <2>1, Responded DEF Reply
  <2>4. QED
    BY <2>1, <2>2, <2>3, RepliesStand, SameTables, QuietStep DEF Advances
<1>3. QED
  BY <1>1, <1>2

\* The admin decides, or is told that it cannot (secure_server.c:203-207,240-250,281-286).
LEMMA DecisionSteps ==
  ASSUME IInv, NEW c \in Client, DecisionRefused(c) \/ AdminDecides(c)
  PROVE  IInv'
<1>1. CASE DecisionRefused(c)
  <2>1. thread[c].pc = "handle" /\ Answer(c, "KO")
    BY <1>1 DEF DecisionRefused, Step
  <2>2. QED
    BY <2>1, Answers DEF Reply
<1>2. CASE AdminDecides(c)
  <2> DEFINE x == UserNamed(thread[c].buffer.name)
             new == [thread[c] EXCEPT !.claimer = x, !.pc = "decide"]
  <2>1. /\ thread[c] \in Locals /\ StandsWell(c) /\ thread \in [Client -> Locals]
        /\ thread[c].pc = "handle" /\ thread[c].k = NoKey
        /\ thread[c].buffer.name \in Login /\ thread[c].buffer.room \in Asked
    BY <1>2, Stands DEF AdminDecides, Step, IInv, TypeOK, StandsWell
  <2>2. x \in user
    BY <1>2, <2>1, UserNamedIs DEF AdminDecides, IInv
  <2>3. thread' = [thread EXCEPT ![c].claimer = x, ![c].pc = "decide"]
    BY <1>2 DEF AdminDecides
  <2> HIDE DEF x
  <2>4. new \in Locals
    BY <2>1, <2>2 DEF Locals, Label
  <2>5. thread' = [thread EXCEPT ![c] = new]
    BY <2>1, <2>3
  <2>6. thread' \in [Client -> Locals] /\ thread'[c] = new /\ OthersKeep(c)
    BY <2>4, <2>5, Moved
  <2>7. /\ new.u = thread[c].u /\ new.pc = "decide" /\ new.sender = thread[c].sender
        /\ new.buffer = thread[c].buffer /\ new.visit = thread[c].visit
        /\ new.first_connection = thread[c].first_connection
        /\ new.claimer = x /\ new.k = thread[c].k
    BY <2>1 DEF Locals
  <2> HIDE DEF new
  <2>8. StandsWell(c)'
    BY <2>1, <2>2, <2>6, <2>7, Names DEF StandsWell, Connecting, LoggedIn
  <2>9. UNCHANGED <<accounts, server_user_map, rooms, connected, keyring, status>>
    BY <1>2 DEF AdminDecides, tables, peers
  <2>10. QED
    BY <2>1, <2>6, <2>7, <2>8, <2>9, SameTables, QuietStep
<1>3. QED
  BY <1>1, <1>2

\* The room changes, and new keys are dealt (secure_server.c:210-222,251-263,281-296).
LEMMA DealSteps ==
  ASSUME IInv, NEW c \in Client, AcceptJoin(c) \/ Eject(c) \/ RefuseJoin(c)
  PROVE  IInv'
<1> DEFINE r == thread[c].buffer.room
           x == thread[c].claimer
<1>1. /\ thread[c] \in Locals /\ StandsWell(c) /\ thread \in [Client -> Locals]
      /\ thread[c].pc = "decide" /\ thread[c].k = NoKey
      /\ x \in user /\ r \in Asked /\ r \in Name
  BY Stands, Names DEF AcceptJoin, Eject, RefuseJoin, Decide, Step, IInv, TypeOK, StandsWell, Locals
<1>2. ASSUME NEW changed, DealKeys(c, changed), changed \in room_map, WellKept(Name, changed)
      PROVE  IInv'
  <2> DEFINE key == FreshKey
             new == [thread[c] EXCEPT !.k = key, !.pc = "claimer"]
  <2>1. key \in Key
    BY <1>1, FreshKeyIsKey DEF IInv
  <2>2. thread' = [thread EXCEPT ![c].k = key, ![c].pc = "claimer"]
    BY <1>2 DEF DealKeys
  <2> HIDE DEF key
  <2>3. new \in Locals
    BY <1>1, <2>1 DEF Locals, Label
  <2>4. thread' = [thread EXCEPT ![c] = new]
    BY <1>1, <2>2
  <2>5. thread' \in [Client -> Locals] /\ thread'[c] = new /\ OthersKeep(c)
    BY <2>3, <2>4, Moved
  <2>6. /\ new.u = thread[c].u /\ new.pc = "claimer" /\ new.sender = thread[c].sender
        /\ new.buffer = thread[c].buffer /\ new.visit = thread[c].visit
        /\ new.first_connection = thread[c].first_connection /\ new.claimer = x
    BY <1>1 DEF Locals
  <2> HIDE DEF new, r, x
  <2>7. StandsWell(c)'
    BY <1>1, <2>5, <2>6, Names DEF StandsWell, Connecting, LoggedIn, r
  <2>8. /\ UNCHANGED <<accounts, server_user_map, connected, keyring, status>>
        /\ rooms' \in room_map /\ WellKept(Name, rooms')
    BY <1>2 DEF DealKeys, peers
  <2>9. QED
    BY <1>1, <2>5, <2>6, <2>7, <2>8, SameTables, QuietStep
<1>3. CASE AcceptJoin(c)
  <2>1. DealKeys(c, add_user_in_room(x, r, rooms))
    BY <1>3 DEF AcceptJoin
  <2> HIDE DEF x, r
  <2>2. QED
    BY <1>1, <1>2, <2>1, RoomTables
<1>4. CASE Eject(c)
  <2>1. DealKeys(c, remove_user_from_room(x, r, rooms))
    BY <1>4 DEF Eject
  <2> HIDE DEF x, r
  <2>2. QED
    BY <1>1, <1>2, <2>1, RoomTables
<1>5. CASE RefuseJoin(c)
  <2>1. /\ Write(Of(x)) /\ Respond(c, "OK")
        /\ UNCHANGED <<accounts, server_user_map, rooms, connected, keyring>>
    BY <1>5 DEF RefuseJoin, tables, peers
  <2>2. status' \in {"running", "killed", "undefined"}
    BY <2>1 DEF Write
  <2>3. Advances(c, "reply")
    BY <2>1, Responded DEF Reply
  <2>4. QED
    BY <1>1, <2>1, <2>2, <2>3, RepliesStand, SameTables, QuietStep DEF Advances
<1>6. QED
  BY <1>3, <1>4, <1>5 DEF AcceptJoin, Eject, RefuseJoin

\* MP_SEC, whose receiver is looked up twice (secure_server.c:347-371).
LEMMA MpSteps == ASSUME IInv, NEW c \in Client, MpSec(c) \/ MpKeys(c) PROVE IInv'
<1>1. /\ thread[c] \in Locals /\ StandsWell(c) /\ thread \in [Client -> Locals]
      /\ thread[c].pc \in {"handle", "mp"}
  BY Stands DEF MpSec, MpKeys, Handle, Step, IInv, TypeOK
<1>2. CASE MpSec(c)
  <2>1. CASE Answer(c, "MP_SEC_KO")
    BY <1>1, <2>1, Answers DEF Reply
  <2>2. CASE Goto(c, "mp") /\ UNCHANGED <<tables, peers, status>>
    <3>1. "mp" \in Label \ {"closed", "bye", "exited", "stopped"}
      BY DEF Label
    <3>2. thread[c].buffer.code = "MP_SEC"
      BY <1>2 DEF MpSec, Handle
    <3>3. QED
      BY <1>1, <2>2, <3>1, <3>2, GoesOn
  <2>3. QED
    BY <1>2, <2>1, <2>2 DEF MpSec
<1>3. CASE MpKeys(c)
  <2> DEFINE x == UserNamed(thread[c].buffer.name)
             new == [thread[c] EXCEPT !.claimer = x, !.pc = "claimer"]
  <2>1. /\ thread[c].pc = "mp" /\ Write(Of(thread[c].u))
        /\ thread' = [thread EXCEPT ![c].claimer = x, ![c].pc = "claimer"]
        /\ UNCHANGED <<accounts, server_user_map, rooms, connected, keyring>>
    BY <1>3 DEF MpKeys, Step, tables, peers
  <2>2. thread[c].buffer.code = "MP_SEC" /\ thread[c].buffer.name \in Login
    BY <1>1, <2>1, Stands DEF StandsWell
  <2>3. x \in user \cup {NULL}
    BY <2>2, UserNamedIs DEF IInv
  <2> HIDE DEF x
  <2>4. new \in Locals
    BY <1>1, <2>3 DEF Locals, Label
  <2>5. thread' = [thread EXCEPT ![c] = new]
    BY <1>1, <2>1
  <2>6. thread' \in [Client -> Locals] /\ thread'[c] = new /\ OthersKeep(c)
    BY <2>4, <2>5, Moved
  <2>7. /\ new.u = thread[c].u /\ new.pc = "claimer" /\ new.sender = thread[c].sender
        /\ new.buffer = thread[c].buffer /\ new.visit = thread[c].visit
        /\ new.first_connection = thread[c].first_connection
    BY <1>1 DEF Locals
  <2> HIDE DEF new
  <2>8. StandsWell(c)'
    BY <1>1, <2>2, <2>6, <2>7 DEF StandsWell, Connecting
  <2>9. status' \in {"running", "killed", "undefined"}
    BY <2>1 DEF Write
  <2>10. QED
    BY <2>1, <2>6, <2>7, <2>8, <2>9, SameTables, QuietStep
<1>4. QED
  BY <1>2, <1>3

\* The message to the other user (secure_server.c:218-229,253-267,357-371).
LEMMA TellClaimerStep == ASSUME IInv, NEW c \in Client, TellClaimer(c) PROVE IInv'
<1> DEFINE r == thread[c].buffer.room
           x == thread[c].claimer
           n == IF thread[c].buffer.code = "EJECT_FROM_ROOM_SEC" THEN NoKey ELSE thread[c].k
<1>1. /\ thread[c] \in Locals /\ StandsWell(c) /\ thread[c].pc = "claimer"
      /\ x \in user /\ Of(x) \in Client
      /\ thread[c].buffer.code = "MP_SEC" \/ r \in Asked
      /\ n \in Key \cup {NoKey}
  BY Stands DEF TellClaimer, Step, StandsWell, Locals
<1>2. UNCHANGED <<accounts, server_user_map, rooms, connected>>
  BY DEF TellClaimer, tables
<1>3. CASE thread[c].buffer.code = "MP_SEC"
  <2>1. Write(Of(x)) /\ Respond(c, "MP_SEC") /\ UNCHANGED keyring
    BY <1>3 DEF TellClaimer
  <2>2. status' \in {"running", "killed", "undefined"}
    BY <2>1 DEF Write
  <2>3. Advances(c, "reply")
    BY <2>1, Responded DEF Reply
  <2>4. QED
    BY <1>1, <1>2, <2>1, <2>2, <2>3, RepliesStand, SameTables, QuietStep DEF Advances
<1>4. CASE thread[c].buffer.code # "MP_SEC"
  <2>1. WriteKeys(Of(x), r, n) /\ Broadcast(c, get_users(r, rooms), "deal")
    BY <1>4 DEF TellClaimer
  <2>2. r \in Asked /\ r \in Name
    BY <1>1, <1>4, Names
  <2> HIDE DEF r, n, x
  <2>3. /\ status' \in {"running", "killed", "undefined"}
        /\ keyring' \in [Client -> [Asked -> Key \cup {NoKey}]]
    BY <1>1, <2>1, <2>2, Written DEF IInv
  <2>4. get_users(r, rooms) \in SUBSET user /\ "deal" \in Label
    BY <2>2, RoomTables DEF Label
  <2>5. Advances(c, "deal")
    BY <2>1, <2>4, Broadcasts
  <2>6. StandsWell(c)'
    BY <1>1, <2>2, <2>5 DEF StandsWell, Advances, Connecting, LoggedIn, r
  <2>7. QED
    BY <1>1, <1>2, <2>3, <2>5, <2>6, SameTables, QuietStep DEF Advances
<1>5. QED
  BY <1>3, <1>4

\* One message of a broadcast, or its end (secure_server.c:226-235,265-274,507-510,527-534).
LEMMA NotifySteps ==
  ASSUME IInv, NEW c \in Client, Notify(c) \/ NotifyDone(c)
  PROVE  IInv'
<1> DEFINE r == thread[c].buffer.room
<1>1. thread[c] \in Locals /\ StandsWell(c) /\ thread \in [Client -> Locals]
  BY Stands DEF IInv, TypeOK
<1>2. CASE Notify(c)
  <2>1. PICK t \in thread[c].todo :
          /\ CASE thread[c].pc = "deal"      -> WriteKeys(Of(t), r, thread[c].k)
               [] thread[c].pc = "delete"    -> WriteKeys(Of(t), r, NoKey)
               [] thread[c].pc = "join_new"  -> Write(Of(t)) /\ UNCHANGED keyring
               [] thread[c].pc = "join_list" -> Write(c) /\ UNCHANGED keyring
          /\ thread' = [thread EXCEPT ![c].todo = @ \ {t}]
    BY <1>2 DEF Notify
  <2> DEFINE new == [thread[c] EXCEPT !.todo = @ \ {t}]
  <2>2. thread[c].pc \in {"deal", "delete", "join_new", "join_list"}
    BY <1>2 DEF Notify
  <2>3. Of(t) \in Client /\ thread[c].k \in Key \cup {NoKey}
    BY <1>1, <2>1, OfUser DEF Locals
  <2>4. /\ status' \in {"running", "killed", "undefined"}
        /\ keyring' \in [Client -> [Asked -> Key \cup {NoKey}]]
    <3>1. CASE thread[c].pc \in {"deal", "delete"}
      <4>1. r \in Asked
        BY <1>1, <3>1 DEF StandsWell
      <4>2. \E n \in Key \cup {NoKey} : WriteKeys(Of(t), r, n)
        BY <2>1, <2>3, <3>1
      <4> HIDE DEF r
      <4>3. QED
        BY <2>3, <4>1, <4>2, Written DEF IInv
    <3>2. CASE thread[c].pc \in {"join_new", "join_list"}
      <4>1. (Write(Of(t)) \/ Write(c)) /\ UNCHANGED keyring
        BY <2>1, <3>2
      <4>2. QED
        BY <4>1, SameTables DEF Write
    <3>3. QED
      BY <2>2, <3>1, <3>2
  <2>5. new \in Locals
    BY <1>1 DEF Locals
  <2>6. thread' = [thread EXCEPT ![c] = new]
    BY <1>1, <2>1
  <2>7. thread' \in [Client -> Locals] /\ thread'[c] = new /\ OthersKeep(c)
    BY <2>5, <2>6, Moved
  <2>8. /\ new.u = thread[c].u /\ new.pc = thread[c].pc /\ new.sender = thread[c].sender
        /\ new.buffer = thread[c].buffer /\ new.visit = thread[c].visit
        /\ new.first_connection = thread[c].first_connection
    BY <1>1 DEF Locals
  <2> HIDE DEF new
  <2>9. StandsWell(c)'
    BY <1>1, <2>2, <2>7, <2>8 DEF StandsWell, Connecting, LoggedIn
  <2>10. UNCHANGED <<accounts, server_user_map, rooms, connected>>
    BY <1>2 DEF Notify, tables
  <2>11. QED
    BY <2>2, <2>4, <2>7, <2>8, <2>9, <2>10, SameTables, QuietStep
<1>3. CASE NotifyDone(c)
  <2>1. PICK code \in {"OK", "CONNECT_SEC"} : Answer(c, code)
    BY <1>3 DEF NotifyDone
  <2>2. code \in Reply
    BY DEF Reply
  <2>3. thread[c].pc \notin {"closed", "bye", "exited", "stopped"}
    BY <1>3 DEF NotifyDone
  <2>4. QED
    BY <2>1, <2>2, <2>3, Answers
<1>4. QED
  BY <1>2, <1>3

\* QUIT_ROOM_SEC and DELETE_ROOM_SEC, up to the room's end (secure_server.c:316-345).
LEMMA QuitSteps ==
  ASSUME IInv, NEW c \in Client, QuitRoomSec(c) \/ DeleteRoomSec(c)
  PROVE  IInv'
<1> DEFINE r == thread[c].buffer.room
           x == thread[c].u
<1>1. /\ thread[c] \in Locals /\ StandsWell(c) /\ thread \in [Client -> Locals]
      /\ thread[c].pc = "handle" /\ r \in Asked /\ r \in Name
  BY Stands, Names DEF QuitRoomSec, DeleteRoomSec, Handle, Step, IInv, TypeOK
<1>2. CASE \E code \in Reply : Answer(c, code)
  BY <1>1, <1>2, Answers
<1>3. CASE Broadcast(c, get_users(r, rooms), "delete") /\ UNCHANGED <<tables, peers, status>>
  <2> HIDE DEF r
  <2>1. get_users(r, rooms) \in SUBSET user /\ "delete" \in Label
    BY <1>1, RoomTables DEF Label
  <2>2. Advances(c, "delete")
    BY <1>3, <2>1, Broadcasts
  <2>3. StandsWell(c)'
    BY <1>1, <2>2 DEF StandsWell, Advances, Connecting, LoggedIn, r
  <2>4. UNCHANGED <<accounts, server_user_map, rooms, connected, keyring, status>>
    BY <1>3 DEF tables, peers
  <2>5. QED
    BY <1>1, <2>2, <2>3, <2>4, SameTables, QuietStep DEF Advances
<1>4. CASE /\ Usable(c) /\ rooms' = remove_user_from_room(x, r, rooms)
           /\ Respond(c, "QUIT_ROOM_SEC")
           /\ UNCHANGED <<accounts, server_user_map, peers, status>>
  <2>1. x \in user
    BY <1>1, <1>4 DEF Usable, Locals
  <2> HIDE DEF r, x
  <2>2. rooms' \in room_map /\ WellKept(Name, rooms')
    BY <1>1, <1>4, <2>1, RoomTables
  <2>3. Advances(c, "reply")
    BY <1>4, Responded DEF Reply
  <2>4. UNCHANGED <<accounts, server_user_map, connected, keyring, status>>
    BY <1>4 DEF peers
  <2>5. QED
    BY <1>1, <2>2, <2>3, <2>4, RepliesStand, SameTables, QuietStep DEF Advances
<1>5. QED
  <2>1. {"QUIT_ROOM_SEC_KO", "DELETE_ROOM_KO"} \subseteq Reply
    BY DEF Reply
  <2>2. CASE QuitRoomSec(c)
    BY <1>2, <1>3, <1>4, <2>1, <2>2 DEF QuitRoomSec
  <2>3. CASE DeleteRoomSec(c)
    BY <1>2, <1>3, <2>1, <2>3 DEF DeleteRoomSec
  <2>4. QED
    BY <2>2, <2>3

\* A room is freed: nothing but the rooms yet to leave changes in other threads.
LEMMA RoomFreed ==
  ASSUME IInv, NEW c \in Client, NEW r \in Name, NEW last \in Locals, FreeRoom(c, r, last)
  PROVE  /\ thread' \in [Client -> Locals] /\ thread'[c] = last /\ OthersKeep(c)
         /\ rooms' \in room_map /\ WellKept(Name, rooms')
<1>1. rooms' = remove_room(r, rooms)
  BY DEF FreeRoom
<1>2. rooms' \in room_map /\ WellKept(Name, rooms')
  BY <1>1, RoomTables
<1>3. thread' = [d \in Client |->
        IF d = c THEN last
        ELSE IF r \in thread[d].visit /\ is_room_used(r, rooms)
             THEN [thread[d] EXCEPT !.visit = (@ \ {r}) \cup {FreedRoom}]
             ELSE thread[d]]
  BY DEF FreeRoom
<1>4. ASSUME NEW d \in Client \ {c} PROVE thread'[d] \in Locals /\ Keeps(d)
  <2>1. thread[d] \in Locals /\ thread[d].visit \subseteq Name \cup {FreedRoom}
    BY Stands
  <2>2. CASE thread'[d] = thread[d]
    BY <2>1, <2>2 DEF Keeps
  <2>3. CASE /\ r \in thread[d].visit
             /\ thread'[d] = [thread[d] EXCEPT !.visit = (@ \ {r}) \cup {FreedRoom}]
    <3> DEFINE rest == (thread[d].visit \ {r}) \cup {FreedRoom}
    <3>1. rest \subseteq Name \cup {FreedRoom} /\ rest \subseteq RoomName \cup {FreedRoom}
      BY <2>1, Names
    <3> HIDE DEF rest
    <3>2. thread'[d] = [thread[d] EXCEPT !.visit = rest]
      BY <2>3 DEF rest
    <3>3. QED
      BY <2>1, <2>3, <3>1, <3>2 DEF Keeps, Locals
  <2>4. QED
    BY <1>3, <2>2, <2>3
<1>5. thread'[c] = last
  BY <1>3
<1>6. thread' \in [Client -> Locals]
  BY <1>3, <1>4, <1>5
<1>7. QED
  BY <1>2, <1>4, <1>5, <1>6 DEF OthersKeep

\* The room that everybody was told about is removed (secure_server.c:571).
LEMMA DeleteDoneStep == ASSUME IInv, NEW c \in Client, DeleteDone(c) PROVE IInv'
<1> DEFINE last == [thread[c] EXCEPT !.response = "OK", !.pc = "reply"]
           r    == thread[c].buffer.room
<1>1. /\ thread[c] \in Locals /\ StandsWell(c) /\ thread[c].pc = "delete" /\ r \in Name
      /\ UNCHANGED <<accounts, server_user_map, connected, keyring, status>>
  BY Stands, Names DEF DeleteDone, Step, StandsWell, peers
<1>2. last \in Locals
  BY <1>1 DEF Locals, Label, Reply
<1>3. FreeRoom(c, r, last)
  BY DEF DeleteDone
<1>4. /\ last.u = thread[c].u /\ last.pc = "reply" /\ last.sender = thread[c].sender
      /\ last.visit = thread[c].visit /\ last.first_connection = thread[c].first_connection
  BY <1>1 DEF Locals
<1> HIDE DEF last, r
<1>5. /\ thread' \in [Client -> Locals] /\ thread'[c] = last /\ OthersKeep(c)
      /\ rooms' \in room_map /\ WellKept(Name, rooms')
  BY <1>1, <1>2, <1>3, RoomFreed
<1>6. StandsWell(c)'
  BY <1>1, <1>4, <1>5 DEF StandsWell, Connecting, LoggedIn
<1>7. QED
  BY <1>1, <1>4, <1>5, <1>6, SameTables, QuietStep

\* The reply is written, and the loop starts over (secure_server.c:463).
LEMMA AnsweredStep == ASSUME IInv, NEW c \in Client, Answered(c) PROVE IInv'
<1> DEFINE new == [NotStarted EXCEPT !.pc = "read", !.u = thread[c].u,
             !.logins = thread[c].logins, !.sender = thread[c].sender,
             !.first_connection = thread[c].first_connection]
<1>1. /\ thread[c] \in Locals /\ StandsWell(c) /\ thread[c].pc = "reply"
      /\ UNCHANGED <<accounts, server_user_map, rooms, connected>>
      /\ thread' = [thread EXCEPT ![c] = new]
  BY Stands DEF Answered, Step, tables
<1>2. new \in Locals
  BY <1>1 DEF NotStarted, Locals, Label
<1>3. /\ new.u = thread[c].u /\ new.pc = "read" /\ new.sender = thread[c].sender
      /\ new.visit = {} /\ new.first_connection = thread[c].first_connection /\ new.k = NoKey
  BY <1>1 DEF NotStarted, Locals
<1> HIDE DEF new
<1>4. thread' \in [Client -> Locals] /\ thread'[c] = new /\ OthersKeep(c)
  BY <1>1, <1>2, Moved
<1>5. StandsWell(c)'
  BY <1>1, <1>3, <1>4 DEF StandsWell, Connecting, LoggedIn
<1>6. /\ status' \in {"running", "killed", "undefined"}
      /\ keyring' \in [Client -> [Asked -> Key \cup {NoKey}]]
  <2>1. CASE KeysInReply(c) = {}
    BY <2>1, SameTables DEF Answered, Write
  <2>2. CASE KeysInReply(c) # {}
    <3>1. PICK n \in KeysInReply(c) : WriteKeys(c, thread[c].buffer.room, n)
      BY <2>2 DEF Answered
    <3>2. n \in Key \cup {NoKey}
      BY <1>1 DEF KeysInReply, Locals
    <3>3. QED
      BY <3>1, <3>2, Written DEF IInv
  <2>3. QED
    BY <2>1, <2>2
<1>7. QED
  BY <1>1, <1>3, <1>4, <1>5, <1>6, SameTables, QuietStep

\* DISCONNECT_SEC: the rooms to leave are listed (secure_server.c:374-381).
LEMMA DisconnectStep == ASSUME IInv, NEW c \in Client, Disconnect(c) PROVE IInv'
<1> DEFINE list == IF thread[c].u = NULL THEN {} ELSE get_user_rooms(thread[c].u, rooms)
           new  == [thread[c] EXCEPT !.pc = "leave", !.visit = list]
<1>1. /\ thread[c] \in Locals /\ StandsWell(c) /\ thread \in [Client -> Locals]
      /\ thread[c].pc = "handle"
      /\ UNCHANGED <<server_user_map, rooms, connected, keyring, status>>
  BY Stands DEF Disconnect, Handle, Step, IInv, TypeOK, peers
<1>2. list \subseteq Name /\ (list # {} => thread[c].u # NULL)
  BY Names, GetUserRooms DEF IInv, TypeOK, TablesWellKept
<1>3. thread' = [thread EXCEPT ![c].pc = "leave", ![c].visit = list]
  BY DEF Disconnect
<1> HIDE DEF list
<1>4. new \in Locals
  BY <1>1, <1>2, Names DEF Locals, Label
<1>5. thread' = [thread EXCEPT ![c] = new]
  BY <1>1, <1>3
<1>6. thread' \in [Client -> Locals] /\ thread'[c] = new /\ OthersKeep(c)
  BY <1>4, <1>5, Moved
<1>7. /\ new.u = thread[c].u /\ new.pc = "leave" /\ new.sender = thread[c].sender
      /\ new.visit = list /\ new.first_connection = thread[c].first_connection
  BY <1>1 DEF Locals
<1> HIDE DEF new
<1>8. StandsWell(c)'
  BY <1>1, <1>2, <1>6, <1>7 DEF StandsWell, Connecting, LoggedIn
<1>9. accounts' \subseteq account /\ AccountsAreOwned'
  <2>1. CASE thread[c].first_connection
    <3>1. thread[c].sender \in Login
      BY <1>1, <2>1, Names DEF StandsWell
    <3>2. QED
      BY <2>1, <3>1, AccountsStayOwned DEF Disconnect
  <2>2. CASE ~ thread[c].first_connection
    BY <2>2, AccountsStayOwned DEF Disconnect
  <2>3. QED
    BY <2>1, <2>2
<1>10. QED
  BY <1>1, <1>6, <1>7, <1>8, <1>9, SameTables, QuietStep

\* One room is left: freed, or renamed (secure_server.c:382-389,537-549).
LEMMA LeaveRoomStep == ASSUME IInv, NEW c \in Client, LeaveRoom(c) PROVE IInv'
<1>1. PICK r \in thread[c].visit \ {FreedRoom} :
        IF IsAdmin(c, r)
        THEN FreeRoom(c, r, [thread[c] EXCEPT !.visit = @ \ {r}])
        ELSE /\ rooms' = Rename(r, remove_user_from_room(thread[c].u, r, rooms))
             /\ thread' = [d \in Client |-> [thread[d] EXCEPT !.visit = @ \ {r}]]
  BY DEF LeaveRoom
<1> DEFINE Rest(d) == thread[d].visit \ {r}
           last == [thread[c] EXCEPT !.visit = Rest(c)]
<1>2. /\ thread[c] \in Locals /\ StandsWell(c) /\ thread \in [Client -> Locals]
      /\ thread[c].pc = "leave" /\ thread[c].u \in user /\ r \in Name
      /\ UNCHANGED <<accounts, server_user_map, connected, keyring, status>>
  BY <1>1, Stands DEF LeaveRoom, Step, StandsWell, IInv, TypeOK, peers
<1>3. last \in Locals
  BY <1>2 DEF Locals
<1>4. /\ last.u = thread[c].u /\ last.pc = "leave" /\ last.sender = thread[c].sender
      /\ last.visit = Rest(c) /\ last.first_connection = thread[c].first_connection
  BY <1>2 DEF Locals
<1>5. /\ thread' \in [Client -> Locals] /\ thread'[c] = last /\ OthersKeep(c)
      /\ rooms' \in room_map /\ WellKept(Name, rooms')
  <2>1. CASE IsAdmin(c, r)
    <3>1. FreeRoom(c, r, last)
      BY <1>1, <2>1
    <3> HIDE DEF last
    <3>2. QED
      BY <1>2, <1>3, <3>1, RoomFreed
  <2>2. CASE ~ IsAdmin(c, r)
    <3> DEFINE mid == remove_user_from_room(thread[c].u, r, rooms)
    <3>1. rooms' = Rename(r, mid) /\ thread' = [d \in Client |-> [thread[d] EXCEPT !.visit = Rest(d)]]
      BY <1>1, <2>2
    <3>2. mid \in room_map /\ WellKept(Name, mid)
      BY <1>2, RoomTables
    <3> HIDE DEF mid
    <3>3. rooms' \in room_map /\ WellKept(Name, rooms')
      BY <1>2, <3>1, <3>2, RenameKeeps
    <3>4. ASSUME NEW d \in Client PROVE thread'[d] \in Locals /\ (d # c => Keeps(d))
      <4>1. thread[d] \in Locals /\ thread[d].visit \subseteq Name \cup {FreedRoom}
        BY Stands
      <4>2. thread'[d] = [thread[d] EXCEPT !.visit = Rest(d)]
        BY <3>1
      <4>3. Rest(d) \subseteq thread[d].visit /\ Rest(d) \subseteq RoomName \cup {FreedRoom}
        BY <4>1 DEF Locals
      <4> HIDE DEF Rest
      <4>4. QED
        BY <4>1, <4>2, <4>3 DEF Keeps, Locals
    <3>5. thread'[c] = last /\ thread' \in [Client -> Locals]
      BY <3>1, <3>4
    <3>6. QED
      BY <3>3, <3>4, <3>5 DEF OthersKeep
  <2>3. QED
    BY <2>1, <2>2
<1> HIDE DEF last
<1>6. StandsWell(c)'
  BY <1>2, <1>4, <1>5 DEF StandsWell, Connecting, LoggedIn
<1>7. QED
  BY <1>2, <1>4, <1>5, <1>6, SameTables, QuietStep

\* A thread gives up its user, or ends.
LEMMA EndStep ==
  ASSUME IInv, NEW c \in Client, NEW new \in Locals, thread' = [thread EXCEPT ![c] = new],
         new.u = thread[c].u, thread[c].pc \in {"read", "leave", "bye"},
         new.pc \in {"bye", "exited", "stopped"}, StandsWell(c)',
         new.pc = "bye" => \A x \in Users(server_user_map') : Of(x) = c => x.name # thread[c].u.name,
         new.pc = "exited" => thread[c].pc = "bye",
         new.pc = "stopped" => Drops,
         connected' \in [Client -> BOOLEAN],
         \A d \in Client : d # c \/ new.pc = "bye" => connected'[d] = connected[d],
         server_user_map' \in user_map, WellHashed(server_user_map'),
         Users(server_user_map') \subseteq Users(server_user_map),
         accounts' \subseteq account, AccountsAreOwned', UNCHANGED rooms,
         keyring' \in [Client -> [Asked -> Key \cup {NoKey}]],
         status' \in {"running", "killed", "undefined"}
  PROVE  IInv'
<1>1. thread' \in [Client -> Locals] /\ thread'[c] = new /\ OthersKeep(c)
  BY Moved
<1>2. TypeOK' /\ TablesWellKept'
  BY <1>1 DEF IInv, TypeOK, TablesWellKept
<1>3. \A d \in Client : thread'[d].u = thread[d].u /\ (LoggedIn(d)' <=> LoggedIn(d))
  BY <1>1 DEF OthersKeep, Keeps, LoggedIn
<1>4. ASSUME NEW d \in Client \ {c} PROVE StandsWell(d)'
  <2>1. StandsWell(d) /\ Keeps(d)
    BY <1>1 DEF IInv, AllStandWell, OthersKeep
  <2>2. QED
    BY <1>3, <2>1 DEF StandsWell, Keeps, Connecting
<1>5. AllStandWell'
  BY <1>4 DEF AllStandWell
<1>6. ListedAreOwned'
  <2> SUFFICES ASSUME NEW x \in Users(server_user_map')
               PROVE  Owned(x)'
    BY DEF ListedAreOwned
  <2>1. x \in Users(server_user_map) /\ Of(x) \in Client
    BY UsersOf, OfUser
  <2>2. Owned(x)
    BY <2>1 DEF IInv, ListedAreOwned
  <2>3. CASE Of(x) = c
    BY <1>1, <1>3, <2>2, <2>3 DEF Owned
  <2>4. CASE Of(x) # c
    BY <1>1, <1>3, <2>1, <2>2, <2>4 DEF Owned, OthersKeep, Keeps
  <2>5. QED
    BY <2>3, <2>4
<1>7. StaleIsGone'
  <2> SUFFICES ASSUME NEW d \in Client
               PROVE  \/ thread'[d].u = NULL \/ LoggedIn(d)'
                      \/ StackReuse /\ thread'[Of(thread'[d].u)].pc \in {"exited", "stopped"}
    BY DEF StaleIsGone
  <2>1. \/ thread[d].u = NULL \/ LoggedIn(d)
        \/ StackReuse /\ thread[Of(thread[d].u)].pc \in {"exited", "stopped"}
    BY DEF IInv, StaleIsGone
  <2>2. thread[d].u = NULL \/ Of(thread[d].u) \in Client
    BY OfUser DEF IInv, TypeOK, Locals
  <2>3. QED
    BY <1>1, <1>3, <2>1, <2>2 DEF OthersKeep, Keeps
<1>8. Attended'
  BY <1>1 DEF IInv, Attended, OthersKeep, Keeps
<1>9. QED
  BY <1>2, <1>5, <1>6, <1>7, <1>8 DEF IInv

\* The user is taken out of the table, and whoever has its name with it
\* (secure_server.c:391-395).
LEMMA LeaveDoneStep == ASSUME IInv, NEW c \in Client, LeaveDone(c) PROVE IInv'
<1> DEFINE x   == thread[c].u
           new == [thread[c] EXCEPT !.pc = "bye"]
<1>1. /\ thread[c] \in Locals /\ StandsWell(c) /\ thread[c].pc = "leave" /\ x \in user \cup {NULL}
      /\ UNCHANGED <<accounts, rooms, connected, keyring>>
      /\ status' \in {"running", "killed", "undefined"}
  BY Stands DEF LeaveDone, Step, Write, peers
<1>2. new \in Locals
  BY <1>1 DEF Locals, Label
<1>3. /\ new.u = x /\ new.pc = "bye" /\ new.sender = thread[c].sender
      /\ new.visit = thread[c].visit /\ new.first_connection = thread[c].first_connection
  BY <1>1 DEF Locals
<1>4. thread' = [thread EXCEPT ![c] = new]
  BY DEF LeaveDone, Goto
<1> HIDE DEF new
<1>5. thread'[c] = new
  BY <1>2, <1>4, Moved
<1>6. StandsWell(c)'
  BY <1>1, <1>3, <1>5 DEF StandsWell, Connecting
<1>7. server_user_map \in user_map /\ WellHashed(server_user_map) /\ connected \in [Client -> BOOLEAN]
  BY DEF IInv, TypeOK, TablesWellKept
<1>8. /\ server_user_map' \in user_map /\ WellHashed(server_user_map')
      /\ Users(server_user_map') \subseteq Users(server_user_map)
      /\ \A y \in Users(server_user_map') : Of(y) = c => y.name # x.name
  <2>1. CASE x = NULL
    <3>1. server_user_map' = server_user_map
      BY <2>1 DEF LeaveDone
    <3>2. \A y \in Users(server_user_map) : Of(y) # c
      BY <2>1 DEF IInv, ListedAreOwned, Owned, LoggedIn
    <3>3. QED
      BY <1>7, <3>1, <3>2
  <2>2. CASE x # NULL
    <3>1. x \in user /\ server_user_map' = remove_user(x, server_user_map)
      BY <1>1, <2>2 DEF LeaveDone
    <3>2. \A k, l \in Login : UserHash[k] = UserHash[l] => k = l
      BY ConstantsAssumption
    <3> HIDE DEF x
    <3>3. /\ server_user_map' \in user_map /\ WellHashed(server_user_map')
          /\ Users(server_user_map') \subseteq Users(server_user_map)
      BY <1>7, <3>1, RemoveUser
    <3>4. Users(server_user_map') = {y \in Users(server_user_map) : y.name # x.name}
      BY <1>7, <3>1, <3>2, RemoveUserExactly
    <3>5. QED
      BY <3>3, <3>4
  <2>3. QED
    BY <2>1, <2>2
<1>9. accounts' \subseteq account /\ AccountsAreOwned'
  BY <1>1, AccountsStayOwned
<1>10. keyring' \in [Client -> [Asked -> Key \cup {NoKey}]]
  BY <1>1, SameTables
<1>11. QED
  BY <1>1, <1>2, <1>3, <1>4, <1>6, <1>7, <1>8, <1>9, <1>10, EndStep

\* The last lines of a thread (secure_server.c:397-402,463-471).
LEMMA ExitStep ==
  ASSUME IInv, NEW c \in Client, NEW label \in {"exited", "stopped"}, Exit(c, label),
         thread[c].pc \in {"read", "bye"},
         label = "exited" => thread[c].pc = "bye",
         label = "stopped" => Drops,
         UNCHANGED <<server_user_map, rooms, status>>
  PROVE  IInv'
<1> DEFINE new == [NotStarted EXCEPT !.pc = label, !.logins = thread[c].logins,
                                     !.u = thread[c].u, !.sender = thread[c].sender]
<1>1. thread[c] \in Locals /\ StandsWell(c) /\ thread' = [thread EXCEPT ![c] = new]
  BY Stands DEF Exit
<1>2. new \in Locals
  BY <1>1 DEF NotStarted, Locals, Label
<1>3. /\ new.u = thread[c].u /\ new.pc = label /\ new.visit = {} /\ ~ new.first_connection
      /\ new.k = NoKey
  BY DEF NotStarted
<1> HIDE DEF new
<1>4. thread'[c] = new
  BY <1>1, <1>2, Moved
<1>5. StandsWell(c)'
  BY <1>1, <1>3, <1>4 DEF StandsWell, Connecting, LoggedIn
<1>6. /\ connected' \in [Client -> BOOLEAN] /\ \A d \in Client : d # c => connected'[d] = connected[d]
      /\ keyring' \in [Client -> [Asked -> Key \cup {NoKey}]]
  BY DEF Exit, IInv, TypeOK, NoKeys
<1>7. accounts' \subseteq account /\ AccountsAreOwned'
  <2>1. CASE thread[c].sender = NULL
    BY <2>1, AccountsStayOwned DEF Exit
  <2>2. CASE thread[c].sender # NULL
    <3>1. thread[c].sender \in Login
      BY <2>2, Stands
    <3>2. QED
      BY <2>2, <3>1, AccountsStayOwned DEF Exit
  <2>3. QED
    BY <2>1, <2>2
<1>8. /\ server_user_map' \in user_map /\ WellHashed(server_user_map')
      /\ Users(server_user_map') \subseteq Users(server_user_map)
      /\ status' \in {"running", "killed", "undefined"}
  BY DEF IInv, TypeOK, TablesWellKept
<1>9. QED
  BY <1>1, <1>2, <1>3, <1>5, <1>6, <1>7, <1>8, EndStep

\* A thread ends, with DISCONNECT_SEC or because its client is gone.
LEMMA EndSteps ==
  ASSUME IInv, NEW c \in Client, Bye(c) \/ ConnectionStopped(c)
  PROVE  IInv'
<1>1. CASE Bye(c)
  BY <1>1, ExitStep DEF Bye, Step
<1>2. CASE ConnectionStopped(c)
  <2>1. /\ Exit(c, "stopped") /\ thread[c].pc = "read" /\ ~ connected[c]
        /\ UNCHANGED <<server_user_map, rooms, status>>
    BY <1>2 DEF ConnectionStopped, Step
  <2>2. Drops
    BY <2>1 DEF IInv, Attended
  <2>3. QED
    BY <2>1, <2>2, ExitStep
<1>3. QED
  BY <1>1, <1>2

\* A thread starts, on a stack of its own or on one that another left
\* (secure_server.c:128-163).
LEMMA StartStep == ASSUME IInv, NEW c \in Client, Accept(c), UNCHANGED status PROVE IInv'
<1>1. /\ thread[c] \in Locals /\ StandsWell(c) /\ thread \in [Client -> Locals]
      /\ thread[c].pc = "closed" /\ thread[c].k = NoKey /\ thread[c].u = NULL
      /\ ~ thread[c].first_connection /\ thread[c].visit = {}
      /\ UNCHANGED <<accounts, server_user_map, rooms, keyring, status>>
  BY Stands DEF Accept, Step, StandsWell, IInv, TypeOK, tables
<1>2. \E new \in Locals :
        /\ thread' = [thread EXCEPT ![c] = new]
        /\ \/ new.u = NULL
           \/ StackReuse /\ Of(new.u) # c /\ thread[Of(new.u)].pc \in {"exited", "stopped"}
        /\ new.k = NoKey /\ ~ new.first_connection /\ new.visit = {}
        /\ \/ new.pc = "read" /\ connected' = [connected EXCEPT ![c] = TRUE]
           \/ new.pc = "stopped" /\ Drops /\ connected' = connected
  <2>1. ASSUME NEW left \in {NotStarted} \cup {thread[d] : d \in UsedStack}
        PROVE  /\ left.u \in user \cup {NULL} /\ left.sender \in Login \cup {NULL}
               /\ \/ left.u = NULL
                  \/ /\ StackReuse /\ Of(left.u) # c
                     /\ thread[Of(left.u)].pc \in {"exited", "stopped"}
    <3>1. CASE left = NotStarted
      BY <3>1 DEF NotStarted
    <3>2. CASE \E d \in UsedStack : left = thread[d]
      <4>1. PICK d \in Client : StackReuse /\ left = thread[d] /\ thread[d].pc \in {"exited", "stopped"}
        BY <3>2 DEF UsedStack
      <4>2. left.u \in user \cup {NULL} /\ left.sender \in Login \cup {NULL}
        BY <4>1, Stands
      <4>3. left.u = NULL \/ thread[Of(left.u)].pc \in {"exited", "stopped"}
        BY <4>1 DEF IInv, StaleIsGone, LoggedIn
      <4>4. QED
        BY <1>1, <4>1, <4>2, <4>3
    <3>3. QED
      BY <2>1, <3>1, <3>2
  <2>2. CASE \E left \in {NotStarted} \cup {thread[d] : d \in UsedStack} :
               /\ thread' = [thread EXCEPT ![c].u = left.u, ![c].sender = left.sender, ![c].pc = "read"]
               /\ connected' = [connected EXCEPT ![c] = TRUE]
    <3>1. PICK left \in {NotStarted} \cup {thread[d] : d \in UsedStack} :
            /\ thread' = [thread EXCEPT ![c].u = left.u, ![c].sender = left.sender, ![c].pc = "read"]
            /\ connected' = [connected EXCEPT ![c] = TRUE]
      BY <2>2
    <3> DEFINE lu == left.u
               ls == left.sender
               new == [thread[c] EXCEPT !.u = lu, !.sender = ls, !.pc = "read"]
    <3>2. lu \in user \cup {NULL} /\ ls \in Login \cup {NULL}
      BY <2>1
    <3>3. \/ lu = NULL
          \/ StackReuse /\ Of(lu) # c /\ thread[Of(lu)].pc \in {"exited", "stopped"}
      BY <2>1
    <3>4. thread' = [thread EXCEPT ![c].u = lu, ![c].sender = ls, ![c].pc = "read"]
      BY <3>1
    <3> HIDE DEF lu, ls
    <3>5. new \in Locals
      <4>1. thread[c] \in Locals /\ "read" \in Label
        BY Stands DEF Label
      <4>2. QED
        BY <3>2, <4>1 DEF Locals
    <3>6. thread' = [thread EXCEPT ![c] = new]
      BY <1>1, <3>4
    <3>7. /\ new.u = lu /\ new.pc = "read" /\ new.k = NoKey /\ ~ new.first_connection
          /\ new.visit = {}
      BY <1>1 DEF Locals
    <3> HIDE DEF new
    <3>8. QED
      BY <3>1, <3>3, <3>5, <3>6, <3>7
  <2>3. CASE Drops /\ Goto(c, "stopped") /\ UNCHANGED connected
    <3> DEFINE new == [thread[c] EXCEPT !.pc = "stopped"]
    <3>1. new \in Locals
      BY <1>1 DEF Locals, Label
    <3>2. thread' = [thread EXCEPT ![c] = new]
      BY <2>3 DEF Goto
    <3>3. /\ new.u = NULL /\ new.pc = "stopped" /\ new.k = NoKey /\ ~ new.first_connection
          /\ new.visit = {}
      BY <1>1 DEF Locals
    <3> HIDE DEF new
    <3>4. QED
      BY <2>3, <3>1, <3>2, <3>3
  <2>4. QED
    BY <2>2, <2>3 DEF Accept, Step
<1>3. PICK new \in Locals :
        /\ thread' = [thread EXCEPT ![c] = new]
        /\ \/ new.u = NULL
           \/ StackReuse /\ Of(new.u) # c /\ thread[Of(new.u)].pc \in {"exited", "stopped"}
        /\ new.k = NoKey /\ ~ new.first_connection /\ new.visit = {}
        /\ \/ new.pc = "read" /\ connected' = [connected EXCEPT ![c] = TRUE]
           \/ new.pc = "stopped" /\ Drops /\ connected' = connected
  BY <1>2
<1>4. thread' \in [Client -> Locals] /\ thread'[c] = new /\ OthersKeep(c)
  BY <1>3, Moved
<1>5. ~ LoggedIn(c)' /\ thread'[c].u = new.u
  BY <1>3, <1>4 DEF LoggedIn
<1>6. StandsWell(c)'
  BY <1>3, <1>4, <1>5 DEF StandsWell, Connecting
<1>7. connected' \in [Client -> BOOLEAN]
  BY <1>3 DEF IInv, TypeOK
<1>8. TypeOK' /\ TablesWellKept' /\ AccountsAreOwned'
  BY <1>1, <1>4, <1>7 DEF IInv, TypeOK, TablesWellKept, AccountsAreOwned
<1>9. ASSUME NEW d \in Client \ {c} PROVE StandsWell(d)' /\ (LoggedIn(d)' <=> LoggedIn(d))
  <2>1. StandsWell(d) /\ Keeps(d)
    BY <1>4 DEF IInv, AllStandWell, OthersKeep
  <2>2. LoggedIn(d)' <=> LoggedIn(d)
    BY <2>1 DEF LoggedIn, Keeps
  <2>3. QED
    BY <2>1, <2>2 DEF StandsWell, Keeps, Connecting
<1>10. AllStandWell'
  BY <1>6, <1>9 DEF AllStandWell
<1>11. ListedAreOwned'
  <2> SUFFICES ASSUME NEW x \in Users(server_user_map)
               PROVE  Owned(x)'
    BY <1>1 DEF ListedAreOwned
  <2>1. Of(x) \in Client
    BY UsersOf, OfUser DEF IInv, TypeOK
  <2>2. Owned(x)
    BY DEF IInv, ListedAreOwned
  <2>3. Of(x) # c
    BY <1>1, <2>2 DEF Owned
  <2>4. QED
    BY <1>4, <1>9, <2>1, <2>2, <2>3 DEF Owned, OthersKeep, Keeps
<1>12. StaleIsGone'
  <2> SUFFICES ASSUME NEW d \in Client
               PROVE  \/ thread'[d].u = NULL \/ LoggedIn(d)'
                      \/ StackReuse /\ thread'[Of(thread'[d].u)].pc \in {"exited", "stopped"}
    BY DEF StaleIsGone
  <2>1. ASSUME NEW e \in Client, thread[e].pc \in {"exited", "stopped"} PROVE thread'[e].pc = thread[e].pc
    BY <1>1, <1>4, <2>1 DEF OthersKeep, Keeps
  <2>2. CASE d = c
    <3>1. new.u = NULL \/ Of(new.u) \in Client
      BY OfUser DEF Locals
    <3>2. QED
      BY <1>3, <1>5, <2>1, <2>2, <3>1
  <2>3. CASE d # c
    <3>1. \/ thread[d].u = NULL \/ LoggedIn(d)
          \/ StackReuse /\ thread[Of(thread[d].u)].pc \in {"exited", "stopped"}
      BY DEF IInv, StaleIsGone
    <3>2. thread[d].u = NULL \/ Of(thread[d].u) \in Client
      BY OfUser DEF IInv, TypeOK, Locals
    <3>3. thread'[d].u = thread[d].u /\ (LoggedIn(d)' <=> LoggedIn(d))
      BY <1>4, <1>9, <2>3 DEF OthersKeep, Keeps
    <3>4. QED
      BY <2>1, <3>1, <3>2, <3>3
  <2>4. QED
    BY <2>2, <2>3
<1>13. Attended'
  BY <1>1, <1>3, <1>4, <1>7 DEF IInv, TypeOK, Attended, OthersKeep, Keeps
<1>14. QED
  BY <1>8, <1>10, <1>11, <1>12, <1>13 DEF IInv

\* A thread starts, or the process ends with a certificate that is not verified.
LEMMA AcceptStep == ASSUME IInv, NEW c \in Client, Accept(c) PROVE IInv'
<1>1. CASE UNCHANGED status
  BY <1>1, StartStep
<1>2. CASE status' # status
  <2>1. UNCHANGED <<tables, thread, connected, keyring>> /\ status' = "killed"
    BY <1>2 DEF Accept
  <2>2. QED
    BY <2>1, ThreadsRest DEF IInv, TypeOK
<1>3. QED
  BY <1>1, <1>2

\* The server starts with its home room and no thread, and starts again so on
\* the accounts it finds (secure_server.c:577-582,644-656).
LEMMA Starts ==
  /\ Init => IInv
  /\ IInv /\ Restart => IInv'
<1>1. /\ create_user_map \in user_map /\ WellHashed(create_user_map) /\ Users(create_user_map) = {}
      /\ add_room(HomeRoom, NULL, init_rooms) \in room_map
      /\ WellKept(Name, add_room(HomeRoom, NULL, init_rooms))
  BY CreateUserMap, InitRooms, AddRoom, Names
<1>2. NotStarted \in Locals /\ [c \in Client |-> NotStarted] \in [Client -> Locals]
  BY DEF NotStarted, Locals, Label
<1>3. [c \in Client |-> NoKeys] \in [Client -> [Asked -> Key \cup {NoKey}]]
  BY DEF NoKeys
<1>4. ASSUME Init PROVE IInv
  <2>1. /\ server_user_map = create_user_map /\ rooms = add_room(HomeRoom, NULL, init_rooms)
        /\ thread = [c \in Client |-> NotStarted] /\ connected = [c \in Client |-> FALSE]
        /\ keyring = [c \in Client |-> NoKeys] /\ status = "running" /\ accounts = {}
    BY <1>4 DEF Init, EmptyTable
  <2>2. TypeOK /\ TablesWellKept /\ ListedAreOwned /\ AccountsAreOwned
    BY <1>1, <1>2, <1>3, <2>1 DEF TypeOK, TablesWellKept, ListedAreOwned, AccountsAreOwned
  <2>3. AllStandWell /\ StaleIsGone /\ Attended
    BY <2>1 DEF AllStandWell, StandsWell, Connecting, LoggedIn, NotStarted, StaleIsGone, Attended
  <2>4. QED
    BY <2>2, <2>3 DEF IInv
<1>5. ASSUME IInv, Restart PROVE IInv'
  <2>1. /\ server_user_map' = create_user_map /\ rooms' = add_room(HomeRoom, NULL, init_rooms)
        /\ thread' = [c \in Client |-> NotStarted] /\ connected' = [c \in Client |-> FALSE]
        /\ keyring' = [c \in Client |-> NoKeys] /\ status' = "running" /\ accounts' = accounts
    BY <1>5 DEF Restart
  <2>2. TypeOK' /\ TablesWellKept' /\ ListedAreOwned' /\ AccountsAreOwned'
    BY <1>1, <1>2, <1>3, <1>5, <2>1
      DEF IInv, TypeOK, TablesWellKept, ListedAreOwned, AccountsAreOwned
  <2>3. AllStandWell' /\ StaleIsGone' /\ Attended'
    BY <2>1 DEF AllStandWell, StandsWell, Connecting, LoggedIn, NotStarted, StaleIsGone, Attended
  <2>4. QED
    BY <2>2, <2>3 DEF IInv
<1>6. QED
  BY <1>4, <1>5

\* Every step keeps the invariant.
LEMMA StepPreserves == IInv /\ [Next]_vars => IInv'
<1> SUFFICES ASSUME IInv, [Next]_vars PROVE IInv'
  OBVIOUS
<1>1. /\ connected \in [Client -> BOOLEAN] /\ keyring \in [Client -> [Asked -> Key \cup {NoKey}]]
      /\ status \in {"running", "killed", "undefined"}
  BY DEF IInv, TypeOK
<1>2. CASE UNCHANGED vars
  BY <1>1, <1>2, ThreadsRest DEF vars, tables, peers
<1>3. CASE Interrupted \/ \E c \in Client : Undefined(c)
  BY <1>1, <1>3, ThreadsRest DEF Interrupted, Undefined, peers
<1>4. ASSUME NEW c \in Client, PeerGone(c) PROVE IInv'
  <2>1. /\ connected' \in [Client -> BOOLEAN] /\ keyring' \in [Client -> [Asked -> Key \cup {NoKey}]]
        /\ Drops /\ UNCHANGED <<tables, thread>> /\ status' = status
    BY <1>1, <1>4 DEF PeerGone, NoKeys
  <2>2. QED
    BY <1>1, <2>1, ThreadsRest
<1>5. ASSUME NEW c \in Client, Accept(c) \/ Receive(c) \/ (Work(c) /\ ~ Undefined(c)) PROVE IInv'
  BY <1>5, AcceptStep, ReceiveStep, ConnectSteps, EnterStep, JoinEnterStep, AccountSteps, CreateSteps,
     JoinSteps, DecisionSteps, DealSteps, MpSteps, TellClaimerStep, NotifySteps, QuitSteps,
     DeleteDoneStep, AnsweredStep, DisconnectStep, LeaveRoomStep, LeaveDoneStep, EndSteps DEF Work
<1>6. QED
  BY <1>2, <1>3, <1>4, <1>5, Starts DEF Next, Stopped, Work

----------------------------------------------------------------------------
(***************************************************************************)
(* The theorems.                                                           *)
(***************************************************************************)

\* The invariant that the theorems below rest on holds of every run of the
\* secure server (secure_server.c:126-475).
THEOREM InvariantHolds == Spec => []IInv
  BY Starts, StepPreserves, PTL DEF Spec

\* The state of the secure server always has its types: every pointer in a
\* table, in a list or on a stack is to a user struct, every key is one of the
\* keys there are, whatever the clients send (secure_server.c:126-148).
THEOREM TypeCorrect == Spec => []TypeOK
<1>1. IInv => TypeOK
  BY DEF IInv
<1>2. QED
  BY <1>1, InvariantHolds, PTL

\* Unless a client may vanish, a user that a request can name is that of a
\* thread that runs, or that logged in under another name since, even when
\* clients log in again and again (secure_server.c:242-248,348,391,454).
THEOREM ListedStayConnected == ASSUME ~ Drops PROVE Spec => []ListedAreConnected
<1>1. IInv => ListedAreConnected
  <2> SUFFICES ASSUME IInv, NEW x \in Users(server_user_map)
               PROVE  LoggedIn(Of(x)) /\ (thread[Of(x)].u.name = x.name => Live(Of(x)))
    BY DEF ListedAreConnected
  <2>1. Of(x) \in Client
    BY UsersOf, OfUser DEF IInv, TypeOK
  <2>2. LoggedIn(Of(x)) /\ (thread[Of(x)].u.name = x.name => thread[Of(x)].pc # "exited")
    BY DEF IInv, ListedAreOwned, Owned
  <2>3. thread[Of(x)].pc # "stopped"
    BY <2>1 DEF IInv, Attended
  <2>4. QED
    BY <2>2, <2>3 DEF Live
<1>2. QED
  BY <1>1, InvariantHolds, PTL

----------------------------------------------------------------------------
(***************************************************************************)
(* What the steps do to the accounts.                                      *)
(***************************************************************************)

\* A thread goes on, and its login and its account stay what they are.
Continues(c) ==
  /\ UNCHANGED accounts
  /\ \A d \in Client : /\ thread'[d].u = thread[d].u /\ thread'[d].sender = thread[d].sender
                       /\ thread'[d].first_connection => thread[d].first_connection
  /\ \A d \in Client \ {c} : thread'[d].pc = thread[d].pc /\ thread'[d].buffer = thread[d].buffer
  /\ thread[c].pc \notin {"closed", "insert", "enter", "bye", "exited", "stopped"}
  /\ thread'[c].pc \notin {"closed", "enter", "exited", "stopped"}
  /\ thread'[c].pc \in {"leave", "bye"} => thread[c].pc = "leave"

\* Handlers that have nothing to do with accounts.
LEMMA HandlersContinue ==
  ASSUME TypeOK, NEW c \in Client
  PROVE  /\ CheckCertificate(c) \/ ConnectOk(c) => Continues(c)
         /\ CreateRoomSec(c) \/ CreateEnter(c) \/ JoinRoomSec(c) \/ AskAdmin(c) => Continues(c)
         /\ DecisionRefused(c) \/ AdminDecides(c) => Continues(c)
         /\ AcceptJoin(c) \/ Eject(c) \/ RefuseJoin(c) => Continues(c)
         /\ MpSec(c) \/ MpKeys(c) \/ TellClaimer(c) => Continues(c)
         /\ QuitRoomSec(c) \/ DeleteRoomSec(c) => Continues(c)
<1>1. thread \in [Client -> Locals]
  BY DEF TypeOK
<1>2. CheckCertificate(c) => Continues(c)
  BY <1>1 DEF Continues, CheckCertificate, Step, Answer, Respond, Goto, tables, Locals
<1>3. ConnectOk(c) => Continues(c)
  BY <1>1 DEF Continues, ConnectOk, Handle, Step, tables, Locals
<1>4. CreateRoomSec(c) => Continues(c)
  BY <1>1 DEF Continues, CreateRoomSec, Handle, Step, Answer, Respond, tables, Locals
<1>5. CreateEnter(c) => Continues(c)
  BY <1>1 DEF Continues, CreateEnter, Step, Respond, Locals
<1>6. JoinRoomSec(c) => Continues(c)
  BY <1>1 DEF Continues, JoinRoomSec, Handle, Step, Answer, Respond, Goto, tables, Locals
<1>7. AskAdmin(c) => Continues(c)
  BY <1>1 DEF Continues, AskAdmin, Step, Respond, tables, Locals
<1>8. DecisionRefused(c) => Continues(c)
  BY <1>1 DEF Continues, DecisionRefused, Step, Answer, Respond, tables, Locals
<1>9. AdminDecides(c) => Continues(c)
  BY <1>1 DEF Continues, AdminDecides, Step, tables, Locals
<1>10. AcceptJoin(c) => Continues(c)
  BY <1>1 DEF Continues, AcceptJoin, Decide, DealKeys, Step, Locals
<1>11. Eject(c) => Continues(c)
  BY <1>1 DEF Continues, Eject, Decide, DealKeys, Step, Locals
<1>12. RefuseJoin(c) => Continues(c)
  BY <1>1 DEF Continues, RefuseJoin, Decide, Step, Respond, tables, Locals
<1>13. MpSec(c) => Continues(c)
  BY <1>1 DEF Continues, MpSec, Handle, Step, Answer, Respond, Goto, tables, Locals
<1>14. MpKeys(c) => Continues(c)
  BY <1>1 DEF Continues, MpKeys, Step, tables, Locals
<1>15. TellClaimer(c) => Continues(c)
  BY <1>1 DEF Continues, TellClaimer, Step, Respond, Broadcast, tables, Locals
<1>16. QuitRoomSec(c) => Continues(c)
  BY <1>1 DEF Continues, QuitRoomSec, Handle, Step, Answer, Respond, Broadcast, tables, Locals
<1>17. DeleteRoomSec(c) => Continues(c)
  BY <1>1 DEF Continues, DeleteRoomSec, Handle, Step, Answer, Respond, Broadcast, tables, Locals
<1>18. QED
  BY <1>2, <1>3, <1>4, <1>5, <1>6, <1>7, <1>8, <1>9, <1>10, <1>11, <1>12, <1>13, <1>14, <1>15, <1>16,
     <1>17

\* Broadcasts, replies, and the rooms that go or are left.
LEMMA LoopsContinue ==
  ASSUME TypeOK, NEW c \in Client
  PROVE  /\ JoinEnter(c) \/ Notify(c) \/ NotifyDone(c) \/ Answered(c) => Continues(c)
         /\ DeleteDone(c) \/ LeaveRoom(c) \/ LeaveDone(c) => Continues(c)
<1>1. thread \in [Client -> Locals]
  BY DEF TypeOK
<1>2. JoinEnter(c) => Continues(c)
  BY <1>1 DEF Continues, JoinEnter, Step, Broadcast, Locals
<1>3. Notify(c) => Continues(c)
  BY <1>1 DEF Continues, Notify, tables, Locals
<1>4. NotifyDone(c) => Continues(c)
  BY <1>1 DEF Continues, NotifyDone, Answer, Respond, tables, Locals
<1>5. Answered(c) => Continues(c)
  BY <1>1 DEF Continues, Answered, NotStarted, Step, tables, Locals
<1>6. ASSUME DeleteDone(c) PROVE Continues(c)
  <2> DEFINE last == [thread[c] EXCEPT !.response = "OK", !.pc = "reply"]
  <2>1. /\ last.u = thread[c].u /\ last.sender = thread[c].sender /\ last.pc = "reply"
        /\ last.first_connection = thread[c].first_connection
    BY <1>1 DEF Locals
  <2>2. FreeRoom(c, thread[c].buffer.room, last)
    BY <1>6 DEF DeleteDone
  <2> HIDE DEF last
  <2>3. /\ thread'[c] = last
        /\ \A d \in Client : /\ thread'[d].u = thread[d].u /\ thread'[d].sender = thread[d].sender
                             /\ thread'[d].first_connection = thread[d].first_connection
        /\ \A d \in Client \ {c} : thread'[d].pc = thread[d].pc /\ thread'[d].buffer = thread[d].buffer
    BY <1>1, <2>1, <2>2 DEF FreeRoom, Locals
  <2>4. QED
    BY <1>6, <2>1, <2>3 DEF Continues, DeleteDone, Step
<1>7. LeaveRoom(c) => Continues(c)
  BY <1>1 DEF Continues, LeaveRoom, FreeRoom, Step, Locals
<1>8. LeaveDone(c) => Continues(c)
  BY <1>1 DEF Continues, LeaveDone, Goto, Step, Locals
<1>9. QED
  BY <1>2, <1>3, <1>4, <1>5, <1>6, <1>7, <1>8

\* The steps that have to do with accounts.
LEMMA AccountsMove ==
  ASSUME TypeOK, [Next]_vars
  PROVE  \/ UNCHANGED <<accounts, thread>>
         \/ Restart
         \/ \E c \in Client :
              \/ Continues(c) /\ Work(c)
              \/ Accept(c) \/ Receive(c) \/ ConnectSec(c) \/ AddAccount(c) \/ Enter(c)
              \/ DelAccount(c) \/ Disconnect(c) \/ Bye(c) \/ ConnectionStopped(c)
<1>1. CASE UNCHANGED vars
  BY <1>1 DEF vars, tables
<1>2. CASE Interrupted \/ \E c \in Client : PeerGone(c) \/ Undefined(c)
  BY <1>2 DEF Interrupted, PeerGone, Undefined, tables
<1>3. ASSUME NEW c \in Client, Work(c), ~ Undefined(c)
      PROVE  \/ Continues(c)
             \/ ConnectSec(c) \/ AddAccount(c) \/ Enter(c)
             \/ DelAccount(c) \/ Disconnect(c) \/ Bye(c) \/ ConnectionStopped(c)
  BY <1>3, HandlersContinue, LoopsContinue DEF Work
<1>4. QED
  BY <1>1, <1>2, <1>3 DEF Next, Stopped

\* The other steps that have to do with accounts: they move one thread, to a
\* place where it has not listed the rooms it leaves.
LEMMA AccountStepsMove ==
  ASSUME IInv, NEW d \in Client,
         Accept(d) \/ Receive(d) \/ ConnectSec(d) \/ AddAccount(d) \/ Enter(d)
           \/ DelAccount(d) \/ Bye(d) \/ ConnectionStopped(d)
  PROVE  /\ \A c \in Client \ {d} : thread'[c] = thread[c]
         /\ thread'[d].pc \notin {"leave", "bye"}
         /\ thread'[d].pc = "exited" => Bye(d)
         /\ \/ accounts' = accounts
            \/ AddAccount(d)
            \/ \E l \in Login : accounts' = change_status(l, accounts)
            \/ \E l \in Login : accounts' = delete_user(l, accounts)
<1>1. thread \in [Client -> Locals] /\ TypeOK
  BY DEF IInv, TypeOK
<1>2. CASE Accept(d)
  <2>1. accounts' = accounts
    BY <1>2 DEF Accept, tables
  <2>2. CASE Goto(d, "stopped")
    <3>1. thread'[d].pc = "stopped" /\ \A e \in Client \ {d} : thread'[e] = thread[e]
      BY <1>1, <2>2 DEF Goto, Locals
    <3>2. QED
      BY <2>1, <3>1
  <2>3. CASE \E left \in {NotStarted} \cup {thread[e] : e \in UsedStack} :
               thread' = [thread EXCEPT ![d].u = left.u, ![d].sender = left.sender, ![d].pc = "read"]
    <3>1. PICK left : thread' = [thread EXCEPT ![d].u = left.u, ![d].sender = left.sender,
                                               ![d].pc = "read"]
      BY <2>3
    <3>2. thread'[d].pc = "read" /\ \A e \in Client \ {d} : thread'[e] = thread[e]
      BY <1>1, <3>1 DEF Locals
    <3>3. QED
      BY <2>1, <3>2
  <2>4. CASE UNCHANGED <<thread, connected>>
    <3>1. thread'[d].pc = "closed"
      BY <1>2, <2>4 DEF Accept, Step
    <3>2. QED
      BY <2>1, <2>4, <3>1
  <2>5. \/ Goto(d, "stopped") \/ UNCHANGED <<thread, connected>>
        \/ \E left \in {NotStarted} \cup {thread[e] : e \in UsedStack} :
             thread' = [thread EXCEPT ![d].u = left.u, ![d].sender = left.sender, ![d].pc = "read"]
    BY <1>2, Zenon DEF Accept
  <2>6. QED
    BY <2>2, <2>3, <2>4, <2>5
<1>3. CASE Receive(d)
  <2>1. accounts' = accounts
    BY <1>3 DEF Receive, tables
  <2>2. PICK request \in Sent(d) :
          LET asks  == request.code = "CONNECT_SEC"
              login == IF asks THEN request.name ELSE thread[d].sender
              count == IF asks THEN thread[d].logins + 1 ELSE thread[d].logins
          IN
          /\ asks => <<d, count>> \in Conn
          /\ login # NULL
          /\ thread' = [thread EXCEPT ![d].buffer = request, ![d].sender = login,
                                      ![d].logins = count, ![d].pc = "handle"]
    BY <1>3 DEF Receive
  <2>3. thread'[d].pc = "handle" /\ \A e \in Client \ {d} : thread'[e] = thread[e]
    BY <1>1, <2>2 DEF Locals
  <2>4. QED
    BY <2>1, <2>3
<1>4. CASE ConnectSec(d)
  BY <1>1, <1>4 DEF ConnectSec, Answer, Respond, Goto, tables, Locals
<1>5. CASE AddAccount(d)
  BY <1>1, <1>5 DEF AddAccount, Locals
<1>6. CASE Enter(d)
  <2>1. thread[d].sender \in Login
    BY <1>6, Stands, Names DEF Enter, Step, StandsWell, Connecting
  <2>2. thread'[d].pc = "join_new" /\ \A e \in Client \ {d} : thread'[e] = thread[e]
    BY <1>1, <1>6 DEF Enter, Locals
  <2>3. QED
    BY <1>6, <2>1, <2>2 DEF Enter
<1>7. CASE DelAccount(d)
  <2>1. thread[d].u.name \in Login
    BY <1>7, Stands DEF DelAccount, Usable
  <2>2. thread'[d].pc = "reply" /\ \A e \in Client \ {d} : thread'[e] = thread[e]
    BY <1>1, <1>7 DEF DelAccount, Respond, Locals
  <2>3. QED
    BY <1>7, <2>1, <2>2 DEF DelAccount
<1>8. CASE Bye(d) \/ ConnectionStopped(d)
  <2>1. PICK label \in {"exited", "stopped"} :
          Exit(d, label) /\ (label = "exited" => Bye(d))
    BY <1>8 DEF Bye, ConnectionStopped
  <2>2. thread'[d].pc = label /\ \A e \in Client \ {d} : thread'[e] = thread[e]
    BY <1>1, <2>1 DEF Exit, NotStarted
  <2>3. accounts' = accounts \/ \E l \in Login : accounts' = change_status(l, accounts)
    BY <2>1, Stands DEF Exit
  <2>4. QED
    BY <2>1, <2>2, <2>3
<1>9. QED
  BY <1>2, <1>3, <1>4, <1>5, <1>6, <1>7, <1>8

\* An account that its client deletes on its way out is not made again.
LEMMA UnconfirmedStep ==
  ASSUME LoginsApart, IInv, UnconfirmedIsDeleted, [Next]_vars
  PROVE  UnconfirmedIsDeleted'
<1> SUFFICES ASSUME NEW c \in Client, thread'[c].pc \in {"leave", "bye"}, thread'[c].first_connection
             PROVE  Registered(thread'[c].sender, accounts') = {}
  BY DEF UnconfirmedIsDeleted
<1>1. accounts \in SUBSET account
  BY DEF IInv, TypeOK
<1>2. thread \in [Client -> Locals] /\ TypeOK
  BY DEF IInv, TypeOK
<1>3. CASE UNCHANGED <<accounts, thread>>
  BY <1>3 DEF UnconfirmedIsDeleted
<1>4. CASE Restart
  BY <1>4 DEF Restart, NotStarted
<1>5. ASSUME NEW d \in Client, Continues(d) PROVE Registered(thread'[c].sender, accounts') = {}
  <2>1. /\ accounts' = accounts /\ thread'[c].sender = thread[c].sender
        /\ thread[c].first_connection
    BY <1>5 DEF Continues
  <2>2. thread[c].pc \in {"leave", "bye"}
    <3>1. CASE c = d
      BY <1>5, <3>1 DEF Continues
    <3>2. CASE c # d
      BY <1>5, <3>2 DEF Continues
    <3>3. QED
      BY <3>1, <3>2
  <2>3. QED
    BY <2>1, <2>2 DEF UnconfirmedIsDeleted
<1>6. ASSUME NEW d \in Client,
             Accept(d) \/ Receive(d) \/ ConnectSec(d) \/ AddAccount(d) \/ Enter(d)
               \/ DelAccount(d) \/ Bye(d) \/ ConnectionStopped(d)
      PROVE  /\ c # d /\ thread'[c] = thread[c]
             /\ \/ accounts' = accounts
                \/ AddAccount(d)
                \/ \E l \in Login : accounts' = change_status(l, accounts)
                \/ \E l \in Login : accounts' = delete_user(l, accounts)
  BY <1>6, AccountStepsMove
<1>7. ASSUME NEW d \in Client,
             Accept(d) \/ Receive(d) \/ ConnectSec(d) \/ AddAccount(d) \/ Enter(d)
               \/ DelAccount(d) \/ Bye(d) \/ ConnectionStopped(d)
      PROVE  Registered(thread'[c].sender, accounts') = {}
  <2> DEFINE l == thread[c].sender
  <2>1. c # d /\ thread'[c] = thread[c]
    BY <1>6, <1>7
  <2>2. l \in LoginsOf[c] /\ l \in Login /\ Registered(l, accounts) = {}
    BY <2>1, Stands, Names DEF UnconfirmedIsDeleted, StandsWell
  <2> HIDE DEF l
  <2>3. CASE accounts' = accounts
    BY <2>1, <2>2, <2>3 DEF l
  <2>4. CASE AddAccount(d)
    <3> DEFINE m == thread[d].sender
               cert == CertOf[d]
    <3>1. m \in LoginsOf[d] /\ m \in Login /\ cert \in Cert
      BY <2>4, Stands, Names DEF AddAccount, Step, StandsWell, Connecting
    <3>2. accounts' = add_user_db(m, cert, accounts)
      BY <2>4 DEF AddAccount
    <3>3. l # m
      BY <2>1, <2>2, <3>1 DEF LoginsApart
    <3> HIDE DEF m, cert
    <3>4. \A a \in add_user_db(m, cert, accounts) :
            \/ a \in accounts
            \/ Registered(m, accounts) = {} /\ a.login = m /\ a.cert = cert /\ ~ a.on
      BY <1>1, <3>1, Inserted
    <3>5. QED
      BY <2>1, <2>2, <3>2, <3>3, <3>4 DEF Registered, l
  <2>5. CASE \E m \in Login : accounts' = change_status(m, accounts)
    <3>1. PICK m \in Login : accounts' = change_status(m, accounts)
      BY <2>5
    <3>2. Registered(l, change_status(m, accounts)) = {}
      BY <1>1, <2>2, NoneToToggle
    <3>3. QED
      BY <2>1, <3>1, <3>2 DEF l
  <2>6. CASE \E m \in Login : accounts' = delete_user(m, accounts)
    BY <2>1, <2>2, <2>6 DEF delete_user, Registered, l
  <2>7. QED
    BY <1>6, <1>7, <2>3, <2>4, <2>5, <2>6
<1>8. ASSUME NEW d \in Client, Disconnect(d) PROVE Registered(thread'[c].sender, accounts') = {}
  <2>1. /\ \A e \in Client \ {d} : thread'[e] = thread[e]
        /\ thread'[d].sender = thread[d].sender
        /\ thread'[d].first_connection = thread[d].first_connection
    BY <1>2, <1>8 DEF Disconnect, Locals
  <2>2. accounts' \subseteq accounts
    BY <1>8 DEF Disconnect, delete_user
  <2>3. CASE c = d
    <3>1. accounts' = delete_user(thread[c].sender, accounts)
      BY <1>8, <2>1, <2>3 DEF Disconnect
    <3>2. QED
      BY <2>1, <2>3, <3>1 DEF delete_user, Registered
  <2>4. CASE c # d
    BY <2>1, <2>2, <2>4 DEF UnconfirmedIsDeleted, Registered
  <2>5. QED
    BY <2>3, <2>4
<1>9. QED
  BY <1>2, <1>3, <1>4, <1>5, <1>7, <1>8, AccountsMove

\* When no two clients ask for one login, a client that leaves before the plain
\* server let it in leaves no account behind it, however many others make and
\* delete theirs meanwhile (secure_server.c:374-378,405,433-440).
THEOREM UnconfirmedAccountsGo == ASSUME LoginsApart PROVE Spec => OnlyConfirmedAccountsStay
<1>1. Init => UnconfirmedIsDeleted
  BY DEF Init, UnconfirmedIsDeleted, NotStarted
<1>2. IInv /\ UnconfirmedIsDeleted /\ [Next]_vars => UnconfirmedIsDeleted'
  BY UnconfirmedStep
<1>3. ASSUME UnconfirmedIsDeleted, UnconfirmedIsDeleted', IInv, [Next]_vars
      PROVE  \A c \in Client :
               thread[c].pc = "bye" /\ thread'[c].pc = "exited" /\ thread[c].first_connection
                 => Registered(thread[c].sender, accounts') = {}
  <2> SUFFICES ASSUME NEW c \in Client,
                      thread[c].pc = "bye", thread'[c].pc = "exited", thread[c].first_connection
               PROVE  Registered(thread[c].sender, accounts') = {}
    OBVIOUS
  <2>1. thread \in [Client -> Locals] /\ TypeOK
    BY <1>3 DEF IInv, TypeOK
  <2>0. accounts \in SUBSET account
    BY <1>3 DEF IInv, TypeOK
  <2>2. Registered(thread[c].sender, accounts) = {}
    BY <1>3 DEF UnconfirmedIsDeleted
  <2>3. ~ Restart /\ ~ UNCHANGED <<accounts, thread>> /\ ~ \E d \in Client : Continues(d)
    BY DEF Restart, NotStarted, Continues
  <2>4. ~ \E d \in Client : Disconnect(d)
    <3>1. ASSUME NEW d \in Client, Disconnect(d) PROVE thread'[c].pc # "exited"
      <4>1. thread'[d].pc = "leave" /\ \A e \in Client \ {d} : thread'[e] = thread[e]
        BY <2>1, <3>1 DEF Disconnect, Locals
      <4>2. QED
        BY <4>1
    <3>2. QED
      BY <3>1
  <2>5. Bye(c)
    BY <1>3, <2>1, <2>3, <2>4, AccountsMove, AccountStepsMove
  <2>6. CASE thread[c].sender = NULL
    BY <2>2, <2>5, <2>6 DEF Bye, Exit
  <2>7. CASE thread[c].sender # NULL
    <3> DEFINE l == thread[c].sender
    <3>1. accounts' = change_status(l, accounts)
      BY <2>5, <2>7 DEF Bye, Exit
    <3>2. l \in Login
      BY <1>3, <2>7, Stands
    <3> HIDE DEF l
    <3>3. \A a \in change_status(l, accounts) :
            \/ a \in accounts /\ a.login # l
            \/ a.login = l /\ \E b \in accounts : b.login = l /\ b.cert = a.cert /\ (a.on <=> ~ b.on)
      BY <2>0, <3>2, Updated
    <3>4. Registered(l, accounts') = {}
      BY <2>2, <3>1, <3>3 DEF Registered, l
    <3>5. QED
      BY <3>4 DEF l
  <2>8. QED
    BY <2>6, <2>7
<1>4. QED
  BY <1>1, <1>2, <1>3, InvariantHolds, PTL DEF Spec, OnlyConfirmedAccountsStay

=============================================================================
