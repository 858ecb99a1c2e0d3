--------------------------- MODULE ManagerLemmas ---------------------------
(***************************************************************************)
(* What the operations of the two managers preserve and return, whatever   *)
(* the hash functions are.                                                 *)
(***************************************************************************)
EXTENDS RoomManager, TLAPS

----------------------------------------------------------------------------
\* The bucket of a login is a bucket of every table (hash_user).
LEMMA BucketOfLogin ==
  ASSUME NEW l \in Login
  PROVE  UserHash[l] \in UserBucket
  BY DEF UserBucket

\* Being met by a walk of the chains.
LEMMA UsersOf ==
  ASSUME NEW map \in user_map
  PROVE  /\ Users(map) \subseteq user
         /\ \A x : x \in Users(map) <=>
              \E b \in UserBucket : \E i \in DOMAIN map[b] : map[b][i] = x
  BY DEF Users, user_map

\* An empty table is well kept and holds nobody (create_user_map).
LEMMA CreateUserMap ==
  /\ create_user_map \in user_map
  /\ WellHashed(create_user_map)
  /\ Users(create_user_map) = {}
  BY DEF create_user_map, user_map, WellHashed, Users

\* In a well kept table, a login is in use exactly when a user carries it.
LEMMA LoginUsed ==
  ASSUME NEW map \in user_map, WellHashed(map), NEW l \in Login
  PROVE  is_login_used(l, map) <=> \E x \in Users(map) : x.name = l
  BY BucketOfLogin DEF is_login_used, Chain, Users, user_map, WellHashed, user

\* add_user adds its user and nobody else, and never a second one of a name.
LEMMA AddUser ==
  ASSUME NEW map \in user_map, WellHashed(map), NEW x \in user
  PROVE  /\ add_user(x, map) \in user_map
         /\ WellHashed(add_user(x, map))
         /\ Users(add_user(x, map)) \subseteq Users(map) \cup {x}
<1> DEFINE h == UserHash[x.name]
           new == [map EXCEPT ![h] = <<x>> \o @]
<1>1. h \in UserBucket
  BY BucketOfLogin DEF user
<1>2. CASE is_login_used(x.name, map)
  BY <1>2 DEF add_user
<1>3. CASE ~ is_login_used(x.name, map)
  <2>1. add_user(x, map) = new
    BY <1>3 DEF add_user
  <2>2. map[h] \in Seq(user)
    BY <1>1 DEF user_map
  <2>3. /\ new[h] \in Seq(user)
        /\ DOMAIN new[h] = 1 .. Len(map[h]) + 1
        /\ \A i \in DOMAIN new[h] : new[h][i] = IF i = 1 THEN x ELSE map[h][i - 1]
        /\ \A i \in DOMAIN new[h] : i # 1 => i - 1 \in DOMAIN map[h]
    <3>1. new[h] = <<x>> \o map[h]
      BY <1>1 DEF user_map
    <3>2. ASSUME NEW s \in Seq(user), NEW t, t = <<x>> \o s
          PROVE  /\ t \in Seq(user)
                 /\ DOMAIN t = 1 .. Len(s) + 1
                 /\ \A i \in DOMAIN t : t[i] = IF i = 1 THEN x ELSE s[i - 1]
                 /\ \A i \in DOMAIN t : i # 1 => i - 1 \in DOMAIN s
      BY <3>2
    <3>3. QED
      BY <2>2, <3>1, <3>2
  <2>4. /\ DOMAIN new = UserBucket
        /\ \A b \in UserBucket : b # h => new[b] = map[b]
    BY DEF user_map
  <2>5. new \in user_map
    BY <2>3, <2>4 DEF user_map
  <2>6. \A i \in DOMAIN map[h] : map[h][i].name # x.name
    BY <1>3 DEF is_login_used, Chain
  <2>7. ASSUME NEW b \in UserBucket, NEW i \in DOMAIN new[b]
        PROVE  /\ UserHash[new[b][i].name] = b
               /\ \A j \in DOMAIN new[b] : new[b][j].name = new[b][i].name => j = i
    <3>1. CASE b # h
      BY <2>4, <2>7, <3>1 DEF WellHashed, user_map
    <3>2. CASE b = h
      <4> DEFINE s == map[h]
      <4>1. /\ \A k \in DOMAIN s : UserHash[s[k].name] = h
            /\ \A k, m \in DOMAIN s : s[k].name = s[m].name => k = m
        BY <1>1 DEF WellHashed, user_map
      <4>2. UserHash[new[b][i].name] = b
        <5>1. CASE i = 1
          BY <2>3, <2>7, <3>2, <5>1
        <5>2. CASE i # 1
          <6>1. new[b][i] = s[i - 1] /\ i - 1 \in DOMAIN s
            BY <2>3, <2>7, <3>2, <5>2
          <6>2. QED
            BY <3>2, <4>1, <6>1
        <5>3. QED
          BY <5>1, <5>2
      <4>3. ASSUME NEW j \in DOMAIN new[b], new[b][j].name = new[b][i].name
            PROVE  j = i
        <5>1. CASE i = 1
          BY <2>3, <2>6, <2>7, <3>2, <4>3, <5>1
        <5>2. CASE j = 1
          BY <2>3, <2>6, <2>7, <3>2, <4>3, <5>2
        <5>3. CASE i # 1 /\ j # 1
          <6>1. i - 1 = j - 1
            <7>1. /\ new[b][i] = s[i - 1] /\ i - 1 \in DOMAIN s
                  /\ new[b][j] = s[j - 1] /\ j - 1 \in DOMAIN s
              BY <2>3, <2>7, <3>2, <4>3, <5>3
            <7>2. QED
              BY <4>1, <4>3, <7>1
          <6>2. i \in Nat /\ j \in Nat
            BY <2>2, <2>3, <2>7, <3>2, <4>3
          <6>3. QED
            BY <6>1, <6>2
        <5>4. QED
          BY <5>1, <5>2, <5>3
      <4>4. QED
        BY <4>2, <4>3
    <3>3. QED
      BY <3>1, <3>2
  <2>8. WellHashed(new)
    BY <2>4, <2>7 DEF WellHashed
  <2>9. ASSUME NEW y \in Users(new), y # x
        PROVE  y \in Users(map)
    <3>0. PICK b \in UserBucket : \E i \in DOMAIN new[b] : new[b][i] = y
      BY <2>5, <2>9, UsersOf
    <3>1. PICK i \in DOMAIN new[b] : new[b][i] = y
      BY <3>0
    <3>2. \E k \in DOMAIN map[b] : map[b][k] = y
      BY <2>3, <2>4, <2>9, <3>1
    <3>3. QED
      BY <3>2, UsersOf
  <2>10. QED
    BY <2>1, <2>5, <2>8, <2>9
<1>4. QED
  BY <1>2, <1>3

\* remove_user takes its user out; it never brings anybody in, though it may
\* take others out too.
LEMMA RemoveUser ==
  ASSUME NEW map \in user_map, WellHashed(map), NEW x \in user
  PROVE  /\ remove_user(x, map) \in user_map
         /\ WellHashed(remove_user(x, map))
         /\ Users(remove_user(x, map)) \subseteq Users(map)
         /\ x \notin Users(remove_user(x, map))
<1> DEFINE h == UserHash[x.name]
           new == [map EXCEPT ![h] = <<>>]
<1>1. x.name \in Login /\ h \in UserBucket
  BY BucketOfLogin DEF user
<1>2. CASE ~ is_login_used(x.name, map)
  BY <1>1, <1>2, LoginUsed DEF remove_user
<1>3. CASE is_login_used(x.name, map)
  <2>1. remove_user(x, map) = new
    BY <1>3 DEF remove_user
  <2>2. /\ DOMAIN new = UserBucket
        /\ new[h] = <<>>
        /\ \A b \in UserBucket : b # h => new[b] = map[b]
    BY <1>1 DEF user_map
  <2>3. new \in user_map
    <3>1. new = [b \in UserBucket |-> IF b = h THEN <<>> ELSE map[b]]
      BY DEF user_map
    <3>2. <<>> \in Seq(user)
      OBVIOUS
    <3>3. QED
      BY <3>1, <3>2 DEF user_map
  <2>4. WellHashed(new)
    BY <2>2 DEF WellHashed, user_map
  <2>5. ASSUME NEW y \in Users(new)
        PROVE  y \in Users(map) /\ y # x
    <3>0. PICK b \in UserBucket : \E i \in DOMAIN new[b] : new[b][i] = y
      BY <2>3, <2>5, UsersOf
    <3>1. PICK i \in DOMAIN new[b] : new[b][i] = y
      BY <3>0
    <3>2. b # h
      BY <2>2, <3>1
    <3>3. y \in Users(map)
      BY <2>2, <3>1, <3>2, UsersOf
    <3>4. UserHash[y.name] = b
      BY <2>2, <3>1, <3>2 DEF WellHashed, user_map
    <3>5. QED
      BY <3>2, <3>3, <3>4
  <2>6. QED
    BY <2>1, <2>3, <2>4, <2>5
<1>4. QED
  BY <1>2, <1>3

\* get_user finds a user of the table.
LEMMA GetUser ==
  ASSUME NEW map \in user_map, WellHashed(map), NEW l \in Login, is_login_used(l, map)
  PROVE  get_user(l, map) \in Users(map)
<1> DEFINE chain == map[UserHash[l]]
           P(i) == chain[i].name = l /\ \A j \in 1 .. i - 1 : chain[j].name # l
<1>1. UserHash[l] \in UserBucket /\ chain \in Seq(user)
  BY BucketOfLogin DEF user_map
<1>2. PICK i \in DOMAIN chain : chain[i].name = l
  BY DEF is_login_used, Chain
<1>3. \A j \in DOMAIN chain : chain[j].name = l => j = i
  BY <1>1, <1>2 DEF WellHashed, user_map
<1>4. P(i)
  BY <1>1, <1>2, <1>3
<1>5. (CHOOSE k \in DOMAIN chain : P(k)) \in DOMAIN chain
  BY <1>4
<1>6. get_user(l, map) = chain[CHOOSE k \in DOMAIN chain : P(k)]
  BY DEF get_user, Chain
<1>7. QED
  BY <1>1, <1>5, <1>6, UsersOf

----------------------------------------------------------------------------
\* The bucket of a name is a bucket of the table (hash_room_name).
LEMMA BucketOfName ==
  ASSUME NEW n \in RoomName
  PROVE  RoomHash[n] \in RoomBucket
  BY DEF RoomBucket

\* Being met by a walk of the chains of rooms.
LEMMA AllRoomsOf ==
  ASSUME NEW rooms \in room_map
  PROVE  /\ AllRooms(rooms) \subseteq room
         /\ \A r : r \in AllRooms(rooms) <=>
              \E b \in RoomBucket : \E i \in DOMAIN rooms[b] : rooms[b][i] = r
  BY DEF AllRooms, room_map

\* A name in use is the name of one room, and a lookup finds that room.
LEMMA FindRoom ==
  ASSUME NEW rooms \in room_map,
         NEW names \in SUBSET RoomName, WellKept(names, rooms), NEW n \in names,
         is_room_used(n, rooms)
  PROVE  /\ Position(n, rooms) \in DOMAIN RoomChain(n, rooms)
         /\ RoomOf(n, rooms) \in AllRooms(rooms)
         /\ RoomOf(n, rooms) \in room
         /\ RoomOf(n, rooms).name = n
         /\ WellHashed(RoomOf(n, rooms).users)
         /\ \A i \in DOMAIN RoomChain(n, rooms) :
              RoomChain(n, rooms)[i].name = n => i = Position(n, rooms)
         /\ \A r \in AllRooms(rooms) : r.name = n => r = RoomOf(n, rooms)
<1> DEFINE chain == rooms[RoomHash[n]]
           P(i) == chain[i].name = n /\ \A j \in 1 .. i - 1 : chain[j].name # n
<1>1. RoomHash[n] \in RoomBucket /\ chain \in Seq(room)
  BY BucketOfName DEF room_map
<1>2. PICK i \in DOMAIN chain : chain[i].name = n
  BY DEF is_room_used, RoomChain
<1>3. \A j \in DOMAIN chain : chain[j].name = n => j = i
  BY <1>1, <1>2 DEF WellKept, room_map
<1>4. P(i)
  BY <1>1, <1>2, <1>3
<1> DEFINE k == CHOOSE j \in DOMAIN chain : P(j)
<1>5. k \in DOMAIN chain /\ P(k)
  BY <1>4
<1>6. k = i
  BY <1>3, <1>5
<1>7. Position(n, rooms) = i
  BY <1>6 DEF Position, RoomChain
<1>8. RoomOf(n, rooms) = chain[i]
  BY <1>7 DEF RoomOf, RoomChain
<1>9. chain[i] \in AllRooms(rooms) /\ chain[i] \in room
  BY <1>1, AllRoomsOf
<1>10. WellHashed(chain[i].users)
  BY <1>1 DEF WellKept, room_map
<1>11. ASSUME NEW r \in AllRooms(rooms), r.name = n
       PROVE  r = chain[i]
  <2>1. PICK b \in RoomBucket : \E j \in DOMAIN rooms[b] : rooms[b][j] = r
    BY AllRoomsOf
  <2>2. PICK j \in DOMAIN rooms[b] : rooms[b][j] = r
    BY <2>1
  <2>3. b = RoomHash[n]
    BY <1>11, <2>2 DEF WellKept, room_map
  <2>4. QED
    BY <1>3, <1>11, <2>2, <2>3
<1>12. QED
  BY <1>2, <1>3, <1>7, <1>8, <1>9, <1>10, <1>11 DEF RoomChain

\* A name is in use exactly when a room carries it.
LEMMA RoomUsed ==
  ASSUME NEW rooms \in room_map,
         NEW names \in SUBSET RoomName, WellKept(names, rooms), NEW n \in names
  PROVE  is_room_used(n, rooms) <=> \E r \in AllRooms(rooms) : r.name = n
<1>1. is_room_used(n, rooms) => \E r \in AllRooms(rooms) : r.name = n
  BY FindRoom
<1>2. ASSUME NEW r \in AllRooms(rooms), r.name = n
      PROVE  is_room_used(n, rooms)
  <2>1. PICK b \in RoomBucket : \E j \in DOMAIN rooms[b] : rooms[b][j] = r
    BY AllRoomsOf
  <2>2. PICK j \in DOMAIN rooms[b] : rooms[b][j] = r
    BY <2>1
  <2>3. b = RoomHash[n]
    BY <1>2, <2>2 DEF WellKept, room_map
  <2>4. QED
    BY <1>2, <2>2, <2>3 DEF is_room_used, RoomChain
<1>3. QED
  BY <1>1, <1>2

\* get_users lists users of a room, and nothing when there is no such room.
LEMMA GetUsers ==
  ASSUME NEW rooms \in room_map,
         NEW names \in SUBSET RoomName, WellKept(names, rooms), NEW n \in names
  PROVE  /\ get_users(n, rooms) \subseteq user
         /\ \A x : x \in get_users(n, rooms) <=>
              \E r \in AllRooms(rooms) : r.name = n /\ x \in Users(r.users)
<1>1. CASE is_room_used(n, rooms)
  <2>1. RoomOf(n, rooms).users \in user_map
    BY <1>1, FindRoom DEF room
  <2>2. QED
    BY <1>1, <2>1, FindRoom, UsersOf DEF get_users
<1>2. CASE ~ is_room_used(n, rooms)
  BY <1>2, RoomUsed DEF get_users
<1>3. QED
  BY <1>1, <1>2

\* The list of rooms to leave has every room the user is in.
LEMMA GetUserRooms ==
  ASSUME NEW rooms \in room_map,
         NEW names \in SUBSET RoomName, WellKept(names, rooms), NEW x
  PROVE  /\ get_user_rooms(x, rooms) \subseteq names
         /\ \A r \in AllRooms(rooms) :
              r.name \in names /\ x \in Users(r.users) => r.name \in get_user_rooms(x, rooms)
<1>1. ASSUME NEW r \in AllRooms(rooms), r.name \in names, x \in Users(r.users)
      PROVE  r.name \in get_user_rooms(x, rooms)
  <2>1. is_room_used(r.name, rooms)
    BY <1>1, RoomUsed
  <2>2. x \in get_users(r.name, rooms)
    BY <1>1, GetUsers
  <2>3. QED
    BY <1>1, <2>1, <2>2 DEF get_user_rooms, RoomNames, is_user_in_room
<1>2. ASSUME NEW n \in RoomName, is_room_used(n, rooms)
      PROVE  n \in names
  <2>1. RoomHash[n] \in RoomBucket
    BY BucketOfName
  <2>2. PICK i \in DOMAIN rooms[RoomHash[n]] : rooms[RoomHash[n]][i].name = n
    BY <1>2 DEF is_room_used, RoomChain
  <2>3. QED
    BY <2>1, <2>2 DEF WellKept, room_map
<1>3. QED
  BY <1>1, <1>2 DEF get_user_rooms, RoomNames

\* The admin of a room is a user, or there is none.
LEMMA GetAdmin ==
  ASSUME NEW rooms \in room_map,
         NEW names \in SUBSET RoomName, WellKept(names, rooms), NEW n \in names
  PROVE  get_admin(n, rooms) \in user \cup {NULL}
  BY FindRoom DEF get_admin, room

----------------------------------------------------------------------------
\* add_room adds one room, with its admin as only user.
LEMMA AddRoom ==
  ASSUME NEW rooms \in room_map,
         NEW names \in SUBSET RoomName, WellKept(names, rooms), NEW n \in names,
         NEW admin \in user \cup {NULL}
  PROVE  /\ add_room(n, admin, rooms) \in room_map
         /\ WellKept(names, add_room(n, admin, rooms))
         /\ \A r \in AllRooms(add_room(n, admin, rooms)) :
              r \in AllRooms(rooms) \/ Users(r.users) \subseteq user \cap {admin}
<1> DEFINE h     == RoomHash[n]
           users == IF admin = NULL THEN create_user_map ELSE add_user(admin, create_user_map)
           x     == [name |-> n, admin |-> admin, users |-> users]
           new   == [rooms EXCEPT ![h] = <<x>> \o @]
<1>1. h \in RoomBucket
  BY BucketOfName
<1>2. /\ users \in user_map
      /\ WellHashed(users)
      /\ Users(users) \subseteq user \cap {admin}
  <2>1. CASE admin = NULL
    BY <2>1, CreateUserMap
  <2>2. CASE admin # NULL
    BY <2>2, CreateUserMap, AddUser
  <2>3. QED
    BY <2>1, <2>2
<1>3. x \in room
  BY <1>2 DEF room
<1>4. CASE is_room_used(n, rooms)
  BY <1>4 DEF add_room
<1>5. CASE ~ is_room_used(n, rooms)
  <2>1. add_room(n, admin, rooms) = new
    BY <1>5 DEF add_room
  <2>2. rooms[h] \in Seq(room)
    BY <1>1 DEF room_map
  <2> HIDE DEF x
  <2>3. /\ new[h] \in Seq(room)
        /\ DOMAIN new[h] = 1 .. Len(rooms[h]) + 1
        /\ \A i \in DOMAIN new[h] : new[h][i] = IF i = 1 THEN x ELSE rooms[h][i - 1]
        /\ \A i \in DOMAIN new[h] : i # 1 => i - 1 \in DOMAIN rooms[h]
    <3>1. new[h] = <<x>> \o rooms[h]
      BY <1>1 DEF room_map
    <3>2. ASSUME NEW s \in Seq(room), NEW t, t = <<x>> \o s
          PROVE  /\ t \in Seq(room)
                 /\ DOMAIN t = 1 .. Len(s) + 1
                 /\ \A i \in DOMAIN t : t[i] = IF i = 1 THEN x ELSE s[i - 1]
                 /\ \A i \in DOMAIN t : i # 1 => i - 1 \in DOMAIN s
      BY <1>3, <3>2
    <3>3. QED
      BY <2>2, <3>1, <3>2
  <2>4. /\ DOMAIN new = RoomBucket
        /\ \A b \in RoomBucket : b # h => new[b] = rooms[b]
    BY DEF room_map
  <2>5. new \in room_map
    BY <2>3, <2>4 DEF room_map
  <2>6. x.name = n /\ x.users = users
    BY DEF x
  <2>7. \A i \in DOMAIN rooms[h] : rooms[h][i].name # x.name
    BY <1>5, <2>6 DEF is_room_used, RoomChain
  <2>8. ASSUME NEW b \in RoomBucket, NEW i \in DOMAIN new[b]
        PROVE  /\ new[b][i].name \in names <=> RoomHash[new[b][i].name] = b
               /\ WellHashed(new[b][i].users)
               /\ new[b][i].name \in names =>
                    \A j \in DOMAIN new[b] : new[b][j].name = new[b][i].name => j = i
    <3>1. CASE b # h
      BY <2>4, <2>8, <3>1 DEF WellKept, room_map
    <3>2. CASE b = h
      <4> DEFINE s == rooms[h]
      <4>1. /\ \A k \in DOMAIN s : /\ s[k].name \in names <=> RoomHash[s[k].name] = h
                                   /\ WellHashed(s[k].users)
            /\ \A k, m \in DOMAIN s : s[k].name \in names /\ s[k].name = s[m].name => k = m
        BY <1>1 DEF WellKept, room_map
      <4>2. /\ new[b][i].name \in names <=> RoomHash[new[b][i].name] = b
            /\ WellHashed(new[b][i].users)
        BY <1>2, <2>3, <2>6, <2>8, <3>2, <4>1
      <4>3. ASSUME new[b][i].name \in names,
                   NEW j \in DOMAIN new[b], new[b][j].name = new[b][i].name
            PROVE  j = i
        <5>1. CASE i = 1
          BY <2>3, <2>7, <2>8, <3>2, <4>3, <5>1
        <5>2. CASE j = 1
          BY <2>3, <2>7, <2>8, <3>2, <4>3, <5>2
        <5>3. CASE i # 1 /\ j # 1
          <6>1. i - 1 = j - 1
            BY <2>3, <2>8, <3>2, <4>1, <4>3, <5>3
          <6>2. i \in Nat /\ j \in Nat
            BY <2>2, <2>3, <2>8, <3>2, <4>3
          <6>3. QED
            BY <6>1, <6>2
        <5>4. QED
          BY <5>1, <5>2, <5>3
      <4>4. QED
        BY <4>2, <4>3
    <3>3. QED
      BY <3>1, <3>2
  <2>9. WellKept(names, new)
    BY <2>4, <2>8 DEF WellKept
  <2>10. ASSUME NEW r \in AllRooms(new)
         PROVE  r \in AllRooms(rooms) \/ Users(r.users) \subseteq user \cap {admin}
    <3>1. PICK b \in RoomBucket : \E i \in DOMAIN new[b] : new[b][i] = r
      BY <2>5, <2>10, AllRoomsOf
    <3>2. PICK i \in DOMAIN new[b] : new[b][i] = r
      BY <3>1
    <3>3. CASE r = x
      BY <1>2, <2>6, <3>3
    <3>4. CASE r # x
      <4>1. \E k \in DOMAIN rooms[b] : rooms[b][k] = r
        BY <2>3, <2>4, <3>2, <3>4
      <4>2. QED
        BY <4>1, AllRoomsOf
    <3>5. QED
      BY <3>3, <3>4
  <2>11. QED
    BY <2>1, <2>5, <2>9, <2>10
<1>6. QED
  BY <1>4, <1>5

\* Unlinking a node drops it and keeps the order of the others.
LEMMA UnlinkNode ==
  ASSUME NEW T, NEW s \in Seq(T), NEW k \in DOMAIN s
  PROVE  /\ Unlink(s, k) \in Seq(T)
         /\ DOMAIN Unlink(s, k) = 1 .. Len(s) - 1
         /\ \A i \in DOMAIN Unlink(s, k) :
              LET was == IF i < k THEN i ELSE i + 1
              IN was \in DOMAIN s /\ was # k /\ Unlink(s, k)[i] = s[was]
<1>1. /\ Len(s) \in Nat /\ k \in 1 .. Len(s) /\ DOMAIN s = 1 .. Len(s)
      /\ \A i \in 1 .. Len(s) : s[i] \in T
  OBVIOUS
<1>2. Len(s) - 1 \in Nat
  BY <1>1
<1>3. /\ DOMAIN Unlink(s, k) = 1 .. Len(s) - 1
      /\ \A i \in 1 .. Len(s) - 1 :
           Unlink(s, k)[i] = IF i < k THEN s[i] ELSE s[i + 1]
  BY DEF Unlink
<1>4. \A i \in 1 .. Len(s) - 1 : i \in 1 .. Len(s) /\ i + 1 \in 1 .. Len(s)
  BY <1>1
<1>5. Unlink(s, k) \in [1 .. Len(s) - 1 -> T]
  BY <1>1, <1>4 DEF Unlink
<1>6. Unlink(s, k) \in Seq(T)
  BY <1>2, <1>5
<1>7. QED
  BY <1>1, <1>3, <1>4, <1>6

\* remove_room takes the room of that name out; it brings none in and changes
\* none, though it may take others out too.
LEMMA RemoveRoom ==
  ASSUME NEW rooms \in room_map,
         NEW names \in SUBSET RoomName, WellKept(names, rooms), NEW n \in names
  PROVE  /\ remove_room(n, rooms) \in room_map
         /\ WellKept(names, remove_room(n, rooms))
         /\ AllRooms(remove_room(n, rooms)) \subseteq AllRooms(rooms)
         /\ \A r \in AllRooms(remove_room(n, rooms)) : r.name # n
<1> DEFINE h   == RoomHash[n]
           p   == Position(n, rooms)
           new == remove_room(n, rooms)
<1>1. h \in RoomBucket
  BY BucketOfName
<1>2. CASE ~ is_room_used(n, rooms)
  BY <1>2, RoomUsed DEF remove_room
<1>3. CASE is_room_used(n, rooms)
  <2>1. /\ p \in DOMAIN rooms[h]
        /\ \A i \in DOMAIN rooms[h] : rooms[h][i].name = n => i = p
    BY <1>3, FindRoom DEF RoomChain
  <2>2. rooms[h] \in Seq(room)
    BY <1>1 DEF room_map
  <2>3. /\ DOMAIN new = RoomBucket
        /\ \A b \in RoomBucket : b # h => new[b] = rooms[b]
        /\ new[h] = IF p = 1 THEN <<>> ELSE Unlink(rooms[h], p)
        /\ new = [b \in RoomBucket |-> new[b]]
    BY <1>1, <1>3 DEF remove_room, room_map
  <2> HIDE DEF new, p
  <2>4. \E f \in [DOMAIN new[h] -> DOMAIN rooms[h]] :
          /\ \A i \in DOMAIN new[h] : new[h][i] = rooms[h][f[i]] /\ f[i] # p
          /\ \A i, j \in DOMAIN new[h] : f[i] = f[j] => i = j
    <3>1. CASE p = 1
      <4>1. DOMAIN new[h] = {}
        BY <2>3, <3>1
      <4> DEFINE f == [i \in DOMAIN new[h] |-> p]
      <4>2. f \in [DOMAIN new[h] -> DOMAIN rooms[h]]
        BY <2>1
      <4>3. QED
        BY <4>1, <4>2
    <3>2. CASE p # 1
      <4> DEFINE f == [i \in DOMAIN new[h] |-> IF i < p THEN i ELSE i + 1]
      <4>1. new[h] = Unlink(rooms[h], p)
        BY <2>3, <3>2
      <4>2. /\ DOMAIN new[h] = 1 .. Len(rooms[h]) - 1
            /\ \A i \in DOMAIN new[h] :
                 f[i] \in DOMAIN rooms[h] /\ f[i] # p /\ new[h][i] = rooms[h][f[i]]
        <5>1. ASSUME NEW s, s = rooms[h]
              PROVE  /\ DOMAIN Unlink(s, p) = 1 .. Len(s) - 1
                     /\ \A i \in DOMAIN Unlink(s, p) :
                          LET was == IF i < p THEN i ELSE i + 1
                          IN was \in DOMAIN s /\ was # p /\ Unlink(s, p)[i] = s[was]
          <6>1. s \in Seq(room) /\ p \in DOMAIN s
            BY <2>1, <2>2, <5>1
          <6>2. QED
            BY <6>1, UnlinkNode
        <5>2. QED
          BY <4>1, <5>1
      <4>3. p \in Nat /\ Len(rooms[h]) \in Nat
        BY <2>1, <2>2
      <4>4. \A i, j \in DOMAIN new[h] : f[i] = f[j] => i = j
        BY <4>2, <4>3
      <4>5. f \in [DOMAIN new[h] -> DOMAIN rooms[h]]
        BY <4>2
      <4> HIDE DEF f
      <4>6. QED
        BY <4>2, <4>4, <4>5
    <3>3. QED
      BY <3>1, <3>2
  <2>5. new[h] \in Seq(room)
    <3>1. <<>> \in Seq(room)
      OBVIOUS
    <3>2. Unlink(rooms[h], p) \in Seq(room)
      BY <2>1, <2>2, UnlinkNode
    <3>3. QED
      BY <2>3, <3>1, <3>2
  <2>6. new \in room_map
    BY <2>3, <2>5 DEF room_map
  <2>7. ASSUME NEW b \in RoomBucket, NEW i \in DOMAIN new[b]
        PROVE  /\ \E k \in DOMAIN rooms[b] : rooms[b][k] = new[b][i]
               /\ new[b][i].name # n
               /\ new[b][i].name \in names <=> RoomHash[new[b][i].name] = b
               /\ WellHashed(new[b][i].users)
               /\ new[b][i].name \in names =>
                    \A j \in DOMAIN new[b] : new[b][j].name = new[b][i].name => j = i
    <3>1. /\ \A k \in DOMAIN rooms[b] :
               /\ rooms[b][k].name \in names <=> RoomHash[rooms[b][k].name] = b
               /\ WellHashed(rooms[b][k].users)
          /\ \A k, m \in DOMAIN rooms[b] :
               rooms[b][k].name \in names /\ rooms[b][k].name = rooms[b][m].name => k = m
      BY DEF WellKept, room_map
    <3>2. CASE b # h
      BY <2>3, <2>7, <3>1, <3>2
    <3>3. CASE b = h
      <4>1. PICK f \in [DOMAIN new[h] -> DOMAIN rooms[h]] :
              /\ \A k \in DOMAIN new[h] : new[h][k] = rooms[h][f[k]] /\ f[k] # p
              /\ \A k, m \in DOMAIN new[h] : f[k] = f[m] => k = m
        BY <2>4
      <4>2. \A k \in DOMAIN new[h] : f[k] \in DOMAIN rooms[h]
        BY <4>1
      <4>3. QED
        BY <2>1, <2>7, <3>1, <3>3, <4>1, <4>2
    <3>4. QED
      BY <3>2, <3>3
  <2>8. WellKept(names, new)
    BY <2>3, <2>7 DEF WellKept
  <2>9. ASSUME NEW r \in AllRooms(new)
        PROVE  r \in AllRooms(rooms) /\ r.name # n
    <3>1. PICK b \in RoomBucket : \E i \in DOMAIN new[b] : new[b][i] = r
      BY <2>6, <2>9, AllRoomsOf
    <3>2. QED
      BY <2>7, <3>1, AllRoomsOf
  <2>10. QED
    BY <2>6, <2>8, <2>9 DEF new
<1>4. QED
  BY <1>2, <1>3

\* Replacing the users of one room changes that room and no other.
LEMMA ReplaceUsers ==
  ASSUME NEW rooms \in room_map,
         NEW names \in SUBSET RoomName, WellKept(names, rooms), NEW n \in names,
         is_room_used(n, rooms),
         NEW map \in user_map, WellHashed(map)
  PROVE  /\ WithUsers(n, map, rooms) \in room_map
         /\ WellKept(names, WithUsers(n, map, rooms))
         /\ \A r \in AllRooms(WithUsers(n, map, rooms)) :
              IF r.name = n THEN r.users = map ELSE r \in AllRooms(rooms)
<1> DEFINE h   == RoomHash[n]
           p   == Position(n, rooms)
           x   == [rooms[h][p] EXCEPT !.users = map]
           new == WithUsers(n, map, rooms)
<1>1. /\ h \in RoomBucket
      /\ rooms[h] \in Seq(room)
      /\ p \in DOMAIN rooms[h]
      /\ rooms[h][p] \in room
      /\ rooms[h][p].name = n
      /\ \A i \in DOMAIN rooms[h] : rooms[h][i].name = n => i = p
  BY BucketOfName, FindRoom DEF RoomChain, RoomOf, room_map
<1>2. x \in room /\ x.name = n /\ x.users = map
  BY <1>1 DEF room
<1>3. /\ new = [b \in RoomBucket |-> new[b]]
      /\ new[h] = [rooms[h] EXCEPT ![p] = x]
      /\ \A b \in RoomBucket : b # h => new[b] = rooms[b]
  BY <1>1 DEF WithUsers, room_map
<1> HIDE DEF x, new, p
<1>4. /\ new[h] \in Seq(room)
      /\ DOMAIN new[h] = DOMAIN rooms[h]
      /\ \A i \in DOMAIN rooms[h] : new[h][i] = IF i = p THEN x ELSE rooms[h][i]
  BY <1>1, <1>2, <1>3
<1>5. new \in room_map
  BY <1>3, <1>4 DEF room_map
<1>6. ASSUME NEW b \in RoomBucket, NEW i \in DOMAIN new[b]
      PROVE  /\ new[b][i].name \in names <=> RoomHash[new[b][i].name] = b
             /\ WellHashed(new[b][i].users)
             /\ new[b][i].name \in names =>
                  \A j \in DOMAIN new[b] : new[b][j].name = new[b][i].name => j = i
             /\ IF new[b][i].name = n THEN new[b][i].users = map
                                      ELSE new[b][i] \in AllRooms(rooms)
  <2>1. /\ \A k \in DOMAIN rooms[b] :
             /\ rooms[b][k].name \in names <=> RoomHash[rooms[b][k].name] = b
             /\ WellHashed(rooms[b][k].users)
             /\ rooms[b][k] \in AllRooms(rooms)
        /\ \A k, m \in DOMAIN rooms[b] :
             rooms[b][k].name \in names /\ rooms[b][k].name = rooms[b][m].name => k = m
    BY AllRoomsOf DEF WellKept, room_map
  <2>2. CASE b # h
    BY <1>3, <1>6, <2>1, <2>2
  <2>3. CASE b = h
    <3>1. \A k \in DOMAIN new[b] : new[b][k].name = rooms[b][k].name
      BY <1>1, <1>2, <1>4, <2>3
    <3>2. CASE i = p
      BY <1>1, <1>2, <1>4, <1>6, <2>1, <2>3, <3>1, <3>2
    <3>3. CASE i # p
      BY <1>1, <1>2, <1>4, <1>6, <2>1, <2>3, <3>1, <3>3
    <3>4. QED
      BY <3>2, <3>3
  <2>4. QED
    BY <2>2, <2>3
<1>7. WellKept(names, new)
  <2>1. DOMAIN new = RoomBucket
    BY <1>3
  <2>2. QED
    BY <1>6, <2>1 DEF WellKept
<1>8. \A r \in AllRooms(new) :
        IF r.name = n THEN r.users = map ELSE r \in AllRooms(rooms)
  BY <1>5, <1>6, AllRoomsOf
<1>9. QED
  BY <1>5, <1>7, <1>8 DEF new

\* Entering a room adds the user to that room only.
LEMMA AddUserInRoom ==
  ASSUME NEW rooms \in room_map,
         NEW names \in SUBSET RoomName, WellKept(names, rooms), NEW n \in names, NEW x \in user
  PROVE  /\ add_user_in_room(x, n, rooms) \in room_map
         /\ WellKept(names, add_user_in_room(x, n, rooms))
         /\ \A r \in AllRooms(add_user_in_room(x, n, rooms)), y \in user :
              y \in Users(r.users) =>
                \/ y = x
                \/ \E q \in AllRooms(rooms) : q.name = r.name /\ y \in Users(q.users)
<1> DEFINE map == RoomOf(n, rooms).users
<1>1. CASE ~ is_room_used(n, rooms)
  BY <1>1 DEF add_user_in_room
<1>2. CASE is_room_used(n, rooms)
  <2>1. /\ map \in user_map /\ WellHashed(map)
        /\ RoomOf(n, rooms) \in AllRooms(rooms) /\ RoomOf(n, rooms).name = n
    BY <1>2, FindRoom DEF room
  <2>2. /\ add_user(x, map) \in user_map /\ WellHashed(add_user(x, map))
        /\ Users(add_user(x, map)) \subseteq Users(map) \cup {x}
    BY <2>1, AddUser
  <2> DEFINE now == add_user(x, map)
           new == WithUsers(n, now, rooms)
  <2>3. add_user_in_room(x, n, rooms) = new
    BY <1>2 DEF add_user_in_room
  <2> HIDE DEF map, now
  <2>4. /\ new \in room_map /\ WellKept(names, new)
        /\ \A r \in AllRooms(new) :
             IF r.name = n THEN r.users = now ELSE r \in AllRooms(rooms)
    BY <1>2, <2>2, ReplaceUsers DEF now
  <2> HIDE DEF new
  <2>5. \A r \in AllRooms(new), y \in user :
          y \in Users(r.users) =>
            \/ y = x
            \/ \E q \in AllRooms(rooms) : q.name = r.name /\ y \in Users(q.users)
    BY <2>1, <2>2, <2>4 DEF map, now
  <2>6. QED
    BY <2>3, <2>4, <2>5
<1>3. QED
  BY <1>1, <1>2

\* Leaving a room takes the user out of it; nobody enters any room.
LEMMA RemoveUserFromRoom ==
  ASSUME NEW rooms \in room_map,
         NEW names \in SUBSET RoomName, WellKept(names, rooms), NEW n \in names, NEW x \in user
  PROVE  /\ remove_user_from_room(x, n, rooms) \in room_map
         /\ WellKept(names, remove_user_from_room(x, n, rooms))
         /\ \A r \in AllRooms(remove_user_from_room(x, n, rooms)), y \in user :
              y \in Users(r.users) =>
                /\ r.name = n => y # x
                /\ \E q \in AllRooms(rooms) : q.name = r.name /\ y \in Users(q.users)
<1> DEFINE map == RoomOf(n, rooms).users
<1>1. CASE ~ is_room_used(n, rooms)
  BY <1>1, RoomUsed DEF remove_user_from_room
<1>2. CASE is_room_used(n, rooms)
  <2>1. /\ map \in user_map /\ WellHashed(map)
        /\ RoomOf(n, rooms) \in AllRooms(rooms) /\ RoomOf(n, rooms).name = n
    BY <1>2, FindRoom DEF room
  <2>2. /\ remove_user(x, map) \in user_map /\ WellHashed(remove_user(x, map))
        /\ Users(remove_user(x, map)) \subseteq Users(map)
        /\ x \notin Users(remove_user(x, map))
    BY <2>1, RemoveUser
  <2> DEFINE now == remove_user(x, map)
           new == WithUsers(n, now, rooms)
  <2>3. remove_user_from_room(x, n, rooms) = new
    BY <1>2 DEF remove_user_from_room
  <2> HIDE DEF map, now
  <2>4. /\ new \in room_map /\ WellKept(names, new)
        /\ \A r \in AllRooms(new) :
             IF r.name = n THEN r.users = now ELSE r \in AllRooms(rooms)
    BY <1>2, <2>2, ReplaceUsers DEF now
  <2> HIDE DEF new
  <2>5. \A r \in AllRooms(new), y \in user :
          y \in Users(r.users) =>
            /\ r.name = n => y # x
            /\ \E q \in AllRooms(rooms) : q.name = r.name /\ y \in Users(q.users)
    BY <2>1, <2>2, <2>4 DEF map, now
  <2>6. QED
    BY <2>3, <2>4, <2>5
<1>3. QED
  BY <1>1, <1>2

\* The table of rooms starts empty.
LEMMA InitRooms ==
  /\ init_rooms \in room_map
  /\ \A names \in SUBSET RoomName : WellKept(names, init_rooms)
  /\ AllRooms(init_rooms) = {}
  BY DEF init_rooms, room_map, WellKept, AllRooms

----------------------------------------------------------------------------
(***************************************************************************)
(* What the operations return exactly.                                     *)
(***************************************************************************)

\* Two users of a well kept table have two logins.
LEMMA OneOfALogin ==
  ASSUME NEW map \in user_map, WellHashed(map),
         NEW x \in Users(map), NEW y \in Users(map), x.name = y.name
  PROVE  x = y
<1>1. PICK b \in UserBucket : \E i \in DOMAIN map[b] : map[b][i] = x
  BY UsersOf
<1>2. PICK i \in DOMAIN map[b] : map[b][i] = x
  BY <1>1
<1>3. PICK d \in UserBucket : \E j \in DOMAIN map[d] : map[d][j] = y
  BY UsersOf
<1>4. PICK j \in DOMAIN map[d] : map[d][j] = y
  BY <1>3
<1>5. b = d
  BY <1>2, <1>4 DEF WellHashed, user_map
<1>6. QED
  BY <1>2, <1>4, <1>5 DEF WellHashed, user_map

\* A user whose login is free is added, and the others stay.
LEMMA AddUserExactly ==
  ASSUME NEW map \in user_map, WellHashed(map), NEW x \in user, ~ is_login_used(x.name, map)
  PROVE  Users(add_user(x, map)) = Users(map) \cup {x}
<1> DEFINE h   == UserHash[x.name]
           new == [map EXCEPT ![h] = <<x>> \o @]
<1>1. h \in UserBucket /\ map[h] \in Seq(user)
  BY BucketOfLogin DEF user, user_map
<1>2. add_user(x, map) = new
  BY DEF add_user
<1>3. /\ new \in user_map /\ Users(new) \subseteq Users(map) \cup {x}
  BY <1>2, AddUser
<1>4. new[h] = <<x>> \o map[h] /\ \A b \in UserBucket : b # h => new[b] = map[b]
  BY <1>1 DEF user_map
<1> HIDE DEF new
<1>5. /\ 1 \in DOMAIN new[h] /\ new[h][1] = x
      /\ \A i \in DOMAIN map[h] : i + 1 \in DOMAIN new[h] /\ new[h][i + 1] = map[h][i]
  <2>1. ASSUME NEW s \in Seq(user), NEW t, t = <<x>> \o s
        PROVE  /\ 1 \in DOMAIN t /\ t[1] = x
               /\ \A i \in DOMAIN s : i + 1 \in DOMAIN t /\ t[i + 1] = s[i]
    BY <2>1
  <2>2. QED
    BY <1>1, <1>4, <2>1
<1>6. x \in Users(new)
  BY <1>1, <1>3, <1>5, UsersOf
<1>7. ASSUME NEW y \in Users(map)
      PROVE  y \in Users(new)
  <2>1. PICK b \in UserBucket : \E i \in DOMAIN map[b] : map[b][i] = y
    BY UsersOf
  <2>2. PICK i \in DOMAIN map[b] : map[b][i] = y
    BY <2>1
  <2>3. \E k \in DOMAIN new[b] : new[b][k] = y
    BY <1>4, <1>5, <2>2
  <2>4. QED
    BY <1>3, <2>3, UsersOf
<1>8. QED
  BY <1>2, <1>3, <1>6, <1>7

\* Where no two logins share a bucket, remove_user takes out its user only.
LEMMA RemoveUserExactly ==
  ASSUME NEW map \in user_map, WellHashed(map), NEW x \in user,
         \A k, l \in Login : UserHash[k] = UserHash[l] => k = l
  PROVE  Users(remove_user(x, map)) = {y \in Users(map) : y.name # x.name}
<1> DEFINE h   == UserHash[x.name]
           new == remove_user(x, map)
<1>1. /\ x.name \in Login /\ h \in UserBucket
      /\ Users(map) \subseteq user /\ \A y \in Users(map) : y.name \in Login
  BY BucketOfLogin, UsersOf DEF user
<1>2. new \in user_map /\ Users(new) \subseteq Users(map)
  BY RemoveUser
<1>3. CASE ~ is_login_used(x.name, map)
  BY <1>1, <1>3, LoginUsed DEF remove_user
<1>4. CASE is_login_used(x.name, map)
  <2>1. new[h] = <<>> /\ \A b \in UserBucket : b # h => new[b] = map[b]
    BY <1>1, <1>4 DEF remove_user, user_map
  <2> HIDE DEF new
  <2>2. ASSUME NEW y \in Users(map)
        PROVE  y \in Users(new) <=> y.name # x.name
    <3>1. PICK b \in UserBucket : \E i \in DOMAIN map[b] : map[b][i] = y
      BY UsersOf
    <3>2. PICK i \in DOMAIN map[b] : map[b][i] = y
      BY <3>1
    <3>3. UserHash[y.name] = b
      BY <3>2 DEF WellHashed, user_map
    <3>4. CASE y.name # x.name
      <4>1. b # h
        BY <1>1, <3>3, <3>4
      <4>2. QED
        BY <1>2, <2>1, <3>2, <3>4, <4>1, UsersOf
    <3>5. CASE y.name = x.name
      <4>1. ASSUME y \in Users(new) PROVE FALSE
        <5>1. PICK d \in UserBucket : \E j \in DOMAIN new[d] : new[d][j] = y
          BY <1>2, <4>1, UsersOf
        <5>2. PICK j \in DOMAIN new[d] : new[d][j] = y
          BY <5>1
        <5>3. d # h
          BY <2>1, <5>2
        <5>4. UserHash[y.name] = d
          BY <2>1, <5>2, <5>3 DEF WellHashed, user_map
        <5>5. QED
          BY <3>5, <5>3, <5>4
      <4>2. QED
        BY <3>5, <4>1
    <3>6. QED
      BY <3>4, <3>5
  <2>3. QED
    BY <1>2, <2>2 DEF new
<1>5. QED
  BY <1>3, <1>4

\* What a lookup by name says of a room that a walk meets.
LEMMA RoomIs ==
  ASSUME NEW rooms \in room_map,
         NEW names \in SUBSET RoomName, WellKept(names, rooms),
         NEW r \in AllRooms(rooms), r.name \in names
  PROVE  /\ is_room_used(r.name, rooms)
         /\ get_admin(r.name, rooms) = r.admin
         /\ get_users(r.name, rooms) = Users(r.users)
<1>1. is_room_used(r.name, rooms)
  BY RoomUsed
<1>2. RoomOf(r.name, rooms) = r
  BY <1>1, FindRoom
<1>3. QED
  BY <1>1, <1>2 DEF get_admin, get_users

\* Two tables that hold the same room of a name answer alike about it.
LEMMA SameRoom ==
  ASSUME NEW old \in room_map, NEW new \in room_map,
         NEW names \in SUBSET RoomName, WellKept(names, old), WellKept(names, new),
         NEW n \in names,
         \A r : r.name = n => (r \in AllRooms(old) <=> r \in AllRooms(new))
  PROVE  /\ is_room_used(n, new) <=> is_room_used(n, old)
         /\ get_admin(n, new) = get_admin(n, old)
         /\ get_users(n, new) = get_users(n, old)
<1>1. CASE is_room_used(n, old)
  <2>1. PICK r \in AllRooms(old) : r.name = n
    BY <1>1, RoomUsed
  <2>2. r \in AllRooms(new)
    BY <2>1
  <2>3. QED
    BY <2>1, <2>2, RoomIs
<1>2. CASE ~ is_room_used(n, old)
  <2>1. ~ is_room_used(n, new)
    <3>1. ASSUME is_room_used(n, new) PROVE FALSE
      BY <1>2, <3>1, RoomUsed
    <3>2. QED
      BY <3>1
  <2>2. QED
    BY <1>2, <2>1 DEF get_admin, get_users
<1>3. QED
  BY <1>1, <1>2

\* A room that is added is there with its creator alone; the others are as
\* they were.
LEMMA AddRoomExactly ==
  ASSUME NEW rooms \in room_map,
         NEW names \in SUBSET RoomName, WellKept(names, rooms), NEW n \in names,
         NEW admin \in user \cup {NULL}, ~ is_room_used(n, rooms), NULL \notin user,
         NEW new, new = add_room(n, admin, rooms)
  PROVE  /\ is_room_used(n, new) /\ get_admin(n, new) = admin
         /\ get_users(n, new) = {admin} \ {NULL}
         /\ \A m \in names \ {n} :
              /\ is_room_used(m, new) <=> is_room_used(m, rooms)
              /\ get_admin(m, new) = get_admin(m, rooms)
              /\ get_users(m, new) = get_users(m, rooms)
<1> DEFINE h     == RoomHash[n]
           users == IF admin = NULL THEN create_user_map ELSE add_user(admin, create_user_map)
           x     == [name |-> n, admin |-> admin, users |-> users]
<1>1. h \in RoomBucket /\ rooms[h] \in Seq(room)
  BY BucketOfName DEF room_map
<1>2. users \in user_map /\ Users(users) = {admin} \ {NULL}
  <2>1. CASE admin = NULL
    BY <2>1, CreateUserMap
  <2>2. CASE admin # NULL
    <3>1. admin \in user /\ admin.name \in Login
      BY <2>2 DEF user
    <3>2. ~ is_login_used(admin.name, create_user_map)
      BY <3>1, CreateUserMap, LoginUsed
    <3>3. QED
      BY <2>2, <3>1, <3>2, CreateUserMap, AddUser, AddUserExactly
  <2>3. QED
    BY <2>1, <2>2
<1>3. new \in room_map /\ WellKept(names, new)
  BY AddRoom
<1>4. new = [rooms EXCEPT ![h] = <<x>> \o @]
  BY DEF add_room
<1>5. new[h] = <<x>> \o rooms[h] /\ \A b \in RoomBucket : b # h => new[b] = rooms[b]
  BY <1>1, <1>4 DEF room_map
<1>6. x \in room /\ x.name = n /\ x.admin = admin /\ x.users = users
  BY <1>2 DEF room
<1> HIDE DEF x, users
<1>7. /\ 1 \in DOMAIN new[h] /\ new[h][1] = x
      /\ \A i \in DOMAIN rooms[h] : i + 1 \in DOMAIN new[h] /\ new[h][i + 1] = rooms[h][i]
      /\ \A i \in DOMAIN new[h] : i # 1 => i - 1 \in DOMAIN rooms[h] /\ new[h][i] = rooms[h][i - 1]
  <2>1. ASSUME NEW s \in Seq(room), NEW t, t = <<x>> \o s
        PROVE  /\ 1 \in DOMAIN t /\ t[1] = x
               /\ \A i \in DOMAIN s : i + 1 \in DOMAIN t /\ t[i + 1] = s[i]
               /\ \A i \in DOMAIN t : i # 1 => i - 1 \in DOMAIN s /\ t[i] = s[i - 1]
    BY <1>6, <2>1
  <2>2. QED
    BY <1>1, <1>5, <2>1
<1>8. x \in AllRooms(new)
  BY <1>1, <1>3, <1>7, AllRoomsOf
<1>9. ASSUME NEW r, r.name # n
      PROVE  r \in AllRooms(rooms) <=> r \in AllRooms(new)
  <2>1. ASSUME r \in AllRooms(rooms) PROVE r \in AllRooms(new)
    <3>1. PICK b \in RoomBucket : \E i \in DOMAIN rooms[b] : rooms[b][i] = r
      BY <2>1, AllRoomsOf
    <3>2. PICK i \in DOMAIN rooms[b] : rooms[b][i] = r
      BY <3>1
    <3>3. \E k \in DOMAIN new[b] : new[b][k] = r
      <4>1. CASE b = h
        BY <1>7, <3>2, <4>1
      <4>2. CASE b # h
        BY <1>5, <3>2, <4>2
      <4>3. QED
        BY <4>1, <4>2
    <3>4. QED
      BY <1>3, <3>3, AllRoomsOf
  <2>2. ASSUME r \in AllRooms(new) PROVE r \in AllRooms(rooms)
    <3>1. PICK b \in RoomBucket : \E i \in DOMAIN new[b] : new[b][i] = r
      BY <1>3, <2>2, AllRoomsOf
    <3>2. PICK i \in DOMAIN new[b] : new[b][i] = r
      BY <3>1
    <3>3. \E k \in DOMAIN rooms[b] : rooms[b][k] = r
      <4>1. CASE b = h
        <5>1. i # 1
          BY <1>6, <1>7, <1>9, <3>2, <4>1
        <5>2. i - 1 \in DOMAIN rooms[b] /\ rooms[b][i - 1] = r
          BY <1>7, <3>2, <4>1, <5>1
        <5>3. QED
          BY <5>2
      <4>2. CASE b # h
        BY <1>5, <3>2, <4>2
      <4>3. QED
        BY <4>1, <4>2
    <3>4. QED
      BY <3>3, AllRoomsOf
  <2>3. QED
    BY <2>1, <2>2
<1>10. ASSUME NEW m \in names \ {n}
       PROVE  /\ is_room_used(m, new) <=> is_room_used(m, rooms)
              /\ get_admin(m, new) = get_admin(m, rooms)
              /\ get_users(m, new) = get_users(m, rooms)
  <2>1. \A r : r.name = m => (r \in AllRooms(rooms) <=> r \in AllRooms(new))
    BY <1>9
  <2>2. QED
    BY <1>3, <2>1, SameRoom
<1>11. QED
  BY <1>2, <1>3, <1>6, <1>8, <1>10, RoomIs

\* Where no two names share a bucket, remove_room takes out its room only.
LEMMA RemoveRoomExactly ==
  ASSUME NEW rooms \in room_map,
         NEW names \in SUBSET RoomName, WellKept(names, rooms), NEW n \in names,
         \A q, r \in RoomName : RoomHash[q] = RoomHash[r] => q = r,
         NEW new, new = remove_room(n, rooms)
  PROVE  /\ ~ is_room_used(n, new) /\ get_admin(n, new) = NULL /\ get_users(n, new) = {}
         /\ \A m \in names \ {n} :
              /\ is_room_used(m, new) <=> is_room_used(m, rooms)
              /\ get_admin(m, new) = get_admin(m, rooms)
              /\ get_users(m, new) = get_users(m, rooms)
<1>1. /\ new \in room_map /\ WellKept(names, new) /\ AllRooms(new) \subseteq AllRooms(rooms)
      /\ \A r \in AllRooms(new) : r.name # n
  BY RemoveRoom
<1>2. ~ is_room_used(n, new)
  BY <1>1, RoomUsed
<1>3. ASSUME NEW r \in AllRooms(rooms), r.name \in names, r.name # n
      PROVE  r \in AllRooms(new)
  <2>1. PICK b \in RoomBucket : \E i \in DOMAIN rooms[b] : rooms[b][i] = r
    BY AllRoomsOf
  <2>2. PICK i \in DOMAIN rooms[b] : rooms[b][i] = r
    BY <2>1
  <2>3. r.name \in RoomName /\ RoomHash[r.name] = b
    <3>1. r.name \in RoomName
      BY AllRoomsOf DEF room
    <3>2. RoomHash[r.name] = b
      BY <1>3, <2>2 DEF WellKept, room_map
    <3>3. QED
      BY <3>1, <3>2
  <2>4. RoomHash[n] # b
    BY <1>3, <2>3
  <2>5. new[b] = rooms[b]
    BY <2>4 DEF remove_room, room_map
  <2>6. QED
    BY <1>1, <2>2, <2>5, AllRoomsOf
<1>4. ASSUME NEW m \in names \ {n}
      PROVE  /\ is_room_used(m, new) <=> is_room_used(m, rooms)
             /\ get_admin(m, new) = get_admin(m, rooms)
             /\ get_users(m, new) = get_users(m, rooms)
  <2>1. \A r : r.name = m => (r \in AllRooms(rooms) <=> r \in AllRooms(new))
    BY <1>1, <1>3
  <2>2. QED
    BY <1>1, <2>1, SameRoom
<1>5. QED
  BY <1>2, <1>4 DEF get_admin, get_users

\* Replacing the users of a room leaves its admin, and every other room.
LEMMA ReplaceUsersExactly ==
  ASSUME NEW rooms \in room_map,
         NEW names \in SUBSET RoomName, WellKept(names, rooms), NEW n \in names,
         is_room_used(n, rooms), NEW map \in user_map, WellHashed(map),
         NEW new, new = WithUsers(n, map, rooms)
  PROVE  /\ is_room_used(n, new) /\ get_admin(n, new) = get_admin(n, rooms)
         /\ get_users(n, new) = Users(map)
         /\ \A m \in names \ {n} :
              /\ is_room_used(m, new) <=> is_room_used(m, rooms)
              /\ get_admin(m, new) = get_admin(m, rooms)
              /\ get_users(m, new) = get_users(m, rooms)
<1> DEFINE h   == RoomHash[n]
           p   == Position(n, rooms)
           x   == [rooms[h][p] EXCEPT !.users = map]
<1>1. /\ h \in RoomBucket /\ rooms[h] \in Seq(room)
      /\ p \in DOMAIN rooms[h] /\ rooms[h][p] \in room /\ rooms[h][p].name = n
      /\ rooms[h][p] \in AllRooms(rooms)
  BY BucketOfName, FindRoom DEF RoomChain, RoomOf, room_map
<1>2. /\ new \in room_map /\ WellKept(names, new)
      /\ \A r \in AllRooms(new) : IF r.name = n THEN r.users = map ELSE r \in AllRooms(rooms)
  BY ReplaceUsers
<1>3. x.name = n /\ x.users = map /\ x.admin = rooms[h][p].admin
  BY <1>1 DEF room
<1>4. /\ new[h] = [rooms[h] EXCEPT ![p] = x]
      /\ \A b \in RoomBucket : b # h => new[b] = rooms[b]
  BY <1>1 DEF WithUsers, room_map
<1> HIDE DEF x, p
<1>5. /\ DOMAIN new[h] = DOMAIN rooms[h] /\ new[h][p] = x
      /\ \A i \in DOMAIN rooms[h] : i # p => new[h][i] = rooms[h][i]
  BY <1>1, <1>4
<1>6. x \in AllRooms(new)
  BY <1>1, <1>2, <1>5, AllRoomsOf
<1>7. ASSUME NEW r \in AllRooms(rooms), r.name # n
      PROVE  r \in AllRooms(new)
  <2>1. PICK b \in RoomBucket : \E i \in DOMAIN rooms[b] : rooms[b][i] = r
    BY AllRoomsOf
  <2>2. PICK i \in DOMAIN rooms[b] : rooms[b][i] = r
    BY <2>1
  <2>3. i \in DOMAIN new[b] /\ new[b][i] = r
    BY <1>1, <1>4, <1>5, <1>7, <2>2
  <2>4. QED
    BY <1>2, <2>3, AllRoomsOf
<1>8. ASSUME NEW m \in names \ {n}
      PROVE  /\ is_room_used(m, new) <=> is_room_used(m, rooms)
             /\ get_admin(m, new) = get_admin(m, rooms)
             /\ get_users(m, new) = get_users(m, rooms)
  <2>1. \A r : r.name = m => (r \in AllRooms(rooms) <=> r \in AllRooms(new))
    BY <1>2, <1>7
  <2>2. QED
    BY <1>2, <2>1, SameRoom
<1>9. QED
  BY <1>1, <1>2, <1>3, <1>6, <1>8, RoomIs

\* Who enters a room is in it from then on, next to those who were.
LEMMA EnterExactly ==
  ASSUME NEW rooms \in room_map,
         NEW names \in SUBSET RoomName, WellKept(names, rooms), NEW n \in names,
         is_room_used(n, rooms), NEW x \in user,
         \A y \in get_users(n, rooms) : y.name = x.name => y = x,
         NEW new, new = add_user_in_room(x, n, rooms)
  PROVE  /\ is_room_used(n, new) /\ get_admin(n, new) = get_admin(n, rooms)
         /\ get_users(n, new) = get_users(n, rooms) \cup {x}
         /\ \A m \in names \ {n} :
              /\ is_room_used(m, new) <=> is_room_used(m, rooms)
              /\ get_admin(m, new) = get_admin(m, rooms)
              /\ get_users(m, new) = get_users(m, rooms)
<1> DEFINE map == RoomOf(n, rooms).users
<1>1. map \in user_map /\ WellHashed(map) /\ get_users(n, rooms) = Users(map)
  BY FindRoom DEF room, get_users
<1>2. new = WithUsers(n, add_user(x, map), rooms)
  BY DEF add_user_in_room
<1>3. add_user(x, map) \in user_map /\ WellHashed(add_user(x, map))
  BY <1>1, AddUser
<1>4. Users(add_user(x, map)) = Users(map) \cup {x}
  <2>1. CASE is_login_used(x.name, map)
    <3>1. \E y \in Users(map) : y.name = x.name
      BY <1>1, <2>1, LoginUsed DEF user
    <3>2. x \in Users(map)
      BY <1>1, <3>1
    <3>3. QED
      BY <2>1, <3>2 DEF add_user
  <2>2. CASE ~ is_login_used(x.name, map)
    BY <1>1, <2>2, AddUserExactly
  <2>3. QED
    BY <2>1, <2>2
<1> HIDE DEF map
<1>5. QED
  BY <1>1, <1>2, <1>3, <1>4, ReplaceUsersExactly

\* Where no two logins share a bucket, who leaves a room leaves it alone.
LEMMA LeaveExactly ==
  ASSUME NEW rooms \in room_map,
         NEW names \in SUBSET RoomName, WellKept(names, rooms), NEW n \in names,
         is_room_used(n, rooms), NEW x \in user,
         \A k, l \in Login : UserHash[k] = UserHash[l] => k = l,
         \A y \in get_users(n, rooms) : y.name = x.name => y = x,
         NEW new, new = remove_user_from_room(x, n, rooms)
  PROVE  /\ is_room_used(n, new) /\ get_admin(n, new) = get_admin(n, rooms)
         /\ get_users(n, new) = get_users(n, rooms) \ {x}
         /\ \A m \in names \ {n} :
              /\ is_room_used(m, new) <=> is_room_used(m, rooms)
              /\ get_admin(m, new) = get_admin(m, rooms)
              /\ get_users(m, new) = get_users(m, rooms)
<1> DEFINE map == RoomOf(n, rooms).users
<1>1. map \in user_map /\ WellHashed(map) /\ get_users(n, rooms) = Users(map)
  BY FindRoom DEF room, get_users
<1>2. new = WithUsers(n, remove_user(x, map), rooms)
  BY DEF remove_user_from_room
<1>3. remove_user(x, map) \in user_map /\ WellHashed(remove_user(x, map))
  BY <1>1, RemoveUser
<1>4. Users(remove_user(x, map)) = {y \in Users(map) : y.name # x.name}
  BY <1>1, RemoveUserExactly
<1>5. Users(remove_user(x, map)) = Users(map) \ {x}
  BY <1>1, <1>4
<1> HIDE DEF map
<1>6. QED
  BY <1>1, <1>2, <1>3, <1>5, ReplaceUsersExactly
=============================================================================
